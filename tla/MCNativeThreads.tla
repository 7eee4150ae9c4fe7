-------------------------- MODULE MCNativeThreads --------------------------
(***************************************************************************)
(* The instance of NativeThreads that TLC checks.                          *)
(***************************************************************************)
EXTENDS NativeThreads

CONSTANTS u1, u2

TwoUids == {u1, u2}
=============================================================================
