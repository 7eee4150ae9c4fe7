---------------------------- MODULE MCAsyncQueue ----------------------------
(***************************************************************************)
(* The instance of AsyncQueue that TLC checks.                             *)
(***************************************************************************)
EXTENDS AsyncQueue

CONSTANTS p1, p2

TwoProducers == {p1, p2}

=============================================================================
