------------------------- MODULE MCRecordingServer -------------------------
(***************************************************************************)
(* The instances of RecordingServer that TLC checks.                       *)
(***************************************************************************)
EXTENDS RecordingServer, TLC

CONSTANTS s1, s2, u1, u2, u3

OneSid == {s1}
TwoSids == {s1, s2}
OneUid == {u1}
TwoUids == {u1, u2}
ThreeUids == {u1, u2, u3}

\* Sessions are interchangeable, and so are users.
Symmetry == Permutations(Sids) \cup Permutations(Uids)
=============================================================================
