------------------------- MODULE RecordingLifecycle -------------------------
(***************************************************************************)
(* What the restful server promises its clients about one recording,       *)
(* whatever happens inside: a session id is requested, becomes available   *)
(* when the start request is answered, records, and ends for good.  An     *)
(* ended session never comes back, and no session moves once the server    *)
(* process is down.                                                        *)
(***************************************************************************)
CONSTANT Sids          \* the session ids handed out by RecordManager.start

VARIABLES
  life,                \* where each session is in its life
  serving              \* whether the server process is running

vars == <<life, serving>>

Phases == {"new", "starting", "recording", "ended"}

TypeOK ==
  /\ life \in [Sids -> Phases]
  /\ serving \in BOOLEAN

Init ==
  /\ life = [s \in Sids |-> "new"]
  /\ serving = TRUE

Move(s, from, to) ==
  /\ serving
  /\ life[s] = from
  /\ life' = [life EXCEPT ![s] = to]
  /\ UNCHANGED serving

\* A client posts a start request.
Request(s) == Move(s, "new", "starting")

\* The start request is answered with the session id.
Answer(s) == Move(s, "starting", "recording")

\* The session ends: it is stopped, or its engine reported an error.
End(s) == Move(s, "recording", "ended")

\* The process dies; every session is lost with it.
Crash ==
  /\ serving
  /\ serving' = FALSE
  /\ UNCHANGED life

Next ==
  \/ \E s \in Sids : Request(s) \/ Answer(s) \/ End(s)
  \/ Crash

Spec == Init /\ [][Next]_vars
=============================================================================
