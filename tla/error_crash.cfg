\* An engine error while a start request waits, or after a stop.
CONSTANTS
  s1 = s1
  s2 = s2
  u1 = u1
  u2 = u2
  u3 = u3
  Sids <- OneSid
  Uids <- TwoUids
  NoUid = NoUid
  Faults = {"error"}
  MaxEvents = 2
  NodeVersions = {"8", "11"}
SPECIFICATION Spec
INVARIANT
  EngineErrorHarmless
\* A process that is down does nothing more.
CHECK_DEADLOCK FALSE
