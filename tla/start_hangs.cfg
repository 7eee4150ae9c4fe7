\* The engine is not created or refuses to join.
CONSTANTS
  s1 = s1
  s2 = s2
  u1 = u1
  u2 = u2
  u3 = u3
  Sids <- OneSid
  Uids <- TwoUids
  NoUid = NoUid
  Faults = {"create"}
  MaxEvents = 2
  NodeVersions = {"8", "11"}
SPECIFICATION FairSpec
PROPERTY
  StartAnswered
\* A process that is down does nothing more.
CHECK_DEADLOCK FALSE
