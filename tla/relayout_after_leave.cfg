\* Users who come and go, on the later version of Node, which loses none of them.
CONSTANTS
  s1 = s1
  s2 = s2
  u1 = u1
  u2 = u2
  u3 = u3
  Sids <- OneSid
  Uids <- TwoUids
  NoUid = NoUid
  Faults = {}
  MaxEvents = 4
  NodeVersions = {"11"}
SPECIFICATION Spec
INVARIANT
  LaidOutInOrder
\* A process that is down does nothing more.
CHECK_DEADLOCK FALSE
