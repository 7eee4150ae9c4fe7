\* Is every user who is in the channel laid out on the versions the README allows?
CONSTANTS
  s1 = s1
  s2 = s2
  u1 = u1
  u2 = u2
  u3 = u3
  Sids <- OneSid
  Uids <- TwoUids
  NoUid = NoUid
  Faults = {}
  MaxEvents = 3
  NodeVersions = {"8", "11"}
SPECIFICATION Spec
INVARIANT
  NewUserLaidOut
\* A process that is down does nothing more.
CHECK_DEADLOCK FALSE
