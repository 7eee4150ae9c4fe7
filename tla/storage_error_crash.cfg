\* A file-system error while a start request waits.
CONSTANTS
  s1 = s1
  s2 = s2
  u1 = u1
  u2 = u2
  u3 = u3
  Sids <- OneSid
  Uids <- TwoUids
  NoUid = NoUid
  Faults = {"fs"}
  MaxEvents = 2
  NodeVersions = {"8", "11"}
SPECIFICATION Spec
INVARIANT
  StorageErrorAnswered
\* A process that is down does nothing more.
CHECK_DEADLOCK FALSE
