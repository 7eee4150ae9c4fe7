\* One session with users, engine errors and idle leaves, on both versions of Node.
CONSTANTS
  s1 = s1
  s2 = s2
  u1 = u1
  u2 = u2
  u3 = u3
  Sids <- OneSid
  Uids <- TwoUids
  NoUid = NoUid
  Faults = {"error", "leave"}
  MaxEvents = 4
  NodeVersions = {"8", "11"}
SPECIFICATION FairSpec
INVARIANTS
  TypeOK
  OneRegionPerUser
  EveryUserShown
  EngineMixesLayout
PROPERTIES
  StartAnswered
  JoinedUserShown
  ErrorReleasesEngine
\* A process that is down does nothing more.
CHECK_DEADLOCK FALSE
