\* Two sessions, every failure, on both versions of Node.
CONSTANTS
  s1 = s1
  s2 = s2
  u1 = u1
  u2 = u2
  u3 = u3
  Sids <- TwoSids
  Uids <- OneUid
  NoUid = NoUid
  Faults = {"fs", "create", "error", "leave", "request"}
  MaxEvents = 3
  NodeVersions = {"8", "11"}
SPECIFICATION Spec
SYMMETRY Symmetry
INVARIANTS
  NoOrphanEngine
  StoppedEngineIsReported
  StopIsFinal
  Bookkeeping
  CrashExplained
PROPERTY
  LifecycleSpec
\* A process that is down does nothing more.
CHECK_DEADLOCK FALSE
