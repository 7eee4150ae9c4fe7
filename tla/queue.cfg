\* Two engine threads; no limit and a capacity below the number of tasks.
CONSTANTS
  p1 = p1
  p2 = p2
  Producers <- TwoProducers
  MaxCalls = 2
  Capacities = {0, 1, 2}
SPECIFICATION FairSpec
INVARIANTS
  TypeOK
  NoLostWakeup
  Accounted
  InOrder
PROPERTIES
  GrowthBounded
  ChannelSpec
  DrainsAfterClose
\* The producers stop after MaxCalls tasks.
CHECK_DEADLOCK FALSE
