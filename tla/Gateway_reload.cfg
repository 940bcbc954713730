\* Three reloads, which may overlap, of three configurations, and a shutdown.
CONSTANTS
  r1 = r1
  r2 = r2
  r3 = r3
  Files <- OneTopicPerType
  FirstFiles <- WithAndWithoutBrokers
  Reloads = {r1, r2, r3}
  MaxWebhooks = 1

SPECIFICATION ManagerFairSpec
CHECK_DEADLOCK FALSE
INVARIANTS
  ManagerTypeOK
  RunningAreKnown
  ConsumersMatchRouter
  DrainedBeforeShutdown
PROPERTIES
  ShutdownEnds
  GroupsSettle
