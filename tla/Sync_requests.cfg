\* Two sync requests sharing a slot, S3 errors and clients that leave.
CONSTANTS
  NoJob = NoJob
  j1 = j1
  j2 = j2
  p1 = p1
  q1 = q1
  s1 = s1
  s2 = s2
  Jobs = {j1, j2}
  Faults = {"s3", "client"}
  MaxFaults = 2
  MaxRetries = 2
  Pollers = {}
  Slots = {s1}
  Pods = {p1}
  PodOf <- OnePod
  PriorityJobs = {j1, j2}
  Callbacks = {}
  WebhookMaxRetries = 1

SPECIFICATION SyncFairSpec
CHECK_DEADLOCK FALSE
INVARIANTS
  WokenFindsOutcome
PROPERTIES
  SyncAnswered
  SyncLeavesNothing
