\* One sync request that another client polls, every kind of fault, two of them.
CONSTANTS
  NoJob = NoJob
  j1 = j1
  j2 = j2
  p1 = p1
  q1 = q1
  s1 = s1
  s2 = s2
  Jobs = {j1}
  Faults = {"redis", "s3", "s3delete", "kafka", "timeout", "relay", "gateway", "client", "expiry"}
  MaxFaults = 2
  MaxRetries = 2
  Pollers = {q1}
  Slots = {s1, s2}
  Pods = {p1}
  PodOf <- OnePod
  PriorityJobs = {j1}
  Callbacks = {}
  WebhookMaxRetries = 1

SPECIFICATION SyncSpec
CHECK_DEADLOCK FALSE
INVARIANTS
  SyncCompletedHasResult
  SyncPriorityCounts
