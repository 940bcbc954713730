\* Two jobs, the faults that the retries are there for.
CONSTANTS
  NoJob = NoJob
  j1 = j1
  j2 = j2
  p1 = p1
  p2 = p2
  q1 = q1
  s1 = s1
  s2 = s2
  s3 = s3
  Jobs = {j1, j2}
  Faults = {"s3", "s3delete", "relay", "client", "expiry"}
  MaxFaults = 1
  MaxRetries = 1
  Pollers = {q1}
  Slots = {s1, s2}
  Pods = {p1}
  PodOf <- OnePod
  PriorityJobs = {}
  Callbacks = {}
  WebhookMaxRetries = 1

SPECIFICATION Spec
CHECK_DEADLOCK FALSE
INVARIANTS
  AckedHasEvent
  CommittedIsStored
  PendingHasWork
