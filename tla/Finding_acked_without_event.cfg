\* One failed publish of a result event.
CONSTANTS
  NoJob = NoJob
  j1 = j1
  p1 = p1
  p2 = p2
  s1 = s1
  s2 = s2
  s3 = s3
  Jobs = {j1}
  Faults = {"kafka"}
  MaxFaults = 1
  MaxRetries = 2
  Pollers = {}
  Slots = {s1}
  Pods = {p1}
  PodOf <- OnePod
  PriorityJobs = {}
  Callbacks = {}
  WebhookMaxRetries = 1

SPECIFICATION Spec
CHECK_DEADLOCK FALSE
INVARIANTS
  AckedHasEvent
