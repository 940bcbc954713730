\* Progress when nobody polls: two jobs share one slot, as many retries as faults.
CONSTANTS
  NoJob = NoJob
  j1 = j1
  j2 = j2
  p1 = p1
  p2 = p2
  s1 = s1
  s2 = s2
  s3 = s3
  Jobs = {j1, j2}
  Faults = {"s3"}
  MaxFaults = 2
  MaxRetries = 2
  Pollers = {}
  Slots = {s1}
  Pods = {p1}
  PodOf <- OnePod
  PriorityJobs = {}
  Callbacks = {j1}
  WebhookMaxRetries = 1

SPECIFICATION FairSpec
CHECK_DEADLOCK FALSE
PROPERTIES
  AcceptedSettles
  CallbackAnnounced
  InputReclaimed
