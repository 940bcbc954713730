\* One job, two clients polling it, no S3 error and no client that leaves; and what
\* holds whatever goes wrong.
CONSTANTS
  NoJob = NoJob
  j1 = j1
  p1 = p1
  p2 = p2
  q1 = q1
  q2 = q2
  s1 = s1
  s2 = s2
  s3 = s3
  Jobs = {j1}
  Faults = {"redis", "s3delete", "kafka", "timeout", "relay", "gateway"}
  MaxFaults = 2
  MaxRetries = 2
  Pollers = {q1, q2}
  Slots = {s1, s2}
  Pods = {p1}
  PodOf <- OnePod
  PriorityJobs = {}
  Callbacks = {j1}
  WebhookMaxRetries = 1

SPECIFICATION Spec
CHECK_DEADLOCK FALSE
SYMMETRY PollerSlotSymmetry
INVARIANTS
  TypeOK
  Inv
  CompletedHasResult
  InputKeptUntilOutcome
  NoResultLost
  WebhookCarriesResult
  LastCommitIsStored
PROPERTIES
  NoResurrection
