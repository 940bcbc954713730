\* A sync job and an asynchronous one on two pods, and the faults that do not make
\* the relay serve a message twice.
CONSTANTS
  NoJob = NoJob
  j1 = j1
  j2 = j2
  p1 = p1
  p2 = p2
  q1 = q1
  s1 = s1
  s2 = s2
  s3 = s3
  Jobs = {j1, j2}
  Faults = {"redis", "s3", "s3delete", "gateway", "webhook", "client", "expiry"}
  MaxFaults = 1
  MaxRetries = 1
  Pollers = {q1}
  Slots = {s1, s2, s3}
  Pods = {p1, p2}
  PodOf <- TwoPods
  PriorityJobs = {j2}
  Callbacks = {j1}
  WebhookMaxRetries = 1

SPECIFICATION Spec
CHECK_DEADLOCK FALSE
PROPERTIES
  ImplementsLifecycle
