\* Three jobs of one consumer, who goes through the list a job at a time.
CONSTANTS
  ann = ann
  NoConsumer = NoConsumer
  w1 = w1
  Jobs = {1, 2, 3}
  SyncJobs = {2}
  Consumers = {ann}
  Owner <- AnnsJobs
  Score <- TwoAtOnce
  Member <- ByNumber
  TTL = 2
  Clients = {w1}
  Requester <- AnnLists
  Limit = 1

SPECIFICATION FairSpec
CHECK_DEADLOCK FALSE
INVARIANTS
  ListingTypeOK
  PendingListed
  WalkCovers
PROPERTIES
  StaleForgotten
