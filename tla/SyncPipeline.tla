---------------------------- MODULE SyncPipeline ----------------------------
(***************************************************************************)
(* The synchronous path end to end: the gateway's sync handler and result  *)
(* consumer and the relay's priority endpoint, over the shared Redis, S3   *)
(* and Kafka.  Synchronous jobs have no callback_url.  GET /jobs lists     *)
(* them with the others of their consumer, so GetStatus may poll one.      *)
(***************************************************************************)
EXTENDS SyncJobs, JobsApi, Relay, ResultConsumer, Functions

ASSUME SyncPipelineAssumption ==
  /\ PriorityJobs = Jobs
  /\ Callbacks = {}

syncVars == <<platformVars, apiVars, relayVars, loopVars, channel, sync>>

SyncPipelineTypeOK ==
  /\ PlatformTypeOK
  /\ ApiTypeOK
  /\ RelayTypeOK
  /\ ConsumerTypeOK
  /\ SyncTypeOK

SyncPipelineInit ==
  /\ PlatformInit
  /\ ApiInit
  /\ RelayInit
  /\ ConsumerInit
  /\ SyncInit

SyncNext ==
  /\ \E j \in Jobs : SyncUpload(j) \/ GiveUp(j) \/ SyncHandlerStep(j)
  /\ UNCHANGED apiVars
  /\ UNCHANGED relayVars
  /\ UNCHANGED loopVars

(* The connection of a subscriber breaks, and comes back.                   *)
ConnectionNext ==
  /\ \E j \in Jobs : Disconnect(j) \/ Reconnect(j)
  /\ UNCHANGED <<record, inputs, results, delivery, retries, log>>
  /\ UNCHANGED apiVars
  /\ UNCHANGED relayVars
  /\ UNCHANGED loopVars
  /\ UNCHANGED sync

SyncPollNext ==
  /\ \/ \E p \in Pollers, j \in Jobs : PollRead(p, j)
     \/ \E p \in Pollers : PollStep(p)
  /\ UNCHANGED relayVars
  /\ UNCHANGED consumerVars
  /\ UNCHANGED sync

SyncRelayNext ==
  /\ \/ \E s \in Slots, j \in Jobs : ServeHTTPSync(s, j)
     \/ \E s \in Slots : SlotStep(s) \/ Timeout(s)
     \/ \E p \in Pods : ReapInput(p) \/ Evict(p)
  /\ UNCHANGED apiVars
  /\ UNCHANGED consumerVars
  /\ UNCHANGED sync

SyncConsumerNext ==
  /\ ConsumerStep
  /\ UNCHANGED apiVars
  /\ UNCHANGED relayVars
  /\ UNCHANGED sync

SyncGatewayRestart ==
  /\ Fault("gateway")
  /\ SyncCrash
  /\ ApiCrash
  /\ ConsumerRestart
  /\ UNCHANGED relayVars
  /\ UNCHANGED <<record, inputs, results, delivery, retries, log>>

SyncRecordExpires ==
  /\ \E j \in Jobs : Expire(j)
  /\ UNCHANGED apiVars
  /\ UNCHANGED relayVars
  /\ UNCHANGED consumerVars
  /\ UNCHANGED sync

SyncPipelineNext ==
  \/ SyncNext \/ ConnectionNext \/ SyncPollNext \/ SyncRelayNext
  \/ SyncConsumerNext \/ SyncGatewayRestart \/ SyncRecordExpires

SyncSpec == SyncPipelineInit /\ [][SyncPipelineNext]_syncVars

-----------------------------------------------------------------------------
(* "Retrieve the updated job BEFORE notifying sync waiters - this ensures   *)
(* the job record still exists in Redis when the sync handler wakes up and  *)
(* reads it" (consumer.go:184-185), and the result it then asks for is      *)
(* there (sync.go:358-363).                                                 *)
WokenFindsOutcome ==
  \A j \in Jobs :
    /\ sync[j] = "waiting" /\ channel[j] = "signal" => record[j] \in Outcome
    /\ sync[j] = "fetch" => j \in results

(* The relay stores the result before it announces it (relay.go:166-179),   *)
(* and only the cleanup behind an answer deletes one: GetStatus, or a sync  *)
(* handler that is past its FetchResult.                                    *)
SyncCompletedHasResult ==
  \A j \in Jobs :
    record[j] = "completed" /\ j \notin results =>
      answered[j] # "never" \/ sync[j] \in {"dropRecord", "done", "aborted"}

(* A record that the handler, a client or the TTL has removed never comes   *)
(* back (redis.go:192-206), so a late or repeated event of a request that   *)
(* was answered does not leave a job in the store.                          *)
SyncNoResurrection ==
  [][\A j \in Jobs :
       record[j] = "none" /\ record'[j] # "none" => sync[j] = "uploaded"]_syncVars

-----------------------------------------------------------------------------
(* Fairness: the handlers, the relay and the consumer keep running, and a   *)
(* subscriber reconnects.  Clients and faults owe nothing.                  *)

SyncServed(A) == A /\ UNCHANGED apiVars /\ UNCHANGED consumerVars /\ UNCHANGED sync

SyncFairness ==
  /\ \A j \in Jobs :
       /\ WF_syncVars(SyncHandlerStep(j) /\ UNCHANGED apiVars
                        /\ UNCHANGED relayVars /\ UNCHANGED loopVars)
       /\ SF_syncVars(SyncServed(\E s \in Slots : ServeHTTPSync(s, j)))
  /\ \A s \in Slots : WF_syncVars(SyncServed(SlotStep(s)))
  /\ \A p \in Pods : WF_syncVars(SyncServed(ReapInput(p)))
  /\ WF_syncVars(SyncConsumerNext)
  /\ WF_syncVars(ConnectionNext /\ NoFault)

SyncFairSpec == SyncSpec /\ SyncFairness

(* "Subscribe BEFORE publishing to Kafka - ensures we never miss the        *)
(* notification even if the relay processes the job before we start         *)
(* waiting" (sync.go:247-248): nobody waits for ever.                       *)
SyncAnswered == \A j \in Jobs : sync[j] = "waiting" ~> sync[j] # "waiting"

(* Once a synchronous job has been answered, with its result, a 422 or a    *)
(* 500 from S3, nothing of it stays behind in Redis or S3: "without the     *)
(* defer, the early returns left result.json and the Redis entry orphaned"  *)
(* (sync.go:335-350; the relay deletes the input).  The exception is a job  *)
(* that failed on a retry after a PutResult that stored the object and      *)
(* reported an error: its record has no result_ref to delete.               *)
SyncLeavesNothing ==
  \A j \in Jobs :
    sync[j] = "done" ~>
      [](/\ record[j] = "none"
         /\ j \notin inputs
         /\ j \in results => [job |-> j, status |-> "completed"] \notin Range(log))
=============================================================================
