------------------------------ MODULE SyncJobs ------------------------------
(***************************************************************************)
(* Synchronous requests over Kafka: handleMultipartViaKafka of             *)
(* internal/handler/sync.go, which submits a job, waits for its signal on  *)
(* the Redis channel, and answers with the result.                         *)
(*                                                                         *)
(* One handler per job, from the point where the request has passed its    *)
(* checks, together with the goroutine that cleans up after it.  A call    *)
(* made with the request's context also fails when the client has left.    *)
(* The newline written every 20 s keeps proxies from closing the           *)
(* connection and touches nothing that is modelled.                        *)
(***************************************************************************)
EXTENDS PubSub

VARIABLE
  sync         (* progress of the handler of each job                       *)

SyncPc ==
  { "new", "uploaded", "saved", "subscribed", "waiting",
    "fetch",                           (* woken: the job is completed       *)
    "dropResult", "dropRecord",        (* answered, the goroutine cleans up *)
    "done",                            (* answered and cleaned up           *)
    "discardInput", "discardRecord",   (* refused, the goroutine cleans up  *)
    "rejected", "left", "aborted" }

SyncTypeOK ==
  /\ ChannelTypeOK
  /\ sync \in [Jobs -> SyncPc]

SyncInit ==
  /\ ChannelInit
  /\ sync = [j \in Jobs |-> "new"]

SyncAt(j, from, to) ==
  /\ sync[j] = from
  /\ sync' = [sync EXCEPT ![j] = to]

-----------------------------------------------------------------------------
(* The job is submitted as Submit does it, except that the handler          *)
(* subscribes first and that it cleans up after a failed publish.           *)

SyncUpload(j) ==
  /\ \/ /\ SyncAt(j, "new", "uploaded")
        /\ StoreInput(j)
        /\ NoFault
     \/ /\ SyncAt(j, "new", "rejected")
        /\ StoreInput(j) \/ UNCHANGED inputs
        /\ CallFailsOrClientLeft("s3")
  /\ UNCHANGED channel
  /\ UNCHANGED <<record, results, delivery, retries, log>>

SyncSave(j) ==
  /\ \/ /\ SyncAt(j, "uploaded", "saved")
        /\ SaveJob(j)
        /\ NoFault
     \/ /\ SyncAt(j, "uploaded", "rejected")
        /\ SaveJob(j) \/ UNCHANGED record
        /\ CallFailsOrClientLeft("redis")
  /\ UNCHANGED channel
  /\ UNCHANGED <<inputs, results, delivery, retries, log>>

SyncSubscribe(j) ==
  /\ SyncAt(j, "saved", "subscribed")
  /\ SubscribeJobDone(j)
  /\ UNCHANGED <<record, inputs, results, delivery, retries, log>>

SyncPublish(j) ==
  /\ \/ /\ SyncAt(j, "subscribed", "waiting")
        /\ PublishInputEvent(j)
        /\ UNCHANGED channel
        /\ NoFault
     \/ /\ SyncAt(j, "subscribed", "discardInput")
        /\ PublishInputEvent(j) \/ UNCHANGED delivery
        /\ Close(j)
        /\ CallFailsOrClientLeft("kafka")
  /\ UNCHANGED <<record, inputs, results, retries, log>>

DiscardSyncInput(j) ==
  /\ SyncAt(j, "discardInput", "discardRecord")
  /\ DeleteInput(j)
  /\ UNCHANGED channel
  /\ UNCHANGED <<record, results, delivery, retries, log>>

-----------------------------------------------------------------------------
(* The wait, and the answer                                                 *)

(* The request's context is done before a signal: 504, and nothing is       *)
(* cleaned up.                                                              *)
GiveUp(j) ==
  /\ SyncAt(j, "waiting", "left")
  /\ Close(j)
  /\ Fault("client")
  /\ UNCHANGED <<record, inputs, results, delivery, retries, log>>

(* Variant: the early return for a failed job skips the cleanup.            *)
GetOutcomeReturnsEarly(j) ==
  /\ channel[j] = "signal"
  /\ \/ /\ SyncAt(j, "waiting", "fetch")
        /\ record[j] = "completed"
        /\ UNCHANGED channel
     \/ /\ SyncAt(j, "waiting", "done")
        /\ record[j] = "failed"
        /\ Close(j)
  /\ UNCHANGED platformVars

(* A signal: GetJob.  A failed job is answered 422 at once and has no       *)
(* result to delete.  Without a record, or Redis, the answer is 500 and     *)
(* nothing is cleaned up.  A record that is still pending is not woken for. *)
GetOutcome(j) ==
  /\ channel[j] = "signal"
  /\ \/ /\ SyncAt(j, "waiting", "fetch")
        /\ record[j] = "completed"
        /\ UNCHANGED channel
        /\ NoFault
     \/ /\ SyncAt(j, "waiting", "dropRecord")
        /\ record[j] = "failed"
        /\ Close(j)
        /\ NoFault
     \/ /\ SyncAt(j, "waiting", "left")
        /\ record[j] = "none"
        /\ Close(j)
        /\ NoFault
     \/ /\ SyncAt(j, "waiting", "left")
        /\ Close(j)
        /\ CallFailsOrClientLeft("redis")
  /\ UNCHANGED <<record, inputs, results, delivery, retries, log>>

(* GetObject, and the answer: 200 with the result, or 500.  Either way the  *)
(* deferred goroutine starts.                                               *)
FetchResult(j) ==
  /\ SyncAt(j, "fetch", "dropResult")
  /\ Close(j)
  /\ NoFault \/ CallFailsOrClientLeft("s3")
  /\ UNCHANGED <<record, inputs, results, delivery, retries, log>>

DropSyncResult(j) ==
  /\ SyncAt(j, "dropResult", "dropRecord")
  /\ DeleteResult(j)
  /\ UNCHANGED channel
  /\ UNCHANGED <<record, inputs, delivery, retries, log>>

(* DeleteJob, the last call of either goroutine.                            *)
DropSyncRecord(j) ==
  /\ SyncAt(j, "dropRecord", "done") \/ SyncAt(j, "discardRecord", "rejected")
  /\ \/ DeleteJob(j) /\ NoFault
     \/ DeleteJob(j) /\ Fault("redis")
     \/ UNCHANGED record /\ Fault("redis")
  /\ UNCHANGED channel
  /\ UNCHANGED <<inputs, results, delivery, retries, log>>

-----------------------------------------------------------------------------
(* The gateway process dies: handlers and goroutines with it.               *)
SyncCrash ==
  sync' = [j \in Jobs |->
             IF sync[j] \in {"new", "done", "rejected", "left"}
             THEN sync[j] ELSE "aborted"]

(* What a running handler does next, whatever its client does.              *)
SyncHandlerStep(j) ==
  \/ SyncSave(j) \/ SyncSubscribe(j) \/ SyncPublish(j) \/ DiscardSyncInput(j)
  \/ GetOutcome(j) \/ FetchResult(j) \/ DropSyncResult(j) \/ DropSyncRecord(j)
=============================================================================
