------------------------------- MODULE Relay -------------------------------
(***************************************************************************)
(* The relay sidecar (relay/internal/relay/relay.go and sync.go), and the  *)
(* KafkaSource requests it answers.                                        *)
(*                                                                         *)
(* A Slot is one HTTP request the relay can be serving: containerConcurrency*)
(* of them per pod.  slot[s].pc names the next call of process.  A request *)
(* is attached while the KafkaSource waits for its answer; when it stops   *)
(* waiting, the request's context is cancelled, so calls made with it may  *)
(* fail, but the handler runs on, beside the redelivery of its message.    *)
(*                                                                         *)
(* Malformed events (400, 405) never come from the gateway's producer.     *)
(***************************************************************************)
EXTENDS Platform, Integers, FiniteSets

CONSTANTS
  Slots,         (* request slots of the relay                              *)
  Pods,          (* its pods                                                *)
  PodOf,         (* the pod each slot belongs to                            *)
  PriorityJobs   (* the jobs sent through a topic delivered to POST /sync   *)

ASSUME RelayAssumption ==
  /\ PodOf \in [Slots -> Pods]
  /\ IsFiniteSet(Slots)
  /\ PriorityJobs \subseteq Jobs

VARIABLES
  slot,          (* the requests being served                               *)
  syncPriority,  (* per pod: the counter of sync jobs in progress           *)
  reapers        (* per pod: goroutines that are to delete a job's input    *)

relayVars == <<slot, syncPriority, reapers>>

SlotPc ==
  {"idle", "get", "infer", "fail", "deleteInput", "put", "publish",
   "respond", "reply"}

SlotState == [pc : SlotPc, job : Jobs \cup {NoJob}, attached : BOOLEAN]

IdleSlot == [pc |-> "idle", job |-> NoJob, attached |-> FALSE]

RelayTypeOK ==
  /\ slot \in [Slots -> SlotState]
  /\ syncPriority \in [Pods -> Int]
  /\ reapers \in [Pods -> SUBSET Jobs]

RelayInit ==
  /\ slot = [s \in Slots |-> IdleSlot]
  /\ syncPriority = [p \in Pods |-> 0]
  /\ reapers = [p \in Pods |-> {}]

-----------------------------------------------------------------------------
(* The KafkaSource has a request for the job under way.                     *)
InFlight(j) == \E s \in Slots : slot[s].attached /\ slot[s].job = j

Deliverable(j) == delivery[j] = "open" /\ ~InFlight(j)

(* POST /: refused with 503 while a sync job is in progress on the pod.     *)
Defer(j, p) ==
  /\ Deliverable(j)
  /\ j \notin PriorityJobs
  /\ syncPriority[p] > 0
  /\ Nack({j})
  /\ UNCHANGED relayVars
  /\ UNCHANGED <<record, inputs, results, log, faults>>

Begin(s, j) ==
  /\ slot[s].pc = "idle"
  /\ Deliverable(j)
  /\ slot' = [slot EXCEPT ![s] = [pc |-> "get", job |-> j, attached |-> TRUE]]
  /\ UNCHANGED reapers
  /\ UNCHANGED platformVars

(* POST / with no sync job in progress: the counter is read once, here.     *)
ServeHTTP(s, j) ==
  /\ j \notin PriorityJobs
  /\ syncPriority[PodOf[s]] <= 0
  /\ Begin(s, j)
  /\ UNCHANGED syncPriority

(* POST /sync: counted for as long as it runs.                              *)
ServeHTTPSync(s, j) ==
  /\ j \in PriorityJobs
  /\ Begin(s, j)
  /\ syncPriority' = [syncPriority EXCEPT ![PodOf[s]] = @ + 1]

-----------------------------------------------------------------------------
(* process: one action per call                                             *)

SlotAt(s, from, to) ==
  /\ slot[s].pc = from
  /\ slot' = [slot EXCEPT ![s].pc = to]
  /\ UNCHANGED <<syncPriority, reapers>>

(* Variant: the counter is left alone when nobody waits for the answer.     *)
LeaveUncounted(s) ==
  /\ slot' = [slot EXCEPT ![s] = IdleSlot]
  /\ syncPriority' = IF slot[s].job \in PriorityJobs /\ slot[s].attached
                     THEN [syncPriority EXCEPT ![PodOf[s]] = @ - 1]
                     ELSE syncPriority

(* The handler returns: the slot is free and a sync job is no longer        *)
(* counted.                                                                 *)
Leave(s) ==
  /\ slot' = [slot EXCEPT ![s] = IdleSlot]
  /\ syncPriority' = IF slot[s].job \in PriorityJobs
                     THEN [syncPriority EXCEPT ![PodOf[s]] = @ - 1]
                     ELSE syncPriority

(* Variant: errors are answered 200.                                        *)
Answer200OnError(s, from) ==
  /\ slot[s].pc = from
  /\ Leave(s)
  /\ IF slot[s].attached THEN Ack(slot[s].job) ELSE UNCHANGED <<delivery, retries>>
  /\ UNCHANGED reapers

(* process returned an error: 500, to whoever still waits.                  *)
Answer500(s, from) ==
  /\ slot[s].pc = from
  /\ Leave(s)
  /\ IF slot[s].attached THEN Nack({slot[s].job}) ELSE UNCHANGED <<delivery, retries>>
  /\ UNCHANGED reapers

(* A call made with the request's context fails: the service failed, or the *)
(* context is cancelled.                                                    *)
CallFails(s, kind) == Fault(kind) \/ (~slot[s].attached /\ NoFault)

(* Variant: a missing input ends the job quietly.                           *)
GetInputGivesUp(s) ==
  /\ \/ SlotAt(s, "get", "infer") /\ slot[s].job \in inputs /\ NoFault
     \/ SlotAt(s, "get", "respond") /\ CallFails(s, "s3")
     \/ SlotAt(s, "get", "respond") /\ slot[s].job \notin inputs /\ NoFault
  /\ UNCHANGED <<record, inputs, results, log, delivery, retries>>

GetInput(s) ==
  LET j == slot[s].job IN
  /\ \/ /\ j \in inputs
        /\ SlotAt(s, "get", "infer")
        /\ NoFault
        /\ UNCHANGED <<delivery, retries>>
     \/ /\ j \notin inputs
        /\ Answer500(s, "get")
        /\ NoFault
     \/ /\ j \in inputs
        /\ Answer500(s, "get")
        /\ CallFails(s, "s3")
  /\ UNCHANGED <<record, inputs, results, log>>

(* Variant: the completion is published before the result is stored.        *)
InferPublishFirst(s) ==
  /\ SlotAt(s, "infer", "publish") \/ SlotAt(s, "infer", "fail")
  /\ UNCHANGED platformVars

(* adapter.Call: the inference succeeds, or fails for a reason of its own.  *)
Infer(s) ==
  /\ SlotAt(s, "infer", "put") \/ SlotAt(s, "infer", "fail")
  /\ UNCHANGED platformVars

(* Variant: a publish error is logged, as after a success.                  *)
PublishFailureLogged(s) ==
  /\ SlotAt(s, "fail", "deleteInput")
  /\ \/ PublishResultEvent(slot[s].job, "failed") /\ NoFault
     \/ UNCHANGED log /\ Fault("kafka")
  /\ UNCHANGED <<record, inputs, results, delivery, retries>>

(* Variant: the failure is published and the KafkaSource asked to retry.    *)
PublishFailureAndRetry(s) ==
  /\ Answer500(s, "fail")
  /\ PublishResultEvent(slot[s].job, "failed")
  /\ NoFault
  /\ UNCHANGED <<record, inputs, results>>

(* publishFailure, with the background context.  An error does not mean     *)
(* that the event was not written.                                          *)
PublishFailure(s) ==
  LET j == slot[s].job IN
  /\ \/ /\ SlotAt(s, "fail", "deleteInput")
        /\ PublishResultEvent(j, "failed")
        /\ NoFault
        /\ UNCHANGED <<delivery, retries>>
     \/ /\ Answer500(s, "fail")
        /\ PublishResultEvent(j, "failed") \/ UNCHANGED log
        /\ Fault("kafka")
  /\ UNCHANGED <<record, inputs, results>>

(* The input of a failed job is deleted before the answer; an error is      *)
(* logged.                                                                  *)
DeleteFailedInput(s) ==
  /\ SlotAt(s, "deleteInput", "respond")
  /\ DeleteInput(slot[s].job)
  /\ UNCHANGED <<record, results, delivery, retries, log>>

(* A failed PutObject may have stored the object or not.                    *)
PutResult(s) ==
  /\ \/ /\ SlotAt(s, "put", "publish")
        /\ StoreResult(slot[s].job)
        /\ NoFault
        /\ UNCHANGED <<delivery, retries>>
     \/ /\ Answer500(s, "put")
        /\ StoreResult(slot[s].job) \/ UNCHANGED results
        /\ CallFails(s, "s3")
  /\ UNCHANGED <<record, inputs, log>>

(* An error is logged and the job is answered 200 all the same.             *)
PublishResult(s) ==
  /\ SlotAt(s, "publish", "respond")
  /\ \/ PublishResultEvent(slot[s].job, "completed") /\ NoFault
     \/ /\ PublishResultEvent(slot[s].job, "completed") \/ UNCHANGED log
        /\ CallFails(s, "kafka")
  /\ UNCHANGED <<record, inputs, results, delivery, retries>>

(* Variant: nobody deletes the input.                                       *)
RespondOnly(s) ==
  /\ SlotAt(s, "respond", "reply")
  /\ UNCHANGED platformVars

(* WriteHeader(200), and a goroutine that is to delete the input.  The      *)
(* answer leaves when the handler returns, which is the next step: net/http *)
(* sends a header without a body no earlier.                                *)
Respond(s) ==
  /\ slot[s].pc = "respond"
  /\ slot' = [slot EXCEPT ![s].pc = "reply"]
  /\ reapers' = [reapers EXCEPT ![PodOf[s]] = @ \cup {slot[s].job}]
  /\ UNCHANGED syncPriority
  /\ UNCHANGED platformVars

Answer200(s) ==
  /\ slot[s].pc = "reply"
  /\ Leave(s)
  /\ IF slot[s].attached THEN Ack(slot[s].job) ELSE UNCHANGED <<delivery, retries>>
  /\ UNCHANGED reapers
  /\ UNCHANGED <<record, inputs, results, log, faults>>

ReapInput(p) ==
  \E j \in reapers[p] :
    /\ reapers' = [reapers EXCEPT ![p] = @ \ {j}]
    /\ DeleteInput(j)
    /\ UNCHANGED <<slot, syncPriority>>
    /\ UNCHANGED <<record, results, delivery, retries, log>>

-----------------------------------------------------------------------------
(* The KafkaSource stops waiting.                                           *)
Timeout(s) ==
  /\ slot[s].attached
  /\ Fault("timeout")
  /\ slot' = [slot EXCEPT ![s].attached = FALSE]
  /\ Nack({slot[s].job})
  /\ UNCHANGED <<syncPriority, reapers>>
  /\ UNCHANGED <<record, inputs, results, log>>

(* The pod is evicted: its requests, goroutines and counter are gone.       *)
Evict(p) ==
  LET lost == {s \in Slots : PodOf[s] = p} IN
  /\ Fault("relay")
  /\ slot' = [s \in Slots |-> IF s \in lost THEN IdleSlot ELSE slot[s]]
  /\ syncPriority' = [syncPriority EXCEPT ![p] = 0]
  /\ reapers' = [reapers EXCEPT ![p] = {}]
  /\ Nack({slot[s].job : s \in {t \in lost : slot[t].attached}})
  /\ UNCHANGED <<record, inputs, results, log>>

SlotStep(s) ==
  GetInput(s) \/ Infer(s) \/ PublishFailure(s) \/ DeleteFailedInput(s)
    \/ PutResult(s) \/ PublishResult(s) \/ Respond(s) \/ Answer200(s)

DeliverStep(j) ==
  \/ \E p \in Pods : Defer(j, p)
  \/ \E s \in Slots : ServeHTTP(s, j) \/ ServeHTTPSync(s, j)

-----------------------------------------------------------------------------
(* The counter that defers asynchronous jobs counts the sync jobs in        *)
(* progress on the pod, on every way out of the handler (sync.go:17-25).    *)
SyncPriorityCounts ==
  \A p \in Pods :
    syncPriority[p] = Cardinality({s \in Slots : PodOf[s] = p
                                                   /\ slot[s].job \in PriorityJobs})
=============================================================================
