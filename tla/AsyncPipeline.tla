--------------------------- MODULE AsyncPipeline ---------------------------
(***************************************************************************)
(* The asynchronous path end to end: the gateway's job API and result      *)
(* consumer and the relay, over the shared Redis, S3 and Kafka.            *)
(***************************************************************************)
EXTENDS JobsApi, Relay, ResultConsumer

vars == <<platformVars, apiVars, relayVars, consumerVars>>

TypeOK ==
  /\ PlatformTypeOK
  /\ ApiTypeOK
  /\ RelayTypeOK
  /\ ConsumerTypeOK

Init ==
  /\ PlatformInit
  /\ ApiInit
  /\ RelayInit
  /\ ConsumerInit

(* cancel() or a crash of the gateway, and its restart: the HTTP handlers,  *)
(* the consumer and the goroutines of both go together.                     *)
GatewayRestart ==
  /\ Fault("gateway")
  /\ ApiCrash
  /\ ConsumerRestart
  /\ UNCHANGED relayVars
  /\ UNCHANGED <<record, inputs, results, delivery, retries, log>>

ApiNext ==
  /\ \/ \E j \in Jobs : SubmitStep(j)
     \/ \E p \in Pollers, j \in Jobs : PollRead(p, j)
     \/ \E p \in Pollers : PollStep(p)
  /\ UNCHANGED relayVars
  /\ UNCHANGED consumerVars

RelayNext ==
  /\ \/ \E j \in Jobs : DeliverStep(j)
     \/ \E s \in Slots : SlotStep(s) \/ Timeout(s)
     \/ \E p \in Pods : ReapInput(p) \/ Evict(p)
  /\ UNCHANGED apiVars
  /\ UNCHANGED consumerVars

ConsumerNext ==
  /\ ConsumerStep \/ HookStep
  /\ UNCHANGED apiVars
  /\ UNCHANGED relayVars

RecordExpires ==
  /\ \E j \in Jobs : Expire(j)
  /\ UNCHANGED apiVars
  /\ UNCHANGED relayVars
  /\ UNCHANGED consumerVars

Next == ApiNext \/ RelayNext \/ ConsumerNext \/ GatewayRestart \/ RecordExpires

Spec == Init /\ [][Next]_vars

-----------------------------------------------------------------------------
(***************************************************************************)
(* Safety                                                                  *)
(***************************************************************************)

HasEvent(j) == \E i \in 1..Len(log) : log[i].job = j

(* A completed record without a result object is one that some GetStatus    *)
(* has answered: only the cleanup of jobs.go:333 deletes results, and the   *)
(* relay stores the result before it publishes the completion               *)
(* (relay.go:166-179).                                                      *)
CompletedHasResult ==
  \A j \in Jobs :
    record[j] = "completed" /\ j \notin results => answered[j] # "never"

(* "Clean up after delivering the result" (jobs.go:330): a completed job's  *)
(* result is gone only once a client has been given it.                     *)
NoResultLost ==
  \A j \in Jobs :
    record[j] = "completed" /\ j \notin results => answered[j] = "full"

(* The input of an accepted job stays in S3, where a retry can find it,     *)
(* until the job has an outcome: an event on the result topic, or a result  *)
(* (relay.go:99-108, 153-161; jobs.go:233-237 deletes it only for a job     *)
(* that was not accepted).                                                  *)
InputKeptUntilOutcome ==
  \A j \in Jobs :
    submit[j] = "accepted" /\ j \notin inputs => HasEvent(j) \/ j \in results

(* "200: job processed, success or failure published" (relay.go:57,         *)
(* ARCHITECTURE.md:280): a message the KafkaSource has committed has its    *)
(* outcome on the result topic.                                             *)
AckedHasEvent == \A j \in Jobs : delivery[j] = "acked" => HasEvent(j)

(* "the offset is only committed after successful processing"               *)
(* (consumer.go:148-149): no job is still pending whose outcome the         *)
(* consumer group has committed.                                            *)
CommittedIsStored ==
  \A i \in 1..committed : i <= Len(log) /\ record[log[i].job] # "pending"

(* The same for the event whose offset was committed last, whatever fails:  *)
(* a failed update commits nothing (consumer.go:160-164).  Of the events    *)
(* before it this holds only as long as no update fails, for a commit       *)
(* covers them too.                                                         *)
LastCommitIsStored ==
  committed > 0 => record[log[committed].job] # "pending"

(* A job that the API accepted and still reports as pending has something   *)
(* left that will settle it: a message the KafkaSource will deliver again,  *)
(* or an event the consumer has yet to store.                               *)
PendingHasWork ==
  \A j \in Jobs :
    submit[j] = "accepted" /\ record[j] = "pending" =>
      \/ delivery[j] = "open"
      \/ \E i \in 1..Len(log) :
            /\ log[i].job = j
            /\ i > cons.at \/ (i = cons.at /\ cons.pc = "update")

(* A webhook for a completed job carries the result unless a GetStatus has  *)
(* answered for the job and cleaned up after it (consumer.go:226-233).      *)
WebhookCarriesResult ==
  \A h \in hooks :
    h.pc = "post" /\ h.status = "completed" /\ ~h.payload
      => answered[log[h.off].job] # "never"

-----------------------------------------------------------------------------
(***************************************************************************)
(* The inductive invariant behind CompletedHasResult and                   *)
(* InputKeptUntilOutcome.                                                  *)
(***************************************************************************)

(* Whoever is at work has a job, and the consumer stays inside the log.     *)
WellFormed ==
  /\ \A s \in Slots : slot[s].pc # "idle" => slot[s].job \in Jobs
  /\ \A s \in Slots : slot[s].attached => slot[s].job \in Jobs
  /\ \A p \in Pollers : poll[p].pc # "idle" => poll[p].job \in Jobs
  /\ cons.at <= Len(log)
  /\ cons.pc # "fetch" => cons.at >= 1
  /\ committed <= cons.at
  /\ \A h \in hooks : h.off \in 1..Len(log)

(* The job's result has been stored, and is there until a GetStatus answers.*)
Stored(j) == j \in results \/ answered[j] # "never"

(* Its outcome exists somewhere: on the result topic or in S3.              *)
HasOutcome(j) == HasEvent(j) \/ j \in results

(* Everything that speaks of a completed job comes after its result.        *)
ResultFirst ==
  /\ \A s \in Slots : slot[s].pc = "publish" => Stored(slot[s].job)
  /\ \A i \in 1..Len(log) : log[i].status = "completed" => Stored(log[i].job)
  /\ \A j \in Jobs : record[j] = "completed" => Stored(j)
  /\ \A p \in Pollers :
       poll[p].pc \in {"dropResult", "dropRecord"} => answered[poll[p].job] # "never"

(* Everything that deletes an input comes after the job's outcome, and what *)
(* deletes a result comes after the event.                                  *)
OutcomeFirst ==
  /\ \A s \in Slots : slot[s].pc = "deleteInput" => HasEvent(slot[s].job)
  /\ \A s \in Slots : slot[s].pc \in {"publish", "respond"} => HasOutcome(slot[s].job)
  /\ \A p \in Pods : \A j \in reapers[p] : HasOutcome(j)
  /\ \A j \in Jobs : record[j] = "completed" => HasEvent(j)
  /\ \A p \in Pollers : poll[p].pc # "idle" => HasEvent(poll[p].job)
  /\ \A j \in Jobs :
       submit[j] \in {"uploaded", "saved", "accepted"} /\ j \notin inputs => HasOutcome(j)

Inv == TypeOK /\ WellFormed /\ ResultFirst /\ OutcomeFirst

-----------------------------------------------------------------------------
(***************************************************************************)
(* Action properties                                                       *)
(***************************************************************************)

(* A record that was deleted or has expired never comes back: only Submit   *)
(* creates one, because the update script finds the key or fails            *)
(* (redis.go:192-206).                                                      *)
NoResurrection ==
  [][\A j \in Jobs :
       record[j] = "none" /\ record'[j] # "none" => submit[j] = "uploaded"]_vars

(* What a reader of the record sees of a job.                               *)
PhaseOf(j) ==
  IF record[j] # "none" THEN record[j]
  ELSE IF submit[j] \in {"new", "uploaded"} THEN "new" ELSE "gone"

Lifecycle == INSTANCE JobLifecycle WITH phase <- [j \in Jobs |-> PhaseOf(j)]

(* Where no request is served twice and no event is written by a publish    *)
(* that reports an error, the pipeline implements the lifecycle that the    *)
(* API promises (jobs.go:187-198, redis.go:192-206, jobs.go:333-342).       *)
ImplementsLifecycle == Lifecycle!Spec

-----------------------------------------------------------------------------
(***************************************************************************)
(* Liveness.  The handlers, the goroutines and the consumer loop keep      *)
(* running, and the KafkaSource delivers what it can; clients and faults   *)
(* owe nothing.  A slot refused with 503 is tried again, so delivery of a  *)
(* job is strongly fair.                                                   *)
(***************************************************************************)

Served(A) == A /\ UNCHANGED apiVars /\ UNCHANGED consumerVars

Delivered(j) ==
  Served(\E s \in Slots : ServeHTTP(s, j) \/ ServeHTTPSync(s, j))

Fairness ==
  /\ \A j \in Jobs : SF_vars(Delivered(j))
  /\ \A s \in Slots : WF_vars(Served(SlotStep(s)))
  /\ \A p \in Pods : WF_vars(Served(ReapInput(p)))
  /\ WF_vars(ConsumerStep /\ UNCHANGED apiVars /\ UNCHANGED relayVars)

FairSpec == Spec /\ Fairness

(* Every accepted job leaves "pending".                                     *)
AcceptedSettles ==
  \A j \in Jobs : submit[j] = "accepted" ~> record[j] # "pending"

(* Every accepted job's input is reclaimed.                                 *)
InputReclaimed ==
  \A j \in Jobs : submit[j] = "accepted" ~> j \notin inputs

(* README.md:736: a job with a callback_url is announced by a POST as soon  *)
(* as it is completed or failed.                                            *)
CallbackAnnounced ==
  \A j \in Callbacks :
    submit[j] = "accepted" /\ record[j] \in Outcome ~> j \in announced
=============================================================================
