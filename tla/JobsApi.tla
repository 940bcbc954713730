------------------------------ MODULE JobsApi ------------------------------
(***************************************************************************)
(* The gateway's job API (internal/handler/jobs.go): POST /jobs, handled   *)
(* by Submit, and GET /jobs/{service_type}/{id}, handled by GetStatus.     *)
(*                                                                         *)
(* One Submit handler per job: its checks (404, 405, 400) come before the  *)
(* id is drawn and touch nothing, so submit[j] = "new" stands for a        *)
(* request that has passed them.  Each later value names the last call     *)
(* that has returned.  A Poller is one client connection: its handler and  *)
(* the cleanup goroutine the handler leaves behind, which is modelled as   *)
(* the two last steps of the poll.  Requests answered 404 for a wrong      *)
(* service type or another consumer's job change nothing.                  *)
(***************************************************************************)
EXTENDS Platform

CONSTANT
  Pollers      (* concurrent GET /jobs/{service_type}/{id} requests         *)

VARIABLES
  submit,      (* progress of the Submit handler of each job                *)
  poll,        (* progress of each GetStatus handler                        *)
  answered     (* history, per job: the best answer GetStatus has finished   *)
               (* for a completed record: with the payload ("full"), without *)
               (* it or to a client that has gone ("bare"), or none          *)

apiVars == <<submit, poll, answered>>

SubmitPc ==
  {"new", "uploaded", "saved", "unpublished", "discard",
   "accepted", "rejected", "aborted"}

PollPc == {"idle", "fetch", "respond", "dropResult", "dropRecord"}

PollState == [pc : PollPc, job : Jobs \cup {NoJob}, got : BOOLEAN]

Answer == {"never", "bare", "full"}

IdlePoll == [pc |-> "idle", job |-> NoJob, got |-> FALSE]

ApiTypeOK ==
  /\ submit \in [Jobs -> SubmitPc]
  /\ poll \in [Pollers -> PollState]
  /\ answered \in [Jobs -> Answer]

ApiInit ==
  /\ submit = [j \in Jobs |-> "new"]
  /\ poll = [p \in Pollers |-> IdlePoll]
  /\ answered = [j \in Jobs |-> "never"]

-----------------------------------------------------------------------------
(* Submit.  It makes its calls with the request's context, so each of them  *)
(* also fails when the client has left.                                     *)

SubmitAt(j, from, to) ==
  /\ submit[j] = from
  /\ submit' = [submit EXCEPT ![j] = to]
  /\ UNCHANGED <<poll, answered>>

(* Step 1: store the file.  A failed upload may have stored it or not.      *)
Upload(j) ==
  /\ \/ /\ SubmitAt(j, "new", "uploaded")
        /\ StoreInput(j)
        /\ NoFault
     \/ /\ SubmitAt(j, "new", "rejected")
        /\ StoreInput(j) \/ UNCHANGED inputs
        /\ CallFailsOrClientLeft("s3")
  /\ UNCHANGED <<record, results, delivery, retries, log>>

(* Step 2: save the record.  On an error the handler answers 500 and leaves *)
(* the input object, and whatever Redis did with the command.               *)
Save(j) ==
  /\ \/ /\ SubmitAt(j, "uploaded", "saved")
        /\ SaveJob(j)
        /\ NoFault
     \/ /\ SubmitAt(j, "uploaded", "rejected")
        /\ SaveJob(j) \/ UNCHANGED record
        /\ CallFailsOrClientLeft("redis")
  /\ UNCHANGED <<inputs, results, delivery, retries, log>>

(* Step 3: publish.  An error does not mean that the message was not        *)
(* written.  When the client has left, the update that should mark the job  *)
(* failed is made with the same context and is never sent.                  *)
Publish(j) ==
  /\ \/ /\ SubmitAt(j, "saved", "accepted")
        /\ PublishInputEvent(j)
        /\ NoFault
     \/ /\ SubmitAt(j, "saved", "unpublished")
        /\ PublishInputEvent(j) \/ UNCHANGED delivery
        /\ Fault("kafka")
     \/ /\ SubmitAt(j, "saved", "discard")
        /\ PublishInputEvent(j) \/ UNCHANGED delivery
        /\ Fault("client")
  /\ UNCHANGED <<record, inputs, results, retries, log>>

(* The publish failed: mark the job failed, whatever that call returns.     *)
MarkUnpublished(j) ==
  /\ SubmitAt(j, "unpublished", "discard")
  /\ \/ UpdateJobResult(j, "failed") /\ NoFault
     \/ record[j] = "none" /\ UNCHANGED record /\ NoFault
     \/ UpdateJobResult(j, "failed") /\ CallFailsOrClientLeft("redis")
     \/ UNCHANGED record /\ CallFailsOrClientLeft("redis")
  /\ UNCHANGED <<inputs, results, delivery, retries, log>>

(* Then delete the input from a goroutine; the client gets 500.             *)
DiscardInput(j) ==
  /\ SubmitAt(j, "discard", "rejected")
  /\ DeleteInput(j)
  /\ UNCHANGED <<record, results, delivery, retries, log>>

-----------------------------------------------------------------------------
(* GetStatus                                                                *)

PollAt(p, from, next) ==
  /\ poll[p].pc = from
  /\ poll' = [poll EXCEPT ![p] = next]
  /\ UNCHANGED submit

(* Variant: the answer does not inline the result.                          *)
PollReadOnly(p, j) ==
  /\ record[j] = "completed"
  /\ PollAt(p, "idle", [pc |-> "respond", job |-> j, got |-> FALSE])
  /\ UNCHANGED answered
  /\ UNCHANGED platformVars

(* GetJob.  The client knows the id once Submit has answered 202, or from   *)
(* GET /jobs.  A record that is pending, failed or absent is answered at    *)
(* once and nothing changes; a completed one is remembered across the       *)
(* fetch.                                                                   *)
PollRead(p, j) ==
  /\ record[j] = "completed"
  /\ PollAt(p, "idle", [pc |-> "fetch", job |-> j, got |-> FALSE])
  /\ UNCHANGED answered
  /\ UNCHANGED platformVars

(* GetObject: an error is logged and the answer goes out without result.    *)
PollFetch(p) ==
  LET j == poll[p].job IN
  /\ \/ /\ j \in results
        /\ PollAt(p, "fetch", [pc |-> "respond", job |-> j, got |-> TRUE])
        /\ NoFault
     \/ /\ j \notin results
        /\ PollAt(p, "fetch", [pc |-> "respond", job |-> j, got |-> FALSE])
        /\ NoFault
     \/ /\ PollAt(p, "fetch", [pc |-> "respond", job |-> j, got |-> FALSE])
        /\ Fault("s3") \/ Fault("client")
  /\ UNCHANGED answered
  /\ UNCHANGED <<record, inputs, results, delivery, retries, log>>

(* Encode the answer and start the cleanup goroutine: whether the result    *)
(* was in the answer, and whether the client was still there, the handler   *)
(* does not ask.                                                            *)
PollRespond(p) ==
  LET j == poll[p].job IN
  /\ PollAt(p, "respond", [pc |-> "dropResult", job |-> j, got |-> FALSE])
  /\ \/ /\ answered' = [answered EXCEPT ![j] = IF poll[p].got \/ @ = "full"
                                                 THEN "full" ELSE "bare"]
        /\ NoFault
     \/ /\ answered' = [answered EXCEPT ![j] = IF @ = "full" THEN @ ELSE "bare"]
        /\ Fault("client")
  /\ UNCHANGED <<record, inputs, results, delivery, retries, log>>

(* The goroutine: delete the object, then the record; errors are logged.    *)
DropResult(p) ==
  LET j == poll[p].job IN
  /\ PollAt(p, "dropResult", [pc |-> "dropRecord", job |-> j, got |-> FALSE])
  /\ DeleteResult(j)
  /\ UNCHANGED answered
  /\ UNCHANGED <<record, inputs, delivery, retries, log>>

DropRecord(p) ==
  /\ PollAt(p, "dropRecord", IdlePoll)
  /\ \/ DeleteJob(poll[p].job) /\ NoFault
     \/ DeleteJob(poll[p].job) /\ Fault("redis")
     \/ UNCHANGED record /\ Fault("redis")
  /\ UNCHANGED answered
  /\ UNCHANGED <<inputs, results, delivery, retries, log>>

-----------------------------------------------------------------------------
(* The gateway process dies: handlers and goroutines with it.               *)
ApiCrash ==
  /\ submit' = [j \in Jobs |->
                  IF submit[j] \in {"uploaded", "saved", "unpublished", "discard"}
                  THEN "aborted" ELSE submit[j]]
  /\ poll' = [p \in Pollers |-> IdlePoll]
  /\ UNCHANGED answered

SubmitStep(j) ==
  Upload(j) \/ Save(j) \/ Publish(j) \/ MarkUnpublished(j) \/ DiscardInput(j)

PollStep(p) == PollFetch(p) \/ PollRespond(p) \/ DropResult(p) \/ DropRecord(p)
=============================================================================
