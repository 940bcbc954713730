------------------------------ MODULE Platform ------------------------------
(***************************************************************************)
(* The services that the gateway and the relay share, as those two use     *)
(* them:                                                                   *)
(*                                                                         *)
(*   - Redis: one record per job (internal/storage/redis.go).  Only the    *)
(*     status is kept: result_ref is non-empty exactly when the status is  *)
(*     "completed", because every ResultEvent pairs the two.               *)
(*   - S3: the input object <job>/input.ext and the result object          *)
(*     <job>/result.json (internal/storage/s3.go, relay/.../s3.go).        *)
(*   - Kafka: the input topic, seen through the KafkaSource that turns     *)
(*     each message into POST requests to the relay until one is answered  *)
(*     200 or the retries run out; and the result topic, a log.            *)
(*                                                                         *)
(* Every call to these services may fail, and a call that fails may have   *)
(* taken effect or not.  A failing call is a fault, of a kind named in     *)
(* Faults, and MaxFaults bounds how many happen.                           *)
(***************************************************************************)
EXTENDS Naturals, Sequences

CONSTANTS
  Jobs,        (* the job ids that uuid.New() hands out                     *)
  NoJob,       (* not a job id                                              *)
  Faults,      (* the kinds of fault that may happen in this instance       *)
  MaxFaults,   (* how many faults may happen: a bound of the model          *)
  MaxRetries   (* KafkaSource delivery.retry: redeliveries after the first  *)

FaultKinds ==
  { "redis",     (* a Redis command fails                                   *)
    "s3",        (* an S3 upload or download fails                          *)
    "s3delete",  (* an S3 deletion fails                                    *)
    "kafka",     (* a publish or an offset commit fails                     *)
    "timeout",   (* the KafkaSource stops waiting for the relay's answer    *)
    "relay",     (* a relay pod is evicted                                  *)
    "gateway",   (* the gateway process restarts                            *)
    "webhook",   (* the callback URL answers 5xx or not at all              *)
    "client",    (* a client disconnects                                    *)
    "expiry" }   (* the job TTL runs out                                    *)

ASSUME PlatformAssumption ==
  /\ NoJob \notin Jobs
  /\ Faults \subseteq FaultKinds
  /\ MaxFaults \in Nat
  /\ MaxRetries \in Nat

VARIABLES
  record,      (* Redis: the status under key job:<id>, "none" if no key    *)
  inputs,      (* S3: the jobs whose input object is stored                 *)
  results,     (* S3: the jobs whose result object is stored                *)
  delivery,    (* what has become of the job's message on the input topic   *)
  retries,     (* how often the KafkaSource has resent that message         *)
  log,         (* Kafka: the result topic                                   *)
  faults       (* how many faults have happened                             *)

platformVars == <<record, inputs, results, delivery, retries, log, faults>>

Outcome == {"completed", "failed"}
Status  == {"pending"} \cup Outcome
Stage   == {"unsent", "open", "acked", "exhausted"}
Event   == [job : Jobs, status : Outcome]

PlatformTypeOK ==
  /\ record \in [Jobs -> Status \cup {"none"}]
  /\ inputs \subseteq Jobs
  /\ results \subseteq Jobs
  /\ delivery \in [Jobs -> Stage]
  /\ retries \in [Jobs -> Nat]
  /\ log \in Seq(Event)
  /\ faults \in Nat

PlatformInit ==
  /\ record = [j \in Jobs |-> "none"]
  /\ inputs = {}
  /\ results = {}
  /\ delivery = [j \in Jobs |-> "unsent"]
  /\ retries = [j \in Jobs |-> 0]
  /\ log = <<>>
  /\ faults = 0

-----------------------------------------------------------------------------
(* A step that goes wrong for a reason of the given kind, and one that does *)
(* not.                                                                     *)

Fault(kind) ==
  /\ kind \in Faults
  /\ faults < MaxFaults
  /\ faults' = faults + 1

NoFault == faults' = faults

(* A call made with the context of a request.                               *)
CallFailsOrClientLeft(kind) == Fault(kind) \/ Fault("client")

-----------------------------------------------------------------------------
(* Redis                                                                    *)

SaveJob(j) == record' = [record EXCEPT ![j] = "pending"]

(* Variant: GetJob and SaveJob instead of the script.                       *)
UpdateJobResultUnguarded(j, status) ==
  record' = [record EXCEPT ![j] = status]

(* The Lua script reads and writes the record in one step and reports an    *)
(* error when there is none.  It looks at no other field: whatever the old  *)
(* status was, the new one replaces it.                                     *)
UpdateJobResult(j, status) ==
  /\ record[j] # "none"
  /\ record' = [record EXCEPT ![j] = status]

DeleteJob(j) == record' = [record EXCEPT ![j] = "none"]

(* The key's TTL runs out.  The objects in S3 have no TTL.                  *)
Expire(j) ==
  /\ record[j] # "none"
  /\ Fault("expiry")
  /\ DeleteJob(j)
  /\ UNCHANGED <<inputs, results, delivery, retries, log>>

-----------------------------------------------------------------------------
(* S3                                                                       *)

StoreInput(j)  == inputs' = inputs \cup {j}
StoreResult(j) == results' = results \cup {j}

(* Every caller logs a failed deletion and goes on.                         *)
DeleteInput(j) ==
  \/ inputs' = inputs \ {j} /\ NoFault
  \/ inputs' \in {inputs, inputs \ {j}} /\ Fault("s3delete")

DeleteResult(j) ==
  \/ results' = results \ {j} /\ NoFault
  \/ results' \in {results, results \ {j}} /\ Fault("s3delete")

-----------------------------------------------------------------------------
(* Kafka                                                                    *)

PublishInputEvent(j) == delivery' = [delivery EXCEPT ![j] = "open"]

PublishResultEvent(j, status) ==
  log' = Append(log, [job |-> j, status |-> status])

(* The KafkaSource got 200: it commits the message.                         *)
Ack(j) ==
  /\ delivery' = [delivery EXCEPT ![j] = "acked"]
  /\ UNCHANGED retries

(* It got 500 or 503, or no answer, for each job of the set: it sends the   *)
(* message again, until delivery.retry is used up.                          *)
Nack(js) ==
  /\ delivery' = [j \in Jobs |-> IF j \in js /\ retries[j] >= MaxRetries
                                 THEN "exhausted" ELSE delivery[j]]
  /\ retries'  = [j \in Jobs |-> IF j \in js /\ retries[j] < MaxRetries
                                 THEN retries[j] + 1 ELSE retries[j]]
=============================================================================
