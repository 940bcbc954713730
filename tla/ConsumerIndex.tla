---------------------------- MODULE ConsumerIndex ----------------------------
(***************************************************************************)
(* The job records of Redis and the index of each consumer's jobs, with    *)
(* their times to live (internal/storage/redis.go).                        *)
(*                                                                         *)
(* Platform has records that expire at some time or other.  Here time      *)
(* passes in ticks and TTL of them is the job TTL, because the properties  *)
(* are about which of two keys outlives the other.                         *)
(***************************************************************************)
EXTENDS Naturals

CONSTANTS
  Jobs,         (* the job ids that uuid.New() hands out                    *)
  SyncJobs,     (* those of synchronous requests                            *)
  Consumers,    (* what the consumer header may hold                        *)
  NoConsumer,   (* no header                                                *)
  Owner,        (* the consumer_name of each job                            *)
  Score,        (* the second each job is created in                        *)
  Member,       (* the place of its id among all ids, which are random      *)
  TTL           (* the job TTL, in ticks                                    *)

ASSUME IndexAssumption ==
  /\ SyncJobs \subseteq Jobs
  /\ NoConsumer \notin Consumers
  /\ Owner \in [Jobs -> Consumers \cup {NoConsumer}]
  /\ Score \in [Jobs -> Nat]
  /\ Member \in [Jobs -> Nat]
  /\ \A i, j \in Jobs : Member[i] = Member[j] => i = j
  /\ TTL \in Nat \ {0}

VARIABLES
  stage,       (* how far the handler that made the job is                  *)
  record,      (* job:<id>: the status, "none" if there is no key           *)
  ttl,         (* what is left of the key's TTL                             *)
  index,       (* consumer:<name>:jobs: the members of the sorted set       *)
  indexTTL,    (* what is left of its TTL; 0 if it has none, or no members  *)
  cleaners     (* the jobs whose record a goroutine is about to delete      *)

storeVars == <<record, ttl, index, indexTTL>>
indexVars == <<stage, storeVars, cleaners>>

Outcome == {"completed", "failed"}
Stage   == {"new", "created", "saved", "refused"}

(* A record has a TTL and no index has a TTL that it could not have.        *)
IndexTypeOK ==
  /\ stage \in [Jobs -> Stage]
  /\ record \in [Jobs -> {"none", "pending"} \cup Outcome]
  /\ ttl \in [Jobs -> 0..TTL]
  /\ \A j \in Jobs : record[j] # "none" => ttl[j] > 0
  /\ index \in [Consumers -> SUBSET Jobs]
  /\ indexTTL \in [Consumers -> 0..TTL]
  /\ cleaners \subseteq Jobs

IndexInit ==
  /\ stage = [j \in Jobs |-> "new"]
  /\ record = [j \in Jobs |-> "none"]
  /\ ttl = [j \in Jobs |-> 0]
  /\ index = [c \in Consumers |-> {}]
  /\ indexTTL = [c \in Consumers |-> 0]
  /\ cleaners = {}

-----------------------------------------------------------------------------
(* The store's operations, each of them one transaction or script           *)

Put(j, status) ==
  /\ record' = [record EXCEPT ![j] = status]
  /\ ttl' = [ttl EXCEPT ![j] = TTL]

(* Variant: the index is given no TTL.                                      *)
SaveJobPersistent(j) ==
  /\ Put(j, "pending")
  /\ index' = [c \in Consumers |-> IF c = Owner[j] THEN index[c] \cup {j} ELSE index[c]]
  /\ UNCHANGED indexTTL

(* Variant: a key that has a TTL keeps it (EXPIRE ... NX).                  *)
SaveJobExpireNX(j) ==
  /\ Put(j, "pending")
  /\ index' = [c \in Consumers |-> IF c = Owner[j] THEN index[c] \cup {j} ELSE index[c]]
  /\ indexTTL' = [c \in Consumers |-> IF c = Owner[j] /\ indexTTL[c] = 0 THEN TTL
                                      ELSE indexTTL[c]]

(* MULTI: SET with the TTL; and if the job has a consumer, ZADD and EXPIRE. *)
SaveJob(j) ==
  /\ Put(j, "pending")
  /\ index' = [c \in Consumers |-> IF c = Owner[j] THEN index[c] \cup {j} ELSE index[c]]
  /\ indexTTL' = [c \in Consumers |-> IF c = Owner[j] THEN TTL ELSE indexTTL[c]]

(* Variant: SET without EX, which removes the TTL.                          *)
UpdateJobResultNoTTL(j, status) ==
  /\ record[j] # "none"
  /\ record' = [record EXCEPT ![j] = status]
  /\ ttl' = [ttl EXCEPT ![j] = 0]
  /\ UNCHANGED <<index, indexTTL>>

(* The script finds the record or fails; the record gets a new TTL, and the *)
(* index does not.                                                          *)
UpdateJobResult(j, status) ==
  /\ record[j] # "none"
  /\ Put(j, status)
  /\ UNCHANGED <<index, indexTTL>>

(* The script learns the consumer from the record: without one it leaves    *)
(* the index alone.  ZREM of the last member removes the key.               *)
DeleteJob(j) ==
  LET from(c) == c = Owner[j] /\ record[j] # "none"
      rest(c) == index[c] \ {j}
  IN
  /\ record' = [record EXCEPT ![j] = "none"]
  /\ ttl' = [ttl EXCEPT ![j] = 0]
  /\ index' = [c \in Consumers |-> IF from(c) THEN rest(c) ELSE index[c]]
  /\ indexTTL' = [c \in Consumers |-> IF from(c) /\ rest(c) = {} THEN 0 ELSE indexTTL[c]]

-----------------------------------------------------------------------------
(* Who calls them                                                           *)

(* Submit or handleMultipartViaKafka takes the time of creation ...         *)
Create(j) ==
  /\ stage[j] = "new"
  /\ \A i \in Jobs : Score[i] < Score[j] => stage[i] # "new"
  /\ stage' = [stage EXCEPT ![j] = "created"]
  /\ UNCHANGED <<storeVars, cleaners>>

(* ... and saves the job; on an error, which may come after the fact, it    *)
(* answers 500 and the job goes no further.                                 *)
Save(j) ==
  /\ stage[j] = "created"
  /\ \/ SaveJob(j) /\ stage' = [stage EXCEPT ![j] = "saved"]
     \/ /\ SaveJob(j) \/ UNCHANGED storeVars
        /\ stage' = [stage EXCEPT ![j] = "refused"]
  /\ UNCHANGED cleaners

(* The result consumer stores an outcome, which it may do again; or Submit  *)
(* could not publish the job and stores "failed".                           *)
Settle(j) ==
  /\ stage[j] = "saved"
  /\ \E status \in Outcome : UpdateJobResult(j, status)
  /\ UNCHANGED <<stage, cleaners>>

(* GetStatus has answered for a completed job; the handler of a synchronous *)
(* one has read its outcome, or could not publish the job.                  *)
StartCleanup(j) ==
  /\ stage[j] = "saved"
  /\ record[j] = "completed" \/ (j \in SyncJobs /\ record[j] # "none")
  /\ cleaners' = cleaners \cup {j}
  /\ UNCHANGED <<stage, storeVars>>

(* An error is logged.                                                      *)
Cleanup(j) ==
  /\ j \in cleaners
  /\ DeleteJob(j) \/ UNCHANGED storeVars
  /\ cleaners' = cleaners \ {j}
  /\ UNCHANGED stage

(* Time passes: Redis removes the keys whose TTL is over.                   *)
Tick ==
  /\ ttl' = [j \in Jobs |-> IF ttl[j] > 0 THEN ttl[j] - 1 ELSE 0]
  /\ record' = [j \in Jobs |-> IF ttl[j] <= 1 THEN "none" ELSE record[j]]
  /\ indexTTL' = [c \in Consumers |-> IF indexTTL[c] > 0 THEN indexTTL[c] - 1 ELSE 0]
  /\ index' = [c \in Consumers |-> IF indexTTL[c] = 1 THEN {} ELSE index[c]]
  /\ UNCHANGED <<stage, cleaners>>

JobStep(j) == Create(j) \/ Save(j) \/ Settle(j) \/ StartCleanup(j) \/ Cleanup(j)

IndexNext == Tick \/ \E j \in Jobs : JobStep(j)

(* Time does not stop.  Nobody owes a job, and no handler owes its next call.*)
IndexSpec == IndexInit /\ [][IndexNext]_indexVars

-----------------------------------------------------------------------------
(* A pending job is found in the list of its consumer for as long as it     *)
(* exists: the index has it and does not expire first (redis.go:64-74).     *)
(* A job that has an outcome may outlive the index, for UpdateJobResult     *)
(* renews the record alone (redis.go:204).                                  *)
PendingListed ==
  \A j \in Jobs : \A c \in Consumers :
    Owner[j] = c /\ record[j] = "pending" =>
      j \in index[c] /\ ttl[j] <= indexTTL[c]

(* An index of expired jobs goes away once its consumer submits no more:    *)
(* ListJobsByConsumer skips what it cannot find and removes nothing         *)
(* (redis.go:177-180).                                                      *)
StaleForgotten == \A c \in Consumers : <>[](index[c] = {})
=============================================================================
