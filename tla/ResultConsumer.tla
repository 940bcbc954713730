--------------------------- MODULE ResultConsumer ---------------------------
(***************************************************************************)
(* The gateway's consumer of one result topic (internal/kafka/consumer.go):*)
(* the loop of consume, handleResult, NotifyJobDone and the webhook        *)
(* goroutines.                                                             *)
(*                                                                         *)
(* Offsets are positions in log: `at` is the offset of the last message    *)
(* fetched, `committed` that of the last one committed, 0 for none.        *)
(***************************************************************************)
EXTENDS PubSub

CONSTANTS
  Callbacks,          (* the jobs submitted with a callback_url             *)
  WebhookMaxRetries   (* webhookMaxRetries                                  *)

ASSUME ConsumerAssumption ==
  /\ Callbacks \subseteq Jobs
  /\ WebhookMaxRetries \in Nat \ {0}

VARIABLES
  cons,        (* the consume loop: its next call, `at`, and the status     *)
               (* that GetJob has returned                                  *)
  committed,   (* the consumer group's committed offset                     *)
  hooks,       (* the sendWebhook goroutines                                *)
  announced    (* history: the jobs a webhook goroutine was started for     *)

loopVars == <<cons, committed, hooks, announced>>

consumerVars == <<loopVars, channel>>

ConsPc == {"fetch", "update", "read", "notify", "commit"}

(* A goroutine's copy of the job is the offset it serves and the status     *)
(* GetJob returned; payload says whether the result is inlined.             *)
Hook == [off : Nat, status : Status, pc : {"load", "post"},
         payload : BOOLEAN, attempt : Nat]

ConsumerTypeOK ==
  /\ ChannelTypeOK
  /\ cons \in [pc : ConsPc, at : Nat, got : Status]
  /\ committed \in Nat
  /\ hooks \subseteq Hook
  /\ announced \subseteq Jobs

ConsumerInit ==
  /\ ChannelInit
  /\ cons = [pc |-> "fetch", at |-> 0, got |-> "pending"]
  /\ committed = 0
  /\ hooks = {}
  /\ announced = {}

(* The event in hand.                                                       *)
Current == log[cons.at]

-----------------------------------------------------------------------------
(* consume and handleResult                                                 *)

ConsumerAt(from, to) ==
  /\ cons.pc = from
  /\ cons' = [cons EXCEPT !.pc = to]

(* Variant: ReadMessage, which commits as it reads.                         *)
FetchAutoCommit ==
  /\ cons.pc = "fetch"
  /\ cons.at < Len(log)
  /\ cons' = [cons EXCEPT !.pc = "update", !.at = @ + 1]
  /\ committed' = cons.at + 1
  /\ UNCHANGED <<hooks, announced, channel>>
  /\ UNCHANGED platformVars

Fetch ==
  /\ cons.pc = "fetch"
  /\ cons.at < Len(log)
  /\ cons' = [cons EXCEPT !.pc = "update", !.at = @ + 1]
  /\ UNCHANGED <<committed, hooks, announced, channel>>
  /\ UNCHANGED platformVars

(* Variant: the error of an update is logged, and the offset committed.     *)
UpdateCommitsAnyway ==
  /\ \/ /\ ConsumerAt("update", "read")
        /\ UpdateJobResult(Current.job, Current.status)
        /\ NoFault
     \/ /\ ConsumerAt("update", "commit")
        /\ record[Current.job] = "none"
        /\ UNCHANGED record
        /\ NoFault
     \/ /\ ConsumerAt("update", "commit")
        /\ UpdateJobResult(Current.job, Current.status) \/ UNCHANGED record
        /\ Fault("redis")
  /\ UNCHANGED <<committed, hooks, announced, channel>>
  /\ UNCHANGED <<inputs, results, delivery, retries, log>>

(* UpdateJobResult; on an error the loop goes on without a commit.          *)
Update ==
  /\ \/ /\ ConsumerAt("update", "read")
        /\ UpdateJobResult(Current.job, Current.status)
        /\ NoFault
     \/ /\ ConsumerAt("update", "fetch")
        /\ record[Current.job] = "none"
        /\ UNCHANGED record
        /\ NoFault
     \/ /\ ConsumerAt("update", "fetch")
        /\ UpdateJobResult(Current.job, Current.status) \/ UNCHANGED record
        /\ Fault("redis")
  /\ UNCHANGED <<committed, hooks, announced, channel>>
  /\ UNCHANGED <<inputs, results, delivery, retries, log>>

(* GetJob.                                                                  *)
Read ==
  LET j == Current.job IN
  /\ \/ /\ cons.pc = "read"
        /\ record[j] # "none"
        /\ cons' = [cons EXCEPT !.pc = "notify", !.got = record[j]]
        /\ NoFault
     \/ /\ ConsumerAt("read", "fetch")
        /\ record[j] = "none"
        /\ NoFault
     \/ /\ ConsumerAt("read", "fetch")
        /\ Fault("redis")
  /\ UNCHANGED <<committed, hooks, announced, channel>>
  /\ UNCHANGED <<record, inputs, results, delivery, retries, log>>

(* Variant: only a completed job is announced.                              *)
NotifyCompleted ==
  LET j == Current.job IN
  /\ ConsumerAt("notify", "commit")
  /\ NotifyJobDone(j)
  /\ IF j \in Callbacks /\ cons.got = "completed"
     THEN announced' = announced \cup {j} ELSE UNCHANGED announced
  /\ UNCHANGED <<committed, hooks>>
  /\ UNCHANGED <<record, inputs, results, delivery, retries, log>>

(* Wake the synchronous handler of the job, if there is one, and start a    *)
(* webhook goroutine with what GetJob returned.                             *)
Notify ==
  LET j == Current.job IN
  /\ ConsumerAt("notify", "commit")
  /\ NotifyJobDone(j)
  /\ IF j \in Callbacks
     THEN /\ hooks' = hooks \cup
               {[off |-> cons.at, status |-> cons.got, pc |-> "load",
                 payload |-> FALSE, attempt |-> 1]}
          /\ announced' = announced \cup {j}
     ELSE UNCHANGED <<hooks, announced>>
  /\ UNCHANGED committed
  /\ UNCHANGED <<record, inputs, results, delivery, retries, log>>

(* CommitMessages; an error is logged.                                      *)
Commit ==
  /\ ConsumerAt("commit", "fetch")
  /\ \/ committed' = cons.at /\ NoFault
     \/ committed' \in {committed, cons.at} /\ Fault("kafka")
  /\ UNCHANGED <<hooks, announced, channel>>
  /\ UNCHANGED <<record, inputs, results, delivery, retries, log>>

-----------------------------------------------------------------------------
(* sendWebhook                                                              *)

(* A completed job's result is fetched; on an error it is left out.         *)
LoadResult(h) ==
  LET loaded(got) == (hooks \ {h}) \cup {[h EXCEPT !.pc = "post", !.payload = got]} IN
  /\ h.pc = "load"
  /\ \/ /\ hooks' = loaded(h.status = "completed" /\ log[h.off].job \in results)
        /\ NoFault
     \/ /\ h.status = "completed"
        /\ hooks' = loaded(FALSE)
        /\ Fault("s3")
  /\ UNCHANGED <<cons, committed, announced, channel>>
  /\ UNCHANGED <<record, inputs, results, delivery, retries, log>>

(* Any answer below 500 counts as delivered.                                *)
PostWebhook(h) ==
  /\ h.pc = "post"
  /\ \/ /\ hooks' = hooks \ {h}
        /\ NoFault
     \/ /\ hooks' = (hooks \ {h}) \cup
              (IF h.attempt < WebhookMaxRetries
               THEN {[h EXCEPT !.attempt = @ + 1]} ELSE {})
        /\ Fault("webhook")
  /\ UNCHANGED <<cons, committed, announced, channel>>
  /\ UNCHANGED <<record, inputs, results, delivery, retries, log>>

-----------------------------------------------------------------------------
(* Variant: the successor resumes one offset too early.                     *)
ConsumerRestartBehind ==
  /\ cons' = [cons EXCEPT !.pc = "fetch", !.at = committed - 1]
  /\ hooks' = {}
  /\ CloseAll
  /\ UNCHANGED <<committed, announced>>

(* The process dies.  Its successor resumes after the committed offset; a   *)
(* group that has none starts at the end of the topic (StartOffset:         *)
(* LastOffset).                                                             *)
ConsumerRestart ==
  /\ cons' = [pc |-> "fetch", got |-> "pending",
              at |-> IF committed = 0 THEN Len(log) ELSE committed]
  /\ hooks' = {}
  /\ CloseAll
  /\ UNCHANGED <<committed, announced>>

ConsumerStep == Fetch \/ Update \/ Read \/ Notify \/ Commit

HookStep == \E h \in hooks : LoadResult(h) \/ PostWebhook(h)
=============================================================================
