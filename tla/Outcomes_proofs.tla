-------------------------- MODULE Outcomes_proofs --------------------------
(***************************************************************************)
(* Proofs about AsyncPipeline, most of which need some kinds of fault to   *)
(* be away: each names in its hypothesis the faults that break its property*)
(* and holds whatever happens of the others, for any number of jobs,       *)
(* clients, pods, slots and, unless it says so, of retries and faults.     *)
(***************************************************************************)
EXTENDS AsyncPipeline_proofs, FiniteSetTheorems

(* None of these faults happens.                                            *)
Without(kinds) == Faults \cap kinds = {}

-----------------------------------------------------------------------------
(***************************************************************************)
(* The inductive invariants                                                *)
(***************************************************************************)

(* Submit is past its publish.                                              *)
Sent(j) == submit[j] \notin {"new", "uploaded", "saved"}

(* A free slot has no request that waits.                                   *)
FreeSlots == \A s \in Slots : slot[s].pc = "idle" => slot[s] = IdleSlot

(* Nothing speaks of a job before its message was sent.                     *)
SentFirst ==
  /\ \A j \in Jobs : delivery[j] # "unsent" => Sent(j)
  /\ \A s \in Slots : slot[s].pc # "idle" => Sent(slot[s].job)
  /\ \A i \in 1..Len(log) : Sent(log[i].job)

(* A GetStatus that found a completed job answers it with the payload,      *)
(* unless another one has.                                                  *)
AnswersInFull ==
  /\ \A j \in Jobs : answered[j] # "bare"
  /\ \A p \in Pollers : poll[p].pc = "fetch" => Stored(poll[p].job)
  /\ \A p \in Pollers :
       poll[p].pc = "respond" => poll[p].got \/ answered[poll[p].job] = "full"

(* A webhook is started after the result was stored.                        *)
AnnouncesStored ==
  /\ cons.pc = "notify" /\ cons.got = "completed" => Stored(Current.job)
  /\ \A h \in hooks : h.status = "completed" => Stored(log[h.off].job)
  /\ WebhookCarriesResult

(* The relay answers 200 after it has published.                            *)
AnswersAfterEvent ==
  /\ \A s \in Slots : slot[s].pc # "idle" => slot[s].attached
  /\ \A s \in Slots :
       slot[s].pc \in {"deleteInput", "respond", "reply"} => HasEvent(slot[s].job)
  /\ \A p \in Pods : \A j \in reapers[p] : HasEvent(j)
  /\ AckedHasEvent

(* The consume loop is done with the event at offset i.                     *)
Processed(i) == i < cons.at \/ (i = cons.at /\ cons.pc # "update")

(* It commits what it is done with, and has stored that.                    *)
CommitsBehind ==
  /\ cons.pc = "update" => committed < cons.at
  /\ \A i \in 1..Len(log) : Processed(i) => record[log[i].job] # "pending"

(* Submit was not given up before or at its publish.                        *)
Wanted(j) == ~Sent(j) \/ submit[j] = "accepted"

(* An accepted job without an event can still be delivered, and will find   *)
(* its input.                                                               *)
Deliverables ==
  /\ \A p \in Pods : syncPriority[p] = 0
  /\ \A j \in Jobs :
       submit[j] \in {"uploaded", "saved", "accepted"} => j \in inputs \/ HasEvent(j)
  /\ \A j \in Jobs : Wanted(j) => retries[j] <= faults \/ HasEvent(j)
  /\ \A j \in Jobs : submit[j] = "accepted" => delivery[j] = "open" \/ HasEvent(j)

(* One request at a time for a job, and one event.                          *)
Once ==
  /\ \A s \in Slots :
       slot[s].pc # "idle" => slot[s].attached /\ delivery[slot[s].job] = "open"
  /\ \A s, t \in Slots :
       slot[s].pc # "idle" /\ slot[t].pc # "idle" /\ slot[s].job = slot[t].job => s = t
  /\ \A s \in Slots :
       slot[s].pc \in {"get", "infer", "fail", "put", "publish"} => ~HasEvent(slot[s].job)
  /\ \A j \in Jobs :
       HasEvent(j) =>
         \/ delivery[j] # "open"
         \/ \E s \in Slots :
              slot[s].pc \in {"deleteInput", "respond", "reply"} /\ slot[s].job = j
  /\ \A i, k \in 1..Len(log) : log[i].job = log[k].job => i = k
  /\ \A j \in Jobs : submit[j] # "unpublished"
  /\ \A j \in Jobs : submit[j] \in {"new", "uploaded"} => record[j] = "none"
  /\ \A j \in Jobs :
       record[j] \in Outcome =>
         \E i \in 1..Len(log) : log[i] = [job |-> j, status |-> record[j]]

-----------------------------------------------------------------------------
(***************************************************************************)
(* What can have caused a change                                           *)
(***************************************************************************)

(* The next call of a request, the end of a request, and what either means  *)
(* to the KafkaSource.                                                      *)
Goes(s, from, to) ==
  /\ slot[s].pc = from
  /\ slot'[s].pc = to
  /\ slot'[s].job = slot[s].job
  /\ slot'[s].attached = slot[s].attached

(* A request that is over, from this call.                                  *)
Ends(s, from) == slot[s].pc = from /\ slot'[s] = IdleSlot

(* The KafkaSource gets no answer.                                          *)
NoAnswer == UNCHANGED <<log, delivery, retries>>

(* It gets this one unless it has given the request up.                     *)
AnswerIfAttached(s, answer) ==
  IF slot[s].attached THEN answer ELSE UNCHANGED <<delivery, retries>>

(* Each call of a request, seen from outside.                               *)
LEMMA SlotStepCases ==
  ASSUME Typed, NEW s \in Slots, SlotStep(s)
  PROVE  \/ Goes(s, "get", "infer") /\ NoAnswer
         \/ Goes(s, "infer", "put") /\ NoAnswer
         \/ Goes(s, "infer", "fail") /\ NoAnswer
         \/ /\ Goes(s, "fail", "deleteInput")
            /\ PublishResultEvent(slot[s].job, "failed")
            /\ UNCHANGED <<delivery, retries>>
         \/ Goes(s, "deleteInput", "respond") /\ NoAnswer
         \/ Goes(s, "put", "publish") /\ NoAnswer
         \/ /\ Goes(s, "publish", "respond")
            /\ \/ PublishResultEvent(slot[s].job, "completed")
               \/ UNCHANGED log /\ CallFails(s, "kafka")
            /\ UNCHANGED <<delivery, retries>>
         \/ Goes(s, "respond", "reply") /\ NoAnswer
         \/ /\ Ends(s, "reply")
            /\ UNCHANGED log
            /\ AnswerIfAttached(s, Ack(slot[s].job))
         \/ /\ Ends(s, "get")
            /\ slot[s].job \notin inputs \/ CallFails(s, "s3")
            /\ UNCHANGED log
            /\ AnswerIfAttached(s, Nack({slot[s].job}))
         \/ /\ Ends(s, "put")
            /\ CallFails(s, "s3")
            /\ UNCHANGED log
            /\ AnswerIfAttached(s, Nack({slot[s].job}))
         \/ /\ Ends(s, "fail")
            /\ Fault("kafka")
            /\ AnswerIfAttached(s, Nack({slot[s].job}))
<1>1. slot \in [Slots -> SlotState] /\ slot[s] \in SlotState
  BY DEF Typed, TypeOK, RelayTypeOK
<1>2. ASSUME NEW from, NEW to, SlotAt(s, from, to)
      PROVE  Goes(s, from, to)
  BY <1>1, <1>2 DEF SlotAt, Goes, SlotState
<1>3. ASSUME NEW from, slot[s].pc = from, Leave(s)
      PROVE  Ends(s, from)
  BY <1>1, <1>3 DEF Leave, Ends
<1>4. CASE GetInput(s)
  BY <1>2, <1>3, <1>4 DEF GetInput, Answer500, NoAnswer, AnswerIfAttached
<1>5. CASE Infer(s)
  BY <1>2, <1>5 DEF Infer, NoAnswer, platformVars
<1>6. CASE PublishFailure(s)
  BY <1>2, <1>3, <1>6 DEF PublishFailure, Answer500, AnswerIfAttached
<1>7. CASE DeleteFailedInput(s)
  BY <1>2, <1>7 DEF DeleteFailedInput, NoAnswer
<1>8. CASE PutResult(s)
  BY <1>2, <1>3, <1>8 DEF PutResult, Answer500, NoAnswer, AnswerIfAttached
<1>9. CASE PublishResult(s)
  BY <1>2, <1>9 DEF PublishResult
<1>10. CASE Respond(s)
  BY <1>1, <1>10 DEF Respond, Goes, NoAnswer, SlotState, platformVars
<1>11. CASE Answer200(s)
  BY <1>3, <1>11 DEF Answer200, AnswerIfAttached
<1> QED
  BY <1>4, <1>5, <1>6, <1>7, <1>8, <1>9, <1>10, <1>11 DEF SlotStep

(* What changes a request.                                                  *)
LEMMA SlotCauses ==
  ASSUME Typed, [Next]_vars, NEW s \in Slots, slot'[s] # slot[s]
  PROVE  \/ SlotStep(s)
         \/ Timeout(s)
         \/ Fault("relay") /\ slot'[s] = IdleSlot
         \/ \E j \in Jobs :
              /\ slot[s].pc = "idle"
              /\ slot'[s] = [pc |-> "get", job |-> j, attached |-> TRUE]
              /\ Deliverable(j)
              /\ UNCHANGED platformVars
              /\ \A t \in Slots \ {s} : slot'[t] = slot[t]
<1>1. slot \in [Slots -> SlotState]
  BY DEF Typed, TypeOK, RelayTypeOK
<1>2. RelayNext
  BY DEF Next, ApiNext, ConsumerNext, GatewayRestart, RecordExpires, relayVars, vars
<1>3. ASSUME NEW j \in Jobs, DeliverStep(j)
      PROVE  /\ slot[s].pc = "idle"
             /\ slot'[s] = [pc |-> "get", job |-> j, attached |-> TRUE]
             /\ Deliverable(j)
             /\ UNCHANGED platformVars
             /\ \A t \in Slots \ {s} : slot'[t] = slot[t]
  <2>1. PICK t \in Slots : Begin(t, j)
    BY <1>3 DEF DeliverStep, Defer, ServeHTTP, ServeHTTPSync, relayVars
  <2> QED
    BY <1>1, <2>1 DEF Begin
<1>4. ASSUME NEW t \in Slots, Timeout(t) PROVE t = s
  BY <1>1, <1>4 DEF Timeout
<1>5. ASSUME NEW q \in Pods, ReapInput(q) \/ Evict(q)
      PROVE  Fault("relay") /\ slot'[s] = IdleSlot
  BY <1>1, <1>5 DEF ReapInput, Evict, DeleteInput
<1>6. ASSUME NEW t \in Slots, SlotStep(t) PROVE t = s
  BY <1>6, SlotStepReaches
<1> QED
  BY <1>2, <1>3, <1>4, <1>5, <1>6 DEF RelayNext

(* What changes the stage of a message.                                     *)
LEMMA StageCauses ==
  ASSUME Typed, [Next]_vars, NEW j \in Jobs, delivery'[j] # delivery[j]
  PROVE  \/ /\ submit[j] = "saved"
            /\ submit'[j] \in {"accepted", "unpublished", "discard"}
            /\ delivery'[j] = "open"
         \/ /\ delivery'[j] = "acked"
            /\ \E s \in Slots : Ends(s, "reply") /\ slot[s].job = j
         \/ delivery'[j] = "exhausted" /\ RelayNext
<1>1. delivery \in [Jobs -> Stage]
  BY DEF Typed, TypeOK, PlatformTypeOK
<1>2. CASE ApiNext
  <2>1. PICK k \in Jobs : SubmitStep(k)
    BY <1>2 DEF ApiNext, PollStep, PollRead, PollFetch, PollRespond, DropResult, DropRecord,
       DeleteResult, platformVars
  <2>2. Publish(k) /\ k = j
    BY <1>1, <2>1 DEF SubmitStep, Upload, Save, Publish, MarkUnpublished, DiscardInput,
       PublishInputEvent, DeleteInput, StoreInput
  <2> QED
    BY <1>1, <2>2 DEF Publish, SubmitAt, PublishInputEvent, NoFault, Typed, TypeOK, ApiTypeOK
<1>3. CASE RelayNext
  <2>1. ASSUME NEW js, Nack(js) PROVE delivery'[j] = "exhausted"
    BY <1>1, <2>1 DEF Nack
  <2>2. ASSUME NEW k \in Jobs, DeliverStep(k) PROVE \E js : Nack(js)
    BY <2>2 DEF DeliverStep, Defer, ServeHTTP, ServeHTTPSync, Begin, platformVars
  <2>3. ASSUME NEW s \in Slots, Timeout(s) PROVE \E js : Nack(js)
    BY <2>3 DEF Timeout
  <2>4. ASSUME NEW p \in Pods, ReapInput(p) \/ Evict(p) PROVE \E js : Nack(js)
    BY <2>4 DEF ReapInput, Evict
  <2>5. ASSUME NEW s \in Slots, SlotStep(s)
        PROVE  \/ \E js : Nack(js)
               \/ delivery'[j] = "acked" /\ Ends(s, "reply") /\ slot[s].job = j
    BY <1>1, <2>5, SlotStepCases DEF NoAnswer, AnswerIfAttached, Ack
  <2> QED
    BY <1>3, <2>1, <2>2, <2>3, <2>4, <2>5 DEF RelayNext
<1> QED
  BY <1>2, <1>3 DEF Next, ConsumerNext, ConsumerStep, Fetch, Update, Read, Notify, Commit, HookStep,
     LoadResult, PostWebhook, GatewayRestart, RecordExpires, Expire, platformVars, vars

(* What writes an event.                                                    *)
LEMMA EventCauses ==
  ASSUME Typed, [Next]_vars, NEW i \in 1..Len(log'), ~(i \in 1..Len(log) /\ log'[i] = log[i])
  PROVE  \E s \in Slots :
           /\ slot[s].pc \in {"publish", "fail"} /\ slot[s].pc # "idle"
           /\ slot[s].job \in Jobs
           /\ log'[i].job = slot[s].job
           /\ log'[i].status = "completed" => slot[s].pc = "publish"
<1>1. PICK s \in Slots :
        /\ slot[s].job \in Jobs
        /\ \/ slot[s].pc = "publish" /\ log'[i] = [job |-> slot[s].job, status |-> "completed"]
           \/ slot[s].pc = "fail" /\ log'[i] = [job |-> slot[s].job, status |-> "failed"]
  BY EventsStay
<1> QED
  BY <1>1

(* What makes the KafkaSource resend a message, or give it up.              *)
LEMMA NackCauses ==
  ASSUME Typed, [Next]_vars, NEW j \in Jobs,
         \/ retries'[j] # retries[j]
         \/ delivery'[j] # delivery[j] /\ delivery'[j] = "exhausted"
  PROVE  /\ \E js : Nack(js) /\ j \in js
         /\ \/ \E p \in Pods : Defer(j, p)
            \/ \E s \in Slots :
                 /\ slot[s].attached
                 /\ slot[s].job = j
                 /\ \/ Fault("timeout") \/ Fault("relay")
                    \/ /\ slot'[s] = IdleSlot
                       /\ Fault("kafka") \/ Fault("s3") \/ j \notin inputs
<1>1. delivery \in [Jobs -> Stage] /\ retries \in [Jobs -> Nat]
  BY DEF Typed, TypeOK, PlatformTypeOK
<1>2. RelayNext
  <2>1. ASSUME ApiNext PROVE FALSE
    BY <1>1, <2>1 DEF ApiNext, PollStep, PollRead, PollFetch, PollRespond, DropResult, DropRecord,
       DeleteResult, platformVars, SubmitStep, Upload, Save, Publish, MarkUnpublished,
       DiscardInput, PublishInputEvent, DeleteInput, StoreInput
  <2> QED
    BY <2>1 DEF Next, ConsumerNext, ConsumerStep, Fetch, Update, Read, Notify, Commit, HookStep,
     LoadResult, PostWebhook, GatewayRestart, RecordExpires, Expire, platformVars, vars
<1>3. ASSUME NEW js, Nack(js)
      PROVE  j \in js
  BY <1>1, <1>3 DEF Nack
<1>4. ASSUME NEW k \in Jobs, DeliverStep(k)
      PROVE  \E p \in Pods : Nack({j}) /\ Defer(j, p)
  <2>1. PICK p \in Pods : Defer(k, p)
    BY <1>4 DEF DeliverStep, ServeHTTP, ServeHTTPSync, Begin, platformVars
  <2>2. Nack({k})
    BY <2>1 DEF Defer
  <2>3. k = j
    BY <1>3, <2>2
  <2> QED
    BY <2>1, <2>2, <2>3
<1>5. ASSUME NEW s \in Slots, Timeout(s)
      PROVE  Nack({j}) /\ slot[s].attached /\ slot[s].job = j /\ Fault("timeout")
  <2>1. Nack({slot[s].job}) /\ slot[s].attached /\ Fault("timeout")
    BY <1>5 DEF Timeout
  <2> QED
    BY <1>3, <2>1
<1>6. ASSUME NEW p \in Pods, ReapInput(p) \/ Evict(p)
      PROVE  \E s \in Slots : \E js :
                Nack(js) /\ j \in js /\ slot[s].attached /\ slot[s].job = j /\ Fault("relay")
  <2>1. Evict(p)
    BY <1>6 DEF ReapInput
  <2>2. Nack({slot[s].job : s \in {t \in {u \in Slots : PodOf[u] = p} : slot[t].attached}})
    BY <2>1 DEF Evict
  <2>3. j \in {slot[s].job : s \in {t \in {u \in Slots : PodOf[u] = p} : slot[t].attached}}
    BY <1>3, <2>2
  <2> QED
    BY <2>1, <2>2, <2>3 DEF Evict
<1>7. ASSUME NEW s \in Slots, SlotStep(s)
      PROVE  /\ Nack({j}) /\ slot[s].attached /\ slot[s].job = j
             /\ slot'[s] = IdleSlot
             /\ Fault("kafka") \/ Fault("s3") \/ j \notin inputs
  <2>1. /\ Nack({slot[s].job}) /\ slot[s].attached
        /\ slot'[s] = IdleSlot
        /\ Fault("kafka") \/ Fault("s3") \/ slot[s].job \notin inputs
    <3>1. ASSUME Ack(slot[s].job) PROVE FALSE
      BY <1>1, <3>1 DEF Ack
    <3>2. ASSUME UNCHANGED <<delivery, retries>> PROVE FALSE
      BY <3>2
    <3> QED
      BY <1>7, <3>1, <3>2, SlotStepCases DEF Ends, NoAnswer, AnswerIfAttached, CallFails
  <2> QED
    BY <1>3, <2>1
<1> QED
  BY <1>2, <1>4, <1>5, <1>6, <1>7 DEF RelayNext

(***************************************************************************)
(* Nothing speaks of a job before its message was sent                     *)
(***************************************************************************)

(* Every step keeps it.                                                     *)
LEMMA FreeSlotsNext ==
  ASSUME Typed, FreeSlots, [Next]_vars
  PROVE  FreeSlots'
<1> SUFFICES ASSUME NEW s \in Slots, slot'[s].pc = "idle"
             PROVE  slot'[s] = IdleSlot
  BY DEF FreeSlots, IdleSlot
<1>1. slot \in [Slots -> SlotState] /\ slot[s] \in SlotState
  BY DEF Typed, TypeOK, RelayTypeOK
<1>2. CASE SlotStep(s)
  BY <1>2, SlotStepCases DEF Goes, Ends
<1>3. CASE Timeout(s)
  <2>1. slot[s].attached /\ slot[s].pc = slot'[s].pc
    BY <1>1, <1>3 DEF Timeout, SlotState
  <2> QED
    BY <2>1 DEF FreeSlots, IdleSlot
<1>4. \/ slot'[s] = slot[s] \/ slot'[s] = IdleSlot
      \/ SlotStep(s) \/ Timeout(s)
      \/ \E j \in Jobs : slot'[s] = [pc |-> "get", job |-> j, attached |-> TRUE]
  BY SlotCauses
<1>5. CASE slot'[s] = slot[s]
  BY <1>5 DEF FreeSlots
<1>6. ASSUME NEW j \in Jobs, slot'[s] = [pc |-> "get", job |-> j, attached |-> TRUE]
      PROVE  FALSE
  BY <1>6
<1> QED
  BY <1>2, <1>3, <1>4, <1>5, <1>6

(* A job that was sent stays one.                                           *)
LEMMA SentStays ==
  ASSUME Typed, [Next]_vars, NEW j \in Jobs, Sent(j)
  PROVE  Sent(j)'
<1>1. submit \in [Jobs -> SubmitPc]
  BY DEF Typed, TypeOK, ApiTypeOK
<1>2. ASSUME NEW k \in Jobs, SubmitStep(k) PROVE Sent(j)'
  BY <1>1, <1>2 DEF Sent, SubmitStep, Upload, Save, Publish, MarkUnpublished, DiscardInput, SubmitAt,
     DeleteInput, StoreInput
<1>3. ASSUME NEW p \in Pollers, PollStep(p) \/ \E k \in Jobs : PollRead(p, k)
      PROVE  submit' = submit
  BY <1>3 DEF PollStep, PollRead, PollFetch, PollRespond, DropResult, DropRecord, PollAt,
     DeleteResult
<1>4. ASSUME GatewayRestart PROVE Sent(j)'
  BY <1>1, <1>4 DEF Sent, GatewayRestart, ApiCrash
<1> QED
  BY <1>2, <1>3, <1>4 DEF Sent, Next, ApiNext, RelayNext, ConsumerNext, RecordExpires, apiVars, vars

(* Every step keeps SentFirst.                                              *)
LEMMA SentFirstNext ==
  ASSUME Typed, FreeSlots, SentFirst, [Next]_vars
  PROVE  SentFirst'
<1>1. Typed'
  BY TypedNext
<1>2. ASSUME NEW j \in Jobs, delivery'[j] # "unsent" PROVE Sent(j)'
  <2>1. CASE delivery'[j] = delivery[j]
    BY <1>2, <2>1, SentStays DEF SentFirst
  <2>2. CASE submit'[j] \in {"accepted", "unpublished", "discard"}
    BY <2>2 DEF Sent
  <2>3. ASSUME NEW s \in Slots, slot[s].job = j, slot[s].pc # "idle" PROVE Sent(j)'
    BY <2>3, SentStays DEF SentFirst
  <2>4. ASSUME delivery'[j] # delivery[j], delivery'[j] = "exhausted" PROVE Sent(j)'
    <3>1. ASSUME NEW p \in Pods, Defer(j, p) PROVE Sent(j)'
      BY <3>1, SentStays DEF SentFirst, Defer, Deliverable
    <3>2. ASSUME NEW s \in Slots, slot[s].attached, slot[s].job = j PROVE Sent(j)'
      BY <2>3, <3>2 DEF FreeSlots, IdleSlot
    <3> QED
      BY <2>4, <3>1, <3>2, NackCauses
  <2> QED
    BY <2>1, <2>2, <2>3, <2>4, StageCauses DEF Ends
<1>3. ASSUME NEW s \in Slots, slot'[s].pc # "idle" PROVE Sent(slot[s].job)'
  <2>1. slot'[s].job \in Jobs
    BY <1>1, <1>3 DEF Typed, WellFormed
  <2>2. CASE slot[s].pc # "idle" /\ slot'[s].job = slot[s].job
    BY <2>1, <2>2, SentStays DEF SentFirst, Sent
  <2>3. CASE SlotStep(s)
    <3>1. slot'[s] # IdleSlot
      BY <1>3 DEF IdleSlot
    <3>2. slot[s].pc # "idle" /\ slot'[s].job = slot[s].job
      BY <2>3, <3>1, SlotStepCases DEF Goes, Ends
    <3> QED
      BY <2>2, <3>2
  <2>4. CASE Timeout(s)
    BY <1>3, <2>2, <2>4 DEF Timeout, Typed, TypeOK, RelayTypeOK, SlotState
  <2>5. ASSUME NEW j \in Jobs, slot'[s] = [pc |-> "get", job |-> j, attached |-> TRUE],
               Deliverable(j)
        PROVE  Sent(slot[s].job)'
    <3>1. Sent(j)'
      BY <2>5, SentStays DEF SentFirst, Deliverable
    <3> QED
      BY <2>5, <3>1 DEF Sent
  <2>6. slot'[s] # IdleSlot
    BY <1>3 DEF IdleSlot
  <2> QED
    BY <1>3, <2>2, <2>3, <2>4, <2>5, <2>6, SlotCauses
<1>4. ASSUME NEW i \in 1..Len(log') PROVE Sent(log[i].job)'
  <2>1. log'[i].job \in Jobs
    <3>1. log' \in Seq(Event)
      BY <1>1 DEF Typed, TypeOK, PlatformTypeOK
    <3>2. log'[i] \in Event
      BY <3>1
    <3> QED
      BY <3>2 DEF Event
  <2>2. CASE i \in 1..Len(log) /\ log'[i] = log[i]
    BY <2>1, <2>2, SentStays DEF SentFirst, Sent
  <2>3. CASE ~(i \in 1..Len(log) /\ log'[i] = log[i])
    <3>1. PICK s \in Slots : slot[s].pc # "idle" /\ log'[i].job = slot[s].job
      BY <2>3, EventCauses
    <3> QED
      BY <2>1, <3>1, SentStays DEF SentFirst, Sent
  <2> QED
    BY <2>2, <2>3
<1> QED
  BY <1>2, <1>3, <1>4 DEF SentFirst

(* What holds whatever goes wrong.                                          *)
Launched == Inv /\ FreeSlots /\ SentFirst

(* They hold in every reachable state.                                      *)
LEMMA LaunchedInvariant == Spec => []Launched
<1>1. Init => FreeSlots /\ SentFirst
  BY DEF Init, PlatformInit, RelayInit, FreeSlots, SentFirst, IdleSlot
<1>2. Inv => Typed
  BY DEF Inv, Typed
<1>3. Inv /\ FreeSlots /\ SentFirst /\ [Next]_vars => (FreeSlots /\ SentFirst)'
  BY <1>2, FreeSlotsNext, SentFirstNext
<1> QED
  BY <1>1, <1>3, Invariance, PTL DEF Spec, Launched

(***************************************************************************)
(* Results are answered before they are deleted                            *)
(***************************************************************************)

(* Only a poll's answer gives a client something.                           *)
LEMMA AnswerCauses ==
  ASSUME Typed, [Next]_vars, NEW j \in Jobs, answered'[j] # answered[j]
  PROVE  \E p \in Pollers : PollRespond(p) /\ poll[p].job = j
<1>1. answered \in [Jobs -> Answer]
  BY DEF Typed, TypeOK, ApiTypeOK
<1>2. ASSUME ApiNext
      PROVE  UNCHANGED answered \/ \E p \in Pollers : PollRespond(p)
  BY <1>2 DEF ApiNext, SubmitStep, Upload, Save, Publish, MarkUnpublished, DiscardInput, SubmitAt,
     PollRead, PollStep, PollFetch, DropResult, DropRecord, DeleteInput, StoreInput, DeleteResult
<1>3. PICK p \in Pollers : PollRespond(p)
  BY <1>2 DEF Next, RelayNext, ConsumerNext, GatewayRestart, ApiCrash, RecordExpires,
     apiVars, vars
<1> QED
  BY <1>1, <1>3 DEF PollRespond

(* A poll moves by its own steps, or is lost with its process.              *)
LEMMA PollCauses ==
  ASSUME Typed, [Next]_vars, NEW p \in Pollers, poll'[p] # poll[p]
  PROVE  PollStep(p) \/ (\E j \in Jobs : PollRead(p, j)) \/ poll'[p] = IdlePoll
<1>1. poll \in [Pollers -> PollState]
  BY DEF Typed, TypeOK, ApiTypeOK
<1>2. ASSUME NEW q \in Pollers, PollStep(q) \/ \E j \in Jobs : PollRead(q, j)
      PROVE  q = p
  <2>1. PICK from, next : PollAt(q, from, next)
    BY <1>2 DEF PollStep, PollRead, PollFetch, PollRespond, DropResult, DropRecord
  <2> QED
    BY <1>1, <2>1 DEF PollAt
<1>3. ASSUME NEW j \in Jobs, SubmitStep(j) PROVE UNCHANGED poll
  BY <1>3 DEF SubmitStep, Upload, Save, Publish, MarkUnpublished, DiscardInput, SubmitAt,
     DeleteInput, StoreInput
<1>4. CASE ApiNext
  BY <1>2, <1>3, <1>4 DEF ApiNext
<1>5. CASE GatewayRestart
  BY <1>5 DEF GatewayRestart, ApiCrash
<1> QED
  BY <1>4, <1>5 DEF Next, RelayNext, ConsumerNext, RecordExpires, apiVars, vars

(* S3 answers, and clients wait for their answers.                          *)
NoLoss == Without({"s3", "client"})

(* Every step keeps AnswersInFull.                                          *)
LEMMA AnswersInFullNext ==
  ASSUME NoLoss, Inv, AnswersInFull, [Next]_vars
  PROVE  AnswersInFull'
<1>1. Typed /\ Typed'
  BY TypedNext DEF Inv, Typed
<1>2. answered \in [Jobs -> Answer] /\ poll \in [Pollers -> PollState]
  BY <1>1 DEF Typed, TypeOK, ApiTypeOK
<1>3. ~Fault("s3") /\ ~Fault("client")
  BY DEF NoLoss, Without, Fault
<1>4. ASSUME NEW j \in Jobs
      PROVE  /\ answered'[j] # "bare"
             /\ answered[j] = "full" => answered'[j] = "full"
  <2>1. CASE answered'[j] = answered[j]
    BY <2>1 DEF AnswersInFull
  <2>2. CASE answered'[j] # answered[j]
    <3>1. PICK p \in Pollers : PollRespond(p) /\ poll[p].job = j
      BY <1>1, <2>2, AnswerCauses
    <3>2. poll[p].pc = "respond" /\ (poll[p].got \/ answered[j] = "full")
      BY <3>1 DEF PollRespond, PollAt, AnswersInFull
    <3>3. answered' = [answered EXCEPT ![j] = "full"]
      BY <1>3, <3>1, <3>2 DEF PollRespond
    <3> QED
      BY <1>2, <3>3
  <2> QED
    BY <2>1, <2>2
<1>5. ASSUME NEW p \in Pollers, poll'[p].pc = "fetch"
      PROVE  Stored(poll[p].job)'
  <2>1. poll'[p].job \in Jobs
    BY <1>1, <1>5 DEF Typed, WellFormed
  <2>2. CASE poll'[p] = poll[p]
    BY <1>5, <2>1, <2>2, StoredStays DEF AnswersInFull, Stored
  <2>3. ASSUME NEW j \in Jobs, PollRead(p, j) PROVE Stored(poll[p].job)'
    <3>1. record[j] = "completed" /\ poll'[p].job = j
      BY <1>2, <2>3 DEF PollRead, PollAt
    <3>2. Stored(j)'
      BY <3>1, StoredStays DEF Inv, ResultFirst
    <3> QED
      BY <3>1, <3>2 DEF Stored
  <2>4. ~PollStep(p)
    BY <1>2, <1>5 DEF PollStep, PollFetch, PollRespond, DropResult, DropRecord, PollAt, IdlePoll
  <2>5. poll'[p] # IdlePoll
    BY <1>5 DEF IdlePoll
  <2> QED
    BY <1>1, <2>2, <2>3, <2>4, <2>5, PollCauses
<1>6. ASSUME NEW p \in Pollers, poll'[p].pc = "respond"
      PROVE  poll'[p].got \/ answered'[poll'[p].job] = "full"
  <2>1. poll'[p].job \in Jobs
    BY <1>1, <1>6 DEF Typed, WellFormed
  <2>2. CASE poll'[p] = poll[p]
    BY <1>4, <1>6, <2>1, <2>2 DEF AnswersInFull
  <2>3. ASSUME PollStep(p) PROVE poll'[p].got \/ answered'[poll'[p].job] = "full"
    <3>1. PollFetch(p)
      BY <1>2, <1>6, <2>3 DEF PollStep, PollRespond, DropResult, DropRecord, PollAt, IdlePoll
    <3>2. CASE poll[p].job \in results
      BY <1>2, <1>3, <3>1, <3>2 DEF PollFetch, PollAt
    <3>3. CASE poll[p].job \notin results
      <4>1. poll[p].pc = "fetch" /\ poll'[p].job = poll[p].job
        BY <1>2, <3>1 DEF PollFetch, PollAt
      <4>2. answered[poll[p].job] # "never"
        BY <3>3, <4>1 DEF AnswersInFull, Stored
      <4>3. answered[poll[p].job] = "full"
        BY <1>2, <2>1, <4>1, <4>2 DEF AnswersInFull, Answer
      <4> QED
        BY <1>4, <2>1, <4>1, <4>3
    <3> QED
      BY <3>2, <3>3
  <2>4. ASSUME NEW j \in Jobs, PollRead(p, j) PROVE FALSE
    BY <1>2, <1>6, <2>4 DEF PollRead, PollAt
  <2>5. poll'[p] # IdlePoll
    BY <1>6 DEF IdlePoll
  <2> QED
    BY <1>1, <2>2, <2>3, <2>4, <2>5, PollCauses
<1> QED
  BY <1>4, <1>5, <1>6 DEF AnswersInFull

(* "Clean up after delivering the result" (jobs.go:330): where S3 and the   *)
(* clients stay, a completed job's result is deleted only once a client has *)
(* been given it.  With either fault the property is false: GetStatus       *)
(* cleans up behind an answer that has no result or reached nobody.         *)
THEOREM ResultsDelivered == NoLoss => (Spec => []NoResultLost)
<1> SUFFICES ASSUME NoLoss PROVE Spec => []NoResultLost
  OBVIOUS
<1>1. Init => AnswersInFull
  BY DEF Init, ApiInit, AnswersInFull, IdlePoll
<1>2. Inv /\ AnswersInFull /\ [Next]_vars => AnswersInFull'
  BY AnswersInFullNext
<1>3. Inv /\ AnswersInFull => NoResultLost
  <2> SUFFICES ASSUME Inv, AnswersInFull, NEW j \in Jobs, record[j] = "completed", j \notin results
               PROVE  answered[j] = "full"
    BY DEF NoResultLost
  <2>1. answered[j] \in Answer
    BY DEF Inv, TypeOK, ApiTypeOK
  <2> QED
    BY <2>1 DEF Inv, ResultFirst, Stored, AnswersInFull, Answer
<1> QED
  BY <1>1, <1>2, <1>3, Invariance, PTL DEF Spec

(***************************************************************************)
(* Webhooks                                                                *)
(***************************************************************************)

(* The event at an offset stays what it is.                                 *)
LEMMA LogStays ==
  ASSUME Typed, [Next]_vars, NEW i \in 1..Len(log)
  PROVE  i \in 1..Len(log') /\ log'[i] = log[i]
<1>1. Len(log) \in Nat
  BY LogFacts
<1>2. ASSUME NEW s \in Slots, NEW o \in Outcome, slot[s].job \in Jobs,
             PublishResultEvent(slot[s].job, o)
      PROVE  i \in 1..Len(log') /\ log'[i] = log[i]
  <2>1. Len(log') = Len(log) + 1 /\ log'[i] = log[i]
    BY <1>2, AppendTyped DEF Typed, TypeOK
  <2> QED
    BY <1>1, <2>1
<1> QED
  BY <1>2, LogChanges DEF Outcome

(* Offsets lead to events of jobs, after a step as before it.               *)
LEMMA OffsetsNext ==
  ASSUME Typed, [Next]_vars
  PROVE  /\ Len(log') \in Nat
         /\ \A i \in 1..Len(log') : log'[i].job \in Jobs /\ log'[i].status \in Outcome
         /\ cons'.pc # "fetch" => cons'.at \in 1..Len(log')
         /\ \A h \in hooks' : h.off \in 1..Len(log')
<1>1. Typed'
  BY TypedNext
<1>2. log' \in Seq(Event) /\ cons'.at \in Nat
  BY <1>1 DEF Typed, TypeOK, PlatformTypeOK, ConsumerTypeOK
<1>3. \A i \in 1..Len(log') : log'[i] \in Event
  BY <1>2
<1> QED
  BY <1>1, <1>2, <1>3 DEF Typed, WellFormed, Event

(* What changes the consume loop.                                           *)
LEMMA ConsCauses ==
  ASSUME Typed, [Next]_vars, cons' # cons
  PROVE  (ConsumerStep \/ ConsumerRestart) /\ UNCHANGED log
BY DEF Next, ApiNext, RelayNext, ConsumerNext, GatewayRestart, RecordExpires, HookStep,
   LoadResult, PostWebhook, consumerVars, loopVars, vars, ConsumerStep, Fetch, Update, Read, Notify,
   Commit, platformVars

(* What starts or changes a webhook goroutine.                              *)
LEMMA HookCauses ==
  ASSUME Typed, [Next]_vars, NEW h \in hooks', h \notin hooks
  PROVE  /\ UNCHANGED <<log, results, answered>>
         /\ \/ \E g \in hooks : (LoadResult(g) \/ PostWebhook(g)) /\ h.off = g.off /\ h.status = g.status
            \/ Notify /\ h.off = cons.at /\ h.status = cons.got /\ h.pc = "load"
<1>1. hooks \subseteq Hook
  BY DEF Typed, TypeOK, ConsumerTypeOK
<1>2. ConsumerNext
  BY DEF Next, ApiNext, RelayNext, GatewayRestart, ConsumerRestart, RecordExpires, consumerVars,
     loopVars, vars
<1>3. UNCHANGED <<log, results, answered>>
  BY <1>2 DEF ConsumerNext, ConsumerStep, Fetch, Update, Read, Notify, Commit, HookStep, LoadResult,
     PostWebhook, platformVars, apiVars
<1>4. CASE ConsumerStep
  <2>1. Notify
    BY <1>4 DEF ConsumerStep, Fetch, Update, Read, Commit
  <2>2. h = [off |-> cons.at, status |-> cons.got, pc |-> "load", payload |-> FALSE, attempt |-> 1]
    BY <2>1 DEF Notify
  <2> QED
    BY <1>3, <2>1, <2>2
<1>5. CASE HookStep
  <2>1. PICK g \in hooks : LoadResult(g) \/ PostWebhook(g)
    BY <1>5 DEF HookStep
  <2>2. g \in Hook
    BY <1>1
  <2>3. \/ \E got : h = [g EXCEPT !.pc = "post", !.payload = got]
        \/ h = [g EXCEPT !.attempt = @ + 1]
    BY <2>1 DEF LoadResult, PostWebhook
  <2>4. h.off = g.off /\ h.status = g.status
    BY <2>2, <2>3 DEF Hook
  <2> QED
    BY <1>3, <2>1, <2>4
<1> QED
  BY <1>2, <1>4, <1>5 DEF ConsumerNext

(* S3 answers.                                                              *)
NoS3Fault == Without({"s3"})

(* Every step keeps AnnouncesStored.                                        *)
LEMMA AnnouncesStoredNext ==
  ASSUME NoS3Fault, Inv, AnnouncesStored, [Next]_vars
  PROVE  AnnouncesStored'
<1>1. Typed /\ Typed'
  BY TypedNext DEF Inv, Typed
<1>2. cons \in [pc : ConsPc, at : Nat, got : Status] /\ hooks \subseteq Hook
  BY <1>1 DEF Typed, TypeOK, ConsumerTypeOK
<1>3. ASSUME cons'.pc = "notify", cons'.got = "completed"
      PROVE  Stored(Current.job)'
  <2>1. Current'.job \in Jobs
    BY <1>1, <1>3, OffsetsNext DEF Current
  <2>2. CASE cons' = cons
    <3>1. cons.at \in 1..Len(log) 
      BY <1>1, <1>2, <1>3, <2>2, LogFacts DEF Typed, WellFormed
    <3>2. Current' = Current
      BY <1>1, <2>2, <3>1, LogStays DEF Current
    <3>3. Stored(Current.job)
      BY <1>3, <2>2 DEF AnnouncesStored
    <3>4. Stored(Current.job)'
      BY <2>1, <3>2, <3>3, StoredStays DEF Stored
    <3> QED
      BY <3>4
  <2>3. CASE cons' # cons
    <3>1. (ConsumerStep \/ ConsumerRestart) /\ UNCHANGED log
      BY <1>1, <2>3, ConsCauses
    <3>2. Read /\ record[Current.job] # "none"
      <4>1. ASSUME NEW from, NEW to, ConsumerAt(from, to) PROVE cons'.pc = to
        BY <1>2, <4>1 DEF ConsumerAt
      <4>2. ~ConsumerRestart
        <5>1. ASSUME NEW at, cons' = [pc |-> "fetch", got |-> "pending", at |-> at] PROVE FALSE
          BY <1>3, <5>1
        <5> QED
          BY <5>1 DEF ConsumerRestart
      <4>3. ~Fetch
        BY <1>2, <1>3 DEF Fetch
      <4>4. ~Update /\ ~Notify /\ ~Commit
        BY <1>3, <4>1 DEF Update, Notify, Commit
      <4>5. Read
        BY <3>1, <4>2, <4>3, <4>4 DEF ConsumerStep
      <4> QED
        BY <1>3, <4>1, <4>5 DEF Read
    <3>3. cons' = [cons EXCEPT !.pc = "notify", !.got = record[Current.job]]
      <4>1. ASSUME ConsumerAt("read", "fetch") PROVE FALSE
        BY <1>2, <1>3, <4>1 DEF ConsumerAt
      <4> QED
        BY <3>2, <4>1 DEF Read
    <3>4. record[Current.job] = "completed" /\ cons'.at = cons.at
      BY <1>2, <1>3, <3>3
    <3>5. Current' = Current
      BY <3>1, <3>4 DEF Current
    <3>6. Stored(Current.job)
      BY <2>1, <3>4, <3>5 DEF Inv, ResultFirst
    <3>7. Stored(Current.job)'
      BY <2>1, <3>5, <3>6, StoredStays DEF Stored
    <3> QED
      BY <3>7
  <2> QED
    BY <2>2, <2>3
<1>4. ASSUME NEW h \in hooks', h.status = "completed"
      PROVE  /\ Stored(log[h.off].job)'
             /\ h.pc = "post" /\ ~h.payload => answered'[log'[h.off].job] # "never"
  <2>1. h.off \in 1..Len(log') /\ log'[h.off].job \in Jobs
    BY <1>1, OffsetsNext
  <2>2. CASE h \in hooks
    <3>1. h.off \in 1..Len(log) /\ log'[h.off] = log[h.off]
      BY <1>1, <2>2, LogStays DEF Typed, WellFormed
    <3>2. Stored(log[h.off].job)
      BY <1>4, <2>2 DEF AnnouncesStored
    <3>3. h.pc = "post" /\ ~h.payload => answered[log[h.off].job] # "never"
      BY <1>4, <2>2 DEF AnnouncesStored, WebhookCarriesResult
    <3> QED
      BY <1>1, <2>1, <3>1, <3>2, <3>3, StoredStays, AnsweredStays DEF Stored
  <2>3. CASE h \notin hooks
    <3>1. UNCHANGED <<log, results, answered>>
      BY <1>1, <2>3, HookCauses
    <3>2. CASE Notify /\ h.off = cons.at /\ h.status = cons.got /\ h.pc = "load"
      BY <1>4, <3>1, <3>2 DEF Notify, ConsumerAt, AnnouncesStored, Current, Stored
    <3>3. ASSUME NEW g \in hooks, LoadResult(g) \/ PostWebhook(g),
                 h.off = g.off, h.status = g.status
          PROVE  /\ Stored(log[h.off].job)'
                 /\ h.pc = "post" /\ ~h.payload => answered'[log'[h.off].job] # "never"
      <4>1. Stored(log[g.off].job) /\ g \in Hook
        BY <1>2, <1>4, <3>3 DEF AnnouncesStored
      <4>2. CASE LoadResult(g)
        <5>1. hooks' = (hooks \ {g}) \cup
                 {[g EXCEPT !.pc = "post", !.payload = g.status = "completed" /\ log[g.off].job \in results]}
          BY <4>2 DEF LoadResult, NoS3Fault, Without, Fault
        <5>2. h = [g EXCEPT !.pc = "post", !.payload = g.status = "completed" /\ log[g.off].job \in results]
          BY <2>3, <5>1
        <5>3. h.payload = (log[g.off].job \in results)
          BY <1>4, <3>3, <4>1, <5>2 DEF Hook
        <5> QED
          BY <3>1, <3>3, <4>1, <5>3 DEF Stored
      <4>3. CASE PostWebhook(g)
        <5>1. g.pc = "post" /\ h = [g EXCEPT !.attempt = @ + 1]
          BY <2>3, <4>3 DEF PostWebhook
        <5>2. h.payload = g.payload
          BY <4>1, <5>1 DEF Hook
        <5>3. ~g.payload => answered[log[g.off].job] # "never"
          BY <1>4, <3>3, <5>1 DEF AnnouncesStored, WebhookCarriesResult
        <5> QED
          BY <3>1, <3>3, <4>1, <5>2, <5>3 DEF Stored
      <4> QED
        BY <3>3, <4>2, <4>3
    <3> QED
      BY <1>1, <2>3, <3>2, <3>3, HookCauses
  <2> QED
    BY <2>2, <2>3
<1> QED
  BY <1>3, <1>4 DEF AnnouncesStored, WebhookCarriesResult

(* A webhook for a completed job carries the result, unless a GetStatus has *)
(* answered for the job and cleaned up after it, or S3 does not answer      *)
(* (consumer.go:226-233): the consumer reads the record it announces, and   *)
(* that is completed only after the result was stored.                      *)
THEOREM WebhooksCarryResults == NoS3Fault => (Spec => []WebhookCarriesResult)
<1> SUFFICES ASSUME NoS3Fault PROVE Spec => []WebhookCarriesResult
  OBVIOUS
<1>1. Init => AnnouncesStored
  BY DEF Init, ConsumerInit, AnnouncesStored, WebhookCarriesResult
<1>2. Inv /\ AnnouncesStored /\ [Next]_vars => AnnouncesStored'
  BY AnnouncesStoredNext
<1>3. AnnouncesStored => WebhookCarriesResult
  BY DEF AnnouncesStored
<1> QED
  BY <1>1, <1>2, <1>3, Invariance, PTL DEF Spec

(***************************************************************************)
(* The relay answers 200 after it has published                            *)
(***************************************************************************)

(* Every publish succeeds, and the KafkaSource waits for the answer.        *)
Published == Without({"kafka", "timeout"})

(* Then an event that is published is there.                                *)
LEMMA EventPublished ==
  ASSUME Typed, NEW j \in Jobs, NEW status \in Outcome, PublishResultEvent(j, status)
  PROVE  HasEvent(j)'
<1>1. Len(log) \in Nat
  BY LogFacts
<1>2. Len(log') = Len(log) + 1 /\ log'[Len(log')] = [job |-> j, status |-> status]
  BY AppendTyped DEF Typed, TypeOK
<1> QED
  BY <1>1, <1>2 DEF HasEvent

(* Every step keeps AnswersAfterEvent.                                      *)
LEMMA AnswersAfterEventNext ==
  ASSUME Published, Inv, AnswersAfterEvent, [Next]_vars
  PROVE  AnswersAfterEvent'
<1>1. Typed /\ Typed'
  BY TypedNext DEF Inv, Typed
<1>2. ~Fault("kafka") /\ ~Fault("timeout")
  BY DEF Published, Without, Fault
<1>3. slot \in [Slots -> SlotState]
  BY <1>1 DEF Typed, TypeOK, RelayTypeOK
<1>4. \A j \in Jobs : HasEvent(j) => HasEvent(j)'
  BY <1>1, EventsStay
<1>5. ASSUME NEW s \in Slots, slot'[s].pc # "idle"
      PROVE  /\ slot'[s].attached
             /\ slot'[s].pc \in {"deleteInput", "respond", "reply"} => HasEvent(slot[s].job)'
  <2>1. CASE slot'[s] = slot[s]
    <3>1. slot[s].job \in Jobs
      BY <1>1, <1>5, <2>1 DEF Typed, WellFormed
    <3> QED
      BY <1>4, <1>5, <2>1, <3>1 DEF AnswersAfterEvent, HasEvent
  <2>2. CASE SlotStep(s)
    <3>1. slot[s].job \in Jobs /\ slot[s].pc # "idle"
      BY <1>1, <2>2, SlotStepMoves
    <3>2. slot'[s] # IdleSlot /\ slot[s].attached
      BY <1>5, <3>1 DEF IdleSlot, AnswersAfterEvent
    <3>3. ~CallFails(s, "kafka")
      BY <1>2, <3>2 DEF CallFails
    <3>4. slot'[s].job = slot[s].job /\ slot'[s].attached
      BY <1>1, <2>2, <3>2, SlotStepCases DEF Goes, Ends
    <3>5. \/ slot'[s].pc \notin {"deleteInput", "respond", "reply"}
          \/ PublishResultEvent(slot[s].job, "failed")
          \/ PublishResultEvent(slot[s].job, "completed")
          \/ slot[s].pc \in {"deleteInput", "respond"}
      BY <1>1, <2>2, <3>2, <3>3, SlotStepCases DEF Goes, Ends
    <3>6. ASSUME NEW j \in Jobs, j = slot[s].job,
                 slot'[s].pc \in {"deleteInput", "respond", "reply"}
          PROVE  HasEvent(j)'
      BY <1>1, <1>4, <3>5, <3>6, EventPublished DEF AnswersAfterEvent, Outcome
    <3> QED
      BY <3>1, <3>4, <3>6 DEF HasEvent
  <2>3. ASSUME NEW j \in Jobs, slot'[s] = [pc |-> "get", job |-> j, attached |-> TRUE]
        PROVE  slot'[s].attached /\ slot'[s].pc \notin {"deleteInput", "respond", "reply"}
    BY <2>3
  <2>4. ~Timeout(s) /\ slot'[s] # IdleSlot
    BY <1>2, <1>5 DEF Timeout, IdleSlot
  <2> QED
    BY <1>1, <2>1, <2>2, <2>3, <2>4, SlotCauses
<1>6. ASSUME NEW p \in Pods, NEW j \in reapers'[p] PROVE HasEvent(j)'
  <2>1. j \in Jobs
    BY <1>1 DEF Typed, TypeOK, RelayTypeOK
  <2>2. CASE j \in reapers[p]
    BY <1>4, <2>1, <2>2 DEF AnswersAfterEvent
  <2>3. CASE j \notin reapers[p]
    BY <1>1, <1>4, <2>1, <2>3, ReaperStarts DEF AnswersAfterEvent
  <2> QED
    BY <2>2, <2>3
<1>7. ASSUME NEW j \in Jobs, delivery'[j] = "acked" PROVE HasEvent(j)'
  <2>1. CASE delivery'[j] = delivery[j]
    BY <1>4, <1>7, <2>1 DEF AnswersAfterEvent, AckedHasEvent
  <2>2. ASSUME NEW s \in Slots, Ends(s, "reply"), slot[s].job = j PROVE HasEvent(j)'
    BY <1>4, <2>2 DEF Ends, AnswersAfterEvent
  <2> QED
    BY <1>1, <1>7, <2>1, <2>2, StageCauses
<1>8. \A s \in Slots : slot'[s].pc # "idle" => slot'[s].attached
  BY <1>5
<1>9. \A s \in Slots :
        slot'[s].pc \in {"deleteInput", "respond", "reply"} => HasEvent(slot[s].job)'
  BY <1>5
<1> QED
  BY <1>6, <1>7, <1>8, <1>9 DEF AnswersAfterEvent, AckedHasEvent

(* So it holds in every reachable state.                                    *)
LEMMA AnswersAfterEventInvariant == Published => (Spec => []AnswersAfterEvent)
<1> SUFFICES ASSUME Published PROVE Spec => []AnswersAfterEvent
  OBVIOUS
<1>1. Init => AnswersAfterEvent
  BY DEF Init, PlatformInit, RelayInit, AnswersAfterEvent, AckedHasEvent, IdleSlot
<1>2. Inv /\ AnswersAfterEvent /\ [Next]_vars => AnswersAfterEvent'
  BY AnswersAfterEventNext
<1> QED
  BY <1>1, <1>2, Invariance, PTL DEF Spec

(* "200: job processed, success or failure published" (relay.go:57,         *)
(* ARCHITECTURE.md:280): a message the KafkaSource has committed has its    *)
(* outcome on the result topic, if every publish succeeds and the           *)
(* KafkaSource waits for the answer.  With either fault the property is     *)
(* false: an error of the last publish is logged and answered 200.          *)
THEOREM AcksFollowEvents == Published => (Spec => []AckedHasEvent)
<1>1. AnswersAfterEvent => AckedHasEvent
  BY DEF AnswersAfterEvent
<1> QED
  BY <1>1, AnswersAfterEventInvariant, PTL

(***************************************************************************)
(* The consumer commits what it has stored                                 *)
(***************************************************************************)

(* What writes a record.                                                    *)
LEMMA RecordCauses ==
  ASSUME Typed, [Next]_vars, NEW j \in Jobs, record'[j] # record[j]
  PROVE  \/ /\ submit[j] = "uploaded"
            /\ record'[j] = "pending"
            /\ submit'[j] \in {"saved", "rejected"}
         \/ submit[j] = "unpublished" /\ record'[j] = "failed"
         \/ /\ cons.pc = "update" /\ Current.job = j
            /\ record[j] # "none" /\ record'[j] = Current.status
         \/ record'[j] = "none"
<1>1. record \in [Jobs -> Status \cup {"none"}] /\ submit \in [Jobs -> SubmitPc]
  BY DEF Typed, TypeOK, PlatformTypeOK, ApiTypeOK
<1>2. ASSUME NEW k \in Jobs, SubmitStep(k)
      PROVE  \/ /\ submit[j] = "uploaded" /\ record'[j] = "pending"
                /\ submit'[j] \in {"saved", "rejected"}
             \/ submit[j] = "unpublished" /\ record'[j] = "failed"
  <2>1. CASE Save(k)
    BY <1>1, <2>1 DEF Save, SaveJob, SubmitAt
  <2>2. CASE MarkUnpublished(k)
    BY <1>1, <2>2 DEF MarkUnpublished, UpdateJobResult, SubmitAt
  <2>3. ASSUME Upload(k) \/ Publish(k) \/ DiscardInput(k) PROVE FALSE
    BY <2>3 DEF Upload, Publish, DiscardInput, DeleteInput, StoreInput
  <2> QED
    BY <1>2, <2>1, <2>2, <2>3 DEF SubmitStep
<1>3. ASSUME NEW p \in Pollers, PollStep(p) \/ \E k \in Jobs : PollRead(p, k)
      PROVE  record'[j] = "none"
  BY <1>1, <1>3 DEF PollStep, PollRead, PollFetch, PollRespond, DropResult, DropRecord,
     DeleteJob, platformVars, DeleteResult
<1>4. ASSUME RelayNext PROVE FALSE
  <2>1. ASSUME NEW k \in Jobs, DeliverStep(k) PROVE FALSE
    BY <2>1 DEF DeliverStep, Defer, ServeHTTP, ServeHTTPSync, Begin, platformVars
  <2>2. ASSUME NEW s \in Slots, Timeout(s) PROVE FALSE
    BY <2>2 DEF Timeout
  <2>3. ASSUME NEW q \in Pods, ReapInput(q) \/ Evict(q) PROVE FALSE
    BY <2>3 DEF ReapInput, Evict, DeleteInput
  <2>4. ASSUME NEW s \in Slots, SlotStep(s) PROVE FALSE
    BY <2>4, SlotStepServices
  <2> QED
    BY <1>4, <2>1, <2>2, <2>3, <2>4 DEF RelayNext
<1>5. ASSUME ConsumerNext
      PROVE  /\ cons.pc = "update" /\ Current.job = j
             /\ record[j] # "none" /\ record'[j] = Current.status
  <2>1. Update
    BY <1>5 DEF ConsumerNext, ConsumerStep, Fetch, Read, Notify, Commit, HookStep, LoadResult,
       PostWebhook, platformVars
  <2>2. cons.pc = "update"
    BY <2>1 DEF Update, ConsumerAt
  <2>3. UpdateJobResult(Current.job, Current.status)
    BY <2>1 DEF Update
  <2> QED
    BY <1>1, <2>2, <2>3 DEF UpdateJobResult
<1>6. ASSUME RecordExpires PROVE record'[j] = "none"
  BY <1>1, <1>6 DEF RecordExpires, Expire, DeleteJob
<1> QED
  BY <1>2, <1>3, <1>4, <1>5, <1>6 DEF Next, ApiNext, GatewayRestart, vars, platformVars

(* A job with an event that is not pending is not pending again.            *)
LEMMA NeverPendingAgain ==
  ASSUME Launched, [Next]_vars, NEW i \in 1..Len(log), record[log[i].job] # "pending"
  PROVE  /\ i \in 1..Len(log') /\ log'[i] = log[i]
         /\ record'[log[i].job] # "pending"
<1>1. Typed
  BY DEF Launched, Inv, Typed
<1>2. i \in 1..Len(log') /\ log'[i] = log[i] /\ log[i].job \in Jobs
  BY <1>1, LogStays, LogFacts
<1>3. Sent(log[i].job)
  BY DEF Launched, SentFirst
<1>4. CASE record'[log[i].job] = record[log[i].job]
  BY <1>2, <1>4
<1>5. CASE record'[log[i].job] # record[log[i].job]
  <2>1. \/ record'[log[i].job] \in {"failed", "none"}
        \/ cons.pc = "update" /\ record'[log[i].job] = Current.status
    BY <1>1, <1>2, <1>3, <1>5, RecordCauses DEF Sent
  <2> QED
    BY <1>1, <1>2, <2>1, LogFacts DEF Outcome
<1> QED
  BY <1>2, <1>4, <1>5

(* What the loop has stored, and what it commits for it.                    *)
StoredThenCommitted ==
  /\ cons.pc \in {"read", "notify", "commit"} => record[Current.job] # "pending"
  /\ LastCommitIsStored

(* Every step keeps StoredThenCommitted.                                    *)
LEMMA StoredThenCommittedNext ==
  ASSUME Launched, StoredThenCommitted, [Next]_vars
  PROVE  StoredThenCommitted'
<1>1. Typed
  BY DEF Launched, Inv, Typed
<1>2. /\ Len(log) \in Nat /\ cons.at \in Nat /\ committed \in Nat
      /\ cons.at <= Len(log) /\ committed <= cons.at
      /\ cons.pc # "fetch" => cons.at >= 1
      /\ cons \in [pc : ConsPc, at : Nat, got : Status]
  BY <1>1 DEF Typed, WellFormed, TypeOK, PlatformTypeOK, ConsumerTypeOK
<1>3. ASSUME cons'.pc \in {"read", "notify", "commit"}
      PROVE  record'[Current'.job] # "pending"
  <2>1. CASE Update
    <3>1. cons.at \in 1..Len(log) /\ cons'.at = cons.at /\ log' = log
      BY <1>2, <2>1 DEF Update, ConsumerAt
    <3>2. Current' = Current /\ Current.job \in Jobs /\ Current.status # "pending"
      BY <1>1, <2>1, <3>1, LogFacts DEF Current, Update, ConsumerAt, Outcome
    <3>3. record \in [Jobs -> Status \cup {"none"}]
      BY <1>1 DEF Typed, TypeOK, PlatformTypeOK
    <3>4. UpdateJobResult(Current.job, Current.status)
      BY <1>2, <1>3, <2>1 DEF Update, ConsumerAt
    <3> QED
      BY <3>2, <3>3, <3>4 DEF UpdateJobResult
  <2>2. CASE ~Update
    <3>1. cons.pc \in {"read", "notify", "commit"} /\ cons'.at = cons.at
      <4>1. CASE cons' = cons
        BY <1>3, <4>1
      <4>2. ASSUME ConsumerRestart \/ Fetch PROVE FALSE
        <5>1. CASE ConsumerRestart
          BY <1>3, <5>1 DEF ConsumerRestart
        <5>2. CASE Fetch
          BY <1>2, <1>3, <5>2 DEF Fetch
        <5> QED
          BY <4>2, <5>1, <5>2
      <4>3. CASE Read \/ Notify \/ Commit
        BY <1>2, <1>3, <4>3 DEF Read, Notify, Commit, ConsumerAt
      <4> QED
        BY <1>1, <2>2, <4>1, <4>2, <4>3, ConsCauses DEF ConsumerStep
    <3>2. cons.at \in 1..Len(log) /\ record[log[cons.at].job] # "pending"
      BY <1>2, <3>1 DEF StoredThenCommitted, Current
    <3> QED
      BY <3>1, <3>2, NeverPendingAgain DEF Current
  <2> QED
    BY <2>1, <2>2
<1>4. LastCommitIsStored'
  <2> SUFFICES ASSUME committed' > 0 PROVE record'[log'[committed'].job] # "pending"
    BY DEF LastCommitIsStored
  <2>1. \/ committed' = committed
        \/ committed' = cons.at /\ cons.pc = "commit"
    BY DEF Next, ApiNext, RelayNext, ConsumerNext, ConsumerStep, GatewayRestart,
       RecordExpires, HookStep, LoadResult, PostWebhook, Fetch, Update, Read, Notify, Commit,
       ConsumerAt, ConsumerRestart, consumerVars, loopVars, vars
  <2>2. committed' \in 1..Len(log) /\ record[log[committed'].job] # "pending"
    BY <1>2, <2>1 DEF StoredThenCommitted, LastCommitIsStored, Current
  <2> QED
    BY <2>2, NeverPendingAgain
<1> QED
  BY <1>3, <1>4 DEF StoredThenCommitted

(* "Do not commit" (consumer.go:162): the event whose offset the group has  *)
(* committed last is stored in its record, whatever fails and however often *)
(* the gateway is restarted.                                                *)
THEOREM LastCommitStored == Spec => []LastCommitIsStored
<1>1. Init => StoredThenCommitted
  BY DEF Init, PlatformInit, ConsumerInit, StoredThenCommitted, LastCommitIsStored
<1>2. Launched /\ StoredThenCommitted /\ [Next]_vars => StoredThenCommitted'
  BY StoredThenCommittedNext
<1>3. StoredThenCommitted => LastCommitIsStored
  BY DEF StoredThenCommitted
<1> QED
  BY <1>1, <1>2, <1>3, LaunchedInvariant, PTL DEF Spec

(* Redis takes every outcome, and the gateway lives.                        *)
StoredBeforeCommit == Without({"redis", "gateway"})

(* Every step keeps CommitsBehind.                                          *)
LEMMA CommitsBehindNext ==
  ASSUME StoredBeforeCommit, Launched, CommitsBehind, [Next]_vars
  PROVE  CommitsBehind'
<1>1. Typed
  BY DEF Launched, Inv, Typed
<1>2. ~Fault("redis") /\ ~Fault("gateway")
  BY DEF StoredBeforeCommit, Without, Fault
<1>3. /\ Len(log) \in Nat /\ cons.at \in Nat /\ committed \in Nat
      /\ cons.at <= Len(log) /\ committed <= cons.at
      /\ cons.pc # "fetch" => cons.at >= 1
      /\ cons \in [pc : ConsPc, at : Nat, got : Status]
  BY <1>1 DEF Typed, WellFormed, TypeOK, PlatformTypeOK, ConsumerTypeOK
<1>4. UNCHANGED <<cons, committed>> \/ ConsumerStep
  BY <1>2 DEF Next, ApiNext, RelayNext, ConsumerNext, GatewayRestart, RecordExpires, HookStep,
     LoadResult, PostWebhook, consumerVars, loopVars, vars
<1>5. /\ cons'.pc = "update" => committed' < cons'.at
      /\ \A i \in 1..Len(log) : Processed(i)' =>
           Processed(i) \/ (Update /\ i = cons.at)
  <2>1. CASE UNCHANGED <<cons, committed>>
    BY <2>1 DEF CommitsBehind, Processed
  <2>2. CASE Fetch
    BY <1>3, <2>2 DEF Fetch, Processed
  <2>3. CASE Update
    <3>1. cons.pc = "update" /\ cons'.at = cons.at /\ cons'.pc # "update"
      BY <1>3, <2>3 DEF Update, ConsumerAt
    <3> QED
      BY <1>3, <2>3, <3>1 DEF Processed
  <2>4. CASE Read \/ Notify \/ Commit
    <3>1. cons.pc # "update" /\ cons'.at = cons.at /\ cons'.pc # "update"
      BY <1>3, <2>4 DEF Read, Notify, Commit, ConsumerAt
    <3> QED
      BY <1>3, <3>1 DEF Processed
  <2> QED
    BY <1>4, <2>1, <2>2, <2>3, <2>4 DEF ConsumerStep
<1>6. ASSUME NEW i \in 1..Len(log'), Processed(i)'
      PROVE  record'[log'[i].job] # "pending"
  <2>1. i \in 1..Len(log)
    <3>1. CASE log' = log
      BY <3>1
    <3>2. CASE log' # log
      <4>1. cons' = cons
        BY <1>1, <3>2, ConsCauses
      <4> QED
        BY <1>3, <1>6, <4>1, OffsetsNext, <1>1 DEF Processed
    <3> QED
      BY <3>1, <3>2
  <2>2. log'[i] = log[i] /\ log[i].job \in Jobs
    BY <1>1, <2>1, LogStays, LogFacts
  <2>4. CASE Update /\ i = cons.at
    <3>1. Current = log[i] /\ Current.status # "pending" 
      BY <1>1, <2>4, LogFacts DEF Current, Update, ConsumerAt, Outcome
    <3>2. record \in [Jobs -> Status \cup {"none"}]
      BY <1>1 DEF Typed, TypeOK, PlatformTypeOK
    <3>3. \/ UpdateJobResult(Current.job, Current.status)
          \/ record[Current.job] = "none" /\ UNCHANGED record
      BY <1>2, <2>4 DEF Update
    <3> QED
      BY <2>2, <3>1, <3>2, <3>3 DEF UpdateJobResult
  <2>5. CASE Processed(i)
    <3>1. record[log[i].job] # "pending"
      BY <2>1, <2>5 DEF CommitsBehind
    <3> QED
      BY <2>1, <2>2, <3>1, NeverPendingAgain
  <2> QED
    BY <1>5, <1>6, <2>1, <2>4, <2>5
<1> QED
  BY <1>5, <1>6 DEF CommitsBehind

(* So it holds in every reachable state.                                    *)
LEMMA CommitsBehindInvariant == StoredBeforeCommit => (Spec => []CommitsBehind)
<1> SUFFICES ASSUME StoredBeforeCommit PROVE Spec => []CommitsBehind
  OBVIOUS
<1>1. Init => CommitsBehind
  BY DEF Init, PlatformInit, ConsumerInit, CommitsBehind
<1>2. Launched /\ CommitsBehind /\ [Next]_vars => CommitsBehind'
  BY CommitsBehindNext
<1> QED
  BY <1>1, <1>2, LaunchedInvariant, PTL DEF Spec

(* "the offset is only committed after successful processing"               *)
(* (consumer.go:148-149): no job is pending whose outcome the group has     *)
(* committed, if Redis answers and the gateway is not restarted.  After a   *)
(* Redis error the loop goes on and commits a later offset, and a group     *)
(* without an offset starts at the end of the topic: with either fault the  *)
(* property is false.                                                       *)
THEOREM CommitsAreStored == StoredBeforeCommit => (Spec => []CommittedIsStored)
<1>1. Launched /\ CommitsBehind => CommittedIsStored
  <2> SUFFICES ASSUME Launched, CommitsBehind, NEW i \in 1..committed
               PROVE  i <= Len(log) /\ record[log[i].job] # "pending"
    BY DEF CommittedIsStored
  <2>1. /\ Len(log) \in Nat /\ cons.at \in Nat /\ committed \in Nat
        /\ cons.at <= Len(log) /\ committed <= cons.at
    BY DEF Launched, Inv, WellFormed, TypeOK, PlatformTypeOK, ConsumerTypeOK
  <2>2. i \in 1..Len(log) /\ Processed(i)
    BY <2>1 DEF CommitsBehind, Processed
  <2> QED
    BY <2>2 DEF CommitsBehind
<1> QED
  BY <1>1, CommitsBehindInvariant, LaunchedInvariant, PTL

(***************************************************************************)
(* A pending job has work left                                             *)
(***************************************************************************)

(* No publish and no Redis command fails, the KafkaSource waits, nothing is *)
(* deferred, and no more faults happen than a message has retries.          *)
Retried ==
  /\ Without({"kafka", "timeout", "redis", "gateway"})
  /\ PriorityJobs = {}
  /\ MaxFaults <= MaxRetries

(* Faults are only ever added to.                                           *)
LEMMA FaultsCount ==
  ASSUME Typed, [Next]_vars
  PROVE  faults \in Nat /\ faults' \in Nat /\ faults <= faults'
<1>1. faults \in Nat
  BY DEF Typed, TypeOK, PlatformTypeOK
<1>2. ASSUME \/ UNCHANGED platformVars
             \/ NoFault
             \/ \E kind \in FaultKinds : Fault(kind)
      PROVE  faults' \in Nat /\ faults <= faults'
  BY <1>1, <1>2 DEF NoFault, Fault, platformVars
<1> USE DEF FaultKinds
<1>3. ASSUME NEW j \in Jobs, SubmitStep(j)
      PROVE  NoFault \/ \E kind \in FaultKinds : Fault(kind)
  BY <1>3 DEF SubmitStep, Upload, Save, Publish, MarkUnpublished, DiscardInput, DeleteInput,
     CallFailsOrClientLeft
<1>4. ASSUME NEW p \in Pollers, PollStep(p) \/ \E j \in Jobs : PollRead(p, j)
      PROVE  UNCHANGED platformVars \/ NoFault \/ \E kind \in FaultKinds : Fault(kind)
  BY <1>4 DEF PollStep, PollRead, PollFetch, PollRespond, DropResult, DropRecord, DeleteResult
<1>5. ASSUME RelayNext
      PROVE  UNCHANGED platformVars \/ NoFault \/ \E kind \in FaultKinds : Fault(kind)
  <2>1. ASSUME NEW j \in Jobs, DeliverStep(j) PROVE UNCHANGED platformVars \/ NoFault
    BY <2>1 DEF DeliverStep, Defer, ServeHTTP, ServeHTTPSync, Begin, NoFault
  <2>2. ASSUME NEW s \in Slots, Timeout(s) PROVE Fault("timeout")
    BY <2>2 DEF Timeout
  <2>3. ASSUME NEW q \in Pods, ReapInput(q) \/ Evict(q)
        PROVE  NoFault \/ \E kind \in FaultKinds : Fault(kind)
    BY <2>3 DEF ReapInput, Evict, DeleteInput
  <2> QED
    BY <1>5, <2>1, <2>2, <2>3, SlotStepServices DEF RelayNext
<1>6. ASSUME ConsumerNext
      PROVE  UNCHANGED platformVars \/ NoFault \/ \E kind \in FaultKinds : Fault(kind)
  BY <1>6 DEF ConsumerNext, ConsumerStep, Fetch, Update, Read, Notify, NotifyJobDone, Commit,
     HookStep, LoadResult, PostWebhook
<1>7. ASSUME RecordExpires \/ GatewayRestart
      PROVE  \E kind \in FaultKinds : Fault(kind)
  BY <1>7 DEF RecordExpires, Expire, GatewayRestart
<1> QED
  BY <1>1, <1>2, <1>3, <1>4, <1>5, <1>6, <1>7 DEF Next, ApiNext, vars, platformVars

(* How Submit gets where it is.                                             *)
LEMMA SubmitCauses ==
  ASSUME Typed, [Next]_vars, NEW j \in Jobs, submit'[j] # submit[j]
  PROVE  \/ submit'[j] \in {"uploaded", "saved", "rejected", "aborted"}
         \/ submit[j] = "saved" /\ submit'[j] = "accepted" /\ delivery'[j] = "open"
         \/ submit[j] = "saved" /\ submit'[j] = "unpublished" /\ Fault("kafka")
         \/ submit[j] \in {"saved", "unpublished"} /\ submit'[j] = "discard"
<1>1. submit \in [Jobs -> SubmitPc] /\ delivery \in [Jobs -> Stage]
  BY DEF Typed, TypeOK, ApiTypeOK, PlatformTypeOK
<1>2. ASSUME NEW k \in Jobs, SubmitStep(k)
      PROVE  \/ submit'[j] \in {"uploaded", "saved", "rejected", "aborted"}
             \/ submit[j] = "saved" /\ submit'[j] = "accepted" /\ delivery'[j] = "open"
             \/ submit[j] = "saved" /\ submit'[j] = "unpublished" /\ Fault("kafka")
             \/ submit[j] \in {"saved", "unpublished"} /\ submit'[j] = "discard"
  <2>1. CASE Publish(k)
    BY <1>1, <2>1 DEF Publish, SubmitAt, PublishInputEvent
  <2>2. CASE Upload(k) \/ Save(k) \/ MarkUnpublished(k) \/ DiscardInput(k)
    BY <1>1, <2>2 DEF Upload, Save, MarkUnpublished, DiscardInput, SubmitAt, StoreInput,
       DeleteInput
  <2> QED
    BY <1>2, <2>1, <2>2 DEF SubmitStep
<1>3. ASSUME NEW p \in Pollers, PollStep(p) \/ \E k \in Jobs : PollRead(p, k)
      PROVE  submit' = submit
  BY <1>3 DEF PollStep, PollRead, PollFetch, PollRespond, DropResult, DropRecord, PollAt,
     DeleteResult
<1>4. ASSUME GatewayRestart PROVE submit'[j] = "aborted"
  BY <1>1, <1>4 DEF GatewayRestart, ApiCrash
<1> QED
  BY <1>2, <1>3, <1>4 DEF Next, ApiNext, RelayNext, ConsumerNext, RecordExpires, apiVars, vars

(* An accepted submission stays accepted.                                   *)
LEMMA AcceptedStays ==
  ASSUME Typed, [Next]_vars, NEW j \in Jobs, submit[j] = "accepted"
  PROVE  submit'[j] = "accepted"
<1>1. submit \in [Jobs -> SubmitPc]
  BY DEF Typed, TypeOK, ApiTypeOK
<1>2. ASSUME NEW k \in Jobs, SubmitStep(k) PROVE submit'[j] = "accepted"
  BY <1>1, <1>2 DEF SubmitStep, Upload, Save, Publish, MarkUnpublished, DiscardInput, SubmitAt,
     DeleteInput, StoreInput
<1>3. ASSUME NEW p \in Pollers, PollStep(p) \/ \E k \in Jobs : PollRead(p, k)
      PROVE  submit' = submit
  BY <1>3 DEF PollStep, PollRead, PollFetch, PollRespond, DropResult, DropRecord, PollAt,
     DeleteResult
<1>4. ASSUME GatewayRestart PROVE submit'[j] = "accepted"
  BY <1>1, <1>4 DEF GatewayRestart, ApiCrash
<1> QED
  BY <1>2, <1>3, <1>4 DEF Next, ApiNext, RelayNext, ConsumerNext, RecordExpires, apiVars, vars

(* Without sync jobs nothing is counted, so nothing is deferred.            *)
LEMMA NothingCounted ==
  ASSUME Retried, Typed, \A p \in Pods : syncPriority[p] = 0, [Next]_vars, NEW p \in Pods
  PROVE  syncPriority'[p] = 0
<1>1. syncPriority \in [Pods -> Int]
  BY DEF Typed, TypeOK, RelayTypeOK
<1>2. ASSUME NEW j \in Jobs, DeliverStep(j) PROVE UNCHANGED syncPriority
  BY <1>2 DEF DeliverStep, Defer, ServeHTTP, ServeHTTPSync, relayVars, Retried
<1>3. ASSUME NEW s \in Slots, SlotStep(s) PROVE UNCHANGED syncPriority
  BY <1>3, SlotStepServices DEF Leave, Retried
<1>4. ASSUME NEW q \in Pods, ReapInput(q) \/ Evict(q) PROVE syncPriority'[p] = 0
  BY <1>1, <1>4 DEF ReapInput, Evict
<1>5. ASSUME NEW s \in Slots, Timeout(s) PROVE UNCHANGED syncPriority
  BY <1>5 DEF Timeout
<1> QED
  BY <1>2, <1>3, <1>4, <1>5 DEF Next, ApiNext, RelayNext, ConsumerNext, GatewayRestart,
     RecordExpires, relayVars, vars

(* What the retries need to know about the state they start from.           *)
Ready == Launched /\ AnswersAfterEvent /\ CommitsBehind /\ Deliverables

(* A message is resent because of a fault, or has its event.                *)
LEMMA ResentForFault ==
  ASSUME Retried, Ready, [Next]_vars, NEW j \in Jobs,
         \/ retries'[j] # retries[j]
         \/ delivery'[j] # delivery[j] /\ delivery'[j] = "exhausted"
  PROVE  /\ Sent(j)
         /\ \E js : Nack(js) /\ j \in js
         /\ submit[j] = "accepted" =>
              HasEvent(j) \/ (faults < MaxFaults /\ faults' = faults + 1)
<1>1. Typed
  BY DEF Ready, Launched, Inv, Typed
<1>2. ~ \E p \in Pods : Defer(j, p)
  BY DEF Defer, Ready, Deliverables
<1>3. PICK s \in Slots :
        /\ slot[s].attached
        /\ slot[s].job = j
        /\ (\E kind \in {"timeout", "relay", "kafka", "s3"} : Fault(kind)) \/ j \notin inputs
  BY <1>1, <1>2, NackCauses
<1>4. slot[s].pc # "idle"
  BY <1>3 DEF Ready, Launched, FreeSlots, IdleSlot
<1>5. Sent(j)
  BY <1>3, <1>4 DEF Ready, Launched, SentFirst
<1>6. \E js : Nack(js) /\ j \in js
  BY <1>1, NackCauses
<1>7. submit[j] = "accepted" => j \in inputs \/ HasEvent(j)
  BY DEF Ready, Deliverables
<1> QED
  BY <1>3, <1>5, <1>6, <1>7 DEF Fault

(* Every step keeps what can still be delivered.                            *)
LEMMA DeliverablesNext ==
  ASSUME Retried, Ready, [Next]_vars
  PROVE  Deliverables'
<1>1. Typed /\ Typed'
  BY TypedNext DEF Ready, Launched, Inv, Typed
<1>2. ~Fault("kafka") /\ ~Fault("timeout")
  BY DEF Retried, Without, Fault
<1>3. \A j \in Jobs : HasEvent(j) => HasEvent(j)'
  BY <1>1, EventsStay
<1>5. \A p \in Pods : syncPriority'[p] = 0
  BY <1>1, NothingCounted DEF Ready, Deliverables
<1>9. ASSUME NEW j \in Jobs, submit'[j] \in {"uploaded", "saved", "accepted"}
      PROVE  j \in inputs' \/ HasEvent(j)'
  <2>1. j \in inputs' \/ submit[j] \in {"uploaded", "saved", "accepted"}
    BY <1>1, <1>9, SubmitReaches
  <2>2. ASSUME j \in inputs, j \notin inputs' PROVE HasEvent(j)
    BY <1>1, <1>9, <2>2, InputsLost DEF Ready, AnswersAfterEvent
  <2> QED
    BY <1>3, <2>1, <2>2 DEF Ready, Deliverables
<1>10. ASSUME NEW j \in Jobs, Wanted(j)' PROVE retries'[j] <= faults' \/ HasEvent(j)'
  <2>1. /\ faults \in Nat /\ faults' \in Nat /\ faults <= faults'
        /\ retries[j] \in Nat /\ retries'[j] \in Nat
    BY <1>1, FaultsCount DEF Typed, TypeOK, PlatformTypeOK
  <2>0. Wanted(j) /\ (Sent(j) => submit[j] = "accepted")
    <3>1. CASE Sent(j)
      <4>1. submit'[j] = "accepted" /\ submit[j] # "saved"
        BY <1>1, <1>10, <3>1, SentStays DEF Wanted, Sent
      <4> QED
        BY <1>1, <4>1, SubmitCauses DEF Wanted
    <3> QED
      BY <3>1 DEF Wanted
  <2>2. CASE HasEvent(j)
    BY <1>3, <2>2
  <2>3. CASE retries'[j] = retries[j]
    BY <1>3, <2>0, <2>1, <2>3 DEF Ready, Deliverables
  <2>4. CASE ~HasEvent(j) /\ retries'[j] # retries[j]
    <3>1. faults' = faults + 1 /\ \E js : Nack(js)
      BY <2>0, <2>4, ResentForFault
    <3>2. retries'[j] = retries[j] + 1
      BY <2>4, <3>1 DEF Nack
    <3>3. retries[j] <= faults
      BY <2>0, <2>4 DEF Ready, Deliverables
    <3> QED
      BY <2>1, <3>1, <3>2, <3>3
  <2> QED
    BY <2>2, <2>3, <2>4
<1>11. ASSUME NEW j \in Jobs, submit'[j] = "accepted" PROVE delivery'[j] = "open" \/ HasEvent(j)'
  <2>1. CASE submit[j] # "accepted"
    BY <1>1, <1>11, <2>1, SubmitCauses
  <2>2. CASE HasEvent(j)
    BY <1>3, <2>2
  <2>3. CASE submit[j] = "accepted" /\ delivery'[j] = delivery[j]
    BY <1>3, <2>3 DEF Ready, Deliverables
  <2>4. CASE submit[j] = "accepted" /\ ~HasEvent(j) /\ delivery'[j] # delivery[j]
    <3>1. delivery[j] = "open" /\ retries[j] <= faults
      BY <2>4 DEF Ready, Deliverables, Wanted
    <3>2. ASSUME NEW s \in Slots, Ends(s, "reply"), slot[s].job = j PROVE FALSE
      BY <2>4, <3>2 DEF Ends, Ready, AnswersAfterEvent
    <3>3. delivery'[j] = "exhausted"
      BY <1>1, <2>4, <3>1, <3>2, StageCauses
    <3>4. faults < MaxFaults /\ \E js : Nack(js)
      BY <2>4, <3>3, ResentForFault
    <3>5. retries[j] >= MaxRetries
      BY <2>4, <3>3, <3>4 DEF Nack
    <3>6. /\ faults \in Nat /\ retries[j] \in Nat /\ MaxFaults \in Nat /\ MaxRetries \in Nat
          /\ MaxFaults <= MaxRetries
      BY <1>1, PlatformAssumption DEF Typed, TypeOK, PlatformTypeOK, Retried
    <3> QED
      BY <3>1, <3>4, <3>5, <3>6
  <2> QED
    BY <2>1, <2>2, <2>3, <2>4
<1> QED
  BY <1>5, <1>9, <1>10, <1>11 DEF Deliverables

(* A job that the API accepted and still reports as pending has something   *)
(* left that will settle it, its message or its event, as long as the       *)
(* retries outlast the S3 errors and evictions (relay.go:99-108, 166-179):  *)
(* an attempt that fails before the event leaves message and input behind.  *)
THEOREM PendingIsWorkedOn == Retried => (Spec => []PendingHasWork)
<1> SUFFICES ASSUME Retried PROVE Spec => []PendingHasWork
  OBVIOUS
<1>1. Published /\ StoredBeforeCommit
  BY DEF Retried, Published, StoredBeforeCommit, Without
<1>2. Init => Deliverables
  BY DEF Init, PlatformInit, ApiInit, RelayInit, Deliverables, IdleSlot
<1>3. Launched /\ AnswersAfterEvent /\ CommitsBehind /\ Deliverables /\ [Next]_vars
        => Deliverables'
  BY DeliverablesNext DEF Ready
<1>4. Launched /\ CommitsBehind /\ Deliverables => PendingHasWork
  <2> SUFFICES ASSUME Launched, CommitsBehind, Deliverables,
                      NEW j \in Jobs, submit[j] = "accepted", record[j] = "pending",
                      delivery[j] # "open"
               PROVE  \E i \in 1..Len(log) :
                         /\ log[i].job = j
                         /\ i > cons.at \/ (i = cons.at /\ cons.pc = "update")
    BY DEF PendingHasWork
  <2>1. PICK i \in 1..Len(log) : log[i].job = j
    BY DEF Deliverables, HasEvent
  <2>2. ~Processed(i)
    BY <2>1 DEF CommitsBehind
  <2>3. Len(log) \in Nat /\ cons.at \in Nat
    BY DEF Launched, Inv, TypeOK, PlatformTypeOK, ConsumerTypeOK
  <2> QED
    BY <2>1, <2>2, <2>3 DEF Processed
<1> QED
  BY <1>1, <1>2, <1>3, <1>4, LaunchedInvariant, AnswersAfterEventInvariant,
     CommitsBehindInvariant, PTL DEF Spec

(***************************************************************************)
(* One request at a time and one event for a job                           *)
(***************************************************************************)

(* A message that is answered is never processed again.                     *)
ServedOnce == Without({"kafka", "timeout", "relay"})

(* Without an error an event is written as the request moves on.            *)
LEMMA LogCauses ==
  ASSUME Typed, [Next]_vars, log' # log, ~Fault("kafka")
  PROVE  \E s \in Slots, o \in Outcome :
            /\ slot[s].job \in Jobs
            /\ slot[s].pc \in {"publish", "fail"}
            /\ slot'[s].pc \in {"deleteInput", "respond"}
            /\ slot'[s].job = slot[s].job
            /\ PublishResultEvent(slot[s].job, o)
<1>1. RelayNext
  BY DEF Next, ApiNext, ConsumerNext, ConsumerStep, HookStep, Fetch, Update, Read, Notify, Commit,
     LoadResult, PostWebhook, GatewayRestart, RecordExpires, Expire, platformVars, vars,
     SubmitStep, Upload, Save, Publish, MarkUnpublished, DiscardInput, DeleteInput, StoreInput,
     PollStep, PollRead, PollFetch, PollRespond, DropResult, DropRecord, DeleteResult
<1>2. PICK s \in Slots : SlotStep(s)
  <2>1. ASSUME NEW j \in Jobs, DeliverStep(j) PROVE FALSE
    BY <2>1 DEF DeliverStep, Defer, ServeHTTP, ServeHTTPSync, Begin, platformVars
  <2>2. ASSUME NEW s \in Slots, Timeout(s) PROVE FALSE
    BY <2>2 DEF Timeout
  <2>3. ASSUME NEW q \in Pods, ReapInput(q) \/ Evict(q) PROVE FALSE
    BY <2>3 DEF ReapInput, Evict
  <2> QED
    BY <1>1, <2>1, <2>2, <2>3 DEF RelayNext
<1>3. slot[s].job \in Jobs
  BY <1>2, SlotStepMoves
<1> QED
  BY <1>2, <1>3, SlotStepCases DEF Goes, NoAnswer, Outcome

(* Submit does not go back to its first calls.                              *)
LEMMA EarlyStays ==
  ASSUME Typed, [Next]_vars, NEW j \in Jobs, submit'[j] \in {"new", "uploaded"}
  PROVE  submit[j] \in {"new", "uploaded"}
<1>1. submit \in [Jobs -> SubmitPc]
  BY DEF Typed, TypeOK, ApiTypeOK
<1>2. ASSUME NEW k \in Jobs, SubmitStep(k) PROVE submit[j] \in {"new", "uploaded"}
  BY <1>1, <1>2 DEF SubmitStep, Upload, Save, Publish, MarkUnpublished, DiscardInput, SubmitAt,
     DeleteInput, StoreInput
<1>3. ASSUME NEW p \in Pollers, PollStep(p) \/ \E k \in Jobs : PollRead(p, k)
      PROVE  submit' = submit
  BY <1>3 DEF PollStep, PollRead, PollFetch, PollRespond, DropResult, DropRecord, PollAt,
     DeleteResult
<1>4. ASSUME GatewayRestart PROVE submit[j] \in {"new", "uploaded"}
  BY <1>1, <1>4 DEF GatewayRestart, ApiCrash
<1> QED
  BY <1>2, <1>3, <1>4 DEF Next, ApiNext, RelayNext, ConsumerNext, RecordExpires, apiVars, vars

(* A request in progress began before or in this step.                      *)
LEMMA BusySlot ==
  ASSUME ServedOnce, Typed, [Next]_vars, NEW s \in Slots, slot'[s].pc # "idle"
  PROVE  /\ slot'[s].job \in Jobs
         /\ \/ slot'[s] = slot[s]
            \/ /\ SlotStep(s)
               /\ slot[s].pc # "idle"
               /\ slot'[s].job = slot[s].job /\ slot'[s].attached = slot[s].attached
               /\ slot'[s].pc \in {"get", "infer", "fail", "put", "publish"}
                    => slot[s].pc \in {"get", "infer", "fail", "put"}
            \/ /\ Deliverable(slot'[s].job) /\ UNCHANGED platformVars
               /\ slot[s].pc = "idle" /\ slot'[s].pc = "get" /\ slot'[s].attached
               /\ \A t \in Slots \ {s} : slot'[t] = slot[t]
<1>1. slot'[s].job \in Jobs
  BY TypedNext DEF Typed, WellFormed
<1>2. slot'[s] # IdleSlot /\ ~Timeout(s)
  BY DEF IdleSlot, Timeout, ServedOnce, Without, Fault
<1>3. CASE SlotStep(s)
  <2>1. \/ Goes(s, "get", "infer") \/ Goes(s, "infer", "put") \/ Goes(s, "infer", "fail")
        \/ Goes(s, "fail", "deleteInput") \/ Goes(s, "deleteInput", "respond")
        \/ Goes(s, "put", "publish") \/ Goes(s, "publish", "respond")
        \/ Goes(s, "respond", "reply")
    BY <1>2, <1>3, SlotStepCases DEF Ends
  <2> QED
    BY <1>1, <1>3, <2>1 DEF Goes
<1>4. ASSUME NEW j \in Jobs,
             slot[s].pc = "idle",
             slot'[s] = [pc |-> "get", job |-> j, attached |-> TRUE],
             Deliverable(j),
             UNCHANGED platformVars,
             \A t \in Slots \ {s} : slot'[t] = slot[t]
      PROVE  /\ Deliverable(slot'[s].job) /\ UNCHANGED platformVars
             /\ slot[s].pc = "idle" /\ slot'[s].pc = "get" /\ slot'[s].attached
             /\ \A t \in Slots \ {s} : slot'[t] = slot[t]
  <2>1. slot'[s].job = j
    BY <1>4
  <2> QED
    BY <1>4, <2>1
<1> QED
  BY <1>1, <1>2, <1>3, <1>4, SlotCauses

(* While a request is in progress its message stays open.                   *)
LEMMA OpenWhileServed ==
  ASSUME ServedOnce, Launched, Once, [Next]_vars,
         NEW s \in Slots, slot[s].pc # "idle", slot'[s].pc # "idle"
  PROVE  delivery'[slot[s].job] = "open"
<1>1. Typed
  BY DEF Launched, Inv, Typed
<1>2. ~Fault("kafka") /\ ~Fault("timeout") /\ ~Fault("relay")
  BY DEF ServedOnce, Without, Fault
<1>3. slot[s].job \in Jobs /\ slot[s].attached /\ delivery[slot[s].job] = "open"
  BY <1>1 DEF Typed, WellFormed, Once
<1>4. slot'[s] # IdleSlot
  BY DEF IdleSlot
<1>5. ASSUME NEW t \in Slots, slot[t].job = slot[s].job, slot[t].attached PROVE t = s
  BY <1>5 DEF Once, Launched, FreeSlots, IdleSlot
<1>6. ASSUME NEW t \in Slots, Ends(t, "reply"), slot[t].job = slot[s].job PROVE FALSE
  BY <1>4, <1>6 DEF Ends, Once
<1>7. ASSUME NEW p \in Pods, Defer(slot[s].job, p) PROVE FALSE
  BY <1>3, <1>7 DEF Defer, Deliverable, InFlight
<1>8. ASSUME delivery'[slot[s].job] # delivery[slot[s].job], delivery'[slot[s].job] = "exhausted"
      PROVE  FALSE
  <2>1. PICK t \in Slots :
           slot[t].attached /\ slot[t].job = slot[s].job /\ slot'[t] = IdleSlot
    BY <1>1, <1>2, <1>3, <1>7, <1>8, NackCauses
  <2> QED
    BY <1>4, <1>5, <2>1
<1> QED
  BY <1>1, <1>3, <1>6, <1>8, StageCauses

(* A message is in one request at a time, which is attached.                *)
LEMMA OnceSlotsNext ==
  ASSUME ServedOnce, Launched, Once, [Next]_vars
  PROVE  /\ \A s \in Slots :
               slot'[s].pc # "idle" => slot'[s].attached /\ delivery'[slot'[s].job] = "open"
         /\ \A s, t \in Slots :
               slot'[s].pc # "idle" /\ slot'[t].pc # "idle" /\ slot'[s].job = slot'[t].job
                 => s = t
<1>1. Typed
  BY DEF Launched, Inv, Typed
<1>2. ASSUME NEW s \in Slots, slot'[s].pc # "idle"
      PROVE  slot'[s].attached /\ delivery'[slot'[s].job] = "open"
  <2>1. CASE slot[s].pc # "idle" /\ slot'[s].job = slot[s].job /\ slot'[s].attached = slot[s].attached
    BY <1>2, <2>1, OpenWhileServed DEF Once
  <2>2. CASE Deliverable(slot'[s].job) /\ UNCHANGED platformVars /\ slot'[s].attached
    BY <2>2 DEF Deliverable, platformVars
  <2> QED
    BY <1>1, <1>2, <2>1, <2>2, BusySlot
<1>3. ASSUME NEW s \in Slots, NEW t \in Slots, slot'[s].pc # "idle", slot'[t].pc # "idle",
             slot'[s].job = slot'[t].job, s # t
      PROVE  FALSE
  <2>1. ASSUME NEW u \in Slots, NEW v \in Slots, slot'[u].pc # "idle", slot'[v].pc # "idle",
               slot'[u].job = slot'[v].job, u # v,
               Deliverable(slot'[u].job), \A w \in Slots \ {u} : slot'[w] = slot[w]
        PROVE  FALSE
    <3>1. slot'[v] = slot[v] /\ slot[v].attached
      BY <2>1 DEF Once
    <3> QED
      BY <2>1, <3>1 DEF Deliverable, InFlight
  <2>2. slot[s].pc # "idle" /\ slot'[s].job = slot[s].job
    BY <1>1, <1>3, <2>1, BusySlot
  <2>3. slot[t].pc # "idle" /\ slot'[t].job = slot[t].job
    BY <1>1, <1>3, <2>1, BusySlot
  <2>4. slot[s].job = slot[t].job
    BY <1>3, <2>2, <2>3
  <2> QED
    BY <1>3, <2>2, <2>3, <2>4 DEF Once
<1> QED
  BY <1>2, <1>3

(* That request finds no event of an earlier one, and a message with an     *)
(* event is answered or about to be.                                        *)
LEMMA OnceEventsNext ==
  ASSUME ServedOnce, Launched, Once, [Next]_vars
  PROVE  /\ \A s \in Slots :
               slot'[s].pc \in {"get", "infer", "fail", "put", "publish"}
                 => ~HasEvent(slot[s].job)'
         /\ \A j \in Jobs :
               HasEvent(j)' =>
                 \/ delivery'[j] # "open"
                 \/ \E s \in Slots :
                      slot'[s].pc \in {"deleteInput", "respond", "reply"} /\ slot'[s].job = j
         /\ \A i, k \in 1..Len(log') : log'[i].job = log'[k].job => i = k
<1>1. Typed
  BY DEF Launched, Inv, Typed
<1>2. ~Fault("kafka") /\ ~Fault("timeout") /\ ~Fault("relay")
  BY DEF ServedOnce, Without, Fault
<1>3. \/ log' = log
      \/ \E s \in Slots :
            /\ slot[s].job \in Jobs
            /\ slot[s].pc \in {"publish", "fail"}
            /\ slot'[s].pc \in {"deleteInput", "respond"}
            /\ slot'[s].job = slot[s].job
            /\ Len(log') = Len(log) + 1
            /\ \A i \in 1..Len(log) : log'[i] = log[i]
            /\ log'[Len(log')].job = slot[s].job
  <2>1. ASSUME NEW s \in Slots, NEW o \in Outcome, slot[s].job \in Jobs,
               PublishResultEvent(slot[s].job, o)
        PROVE  /\ Len(log') = Len(log) + 1
               /\ \A i \in 1..Len(log) : log'[i] = log[i]
               /\ log'[Len(log')].job = slot[s].job
    <3>1. /\ Len(log') = Len(log) + 1
          /\ \A i \in 1..Len(log) : log'[i] = log[i]
          /\ log'[Len(log')] = [job |-> slot[s].job, status |-> o]
      BY <1>1, <2>1, AppendTyped DEF Typed, TypeOK
    <3> QED
      BY <3>1
  <2> QED
    BY <1>1, <1>2, <2>1, LogCauses
<1>4. Len(log) \in Nat
  BY <1>1, LogFacts
<1>5. ASSUME NEW j \in Jobs, HasEvent(j)', ~HasEvent(j)
      PROVE  \E s \in Slots :
               /\ slot[s].job = j /\ slot[s].pc \in {"publish", "fail"}
               /\ slot'[s].pc \in {"deleteInput", "respond"} /\ slot'[s].job = j
  BY <1>3, <1>4, <1>5 DEF HasEvent
<1>6. ASSUME NEW s \in Slots, slot'[s].pc \in {"get", "infer", "fail", "put", "publish"},
             NEW j \in Jobs, slot'[s].job = j, HasEvent(j)'
      PROVE  FALSE
  <2>1. CASE slot[s].pc \in {"get", "infer", "fail", "put", "publish"} /\ slot[s].job = j
    <3>1. ~HasEvent(j)
      BY <2>1 DEF Once
    <3>2. PICK t \in Slots :
             /\ slot[t].job = j /\ slot[t].pc \in {"publish", "fail"}
             /\ slot'[t].pc \in {"deleteInput", "respond"}
      BY <1>5, <1>6, <3>1
    <3>3. slot[s].pc # "idle" /\ slot[t].pc # "idle"
      BY <2>1, <3>2
    <3>4. s = t
      BY <2>1, <3>2, <3>3 DEF Once
    <3> QED
      BY <1>6, <3>2, <3>4
  <2>2. CASE Deliverable(j) /\ UNCHANGED platformVars
    <3>1. HasEvent(j)
      BY <1>6, <2>2 DEF HasEvent, platformVars
    <3>2. PICK t \in Slots :
             slot[t].pc \in {"deleteInput", "respond", "reply"} /\ slot[t].job = j
      BY <2>2, <3>1 DEF Once, Deliverable
    <3>3. slot[t].attached
      BY <3>2 DEF Once
    <3> QED
      BY <2>2, <3>2, <3>3 DEF Deliverable, InFlight
  <2>3. slot'[s].pc # "idle"
    BY <1>6
  <2> QED
    BY <1>1, <1>6, <2>1, <2>2, <2>3, BusySlot
<1>7. ASSUME NEW j \in Jobs, HasEvent(j)', delivery'[j] = "open",
             ~ \E s \in Slots :
                 slot'[s].pc \in {"deleteInput", "respond", "reply"} /\ slot'[s].job = j
      PROVE  FALSE
  <2>1. HasEvent(j)
    BY <1>5, <1>7
  <2>2. ASSUME delivery[j] # "open" PROVE FALSE
    <3>1. submit[j] = "saved"
      BY <1>1, <1>7, <2>2, StageCauses
    <3>2. Sent(j)
      BY <2>1 DEF HasEvent, Launched, SentFirst
    <3> QED
      BY <3>1, <3>2 DEF Sent
  <2>3. ASSUME NEW s \in Slots,
               slot[s].pc \in {"deleteInput", "respond", "reply"}, slot[s].job = j
        PROVE  FALSE
    <3>1. slot[s].attached /\ slot'[s] # slot[s] /\ ~Timeout(s)
      BY <1>2, <1>7, <2>3 DEF Once, Timeout
    <3>2. SlotStep(s)
      BY <1>1, <1>2, <2>3, <3>1, SlotCauses
    <3>3. \/ Goes(s, "deleteInput", "respond") \/ Goes(s, "respond", "reply")
          \/ Ack(j)
      BY <1>1, <2>3, <3>1, <3>2, SlotStepCases DEF Goes, Ends, AnswerIfAttached
    <3>4. ~Ack(j)
      BY <1>1, <1>7 DEF Ack, Typed, TypeOK, PlatformTypeOK
    <3> QED
      BY <1>7, <2>3, <3>3, <3>4 DEF Goes
  <2> QED
    BY <2>1, <2>2, <2>3 DEF Once
<1>8. ASSUME NEW i \in 1..Len(log'), NEW k \in 1..Len(log'), log'[i].job = log'[k].job
      PROVE  i = k
  <2>1. CASE log' = log
    BY <1>8, <2>1 DEF Once
  <2>2. ASSUME NEW s \in Slots,
               slot[s].job \in Jobs,
               slot[s].pc \in {"publish", "fail"},
               Len(log') = Len(log) + 1,
               \A n \in 1..Len(log) : log'[n] = log[n],
               log'[Len(log')].job = slot[s].job
        PROVE  i = k
    <3>1. \A n \in 1..Len(log) : log'[n].job # slot[s].job
      BY <2>2 DEF Once, HasEvent
    <3>2. (i \in 1..Len(log) \/ i = Len(log')) /\ (k \in 1..Len(log) \/ k = Len(log'))
      BY <1>4, <2>2
    <3> QED
      BY <1>8, <2>2, <3>1, <3>2 DEF Once
  <2> QED
    BY <1>3, <2>1, <2>2
<1>9. \A s \in Slots :
        slot'[s].pc \in {"get", "infer", "fail", "put", "publish"} => ~HasEvent(slot[s].job)'
  <2> SUFFICES ASSUME NEW s \in Slots,
                      slot'[s].pc \in {"get", "infer", "fail", "put", "publish"},
                      HasEvent(slot[s].job)'
               PROVE  FALSE
    OBVIOUS
  <2>1. slot'[s].job \in Jobs
    BY <1>1, TypedNext DEF Typed, WellFormed
  <2> QED
    BY <1>6, <2>1 DEF HasEvent
<1> QED
  BY <1>7, <1>8, <1>9

(* A record with an outcome has its event.                                  *)
LEMMA OnceRecordsNext ==
  ASSUME ServedOnce, Launched, Once, [Next]_vars
  PROVE  /\ \A j \in Jobs : submit'[j] # "unpublished"
         /\ \A j \in Jobs : submit'[j] \in {"new", "uploaded"} => record'[j] = "none"
         /\ \A j \in Jobs :
              record'[j] \in Outcome =>
                \E i \in 1..Len(log') : log'[i] = [job |-> j, status |-> record'[j]]
<1>1. Typed
  BY DEF Launched, Inv, Typed
<1>2. ~Fault("kafka")
  BY DEF ServedOnce, Without, Fault
<1>3. cons.pc = "update" =>
         /\ cons.at \in 1..Len(log)
         /\ Current = log[cons.at]
         /\ Current = [job |-> Current.job, status |-> Current.status]
         /\ Sent(Current.job)
  <2> SUFFICES ASSUME cons.pc = "update"
               PROVE  /\ cons.at \in 1..Len(log)
                      /\ Current = log[cons.at]
                      /\ Current = [job |-> Current.job, status |-> Current.status]
                      /\ Sent(Current.job)
    OBVIOUS
  <2>1. cons.at \in 1..Len(log)
    BY <1>1, LogFacts DEF Typed, WellFormed
  <2>2. log[cons.at] \in Event
    BY <1>1, <2>1 DEF Typed, TypeOK, PlatformTypeOK
  <2>3. Sent(log[cons.at].job)
    BY <2>1 DEF Launched, SentFirst
  <2> QED
    BY <2>1, <2>2, <2>3 DEF Current, Event
<1>4. ASSUME NEW j \in Jobs PROVE submit'[j] # "unpublished"
  <2>1. CASE submit'[j] = submit[j]
    BY <2>1 DEF Once
  <2>2. CASE submit'[j] # submit[j]
    BY <1>1, <1>2, <2>2, SubmitCauses DEF Once
  <2> QED
    BY <2>1, <2>2
<1>5. ASSUME NEW j \in Jobs, submit'[j] \in {"new", "uploaded"} PROVE record'[j] = "none"
  <2>1. submit[j] \in {"new", "uploaded"} /\ ~Sent(j)
    BY <1>1, <1>5, EarlyStays DEF Sent
  <2>2. record[j] = "none"
    BY <2>1 DEF Once
  <2> QED
    BY <1>1, <1>5, <2>1, <2>2, RecordCauses
<1>6. ASSUME NEW j \in Jobs, record'[j] \in Outcome
      PROVE  \E i \in 1..Len(log') : log'[i] = [job |-> j, status |-> record'[j]]
  <2>1. PICK i \in 1..Len(log) : log[i] = [job |-> j, status |-> record'[j]]
    <3>1. CASE record'[j] = record[j]
      BY <1>6, <3>1 DEF Once
    <3>2. CASE record'[j] # record[j]
      <4>1. cons.pc = "update" /\ Current.job = j /\ record'[j] = Current.status
        BY <1>1, <1>6, <3>2, RecordCauses DEF Outcome, Once
      <4> QED
        BY <1>3, <4>1
    <3> QED
      BY <3>1, <3>2
  <2> QED
    BY <1>1, <2>1, LogStays
<1> QED
  BY <1>4, <1>5, <1>6

(* So Once holds in every reachable state.                                  *)
LEMMA OnceInvariant == ServedOnce => (Spec => []Once)
<1> SUFFICES ASSUME ServedOnce PROVE Spec => []Once
  OBVIOUS
<1>1. Init => Once
  BY DEF Init, PlatformInit, ApiInit, RelayInit, Once, HasEvent, IdleSlot, Outcome
<1>2. ASSUME Launched, Once, [Next]_vars PROVE Once'
  <2>1. /\ \A s \in Slots :
             slot'[s].pc # "idle" => slot'[s].attached /\ delivery'[slot'[s].job] = "open"
        /\ \A s, t \in Slots :
             slot'[s].pc # "idle" /\ slot'[t].pc # "idle" /\ slot'[s].job = slot'[t].job
               => s = t
    BY <1>2, OnceSlotsNext
  <2>2. /\ \A s \in Slots :
             slot'[s].pc \in {"get", "infer", "fail", "put", "publish"}
               => ~HasEvent(slot[s].job)'
        /\ \A j \in Jobs :
             HasEvent(j)' =>
               \/ delivery'[j] # "open"
               \/ \E s \in Slots :
                    slot'[s].pc \in {"deleteInput", "respond", "reply"} /\ slot'[s].job = j
        /\ \A i, k \in 1..Len(log') : log'[i].job = log'[k].job => i = k
    BY <1>2, OnceEventsNext
  <2>3. /\ \A j \in Jobs : submit'[j] # "unpublished"
        /\ \A j \in Jobs : submit'[j] \in {"new", "uploaded"} => record'[j] = "none"
        /\ \A j \in Jobs :
             record'[j] \in Outcome =>
               \E i \in 1..Len(log') : log'[i] = [job |-> j, status |-> record'[j]]
    BY <1>2, OnceRecordsNext
  <2> QED
    BY <2>1, <2>2, <2>3 DEF Once
<1> QED
  BY <1>1, <1>2, LaunchedInvariant, PTL DEF Spec

(***************************************************************************)
(* The pipeline implements the lifecycle                                   *)
(***************************************************************************)

(* The moves that JobLifecycle allows, one after the other.                 *)
LEMMA LifecycleEdges ==
  ASSUME NEW a, NEW b,
         \/ a = "new" /\ b \in {"pending", "gone"}
         \/ a = "pending" /\ b \in {"completed", "failed", "gone"}
         \/ a \in {"completed", "failed"} /\ b = "gone"
  PROVE  <<a, b>> \in Lifecycle!Moves
BY DEF Lifecycle!Moves

(* A step moves a job along the lifecycle or leaves it where it is.         *)
LEMMA StepMoves ==
  ASSUME ServedOnce, Launched, Once, [Next]_vars, NEW j \in Jobs
  PROVE  /\ PhaseOf(j)' \in Lifecycle!Phase
         /\ PhaseOf(j)' = PhaseOf(j) \/ <<PhaseOf(j), PhaseOf(j)'>> \in Lifecycle!Moves
<1>1. Typed /\ Typed'
  BY TypedNext DEF Launched, Inv, Typed
<1>2. record[j] \in Status \cup {"none"} /\ record'[j] \in Status \cup {"none"}
  BY <1>1 DEF Typed, TypeOK, PlatformTypeOK
<1>3. PhaseOf(j) = IF record[j] # "none" THEN record[j]
                   ELSE IF submit[j] \in {"new", "uploaded"} THEN "new" ELSE "gone"
  BY DEF PhaseOf
<1>4. PhaseOf(j)' = IF record'[j] # "none" THEN record'[j]
                    ELSE IF submit'[j] \in {"new", "uploaded"} THEN "new" ELSE "gone"
  BY DEF PhaseOf
<1>5. submit'[j] \in {"new", "uploaded"} => submit[j] \in {"new", "uploaded"}
  BY <1>1, EarlyStays
<1>6. submit[j] \in {"new", "uploaded"} => record[j] = "none"
  BY DEF Once
<1>7. PhaseOf(j)' \in Lifecycle!Phase
  BY <1>2, <1>4 DEF Lifecycle!Phase, Status, Outcome
<1>8. CASE record'[j] = record[j]
  <2>1. PhaseOf(j)' = PhaseOf(j) \/ (PhaseOf(j) = "new" /\ PhaseOf(j)' = "gone")
    BY <1>3, <1>4, <1>5, <1>8
  <2> QED
    BY <1>7, <2>1, LifecycleEdges
<1>9. CASE record'[j] = "none" /\ record[j] # "none"
  <2>1. PhaseOf(j)' = "gone" /\ PhaseOf(j) \in {"pending", "completed", "failed"}
    BY <1>2, <1>3, <1>4, <1>5, <1>6, <1>9 DEF Status, Outcome
  <2> QED
    BY <1>7, <2>1, LifecycleEdges
<1>10. CASE submit[j] = "uploaded" /\ record'[j] = "pending"
  <2>1. PhaseOf(j) = "new" /\ PhaseOf(j)' = "pending"
    BY <1>3, <1>4, <1>6, <1>10
  <2> QED
    BY <1>7, <2>1, LifecycleEdges
<1>11. CASE /\ record'[j] # record[j]
            /\ cons.pc = "update" /\ Current.job = j
            /\ record[j] # "none" /\ record'[j] = Current.status
  <2>1. cons.at \in 1..Len(log) /\ Current = log[cons.at] /\ Current.status \in Outcome
    BY <1>1, <1>11, LogFacts DEF Typed, WellFormed, Current
  <2>2. record[j] \notin Outcome
    <3> SUFFICES ASSUME record[j] \in Outcome PROVE FALSE
      OBVIOUS
    <3>1. PICK i \in 1..Len(log) : log[i] = [job |-> j, status |-> record[j]]
      BY DEF Once
    <3>2. log[i].job = j /\ log[i].status = record[j]
      BY <3>1
    <3>3. i = cons.at
      BY <1>11, <2>1, <3>2 DEF Once
    <3> QED
      BY <1>11, <2>1, <3>2, <3>3
  <2>3. PhaseOf(j) = "pending" /\ PhaseOf(j)' \in {"completed", "failed"}
    BY <1>2, <1>3, <1>4, <1>11, <2>1, <2>2 DEF Status, Outcome
  <2> QED
    BY <1>7, <2>3, LifecycleEdges
<1>12. submit[j] # "unpublished"
  BY DEF Once
<1> QED
  BY <1>1, <1>7, <1>8, <1>9, <1>10, <1>11, <1>12, RecordCauses

(* Where no request is served twice and no publish reports an error for an  *)
(* event it has written, the pipeline implements the lifecycle that the API *)
(* promises (jobs.go:187-198, redis.go:192-206, jobs.go:333-342).  With one *)
(* of the three faults a second event may replace the first outcome.        *)
THEOREM PipelineImplementsLifecycle == ServedOnce => (Spec => ImplementsLifecycle)
<1> SUFFICES ASSUME ServedOnce PROVE Spec => ImplementsLifecycle
  OBVIOUS
<1>1. Init => Lifecycle!Init
  BY DEF Init, PlatformInit, ApiInit, Lifecycle!Init, PhaseOf
<1>2. ASSUME Launched, Once, [Next]_vars PROVE [Lifecycle!Next]_([j \in Jobs |-> PhaseOf(j)])
  <2>1. \A j \in Jobs :
          /\ PhaseOf(j)' \in Lifecycle!Phase
          /\ PhaseOf(j)' = PhaseOf(j) \/ <<PhaseOf(j), PhaseOf(j)'>> \in Lifecycle!Moves
    BY <1>2, StepMoves
  <2> QED
    BY <2>1 DEF Lifecycle!Next
<1> QED
  BY <1>1, <1>2, LaunchedInvariant, OnceInvariant, PTL DEF Spec, ImplementsLifecycle, Lifecycle!Spec

-----------------------------------------------------------------------------
(***************************************************************************)
(* The counter of sync jobs in progress                                    *)
(***************************************************************************)

(* The sync requests that a pod is serving.                                 *)
Busy(p) == {s \in Slots : PodOf[s] = p /\ slot[s].job \in PriorityJobs}

(* A call of a request leaves the counter alone, or it is the last one.     *)
LEMMA SlotStepCounts ==
  ASSUME NEW s \in Slots, SlotStep(s)
  PROVE  \/ Leave(s)
         \/ UNCHANGED syncPriority /\ \E to : slot' = [slot EXCEPT ![s].pc = to]
<1>1. CASE GetInput(s)
  BY <1>1 DEF GetInput, Answer500, SlotAt
<1>2. CASE Infer(s) \/ DeleteFailedInput(s) \/ PublishResult(s) \/ Respond(s)
  BY <1>2 DEF Infer, DeleteFailedInput, PublishResult, Respond, SlotAt
<1>3. CASE PublishFailure(s) \/ PutResult(s) \/ Answer200(s)
  BY <1>3 DEF PublishFailure, PutResult, Answer200, Answer500, SlotAt
<1> QED
  BY <1>1, <1>2, <1>3 DEF SlotStep

(* A pod serves finitely many requests.                                     *)
LEMMA BusyFinite == \A p : IsFiniteSet(Busy(p))
BY RelayAssumption, FS_Subset DEF Busy

(* A request begins: it is counted where it runs.                           *)
LEMMA BeginCounts ==
  ASSUME Typed, FreeSlots, SyncPriorityCounts, NEW s \in Slots, NEW j \in Jobs,
         ServeHTTP(s, j) \/ ServeHTTPSync(s, j)
  PROVE  SyncPriorityCounts'
<1>1. slot \in [Slots -> SlotState] /\ syncPriority \in [Pods -> Int]
  BY DEF Typed, TypeOK, RelayTypeOK
<1>2. slot[s].job \notin PriorityJobs
  BY RelayAssumption, PlatformAssumption DEF FreeSlots, ServeHTTP, ServeHTTPSync, Begin, IdleSlot
<1>3. slot'[s].job = j /\ \A t \in Slots \ {s} : slot'[t] = slot[t]
  BY <1>1 DEF ServeHTTP, ServeHTTPSync, Begin
<1>4. ASSUME NEW p \in Pods
      PROVE  Busy(p)' = IF j \in PriorityJobs /\ p = PodOf[s] THEN Busy(p) \cup {s} ELSE Busy(p)
  BY <1>2, <1>3 DEF Busy
<1>5. ASSUME NEW p \in Pods
      PROVE  syncPriority'[p] = IF j \in PriorityJobs /\ p = PodOf[s]
                                THEN syncPriority[p] + 1 ELSE syncPriority[p]
  BY <1>1 DEF ServeHTTP, ServeHTTPSync
<1>6. ASSUME NEW p \in Pods
      PROVE  s \notin Busy(p) /\ Cardinality(Busy(p) \cup {s}) = Cardinality(Busy(p)) + 1
  <2>1. s \notin Busy(p)
    BY <1>2 DEF Busy
  <2> QED
    BY <2>1, BusyFinite, FS_AddElement
<1> QED
  BY <1>4, <1>5, <1>6 DEF SyncPriorityCounts, Busy

(* It ends, by whichever way out of the handler.                            *)
LEMMA LeaveCounts ==
  ASSUME Typed, SyncPriorityCounts, NEW s \in Slots, Leave(s)
  PROVE  SyncPriorityCounts'
<1>1. slot \in [Slots -> SlotState] /\ syncPriority \in [Pods -> Int]
  BY DEF Typed, TypeOK, RelayTypeOK
<1>2. slot'[s].job \notin PriorityJobs /\ \A t \in Slots \ {s} : slot'[t] = slot[t]
  BY <1>1, RelayAssumption, PlatformAssumption DEF Leave, IdleSlot
<1>3. ASSUME NEW p \in Pods PROVE Busy(p)' = Busy(p) \ {s}
  BY <1>2 DEF Busy
<1>4. ASSUME NEW p \in Pods
      PROVE  Cardinality(Busy(p) \ {s}) =
               IF s \in Busy(p) THEN Cardinality(Busy(p)) - 1 ELSE Cardinality(Busy(p))
  BY BusyFinite, FS_RemoveElement
<1>5. ASSUME NEW p \in Pods
      PROVE  syncPriority'[p] = IF s \in Busy(p) THEN syncPriority[p] - 1 ELSE syncPriority[p]
  BY <1>1 DEF Leave, Busy
<1> QED
  BY <1>3, <1>4, <1>5 DEF SyncPriorityCounts, Busy

(* The pod goes, with its requests and its counter.                         *)
LEMMA EvictCounts ==
  ASSUME Typed, SyncPriorityCounts, NEW q \in Pods, Evict(q)
  PROVE  SyncPriorityCounts'
<1>1. syncPriority \in [Pods -> Int]
  BY DEF Typed, TypeOK, RelayTypeOK
<1>2. \A s \in Slots : slot'[s] = IF PodOf[s] = q THEN IdleSlot ELSE slot[s]
  BY DEF Evict
<1>3. IdleSlot.job \notin PriorityJobs
  BY RelayAssumption, PlatformAssumption DEF IdleSlot
<1>4. Busy(q)' = {} /\ \A p \in Pods \ {q} : Busy(p)' = Busy(p)
  BY <1>2, <1>3 DEF Busy
<1>5. syncPriority'[q] = 0 /\ \A p \in Pods \ {q} : syncPriority'[p] = syncPriority[p]
  BY <1>1 DEF Evict
<1>6. Cardinality({}) = 0
  BY FS_EmptySet
<1> QED
  BY <1>4, <1>5, <1>6 DEF SyncPriorityCounts, Busy

(* Every step keeps the count.                                              *)
LEMMA SyncPriorityCountsNext ==
  ASSUME Typed, FreeSlots, SyncPriorityCounts, [Next]_vars
  PROVE  SyncPriorityCounts'
<1>1. slot \in [Slots -> SlotState]
  BY DEF Typed, TypeOK, RelayTypeOK
<1>2. CASE UNCHANGED syncPriority /\ \A s \in Slots : slot'[s].job = slot[s].job
  <2>1. \A p : Busy(p)' = Busy(p)
    BY <1>2 DEF Busy
  <2> QED
    BY <1>2, <2>1 DEF SyncPriorityCounts, Busy
<1>3. ASSUME NEW s \in Slots, SlotStep(s) PROVE SyncPriorityCounts'
  <2>1. ASSUME NEW to, slot' = [slot EXCEPT ![s].pc = to]
        PROVE  \A t \in Slots : slot'[t].job = slot[t].job
    BY <1>1, <2>1 DEF SlotState
  <2> QED
    BY <1>2, <1>3, <2>1, SlotStepCounts, LeaveCounts
<1>4. ASSUME NEW s \in Slots, Timeout(s) PROVE SyncPriorityCounts'
  <2>1. \A t \in Slots : slot'[t].job = slot[t].job
    BY <1>1, <1>4 DEF Timeout, SlotState
  <2> QED
    BY <1>2, <1>4, <2>1 DEF Timeout
<1>5. ASSUME NEW j \in Jobs, DeliverStep(j) PROVE SyncPriorityCounts'
  BY <1>2, <1>5, BeginCounts DEF DeliverStep, Defer, relayVars
<1>6. ASSUME NEW p \in Pods, ReapInput(p) \/ Evict(p) PROVE SyncPriorityCounts'
  BY <1>2, <1>6, EvictCounts DEF ReapInput
<1>7. CASE RelayNext
  BY <1>3, <1>4, <1>5, <1>6, <1>7 DEF RelayNext
<1> QED
  BY <1>2, <1>7 DEF Next, ApiNext, ConsumerNext, GatewayRestart, RecordExpires, relayVars, vars

(* A pod's counter is the number of sync requests it is serving, on every   *)
(* way out of the handler and across evictions (sync.go:17-25): an          *)
(* asynchronous message is deferred exactly while one is in progress.       *)
THEOREM SyncJobsAreCounted == Spec => []SyncPriorityCounts
<1>1. Init => SyncPriorityCounts
  <2>1. Init => \A p \in Pods : Busy(p) = {}
    BY RelayAssumption, PlatformAssumption DEF Init, RelayInit, IdleSlot, Busy
  <2> QED
    BY <2>1, FS_EmptySet DEF Init, RelayInit, SyncPriorityCounts, Busy
<1>2. Launched => Typed /\ FreeSlots
  BY DEF Launched, Inv, Typed
<1>3. Launched /\ SyncPriorityCounts /\ [Next]_vars => SyncPriorityCounts'
  BY <1>2, SyncPriorityCountsNext
<1> QED
  BY <1>1, <1>3, LaunchedInvariant, PTL DEF Spec
=============================================================================
