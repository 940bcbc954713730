------------------------ MODULE AsyncPipeline_proofs ------------------------
(***************************************************************************)
(* Proofs about AsyncPipeline, for any number of jobs, clients, pods and   *)
(* slots, any kind and number of faults and any number of retries.         *)
(***************************************************************************)
EXTENDS AsyncPipeline, SequenceTheorems, TLAPS

(***************************************************************************)
(* Types                                                                   *)
(***************************************************************************)

(* What every step keeps: the types, and a position inside the topic.       *)
Typed == TypeOK /\ WellFormed

(* It holds at first.                                                       *)
LEMMA TypedInit == Init => Typed
<1> USE PlatformAssumption, RelayAssumption, ConsumerAssumption
<1> SUFFICES ASSUME Init PROVE Typed
  OBVIOUS
<1> USE DEF Init, PlatformInit, ApiInit, RelayInit, ConsumerInit
<1>1. PlatformTypeOK
  BY DEF PlatformTypeOK, Status, Outcome, Event, Stage
<1>2. ApiTypeOK
  BY DEF ApiTypeOK, SubmitPc, PollPc, PollState, IdlePoll, Answer
<1>3. RelayTypeOK
  BY DEF RelayTypeOK, SlotPc, SlotState, IdleSlot
<1>4. ConsumerTypeOK
  BY DEF ConsumerTypeOK, ConsPc, Hook, Status, ChannelTypeOK, ChannelInit, ChannelState
<1>5. WellFormed
  BY DEF WellFormed, IdleSlot, IdlePoll
<1> QED
  BY <1>1, <1>2, <1>3, <1>4, <1>5 DEF Typed, TypeOK

(* Each call leaves the part of the state it touches well typed.            *)

(* A fault is counted with a number.                                        *)
LEMMA FaultTyped ==
  ASSUME faults \in Nat, NoFault \/ \E kind \in FaultKinds : Fault(kind)
  PROVE  faults' \in Nat
BY DEF NoFault, Fault

(* A record stays a status or none.                                         *)
LEMMA RecordTyped ==
  ASSUME PlatformTypeOK, NEW j \in Jobs, NEW status \in Status \cup {"none"},
         record' = [record EXCEPT ![j] = status]
  PROVE  record' \in [Jobs -> Status \cup {"none"}]
BY DEF PlatformTypeOK

(* A message stays in one of its stages.                                    *)
LEMMA StageTyped ==
  ASSUME PlatformTypeOK, NEW j \in Jobs, NEW stage \in Stage,
         delivery' = [delivery EXCEPT ![j] = stage]
  PROVE  delivery' \in [Jobs -> Stage]
BY DEF PlatformTypeOK

(* A publish adds one event at the end and moves none.                      *)
LEMMA AppendTyped ==
  ASSUME PlatformTypeOK, NEW j \in Jobs, NEW status \in Outcome,
         PublishResultEvent(j, status)
  PROVE  /\ log' \in Seq(Event)
         /\ Len(log') = Len(log) + 1
         /\ \A i \in 1..Len(log) : log'[i] = log[i]
         /\ log'[Len(log')] = [job |-> j, status |-> status]
BY DEF PlatformTypeOK, PublishResultEvent, Event

(* Sending again keeps stages and retries what they are.                    *)
LEMMA NackTyped ==
  ASSUME PlatformTypeOK, NEW js, Nack(js)
  PROVE  delivery' \in [Jobs -> Stage] /\ retries' \in [Jobs -> Nat]
BY PlatformAssumption DEF PlatformTypeOK, Nack, Stage

(* A step of Submit keeps the API's types.                                  *)
LEMMA SubmitTyped ==
  ASSUME ApiTypeOK, NEW j \in Jobs, NEW from, NEW to \in SubmitPc, SubmitAt(j, from, to)
  PROVE  ApiTypeOK'
BY DEF ApiTypeOK, SubmitAt

(* A step of a poll moves that poll alone.                                  *)
LEMMA PollTyped ==
  ASSUME ApiTypeOK, NEW p \in Pollers, NEW from, NEW next \in PollState,
         PollAt(p, from, next)
  PROVE  /\ poll' \in [Pollers -> PollState]
         /\ submit' \in [Jobs -> SubmitPc]
         /\ poll'[p] = next
         /\ \A q \in Pollers \ {p} : poll'[q] = poll[q]
BY DEF ApiTypeOK, PollAt

(* Submit keeps the types.                                                  *)
LEMMA TypedSubmit ==
  ASSUME Typed, NEW j \in Jobs, SubmitStep(j), UNCHANGED relayVars, UNCHANGED consumerVars
  PROVE  Typed'
<1> USE DEF Typed, TypeOK, relayVars, consumerVars, loopVars, ChannelTypeOK,
           Status, Outcome, SubmitPc, FaultKinds
<1>1. faults' \in Nat
  BY FaultTyped DEF SubmitStep, Upload, Save, Publish, MarkUnpublished, DiscardInput,
                    CallFailsOrClientLeft, PlatformTypeOK, DeleteInput, StoreInput
<1>2. ApiTypeOK' /\ poll' = poll /\ log' = log
  BY SubmitTyped DEF SubmitStep, Upload, Save, Publish, MarkUnpublished, DiscardInput, SubmitAt,
     DeleteInput, StoreInput
<1>3. record' \in [Jobs -> Status \cup {"none"}]
  BY RecordTyped DEF SubmitStep, Upload, Save, Publish, MarkUnpublished, DiscardInput,
                     PlatformTypeOK, SaveJob, UpdateJobResult, DeleteInput, StoreInput
<1>4. delivery' \in [Jobs -> Stage] /\ retries' \in [Jobs -> Nat]
  BY StageTyped DEF SubmitStep, Upload, Save, Publish, MarkUnpublished, DiscardInput,
                    PlatformTypeOK, PublishInputEvent, Stage, DeleteInput, StoreInput
<1>5. inputs' \subseteq Jobs /\ results' \subseteq Jobs
  BY DEF SubmitStep, Upload, Save, Publish, MarkUnpublished, DiscardInput, PlatformTypeOK,
     DeleteInput, StoreInput
<1>6. PlatformTypeOK'
  BY <1>1, <1>2, <1>3, <1>4, <1>5 DEF PlatformTypeOK
<1> QED
  BY <1>2, <1>6 DEF RelayTypeOK, ConsumerTypeOK, WellFormed

(* So do the polls.                                                         *)
LEMMA TypedPoll ==
  ASSUME Typed, NEW p \in Pollers,
         PollStep(p) \/ \E j \in Jobs : PollRead(p, j),
         UNCHANGED relayVars, UNCHANGED consumerVars
  PROVE  Typed'
<1> USE DEF Typed, TypeOK, relayVars, consumerVars, loopVars, ChannelTypeOK, Status, FaultKinds
<1>1. faults' \in Nat
  BY FaultTyped DEF PollStep, PollRead, PollFetch, PollRespond, DropResult, DropRecord,
                    PlatformTypeOK, platformVars, DeleteResult
<1>2. \E next \in PollState :
        /\ PollAt(p, poll[p].pc, next)
        /\ next.pc # "idle" => next.job \in Jobs
  <2>1. poll[p].pc # "idle" => poll[p].job \in Jobs
    BY DEF WellFormed
  <2>2. CASE \E j \in Jobs : PollRead(p, j)
    BY <2>2 DEF PollRead, PollAt, PollState, PollPc
  <2>3. CASE PollFetch(p)
    <3>1. PICK got \in BOOLEAN :
            PollAt(p, "fetch", [pc |-> "respond", job |-> poll[p].job, got |-> got])
      BY <2>3 DEF PollFetch
    <3>2. poll[p].pc = "fetch"
      BY <3>1 DEF PollAt
    <3>3. [pc |-> "respond", job |-> poll[p].job, got |-> got] \in PollState
      BY <2>1, <3>2 DEF PollState, PollPc
    <3> QED
      BY <2>1, <3>1, <3>2, <3>3
  <2>4. CASE PollRespond(p)
    <3>1. PollAt(p, "respond", [pc |-> "dropResult", job |-> poll[p].job, got |-> FALSE])
      BY <2>4 DEF PollRespond
    <3>2. poll[p].pc = "respond"
      BY <3>1 DEF PollAt
    <3>3. [pc |-> "dropResult", job |-> poll[p].job, got |-> FALSE] \in PollState
      BY <2>1, <3>2 DEF PollState, PollPc
    <3> QED
      BY <2>1, <3>1, <3>2, <3>3
  <2>5. CASE DropResult(p)
    <3>1. PollAt(p, "dropResult", [pc |-> "dropRecord", job |-> poll[p].job, got |-> FALSE])
      BY <2>5 DEF DropResult, DeleteResult
    <3>2. poll[p].pc = "dropResult"
      BY <3>1 DEF PollAt
    <3>3. [pc |-> "dropRecord", job |-> poll[p].job, got |-> FALSE] \in PollState
      BY <2>1, <3>2 DEF PollState, PollPc
    <3> QED
      BY <2>1, <3>1, <3>2, <3>3
  <2>6. CASE DropRecord(p)
    <3>1. PollAt(p, "dropRecord", IdlePoll)
      BY <2>6 DEF DropRecord
    <3>2. IdlePoll \in PollState /\ IdlePoll.pc = "idle"
      BY DEF IdlePoll, PollState, PollPc
    <3> QED
      BY <3>1, <3>2 DEF PollAt
  <2> QED
    BY <2>2, <2>3, <2>4, <2>5, <2>6 DEF PollStep
<1>3. /\ poll' \in [Pollers -> PollState]
      /\ submit' \in [Jobs -> SubmitPc]
      /\ \A q \in Pollers : poll'[q].pc # "idle" => poll'[q].job \in Jobs
  BY <1>2, PollTyped DEF WellFormed
<1>4. answered' \in [Jobs -> Answer] /\ log' = log
  BY DEF ApiTypeOK, Answer, PollStep, PollRead, PollFetch, PollRespond, DropResult,
         DropRecord, platformVars, DeleteResult
<1>5. record' \in [Jobs -> Status \cup {"none"}]
  <2>1. poll[p].pc # "idle" => poll[p].job \in Jobs
    BY DEF WellFormed
  <2> QED
    BY <2>1, RecordTyped DEF PollStep, PollRead, PollFetch, PollRespond, DropResult, DropRecord,
       PlatformTypeOK, platformVars, DeleteJob, PollAt, DeleteResult
<1>6. PlatformTypeOK'
  BY <1>1, <1>4, <1>5 DEF PollStep, PollRead, PollFetch, PollRespond, DropResult, DropRecord,
                         PlatformTypeOK, platformVars, DeleteResult
<1> QED
  BY <1>3, <1>4, <1>6 DEF RelayTypeOK, ConsumerTypeOK, ApiTypeOK, WellFormed

(* What a step of a request does to the request, the message and the log.   *)

(* A step of a relay request moves that request alone.                      *)
LEMMA SlotMoves ==
  ASSUME RelayTypeOK, NEW s \in Slots, NEW next \in SlotState,
         slot' = [slot EXCEPT ![s] = next]
  PROVE  /\ slot' \in [Slots -> SlotState]
         /\ slot'[s] = next
         /\ \A t \in Slots \ {s} : slot'[t] = slot[t]
BY DEF RelayTypeOK

(* It keeps its job and its pod until it leaves.                            *)
LEMMA SlotAtMoves ==
  ASSUME RelayTypeOK, NEW s \in Slots, NEW from, NEW to \in SlotPc, SlotAt(s, from, to)
  PROVE  /\ [slot[s] EXCEPT !.pc = to] \in SlotState
         /\ slot' = [slot EXCEPT ![s] = [slot[s] EXCEPT !.pc = to]]
<1>1. slot[s] \in SlotState
  BY DEF RelayTypeOK
<1>2. [slot[s] EXCEPT !.pc = to] \in SlotState
  BY <1>1 DEF SlotState
<1>3. slot' = [slot EXCEPT ![s] = [slot[s] EXCEPT !.pc = to]]
  BY DEF SlotAt
<1> QED
  BY <1>2, <1>3

(* A request that leaves frees its slot and its place in the count.         *)
LEMMA LeaveTyped ==
  ASSUME RelayTypeOK, NEW s \in Slots, Leave(s)
  PROVE  /\ IdleSlot \in SlotState
         /\ slot' = [slot EXCEPT ![s] = IdleSlot]
         /\ syncPriority' \in [Pods -> Int]
<1>1. IdleSlot \in SlotState
  BY DEF IdleSlot, SlotState, SlotPc
<1>2. syncPriority' \in [Pods -> Int]
  <2>1. PodOf[s] \in Pods /\ syncPriority \in [Pods -> Int]
    BY RelayAssumption DEF RelayTypeOK
  <2>2. syncPriority' \in {[syncPriority EXCEPT ![PodOf[s]] = @ - 1], syncPriority}
    BY DEF Leave
  <2> QED
    BY <2>1, <2>2
<1> QED
  BY <1>1, <1>2 DEF Leave

(* The request moves to a later call, or is answered and gone.              *)
LEMMA SlotStepMoves ==
  ASSUME Typed, NEW s \in Slots, SlotStep(s)
  PROVE  /\ slot[s].pc # "idle" /\ slot[s].job \in Jobs
         /\ \/ \E to \in SlotPc : slot' = [slot EXCEPT ![s] = [slot[s] EXCEPT !.pc = to]]
            \/ slot' = [slot EXCEPT ![s] = IdleSlot]
         /\ slot' \in [Slots -> SlotState]
         /\ \A t \in Slots :
              slot'[t].pc # "idle" \/ slot'[t].attached => slot'[t].job \in Jobs
<1>1. slot[s].pc # "idle"
  BY DEF SlotStep, GetInput, Infer, PublishFailure, DeleteFailedInput, PutResult,
         PublishResult, Respond, Answer200, Answer500, SlotAt, DeleteInput, StoreResult
<1>2. slot[s].job \in Jobs
  BY <1>1 DEF Typed, WellFormed
<1>3. \/ \E to \in SlotPc : slot' = [slot EXCEPT ![s] = [slot[s] EXCEPT !.pc = to]]
      \/ slot' = [slot EXCEPT ![s] = IdleSlot]
  <2>1. \/ \E from, to \in SlotPc : SlotAt(s, from, to)
        \/ slot' = [slot EXCEPT ![s].pc = "reply"]
        \/ Leave(s)
    <3> USE DEF SlotPc
    <3>1. CASE GetInput(s)
      BY <3>1 DEF GetInput, Answer500
    <3>2. CASE Infer(s)
      BY <3>2 DEF Infer
    <3>3. CASE PublishFailure(s)
      BY <3>3 DEF PublishFailure, Answer500
    <3>4. CASE DeleteFailedInput(s)
      BY <3>4 DEF DeleteFailedInput, DeleteInput
    <3>5. CASE PutResult(s)
      BY <3>5 DEF PutResult, Answer500, StoreResult
    <3>6. CASE PublishResult(s)
      BY <3>6 DEF PublishResult
    <3>7. CASE Respond(s)
      BY <3>7 DEF Respond
    <3>8. CASE Answer200(s)
      BY <3>8 DEF Answer200
    <3> QED
      BY <3>1, <3>2, <3>3, <3>4, <3>5, <3>6, <3>7, <3>8 DEF SlotStep
  <2>2. CASE \E from, to \in SlotPc : SlotAt(s, from, to)
    BY <2>2, SlotAtMoves DEF Typed, TypeOK
  <2>3. CASE slot' = [slot EXCEPT ![s].pc = "reply"]
    BY <2>3 DEF SlotPc
  <2>4. CASE Leave(s)
    BY <2>4 DEF Leave
  <2> QED
    BY <2>1, <2>2, <2>3, <2>4
<1>4. CASE slot' = [slot EXCEPT ![s] = IdleSlot]
  <2>1. IdleSlot \in SlotState /\ IdleSlot.pc = "idle" /\ ~IdleSlot.attached
    BY DEF IdleSlot, SlotState, SlotPc
  <2>2. /\ slot' \in [Slots -> SlotState]
        /\ slot'[s] = IdleSlot
        /\ \A t \in Slots \ {s} : slot'[t] = slot[t]
    BY <1>4, <2>1, SlotMoves DEF Typed, TypeOK
  <2> QED
    BY <1>1, <1>2, <1>3, <2>1, <2>2 DEF Typed, WellFormed
<1>5. ASSUME NEW to \in SlotPc, slot' = [slot EXCEPT ![s] = [slot[s] EXCEPT !.pc = to]]
      PROVE  /\ slot' \in [Slots -> SlotState]
             /\ \A t \in Slots :
                  slot'[t].pc # "idle" \/ slot'[t].attached => slot'[t].job \in Jobs
  <2> DEFINE next == [slot[s] EXCEPT !.pc = to]
  <2>1. next \in SlotState /\ next.job = slot[s].job
    BY DEF Typed, TypeOK, RelayTypeOK, SlotState
  <2>2. /\ slot' \in [Slots -> SlotState]
        /\ slot'[s] = next
        /\ \A t \in Slots \ {s} : slot'[t] = slot[t]
    BY <1>5, <2>1, SlotMoves DEF Typed, TypeOK
  <2>3. \A t \in Slots \ {s} :
          slot'[t].pc # "idle" \/ slot'[t].attached => slot'[t].job \in Jobs
    BY <2>2 DEF Typed, WellFormed
  <2> QED
    BY <1>2, <2>1, <2>2, <2>3
<1> QED
  BY <1>1, <1>2, <1>3, <1>4, <1>5

(* What the calls of a request do to the shared services.                   *)
LEMMA SlotStepServices ==
  ASSUME NEW s \in Slots, SlotStep(s)
  PROVE  /\ UNCHANGED record
         /\ UNCHANGED inputs \/ inputs' = inputs \ {slot[s].job}
         /\ UNCHANGED results \/ results' = results \cup {slot[s].job}
         /\ UNCHANGED log \/ \E o \in Outcome : PublishResultEvent(slot[s].job, o)
         /\ \/ UNCHANGED <<delivery, retries>>
            \/ Ack(slot[s].job)
            \/ Nack({slot[s].job})
         /\ NoFault \/ \E kind \in FaultKinds : Fault(kind)
         /\ \/ UNCHANGED reapers
            \/ reapers' = [reapers EXCEPT ![PodOf[s]] = @ \cup {slot[s].job}]
         /\ UNCHANGED syncPriority \/ Leave(s)
<1> USE DEF Outcome, FaultKinds, NoFault, CallFails
<1>1. CASE GetInput(s)
  BY <1>1 DEF GetInput, Answer500, SlotAt
<1>2. CASE Infer(s)
  BY <1>2 DEF Infer, SlotAt, platformVars
<1>3. CASE PublishFailure(s)
  BY <1>3 DEF PublishFailure, Answer500, SlotAt
<1>4. CASE DeleteFailedInput(s)
  BY <1>4 DEF DeleteFailedInput, SlotAt, DeleteInput
<1>5. CASE PutResult(s)
  BY <1>5 DEF PutResult, Answer500, SlotAt, StoreResult
<1>6. CASE PublishResult(s)
  BY <1>6 DEF PublishResult, SlotAt
<1>7. CASE Respond(s)
  BY <1>7 DEF Respond, platformVars
<1>8. CASE Answer200(s)
  BY <1>8 DEF Answer200
<1> QED
  BY <1>1, <1>2, <1>3, <1>4, <1>5, <1>6, <1>7, <1>8 DEF SlotStep

(* The relay's requests keep the types.                                     *)
LEMMA TypedSlot ==
  ASSUME Typed, NEW s \in Slots, SlotStep(s), UNCHANGED apiVars, UNCHANGED consumerVars
  PROVE  Typed'
<1> USE DEF Typed, TypeOK, apiVars, consumerVars, loopVars, ChannelTypeOK
<1>1. slot[s].job \in Jobs
  BY SlotStepMoves
<1>2. faults' \in Nat
  BY SlotStepServices, FaultTyped DEF PlatformTypeOK
<1>3. inputs' \subseteq Jobs /\ results' \subseteq Jobs
  BY <1>1, SlotStepServices DEF PlatformTypeOK
<1>4. delivery' \in [Jobs -> Stage] /\ retries' \in [Jobs -> Nat]
  <2>1. CASE Ack(slot[s].job)
    BY <1>1, <2>1, StageTyped DEF Ack, PlatformTypeOK, Stage
  <2>2. CASE Nack({slot[s].job})
    BY <2>2, NackTyped
  <2>3. CASE UNCHANGED <<delivery, retries>>
    BY <2>3 DEF PlatformTypeOK
  <2> QED
    BY <2>1, <2>2, <2>3, SlotStepServices
<1>5. log' \in Seq(Event) /\ Len(log') >= Len(log)
  <2>1. CASE UNCHANGED log
    BY <2>1 DEF PlatformTypeOK
  <2>2. ASSUME NEW o \in Outcome, PublishResultEvent(slot[s].job, o)
        PROVE  log' \in Seq(Event) /\ Len(log') >= Len(log)
    <3>1. Len(log) \in Nat
      BY DEF PlatformTypeOK
    <3>2. log' \in Seq(Event) /\ Len(log') = Len(log) + 1
      BY <1>1, <2>2, AppendTyped
    <3> QED
      BY <3>1, <3>2
  <2> QED
    BY <2>1, <2>2, SlotStepServices
<1>6. PlatformTypeOK'
  BY <1>2, <1>3, <1>4, <1>5, SlotStepServices DEF PlatformTypeOK
<1>7. syncPriority' \in [Pods -> Int]
  BY LeaveTyped, SlotStepServices DEF RelayTypeOK
<1>8. reapers' \in [Pods -> SUBSET Jobs]
  <2>1. PodOf[s] \in Pods /\ reapers \in [Pods -> SUBSET Jobs]
    BY RelayAssumption DEF RelayTypeOK
  <2>2. \/ reapers' = reapers
        \/ reapers' = [reapers EXCEPT ![PodOf[s]] = @ \cup {slot[s].job}]
    BY SlotStepServices
  <2> QED
    BY <1>1, <2>1, <2>2
<1>9. RelayTypeOK'
  BY <1>7, <1>8, SlotStepMoves DEF RelayTypeOK
<1>10. WellFormed'
  <2>1. Len(log) \in Nat /\ Len(log') \in Nat
    BY <1>5 DEF PlatformTypeOK
  <2>2. cons'.at <= Len(log') /\ \A h \in hooks' : h.off \in 1..Len(log')
    BY <1>5, <2>1 DEF WellFormed, ConsumerTypeOK, Hook
  <2> QED
    BY <2>2, SlotStepMoves DEF WellFormed
<1> QED
  BY <1>6, <1>9, <1>10 DEF ApiTypeOK, ConsumerTypeOK

(* So does the KafkaSource.                                                 *)
LEMMA TypedDeliver ==
  ASSUME Typed, NEW j \in Jobs, DeliverStep(j), UNCHANGED apiVars, UNCHANGED consumerVars
  PROVE  Typed'
<1> USE DEF Typed, TypeOK, apiVars, consumerVars, loopVars, ChannelTypeOK
<1>1. ASSUME NEW p \in Pods, Defer(j, p)
      PROVE  Typed'
  <2>1. delivery' \in [Jobs -> Stage] /\ retries' \in [Jobs -> Nat]
    BY <1>1, NackTyped DEF Defer
  <2> QED
    BY <1>1, <2>1 DEF Defer, relayVars, PlatformTypeOK, ApiTypeOK, RelayTypeOK,
                      ConsumerTypeOK, WellFormed
<1>2. ASSUME NEW s \in Slots, ServeHTTP(s, j) \/ ServeHTTPSync(s, j)
      PROVE  Typed'
  <2> DEFINE next == [pc |-> "get", job |-> j, attached |-> TRUE]
  <2>1. next \in SlotState /\ next.job \in Jobs
    BY DEF SlotState, SlotPc
  <2>2. /\ slot' = [slot EXCEPT ![s] = next]
        /\ UNCHANGED platformVars
        /\ UNCHANGED reapers
        /\ UNCHANGED syncPriority \/ syncPriority' = [syncPriority EXCEPT ![PodOf[s]] = @ + 1]
    BY <1>2 DEF ServeHTTP, ServeHTTPSync, Begin
  <2>3. /\ slot' \in [Slots -> SlotState]
        /\ slot'[s] = next
        /\ \A t \in Slots \ {s} : slot'[t] = slot[t]
    BY <2>1, <2>2, SlotMoves
  <2>4. \A t \in Slots : slot'[t].pc # "idle" \/ slot'[t].attached => slot'[t].job \in Jobs
    BY <2>1, <2>3 DEF WellFormed
  <2>5. syncPriority' \in [Pods -> Int]
    <3>1. PodOf[s] \in Pods /\ syncPriority \in [Pods -> Int]
      BY RelayAssumption DEF RelayTypeOK
    <3> QED
      BY <2>2, <3>1
  <2>6. PlatformTypeOK' /\ RelayTypeOK'
    BY <2>2, <2>3, <2>5 DEF platformVars, PlatformTypeOK, RelayTypeOK
  <2>7. WellFormed'
    BY <2>2, <2>4 DEF platformVars, WellFormed
  <2> QED
    BY <2>6, <2>7 DEF ApiTypeOK, ConsumerTypeOK
<1> QED
  BY <1>1, <1>2 DEF DeliverStep

(* What the relay suffers, and its deletions.                               *)
LEMMA TypedPod ==
  ASSUME Typed,
         \/ \E s \in Slots : Timeout(s)
         \/ \E p \in Pods : ReapInput(p) \/ Evict(p),
         UNCHANGED apiVars, UNCHANGED consumerVars
  PROVE  Typed'
<1> USE DEF Typed, TypeOK, apiVars, consumerVars, loopVars, ChannelTypeOK
<1>1. ASSUME NEW s \in Slots, Timeout(s)
      PROVE  Typed'
  <2> DEFINE next == [slot[s] EXCEPT !.attached = FALSE]
  <2>1. next \in SlotState /\ next.job = slot[s].job /\ next.pc = slot[s].pc
    BY DEF RelayTypeOK, SlotState
  <2>2. slot[s].job \in Jobs
    BY <1>1 DEF Timeout, WellFormed
  <2>3. slot' = [slot EXCEPT ![s] = next]
    BY <1>1 DEF Timeout
  <2>4. /\ slot' \in [Slots -> SlotState]
        /\ slot'[s] = next
        /\ \A t \in Slots \ {s} : slot'[t] = slot[t]
    BY <2>1, <2>3, SlotMoves
  <2>5. \A t \in Slots : slot'[t].pc # "idle" \/ slot'[t].attached => slot'[t].job \in Jobs
    BY <2>1, <2>2, <2>4 DEF WellFormed
  <2>6. delivery' \in [Jobs -> Stage] /\ retries' \in [Jobs -> Nat]
    BY <1>1, NackTyped DEF Timeout
  <2>7. faults' \in Nat
    BY <1>1 DEF Timeout, Fault, PlatformTypeOK
  <2> QED
    BY <1>1, <2>4, <2>5, <2>6, <2>7 DEF Timeout, PlatformTypeOK, ApiTypeOK, RelayTypeOK,
                                        ConsumerTypeOK, WellFormed
<1>2. ASSUME NEW p \in Pods, ReapInput(p)
      PROVE  Typed'
  <2>1. faults' \in Nat
    BY <1>2 DEF ReapInput, Fault, NoFault, PlatformTypeOK, DeleteInput
  <2>2. inputs' \subseteq Jobs
    BY <1>2 DEF ReapInput, PlatformTypeOK, DeleteInput
  <2>3. reapers' \in [Pods -> SUBSET Jobs]
    <3>1. PICK j \in reapers[p] : reapers' = [reapers EXCEPT ![p] = @ \ {j}]
      BY <1>2 DEF ReapInput, DeleteInput
    <3>2. reapers \in [Pods -> SUBSET Jobs]
      BY DEF RelayTypeOK
    <3> QED
      BY <3>1, <3>2
  <2> QED
    BY <1>2, <2>1, <2>2, <2>3 DEF ReapInput, PlatformTypeOK, ApiTypeOK, RelayTypeOK,
                                  ConsumerTypeOK, WellFormed, DeleteInput
<1>3. ASSUME NEW p \in Pods, Evict(p)
      PROVE  Typed'
  <2>1. IdleSlot \in SlotState /\ IdleSlot.pc = "idle" /\ ~IdleSlot.attached
    BY DEF IdleSlot, SlotState, SlotPc
  <2>2. slot' = [s \in Slots |-> IF PodOf[s] = p THEN IdleSlot ELSE slot[s]]
    BY <1>3 DEF Evict
  <2>3. slot' \in [Slots -> SlotState]
    BY <2>1, <2>2 DEF RelayTypeOK
  <2>4. \A t \in Slots : slot'[t].pc # "idle" \/ slot'[t].attached => slot'[t].job \in Jobs
    BY <2>1, <2>2 DEF WellFormed
  <2>5. syncPriority' \in [Pods -> Int] /\ reapers' \in [Pods -> SUBSET Jobs]
    BY <1>3 DEF Evict, RelayTypeOK
  <2>6. delivery' \in [Jobs -> Stage] /\ retries' \in [Jobs -> Nat]
    BY <1>3, NackTyped DEF Evict
  <2>7. faults' \in Nat
    BY <1>3 DEF Evict, Fault, PlatformTypeOK
  <2>8. UNCHANGED <<record, inputs, results, log>>
    BY <1>3 DEF Evict
  <2> QED
    BY <2>3, <2>4, <2>5, <2>6, <2>7, <2>8 DEF PlatformTypeOK, ApiTypeOK, RelayTypeOK,
                                              ConsumerTypeOK, WellFormed
<1> QED
  BY <1>1, <1>2, <1>3

(* The consumer's copies of the log's length and of the jobs it serves.     *)
LEMMA LogFacts ==
  ASSUME Typed
  PROVE  /\ Len(log) \in Nat
         /\ \A i \in 1..Len(log) : log[i].job \in Jobs /\ log[i].status \in Outcome
         /\ cons.at \in Nat /\ cons.pc \in ConsPc /\ committed \in Nat
         /\ cons.pc # "fetch" => Current.job \in Jobs /\ Current.status \in Outcome
<1> USE DEF Typed, TypeOK, PlatformTypeOK, ConsumerTypeOK
<1>1. Len(log) \in Nat
  OBVIOUS
<1>2. \A i \in 1..Len(log) : log[i] \in Event
  OBVIOUS
<1>3. cons.pc # "fetch" => cons.at \in 1..Len(log)
  BY <1>1 DEF WellFormed
<1> QED
  BY <1>1, <1>2, <1>3 DEF Current, Event

(* So does the consumer.                                                    *)
LEMMA TypedCons ==
  ASSUME Typed, ConsumerStep, UNCHANGED apiVars, UNCHANGED relayVars
  PROVE  Typed'
<1> USE DEF Typed, TypeOK, apiVars, relayVars
<1>1. /\ Len(log) \in Nat
      /\ cons.at \in Nat /\ committed \in Nat
      /\ cons.pc # "fetch" => Current.job \in Jobs /\ Current.status \in Outcome
  BY LogFacts
<1>2. faults' \in Nat
  BY DEF ConsumerStep, Fetch, Update, Read, Notify, NotifyJobDone, Commit, platformVars, NoFault,
     Fault, PlatformTypeOK
<1>3. UNCHANGED <<inputs, results, delivery, retries, log>>
  BY DEF ConsumerStep, Fetch, Update, Read, Notify, Commit, platformVars
<1>4. record' \in [Jobs -> Status \cup {"none"}]
  BY <1>1, RecordTyped DEF ConsumerStep, Fetch, Update, Read, Notify, Commit, platformVars,
     ConsumerAt, UpdateJobResult, Status, PlatformTypeOK
<1>5. PlatformTypeOK'
  BY <1>2, <1>3, <1>4 DEF PlatformTypeOK
<1>6. /\ cons' \in [pc : ConsPc, at : Nat, got : Status]
      /\ cons'.at <= Len(log)
      /\ cons'.pc # "fetch" => cons'.at >= 1
      /\ cons'.at >= cons.at
  <2>1. cons \in [pc : ConsPc, at : Nat, got : Status] /\ cons.at <= Len(log)
        /\ (cons.pc # "fetch" => cons.at >= 1)
    BY DEF ConsumerTypeOK, WellFormed
  <2>2. CASE Fetch
    <3>1. cons.at + 1 \in Nat /\ cons.at + 1 <= Len(log)
      BY <1>1, <2>2 DEF Fetch
    <3>2. cons' = [cons EXCEPT !.pc = "update", !.at = cons.at + 1]
      BY <2>2 DEF Fetch
    <3>3. cons' = [pc |-> "update", at |-> cons.at + 1, got |-> cons.got]
      BY <2>1, <3>2
    <3> QED
      BY <1>1, <2>1, <3>1, <3>3 DEF ConsPc
  <2>3. CASE Read /\ cons.pc = "read" /\ record[Current.job] # "none"
             /\ cons' = [cons EXCEPT !.pc = "notify", !.got = record[Current.job]]
    <3>1. record[Current.job] \in Status
      BY <1>1, <2>3 DEF PlatformTypeOK
    <3>2. cons' = [pc |-> "notify", at |-> cons.at, got |-> record[Current.job]]
      BY <2>1, <2>3
    <3>3. cons.at \in Nat /\ cons.at >= 1 /\ cons.at <= Len(log)
      BY <1>1, <2>1, <2>3
    <3>4. cons'.at = cons.at /\ cons' \in [pc : ConsPc, at : Nat, got : Status]
      BY <3>1, <3>2, <3>3 DEF ConsPc
    <3> QED
      BY <1>1, <3>3, <3>4
  <2>4. ASSUME NEW from \in ConsPc \ {"fetch"}, NEW to \in ConsPc, ConsumerAt(from, to)
        PROVE  /\ cons' \in [pc : ConsPc, at : Nat, got : Status]
               /\ cons'.at <= Len(log)
               /\ cons'.pc # "fetch" => cons'.at >= 1
               /\ cons'.at >= cons.at
    BY <1>1, <2>1, <2>4 DEF ConsumerAt
  <2>5. CASE Update \/ Notify \/ Commit
    <3>1. \E from \in ConsPc \ {"fetch"}, to \in ConsPc : ConsumerAt(from, to)
      BY <2>5 DEF Update, Notify, Commit, ConsPc
    <3> QED
      BY <2>4, <3>1
  <2>6. CASE ConsumerAt("read", "fetch")
    BY <2>4, <2>6 DEF ConsPc
  <2> QED
    BY <2>2, <2>3, <2>5, <2>6 DEF ConsumerStep, Read
<1>7. committed' \in Nat /\ committed' <= cons'.at
  <2>1. committed' \in {committed, cons.at}
    BY DEF ConsumerStep, Fetch, Update, Read, Notify, Commit
  <2> QED
    BY <1>1, <1>6, <2>1 DEF WellFormed
<1>8. announced' \subseteq Jobs
  BY <1>1 DEF ConsumerStep, Fetch, Update, Read, Notify, Commit, ConsumerAt, ConsumerTypeOK
<1>9. hooks' \subseteq Hook /\ \A h \in hooks' : h.off \in 1..Len(log)
  <2>1. hooks \subseteq Hook /\ \A h \in hooks : h.off \in 1..Len(log)
    BY DEF ConsumerTypeOK, WellFormed
  <2>2. CASE UNCHANGED hooks
    BY <2>1, <2>2
  <2>3. CASE Notify /\ ~UNCHANGED hooks
    <3> DEFINE new == [off |-> cons.at, status |-> cons.got, pc |-> "load",
                       payload |-> FALSE, attempt |-> 1]
    <3>1. hooks' = hooks \cup {new} /\ cons.pc = "notify"
      BY <2>3 DEF Notify, ConsumerAt
    <3>2. cons.got \in Status
      BY DEF ConsumerTypeOK
    <3>3. new \in Hook /\ new.off = cons.at
      BY <1>1, <3>2 DEF Hook
    <3>4. cons.at \in 1..Len(log)
      BY <1>1, <3>1 DEF WellFormed
    <3> QED
      BY <2>1, <3>1, <3>3, <3>4
  <2> QED
    BY <2>2, <2>3 DEF ConsumerStep, Fetch, Update, Read, Commit
<1>10. ChannelTypeOK'
  <2>1. UNCHANGED channel \/ NotifyJobDone(Current.job)
    BY DEF ConsumerStep, Fetch, Update, Read, Notify, Commit
  <2>2. channel \in [Jobs -> ChannelState]
    BY DEF ConsumerTypeOK, ChannelTypeOK
  <2> QED
    BY <2>1, <2>2 DEF NotifyJobDone, Signal, ChannelTypeOK, ChannelState
<1>11. ConsumerTypeOK'
  BY <1>6, <1>7, <1>8, <1>9, <1>10 DEF ConsumerTypeOK
<1>12. WellFormed'
  BY <1>3, <1>6, <1>7, <1>9 DEF WellFormed
<1> QED
  BY <1>5, <1>11, <1>12 DEF ApiTypeOK, RelayTypeOK

(* So do the webhooks.                                                      *)
LEMMA TypedHook ==
  ASSUME Typed, HookStep, UNCHANGED apiVars, UNCHANGED relayVars
  PROVE  Typed'
<1> USE DEF Typed, TypeOK, apiVars, relayVars
<1>1. PICK h \in hooks : LoadResult(h) \/ PostWebhook(h)
  BY DEF HookStep
<1>2. /\ UNCHANGED <<cons, committed, announced, channel>>
      /\ UNCHANGED <<record, inputs, results, delivery, retries, log>>
      /\ faults' \in Nat
  BY <1>1 DEF LoadResult, PostWebhook, NoFault, Fault, PlatformTypeOK
<1>3. h \in Hook /\ h.off \in 1..Len(log)
  BY DEF ConsumerTypeOK, WellFormed
<1>4. \E next \in Hook : next.off = h.off /\ hooks' \subseteq hooks \cup {next}
  <2>1. ASSUME LoadResult(h)
        PROVE  \E got \in BOOLEAN :
                 hooks' = (hooks \ {h}) \cup {[h EXCEPT !.pc = "post", !.payload = got]}
    BY <2>1 DEF LoadResult
  <2>2. ASSUME NEW got \in BOOLEAN,
               hooks' = (hooks \ {h}) \cup {[h EXCEPT !.pc = "post", !.payload = got]}
        PROVE  \E next \in Hook : next.off = h.off /\ hooks' \subseteq hooks \cup {next}
    <3> DEFINE next == [h EXCEPT !.pc = "post", !.payload = got]
    <3>1. next \in Hook /\ next.off = h.off
      BY <1>3 DEF Hook
    <3> QED
      BY <2>2, <3>1
  <2>3. CASE PostWebhook(h)
    <3> DEFINE next == [h EXCEPT !.attempt = @ + 1]
    <3>1. next \in Hook /\ next.off = h.off
      BY <1>3 DEF Hook
    <3>2. hooks' \subseteq hooks \cup {next}
      BY <2>3 DEF PostWebhook
    <3> QED
      BY <3>1, <3>2
  <2> QED
    BY <1>1, <2>1, <2>2, <2>3
<1>5. hooks' \subseteq Hook /\ \A k \in hooks' : k.off \in 1..Len(log)
  BY <1>3, <1>4 DEF ConsumerTypeOK, WellFormed
<1> QED
  BY <1>2, <1>5 DEF PlatformTypeOK, ApiTypeOK, RelayTypeOK, ConsumerTypeOK, ChannelTypeOK,
     WellFormed

(* So does a restart of the gateway.                                        *)
LEMMA TypedRestart ==
  ASSUME Typed, GatewayRestart
  PROVE  Typed'
<1> USE DEF Typed, TypeOK, GatewayRestart
<1>1. /\ Len(log) \in Nat
      /\ cons.at \in Nat /\ committed \in Nat
  BY LogFacts
<1>2. faults' \in Nat /\ UNCHANGED <<record, inputs, results, delivery, retries, log>>
  BY DEF Fault, PlatformTypeOK
<1>3. submit' \in [Jobs -> SubmitPc]
  BY DEF ApiCrash, ApiTypeOK, SubmitPc
<1>4. IdlePoll \in PollState /\ IdlePoll.pc = "idle"
  BY DEF IdlePoll, PollState, PollPc
<1>5. poll' \in [Pollers -> PollState] /\ \A p \in Pollers : poll'[p].pc = "idle"
  BY <1>4 DEF ApiCrash
<1>6. ApiTypeOK'
  BY <1>3, <1>5 DEF ApiCrash, ApiTypeOK
<1>7. /\ cons' \in [pc : ConsPc, at : Nat, got : Status]
      /\ cons'.at <= Len(log) /\ cons'.pc = "fetch" /\ committed <= cons'.at
  BY <1>1 DEF ConsumerRestart, ConsPc, Status, WellFormed
<1>8. ConsumerTypeOK'
  BY <1>7 DEF ConsumerRestart, ConsumerTypeOK, CloseAll, ChannelTypeOK, ChannelState
<1>9. WellFormed'
  BY <1>2, <1>5, <1>7 DEF ConsumerRestart, WellFormed, relayVars
<1> QED
  BY <1>2, <1>6, <1>8, <1>9 DEF PlatformTypeOK, RelayTypeOK, relayVars

(* Every step keeps the types.                                              *)
LEMMA TypedNext == Typed /\ [Next]_vars => Typed'
<1> SUFFICES ASSUME Typed, [Next]_vars PROVE Typed'
  OBVIOUS
<1>1. CASE ApiNext
  BY <1>1, TypedSubmit, TypedPoll DEF ApiNext
<1>2. CASE RelayNext
  BY <1>2, TypedDeliver, TypedSlot, TypedPod DEF RelayNext
<1>3. CASE ConsumerNext
  BY <1>3, TypedCons, TypedHook DEF ConsumerNext
<1>4. CASE GatewayRestart
  BY <1>4, TypedRestart
<1>5. CASE RecordExpires
  <2>1. record' \in [Jobs -> Status \cup {"none"}]
    BY <1>5, RecordTyped DEF RecordExpires, Expire, DeleteJob, Typed, TypeOK, Status
  <2>2. faults' \in Nat
    BY <1>5 DEF RecordExpires, Expire, Fault, Typed, TypeOK, PlatformTypeOK
  <2> QED
    BY <1>5, <2>1, <2>2 DEF RecordExpires, Expire, Typed, TypeOK, PlatformTypeOK, ApiTypeOK,
       RelayTypeOK, ConsumerTypeOK, WellFormed, apiVars, relayVars, consumerVars, loopVars,
       ChannelTypeOK
<1>6. CASE UNCHANGED vars
  BY <1>6 DEF vars, platformVars, apiVars, relayVars, consumerVars, loopVars, Typed, TypeOK,
     ChannelTypeOK,
     PlatformTypeOK, ApiTypeOK, RelayTypeOK, ConsumerTypeOK, WellFormed
<1> QED
  BY <1>1, <1>2, <1>3, <1>4, <1>5, <1>6 DEF Next

(***************************************************************************)
(* Who changes what: for every variable of the invariant, the steps that   *)
(* can disturb it.                                                         *)
(***************************************************************************)

(* The result topic only grows, by the event of the call a request is at.   *)
LEMMA LogChanges ==
  ASSUME Typed, [Next]_vars
  PROVE  \/ UNCHANGED log
         \/ \E s \in Slots :
              /\ slot[s].job \in Jobs
              /\ \/ slot[s].pc = "publish" /\ PublishResultEvent(slot[s].job, "completed")
                 \/ slot[s].pc = "fail" /\ PublishResultEvent(slot[s].job, "failed")
<1>1. ASSUME NEW s \in Slots, SlotStep(s)
      PROVE  \/ UNCHANGED log
             \/ slot[s].pc = "publish" /\ PublishResultEvent(slot[s].job, "completed")
             \/ slot[s].pc = "fail" /\ PublishResultEvent(slot[s].job, "failed")
  BY <1>1 DEF SlotStep, GetInput, Infer, PublishFailure, DeleteFailedInput, PutResult,
     PublishResult, Respond, Answer200, Answer500, SlotAt, platformVars, DeleteInput, StoreResult
<1>2. CASE RelayNext
  <2>1. ASSUME NEW j \in Jobs, DeliverStep(j)
        PROVE  UNCHANGED log
    BY <2>1 DEF DeliverStep, Defer, ServeHTTP, ServeHTTPSync, Begin, platformVars
  <2>2. ASSUME NEW s \in Slots, Timeout(s)
        PROVE  UNCHANGED log
    BY <2>2 DEF Timeout
  <2>3. ASSUME NEW q \in Pods, ReapInput(q) \/ Evict(q)
        PROVE  UNCHANGED log
    BY <2>3 DEF ReapInput, Evict, DeleteInput
  <2> QED
    BY <1>1, <1>2, <2>1, <2>2, <2>3, SlotStepMoves DEF RelayNext
<1>3. CASE ~RelayNext
  <2>1. ASSUME ApiNext
        PROVE  UNCHANGED log
    BY <2>1 DEF ApiNext, SubmitStep, Upload, Save, Publish, MarkUnpublished, DiscardInput,
       PollRead, PollStep, PollFetch, PollRespond, DropResult, DropRecord, platformVars,
       DeleteInput, StoreInput, DeleteResult
  <2>2. ASSUME ConsumerNext
        PROVE  UNCHANGED log
    BY <2>2 DEF ConsumerNext, ConsumerStep, Fetch, Update, Read, Notify, Commit, HookStep,
       LoadResult,
       PostWebhook, platformVars
  <2> QED
    BY <1>3, <2>1, <2>2 DEF Next, GatewayRestart, RecordExpires, Expire, vars, platformVars
<1> QED
  BY <1>2, <1>3

(* Events are never taken back, and only a request that is about to publish *)
(* adds one.                                                                *)
LEMMA EventsStay ==
  ASSUME Typed, [Next]_vars
  PROVE  /\ \A j : HasEvent(j) => HasEvent(j)'
         /\ \A i \in 1..Len(log') :
              \/ i \in 1..Len(log) /\ log'[i] = log[i]
              \/ \E s \in Slots :
                   /\ slot[s].job \in Jobs
                   /\ \/ slot[s].pc = "publish" /\ log'[i] = [job |-> slot[s].job, status |-> "completed"]
                      \/ slot[s].pc = "fail" /\ log'[i] = [job |-> slot[s].job, status |-> "failed"]
<1>1. Len(log) \in Nat
  BY LogFacts
<1>2. CASE UNCHANGED log
  BY <1>2 DEF HasEvent
<1>3. ASSUME NEW j \in Jobs, NEW status \in Outcome, PublishResultEvent(j, status)
      PROVE  /\ \A k : HasEvent(k) => HasEvent(k)'
             /\ \A i \in 1..Len(log') : \/ i \in 1..Len(log) /\ log'[i] = log[i]
                                       \/ log'[i] = [job |-> j, status |-> status]
  <2>1. /\ Len(log') = Len(log) + 1
        /\ \A i \in 1..Len(log) : log'[i] = log[i]
        /\ log'[Len(log')] = [job |-> j, status |-> status]
    BY <1>3, AppendTyped DEF Typed, TypeOK
  <2> QED
    BY <1>1, <2>1 DEF HasEvent
<1> QED
  BY <1>2, <1>3, LogChanges DEF Outcome

(* Only the cleanup of a poll deletes a result.                             *)
LEMMA ResultsLost ==
  ASSUME Typed, [Next]_vars, NEW j \in results, j \notin results'
  PROVE  \E p \in Pollers : poll[p].pc = "dropResult" /\ poll[p].job = j
<1>1. ASSUME NEW p \in Pollers, PollStep(p)
      PROVE  poll[p].pc = "dropResult" /\ poll[p].job = j
  BY <1>1 DEF PollStep, PollFetch, PollRespond, DropResult, DropRecord, PollAt, DeleteResult
<1>2. ASSUME RelayNext PROVE FALSE
  <2>1. ASSUME NEW k \in Jobs, DeliverStep(k)
        PROVE  UNCHANGED results
    BY <2>1 DEF DeliverStep, Defer, ServeHTTP, ServeHTTPSync, Begin, platformVars
  <2>2. ASSUME NEW s \in Slots, Timeout(s) PROVE UNCHANGED results
    BY <2>2 DEF Timeout
  <2>3. ASSUME NEW q \in Pods, ReapInput(q) \/ Evict(q) PROVE UNCHANGED results
    BY <2>3 DEF ReapInput, Evict, DeleteInput
  <2>4. ASSUME NEW s \in Slots, SlotStep(s) PROVE results \subseteq results'
    BY <2>4, SlotStepServices
  <2> QED
    BY <1>2, <2>1, <2>2, <2>3, <2>4 DEF RelayNext
<1>3. ASSUME ApiNext
      PROVE  UNCHANGED results \/ \E p \in Pollers : PollStep(p)
  BY <1>3 DEF ApiNext, SubmitStep, Upload, Save, Publish, MarkUnpublished, DiscardInput,
     PollRead, platformVars, DeleteInput, StoreInput
<1>4. ASSUME ConsumerNext PROVE UNCHANGED results
  BY <1>4 DEF ConsumerNext, ConsumerStep, Fetch, Update, Read, Notify, Commit, HookStep, LoadResult,
     PostWebhook, platformVars
<1> QED
  BY <1>1, <1>2, <1>3, <1>4 DEF Next, GatewayRestart, RecordExpires, Expire, vars, platformVars

(* An answer is never taken back.                                           *)
LEMMA AnsweredStays ==
  ASSUME Typed, [Next]_vars, NEW j \in Jobs, answered[j] # "never"
  PROVE  answered'[j] # "never"
<1>1. ASSUME NEW p \in Pollers, PollRespond(p)
      PROVE  answered'[j] # "never"
  <2>1. answered \in [Jobs -> Answer]
    BY DEF Typed, TypeOK, ApiTypeOK
  <2> QED
    BY <1>1, <2>1 DEF PollRespond
<1>2. ASSUME ApiNext
      PROVE  UNCHANGED answered \/ \E p \in Pollers : PollRespond(p)
  BY <1>2 DEF ApiNext, SubmitStep, Upload, Save, Publish, MarkUnpublished, DiscardInput, SubmitAt,
     PollRead, PollStep, PollFetch, DropResult, DropRecord, DeleteInput, StoreInput, DeleteResult
<1> QED
  BY <1>1, <1>2 DEF Next, RelayNext, ConsumerNext, GatewayRestart, ApiCrash, RecordExpires,
     apiVars, vars

(* An input is deleted by Submit for a job it refuses, or by the relay.     *)
LEMMA InputsLost ==
  ASSUME Typed, [Next]_vars, NEW j \in inputs, j \notin inputs'
  PROVE  \/ submit'[j] = "rejected"
         \/ \E s \in Slots : slot[s].pc = "deleteInput" /\ slot[s].job = j
         \/ \E p \in Pods : j \in reapers[p]
<1>1. ASSUME NEW k \in Jobs, SubmitStep(k)
      PROVE  submit'[j] = "rejected"
  <2>1. DiscardInput(k) /\ j = k
    BY <1>1 DEF SubmitStep, Upload, Save, Publish, MarkUnpublished, DiscardInput, DeleteInput,
       StoreInput
  <2> QED
    BY <2>1 DEF DiscardInput, SubmitAt, Typed, TypeOK, ApiTypeOK, DeleteInput
<1>2. ASSUME NEW s \in Slots, SlotStep(s)
      PROVE  slot[s].pc = "deleteInput" /\ slot[s].job = j
  BY <1>2 DEF SlotStep, GetInput, Infer, PublishFailure, DeleteFailedInput, PutResult,
     PublishResult, Respond, Answer200, SlotAt, platformVars, DeleteInput, StoreResult
<1>3. ASSUME RelayNext, \A s \in Slots : ~SlotStep(s)
      PROVE  \E p \in Pods : j \in reapers[p]
  <2>1. ASSUME NEW k \in Jobs, DeliverStep(k) PROVE FALSE
    BY <2>1 DEF DeliverStep, Defer, ServeHTTP, ServeHTTPSync, Begin, platformVars
  <2>2. ASSUME NEW s \in Slots, Timeout(s) PROVE FALSE
    BY <2>2 DEF Timeout
  <2>3. ASSUME NEW q \in Pods, Evict(q) PROVE FALSE
    BY <2>3 DEF Evict
  <2>4. ASSUME NEW q \in Pods, ReapInput(q) PROVE j \in reapers[q]
    BY <2>4 DEF ReapInput, DeleteInput
  <2> QED
    BY <1>3, <2>1, <2>2, <2>3, <2>4 DEF RelayNext
<1>4. ASSUME ApiNext
      PROVE  \E k \in Jobs : SubmitStep(k)
  BY <1>4 DEF ApiNext, PollRead, PollStep, PollFetch, PollRespond, DropResult, DropRecord,
     platformVars, DeleteResult
<1>5. ASSUME ConsumerNext PROVE FALSE
  BY <1>5 DEF ConsumerNext, ConsumerStep, Fetch, Update, Read, Notify, Commit, HookStep, LoadResult,
     PostWebhook, platformVars
<1> QED
  BY <1>1, <1>2, <1>3, <1>4, <1>5 DEF Next, GatewayRestart, RecordExpires, Expire, vars,
     platformVars

(* A record becomes completed only by the event the consumer has in hand.   *)
LEMMA RecordCompletes ==
  ASSUME Typed, [Next]_vars, NEW j \in Jobs, record'[j] = "completed", record[j] # "completed"
  PROVE  cons.pc = "update" /\ Current.job = j /\ Current.status = "completed"
<1>1. record \in [Jobs -> Status \cup {"none"}]
  BY DEF Typed, TypeOK, PlatformTypeOK
<1>2. ASSUME NEW k \in Jobs, SubmitStep(k) PROVE FALSE
  BY <1>1, <1>2 DEF SubmitStep, Upload, Save, Publish, MarkUnpublished, DiscardInput, SaveJob,
     UpdateJobResult, DeleteInput, StoreInput
<1>3. ASSUME NEW p \in Pollers, PollStep(p) \/ \E k \in Jobs : PollRead(p, k) PROVE FALSE
  BY <1>1, <1>3 DEF PollStep, PollRead, PollFetch, PollRespond, DropResult, DropRecord,
     DeleteJob, platformVars, DeleteResult
<1>4. ASSUME RelayNext PROVE FALSE
  <2>1. ASSUME NEW k \in Jobs, DeliverStep(k) PROVE FALSE
    BY <2>1 DEF DeliverStep, Defer, ServeHTTP, ServeHTTPSync, Begin, platformVars
  <2>2. ASSUME NEW s \in Slots, Timeout(s) PROVE FALSE
    BY <2>2 DEF Timeout
  <2>3. ASSUME NEW q \in Pods, ReapInput(q) \/ Evict(q) PROVE FALSE
    BY <2>3 DEF ReapInput, Evict, DeleteInput
  <2> QED
    BY <1>4, <2>1, <2>2, <2>3, SlotStepServices DEF RelayNext
<1>5. ASSUME ConsumerNext
      PROVE  cons.pc = "update" /\ Current.job = j /\ Current.status = "completed"
  BY <1>1, <1>5, LogFacts DEF ConsumerNext, ConsumerStep, Fetch, Update, Read, Notify, Commit,
     HookStep,
     LoadResult, PostWebhook, ConsumerAt, UpdateJobResult, platformVars
<1>6. ASSUME RecordExpires PROVE FALSE
  BY <1>1, <1>6 DEF RecordExpires, Expire, DeleteJob
<1> QED
  BY <1>2, <1>3, <1>4, <1>5, <1>6 DEF Next, ApiNext, GatewayRestart, vars, platformVars

(* How a request reaches the calls that matter: "publish" after the result  *)
(* was stored, "deleteInput" after the failure was published, "respond"     *)
(* after either.                                                            *)
LEMMA SlotStepReaches ==
  ASSUME Typed, NEW s \in Slots, SlotStep(s)
  PROVE  /\ \A t \in Slots \ {s} : slot'[t] = slot[t]
         /\ slot'[s].pc \in {"publish", "deleteInput", "respond"} => slot'[s].job = slot[s].job
         /\ slot'[s].pc = "publish" => slot[s].job \in results'
         /\ slot'[s].pc = "deleteInput" =>
              slot[s].pc = "fail" /\ PublishResultEvent(slot[s].job, "failed")
         /\ slot'[s].pc = "respond" => slot[s].pc \in {"publish", "deleteInput"}
<1>1. slot \in [Slots -> SlotState]
  BY DEF Typed, TypeOK, RelayTypeOK
<1>2. ASSUME NEW from, NEW to \in SlotPc, SlotAt(s, from, to)
      PROVE  /\ \A t \in Slots \ {s} : slot'[t] = slot[t]
             /\ slot'[s].pc = to /\ slot'[s].job = slot[s].job /\ slot[s].pc = from
  <2>1. slot[s] \in SlotState
    BY <1>1
  <2>2. [slot[s] EXCEPT !.pc = to].pc = to /\ [slot[s] EXCEPT !.pc = to].job = slot[s].job
    BY <2>1 DEF SlotState
  <2>3. slot' = [slot EXCEPT ![s] = [slot[s] EXCEPT !.pc = to]] /\ slot[s].pc = from
    BY <1>2 DEF SlotAt
  <2> QED
    BY <1>1, <2>2, <2>3
<1>3. ASSUME slot' = [slot EXCEPT ![s] = IdleSlot]
      PROVE  (\A t \in Slots \ {s} : slot'[t] = slot[t]) /\ slot'[s].pc = "idle"
  BY <1>1, <1>3 DEF IdleSlot
<1> USE DEF SlotPc
<1>4. CASE GetInput(s)
  BY <1>2, <1>3, <1>4 DEF GetInput, Answer500, Leave
<1>5. CASE Infer(s)
  BY <1>2, <1>5 DEF Infer
<1>6. CASE PublishFailure(s)
  BY <1>2, <1>3, <1>6 DEF PublishFailure, Answer500, Leave
<1>7. CASE DeleteFailedInput(s)
  BY <1>2, <1>7 DEF DeleteFailedInput, DeleteInput
<1>8. CASE PutResult(s)
  BY <1>2, <1>3, <1>8 DEF PutResult, Answer500, Leave, StoreResult
<1>9. CASE PublishResult(s)
  BY <1>2, <1>9 DEF PublishResult
<1>10. CASE Respond(s)
  BY <1>1, <1>10 DEF Respond
<1>11. CASE Answer200(s)
  BY <1>3, <1>11 DEF Answer200, Leave
<1> QED
  BY <1>4, <1>5, <1>6, <1>7, <1>8, <1>9, <1>10, <1>11 DEF SlotStep

(* A failure event that is published is there.                              *)
LEMMA PublishedFailure ==
  ASSUME Typed, NEW j \in Jobs, PublishResultEvent(j, "failed")
  PROVE  HasEvent(j)'
<1>1. Len(log) \in Nat
  BY LogFacts
<1>2. Len(log') = Len(log) + 1 /\ log'[Len(log')] = [job |-> j, status |-> "failed"]
  BY AppendTyped DEF Typed, TypeOK, Outcome
<1> QED
  BY <1>1, <1>2 DEF HasEvent

(* Where a relay request may come from when it is found at a call.          *)
LEMMA SlotReaches ==
  ASSUME Typed, [Next]_vars, NEW s \in Slots
  PROVE  /\ slot'[s].pc = "publish" =>
              \/ slot'[s].job \in results'
              \/ slot[s].pc = "publish" /\ slot[s].job = slot'[s].job
         /\ slot'[s].pc = "deleteInput" =>
              \/ HasEvent(slot[s].job)'
              \/ slot[s].pc = "deleteInput" /\ slot[s].job = slot'[s].job
         /\ slot'[s].pc = "respond" =>
              slot[s].pc \in {"publish", "deleteInput", "respond"} /\ slot[s].job = slot'[s].job
<1> DEFINE Same == slot'[s].pc = slot[s].pc /\ slot'[s].job = slot[s].job
           Fresh == slot'[s].pc \in {"idle", "get"}
<1>1. ASSUME ~Same, ~Fresh
      PROVE  SlotStep(s)
  <2>1. slot \in [Slots -> SlotState]
    BY DEF Typed, TypeOK, RelayTypeOK
  <2>2. RelayNext
    BY <1>1 DEF Next, ApiNext, ConsumerNext, GatewayRestart, RecordExpires, relayVars, vars
  <2>3. ASSUME NEW j \in Jobs, DeliverStep(j) PROVE FALSE
    BY <1>1, <2>1, <2>3 DEF DeliverStep, Defer, ServeHTTP, ServeHTTPSync, Begin, relayVars
  <2>4. ASSUME NEW t \in Slots, Timeout(t) PROVE FALSE
    <3>1. slot[t] \in SlotState
      BY <2>1
    <3> QED
      BY <1>1, <2>1, <2>4, <3>1 DEF Timeout, SlotState
  <2>5. ASSUME NEW q \in Pods, ReapInput(q) \/ Evict(q) PROVE FALSE
    BY <1>1, <2>1, <2>5 DEF ReapInput, Evict, IdleSlot, DeleteInput
  <2>6. ASSUME NEW t \in Slots, SlotStep(t) PROVE t = s
    BY <1>1, <2>6, SlotStepReaches
  <2> QED
    BY <2>2, <2>3, <2>4, <2>5, <2>6 DEF RelayNext
<1>2. CASE SlotStep(s)
  <2>1. slot[s].job \in Jobs
    BY <1>2, SlotStepMoves
  <2>2. ASSUME PublishResultEvent(slot[s].job, "failed"), slot'[s].job = slot[s].job
        PROVE  HasEvent(slot[s].job)'
    BY <2>1, <2>2, PublishedFailure DEF HasEvent
  <2> QED
    BY <1>2, <2>2, SlotStepReaches
<1>3. CASE Same
  BY <1>3
<1>4. CASE Fresh
  BY <1>4
<1> QED
  BY <1>1, <1>2, <1>3, <1>4

(* A deletion is left behind only by a request that has answered.           *)
LEMMA ReaperStarts ==
  ASSUME Typed, [Next]_vars, NEW p \in Pods, NEW j \in reapers'[p], j \notin reapers[p]
  PROVE  \E s \in Slots : slot[s].pc = "respond" /\ slot[s].job = j
<1>1. reapers \in [Pods -> SUBSET Jobs]
  BY DEF Typed, TypeOK, RelayTypeOK
<1>2. RelayNext
  BY DEF Next, ApiNext, ConsumerNext, GatewayRestart, RecordExpires, relayVars, vars
<1>3. ASSUME NEW k \in Jobs, DeliverStep(k) PROVE FALSE
  BY <1>3 DEF DeliverStep, Defer, ServeHTTP, ServeHTTPSync, Begin, relayVars
<1>4. ASSUME NEW s \in Slots, Timeout(s) PROVE FALSE
  BY <1>4 DEF Timeout
<1>5. ASSUME NEW q \in Pods, ReapInput(q) \/ Evict(q) PROVE FALSE
  BY <1>1, <1>5 DEF ReapInput, Evict, DeleteInput
<1>6. ASSUME NEW s \in Slots, SlotStep(s)
      PROVE  slot[s].pc = "respond" /\ slot[s].job = j
  <2>1. Respond(s)
    BY <1>6 DEF SlotStep, GetInput, Infer, PublishFailure, DeleteFailedInput, PutResult,
       PublishResult, Answer200, Answer500, SlotAt, DeleteInput, StoreResult
  <2> QED
    BY <1>1, <2>1 DEF Respond
<1> QED
  BY <1>2, <1>3, <1>4, <1>5, <1>6 DEF RelayNext

(* A poll that gets as far as the cleanup has answered, and it has begun    *)
(* with a completed record.                                                 *)
LEMMA PollReaches ==
  ASSUME Typed, [Next]_vars, NEW p \in Pollers
  PROVE  /\ poll'[p].pc \in {"dropResult", "dropRecord"} =>
              \/ poll[p].pc \in {"dropResult", "dropRecord"} /\ poll[p].job = poll'[p].job
              \/ answered'[poll'[p].job] # "never"
         /\ poll'[p].pc # "idle" =>
              \/ poll[p].pc # "idle" /\ poll[p].job = poll'[p].job
              \/ poll'[p].job \in Jobs /\ record[poll'[p].job] = "completed"
<1> DEFINE Goal == 
         /\ poll'[p].pc \in {"dropResult", "dropRecord"} =>
              \/ poll[p].pc \in {"dropResult", "dropRecord"} /\ poll[p].job = poll'[p].job
              \/ answered'[poll'[p].job] # "never"
         /\ poll'[p].pc # "idle" =>
              \/ poll[p].pc # "idle" /\ poll[p].job = poll'[p].job
              \/ poll'[p].job \in Jobs /\ record[poll'[p].job] = "completed"
<1>1. poll \in [Pollers -> PollState] /\ answered \in [Jobs -> Answer]
  BY DEF Typed, TypeOK, ApiTypeOK
<1>2. CASE poll'[p] = poll[p]
  BY <1>2
<1>3. ASSUME NEW q \in Pollers, NEW from, NEW next, PollAt(q, from, next), poll'[p] # poll[p]
      PROVE  p = q /\ poll'[p] = next /\ poll[p].pc = from
  BY <1>1, <1>3 DEF PollAt
<1>4. ASSUME NEW q \in Pollers, NEW j \in Jobs, PollRead(q, j), poll'[p] # poll[p]
      PROVE  Goal
  <2>1. poll'[p] = [pc |-> "fetch", job |-> j, got |-> FALSE] /\ record[j] = "completed"
    BY <1>3, <1>4 DEF PollRead
  <2> QED
    BY <2>1
<1>5. ASSUME NEW q \in Pollers, PollFetch(q), poll'[p] # poll[p]
      PROVE  Goal
  <2>1. PICK got \in BOOLEAN :
          PollAt(q, "fetch", [pc |-> "respond", job |-> poll[q].job, got |-> got])
    BY <1>5 DEF PollFetch
  <2>2. /\ poll'[p] = [pc |-> "respond", job |-> poll[p].job, got |-> got]
        /\ poll[p].pc = "fetch"
    BY <1>3, <1>5, <2>1
  <2> QED
    BY <2>2
<1>6. ASSUME NEW q \in Pollers, PollRespond(q), poll'[p] # poll[p]
      PROVE  Goal
  <2>1. PollAt(q, "respond", [pc |-> "dropResult", job |-> poll[q].job, got |-> FALSE])
    BY <1>6 DEF PollRespond
  <2>2. /\ p = q /\ poll[p].pc = "respond"
        /\ poll'[p] = [pc |-> "dropResult", job |-> poll[p].job, got |-> FALSE]
    BY <1>3, <1>6, <2>1
  <2>3. poll[p].job \in Jobs
    BY <2>2 DEF Typed, WellFormed
  <2>4. answered'[poll[p].job] # "never"
    BY <1>1, <1>6, <2>2, <2>3 DEF PollRespond
  <2> QED
    BY <2>2, <2>4
<1>7. ASSUME NEW q \in Pollers, DropResult(q), poll'[p] # poll[p]
      PROVE  Goal
  <2>1. PollAt(q, "dropResult", [pc |-> "dropRecord", job |-> poll[q].job, got |-> FALSE])
    BY <1>7 DEF DropResult, DeleteResult
  <2>2. /\ poll'[p] = [pc |-> "dropRecord", job |-> poll[p].job, got |-> FALSE]
        /\ poll[p].pc = "dropResult"
    BY <1>3, <1>7, <2>1
  <2> QED
    BY <2>2
<1>8. ASSUME NEW q \in Pollers, DropRecord(q), poll'[p] # poll[p]
      PROVE  Goal
  <2>1. poll'[p] = IdlePoll
    BY <1>3, <1>8 DEF DropRecord
  <2> QED
    BY <2>1 DEF IdlePoll
<1>9. CASE GatewayRestart
  BY <1>9 DEF GatewayRestart, ApiCrash, IdlePoll
<1>10. CASE ApiNext
  <2>1. ASSUME NEW j \in Jobs, SubmitStep(j) PROVE poll' = poll
    BY <2>1 DEF SubmitStep, Upload, Save, Publish, MarkUnpublished, DiscardInput, SubmitAt,
       DeleteInput, StoreInput
  <2> QED
    BY <1>2, <1>4, <1>5, <1>6, <1>7, <1>8, <1>10, <2>1 DEF ApiNext, PollStep
<1> QED
  BY <1>2, <1>9, <1>10 DEF Next, RelayNext, ConsumerNext, RecordExpires, apiVars, vars

(* Submit goes on with a job only once its input is stored.                 *)
LEMMA SubmitReaches ==
  ASSUME Typed, [Next]_vars, NEW j \in Jobs,
         submit'[j] \in {"uploaded", "saved", "accepted"}
  PROVE  j \in inputs' \/ submit[j] \in {"uploaded", "saved", "accepted"}
<1>1. submit \in [Jobs -> SubmitPc]
  BY DEF Typed, TypeOK, ApiTypeOK
<1>2. ASSUME NEW k \in Jobs, SubmitStep(k)
      PROVE  j \in inputs' \/ submit[j] \in {"uploaded", "saved", "accepted"}
  BY <1>1, <1>2 DEF SubmitStep, Upload, Save, Publish, MarkUnpublished, DiscardInput, SubmitAt,
     DeleteInput, StoreInput
<1>3. ASSUME NEW p \in Pollers, PollStep(p) \/ \E k \in Jobs : PollRead(p, k)
      PROVE  submit' = submit
  BY <1>3 DEF PollStep, PollRead, PollFetch, PollRespond, DropResult, DropRecord, PollAt,
     DeleteResult
<1>4. ASSUME GatewayRestart PROVE submit'[j] = submit[j]
  BY <1>1, <1>4 DEF GatewayRestart, ApiCrash
<1> QED
  BY <1>2, <1>3, <1>4 DEF Next, ApiNext, RelayNext, ConsumerNext, RecordExpires, apiVars, vars

(***************************************************************************)
(* The inductive invariant.                                                *)
(***************************************************************************)

(* A result that leaves S3 has been answered for, and its job has an event. *)
LEMMA StoredStays ==
  ASSUME Inv, [Next]_vars, NEW j \in Jobs
  PROVE  /\ Stored(j) => Stored(j)'
         /\ HasOutcome(j) => HasOutcome(j)'
<1> USE DEF Inv
<1>1. Typed
  BY DEF Typed
<1>2. CASE j \in results /\ j \notin results'
  <2>1. PICK p \in Pollers : poll[p].pc = "dropResult" /\ poll[p].job = j
    BY <1>1, <1>2, ResultsLost
  <2>2. answered[j] # "never" /\ HasEvent(j)
    BY <2>1 DEF ResultFirst, OutcomeFirst
  <2> QED
    BY <1>1, <2>2, AnsweredStays, EventsStay DEF Stored, HasOutcome
<1>3. CASE ~(j \in results /\ j \notin results')
  BY <1>1, <1>3, AnsweredStays, EventsStay DEF Stored, HasOutcome
<1> QED
  BY <1>2, <1>3

(* Every step keeps ResultFirst.                                            *)
LEMMA ResultFirstNext ==
  ASSUME Inv, [Next]_vars
  PROVE  ResultFirst'
<1> USE DEF Inv
<1>1. Typed /\ Typed'
  BY TypedNext DEF Typed
<1>2. ASSUME NEW s \in Slots, slot'[s].pc = "publish"
      PROVE  Stored(slot[s].job)'
  <2>1. slot'[s].job \in Jobs
    BY <1>1, <1>2 DEF Typed, WellFormed
  <2>2. CASE slot'[s].job \in results'
    BY <2>2 DEF Stored
  <2>3. CASE slot[s].pc = "publish" /\ slot[s].job = slot'[s].job
    BY <2>1, <2>3, StoredStays DEF ResultFirst, Stored
  <2> QED
    BY <1>1, <1>2, <2>2, <2>3, SlotReaches
<1>3. ASSUME NEW i \in 1..Len(log'), log'[i].status = "completed"
      PROVE  Stored(log[i].job)'
  <2>1. CASE i \in 1..Len(log) /\ log'[i] = log[i]
    BY <1>1, <1>3, <2>1, StoredStays, LogFacts DEF ResultFirst, Stored
  <2>2. ASSUME NEW s \in Slots, slot[s].job \in Jobs, slot[s].pc = "publish",
               log'[i] = [job |-> slot[s].job, status |-> "completed"]
        PROVE  Stored(log[i].job)'
    BY <2>2, StoredStays DEF ResultFirst, Stored
  <2>3. ASSUME NEW s \in Slots, log'[i] = [job |-> slot[s].job, status |-> "failed"]
        PROVE  FALSE
    BY <1>3, <2>3
  <2> QED
    BY <1>1, <2>1, <2>2, <2>3, EventsStay
<1>4. ASSUME NEW j \in Jobs, record'[j] = "completed"
      PROVE  Stored(j)'
  <2>1. CASE record[j] = "completed"
    BY <2>1, StoredStays DEF ResultFirst
  <2>2. CASE record[j] # "completed"
    <3>1. cons.pc = "update" /\ log[cons.at].job = j /\ log[cons.at].status = "completed"
      BY <1>1, <1>4, <2>2, RecordCompletes DEF Current
    <3>2. cons.at \in 1..Len(log)
      BY <1>1, <3>1, LogFacts DEF WellFormed
    <3> QED
      BY <3>1, <3>2, StoredStays DEF ResultFirst
  <2> QED
    BY <2>1, <2>2
<1>5. ASSUME NEW p \in Pollers, poll'[p].pc \in {"dropResult", "dropRecord"}
      PROVE  answered'[poll'[p].job] # "never"
  <2>1. poll'[p].job \in Jobs
    BY <1>1, <1>5 DEF Typed, WellFormed
  <2> QED
    BY <1>1, <1>5, <2>1, PollReaches, AnsweredStays DEF ResultFirst
<1> QED
  BY <1>2, <1>3, <1>4, <1>5 DEF ResultFirst

(* Every step keeps OutcomeFirst.                                           *)
LEMMA OutcomeFirstNext ==
  ASSUME Inv, [Next]_vars
  PROVE  OutcomeFirst'
<1> USE DEF Inv
<1>1. Typed /\ Typed'
  BY TypedNext DEF Typed
<1>2. \A j : HasEvent(j) => HasEvent(j)'
  BY <1>1, EventsStay
<1>3. ASSUME NEW s \in Slots, slot'[s].pc = "deleteInput"
      PROVE  HasEvent(slot[s].job)'
  <2>1. CASE slot[s].pc = "deleteInput" /\ slot[s].job = slot'[s].job
    BY <1>2, <2>1 DEF OutcomeFirst, HasEvent
  <2> QED
    BY <1>1, <1>3, <2>1, SlotReaches
<1>4. ASSUME NEW s \in Slots, slot'[s].pc \in {"publish", "respond"}
      PROVE  HasOutcome(slot[s].job)'
  <2>1. slot'[s].job \in Jobs
    BY <1>1, <1>4 DEF Typed, WellFormed
  <2>2. CASE slot'[s].job \in results'
    BY <2>2 DEF HasOutcome
  <2>3. CASE /\ slot[s].pc \in {"publish", "deleteInput", "respond"}
             /\ slot[s].job = slot'[s].job
    <3>1. HasOutcome(slot[s].job)
      BY <2>3 DEF OutcomeFirst, HasOutcome
    <3> QED
      BY <2>1, <2>3, <3>1, StoredStays DEF HasOutcome, HasEvent
  <2> QED
    BY <1>1, <1>4, <2>2, <2>3, SlotReaches
<1>5. ASSUME NEW p \in Pods, NEW j \in reapers'[p]
      PROVE  HasOutcome(j)'
  <2>1. j \in Jobs
    BY <1>1 DEF Typed, TypeOK, RelayTypeOK
  <2>2. HasOutcome(j)
    BY <1>1, ReaperStarts DEF OutcomeFirst
  <2> QED
    BY <2>1, <2>2, StoredStays
<1>6. ASSUME NEW j \in Jobs, record'[j] = "completed"
      PROVE  HasEvent(j)'
  <2>1. CASE record[j] = "completed"
    BY <1>2, <2>1 DEF OutcomeFirst
  <2>2. CASE record[j] # "completed"
    <3>1. cons.pc = "update" /\ log[cons.at].job = j
      BY <1>1, <1>6, <2>2, RecordCompletes DEF Current
    <3>2. cons.at \in 1..Len(log)
      BY <1>1, <3>1, LogFacts DEF WellFormed
    <3> QED
      BY <1>2, <3>1, <3>2 DEF HasEvent
  <2> QED
    BY <2>1, <2>2
<1>7. ASSUME NEW p \in Pollers, poll'[p].pc # "idle"
      PROVE  HasEvent(poll[p].job)'
  <2>1. HasEvent(poll'[p].job)
    BY <1>1, <1>7, PollReaches DEF OutcomeFirst
  <2> QED
    BY <1>2, <2>1 DEF HasEvent
<1>8. ASSUME NEW j \in Jobs, submit'[j] \in {"uploaded", "saved", "accepted"}, j \notin inputs'
      PROVE  HasOutcome(j)'
  <2>1. submit[j] \in {"uploaded", "saved", "accepted"}
    BY <1>1, <1>8, SubmitReaches
  <2>2. CASE j \notin inputs
    BY <2>1, <2>2, StoredStays DEF OutcomeFirst
  <2>3. CASE j \in inputs
    <3>1. HasOutcome(j)
      BY <1>1, <1>8, <2>3, InputsLost DEF OutcomeFirst, HasOutcome
    <3> QED
      BY <3>1, StoredStays
  <2> QED
    BY <2>2, <2>3
<1> QED
  BY <1>3, <1>4, <1>5, <1>6, <1>7, <1>8 DEF OutcomeFirst

(* The invariant holds at first.                                            *)
LEMMA InvInit == Init => Inv
<1> SUFFICES ASSUME Init PROVE Inv
  OBVIOUS
<1>1. Typed
  BY TypedInit
<1>2. ResultFirst /\ OutcomeFirst
  BY DEF Init, PlatformInit, ApiInit, RelayInit, ResultFirst, OutcomeFirst, IdleSlot, IdlePoll
<1> QED
  BY <1>1, <1>2 DEF Typed, Inv

(* Results before the events and records that speak of them, outcomes       *)
(* before the deletions: no step of any actor, and no fault, breaks it.     *)
THEOREM Invariance == Spec => []Inv
<1>1. Inv /\ [Next]_vars => Inv'
  BY TypedNext, ResultFirstNext, OutcomeFirstNext DEF Inv, Typed
<1> QED
  BY <1>1, InvInit, PTL DEF Spec

(* Every variable keeps its type: slots and pollers always work on a job,   *)
(* offsets stay inside the result topic, the counters stay numbers.         *)
THEOREM TypeCorrect == Spec => []TypeOK
<1>1. Inv => TypeOK
  BY DEF Inv
<1> QED
  BY <1>1, Invariance, PTL

(* A completed record without a result object has been answered by some     *)
(* GetStatus: the relay stores before it publishes (relay.go:166-179), and  *)
(* only the cleanup of jobs.go:333 deletes.                                 *)
THEOREM ResultsKept == Spec => []CompletedHasResult
<1>1. Inv => CompletedHasResult
  BY DEF Inv, ResultFirst, Stored, CompletedHasResult
<1> QED
  BY <1>1, Invariance, PTL

(* Until an accepted job has an outcome its input is in S3, for the retry   *)
(* that the relay's errors ask for (relay.go:99-108, 153-161).              *)
THEOREM InputsKept == Spec => []InputKeptUntilOutcome
<1>1. Inv => InputKeptUntilOutcome
  BY DEF Inv, OutcomeFirst, HasOutcome, InputKeptUntilOutcome
<1> QED
  BY <1>1, Invariance, PTL

(* A record that was deleted or has expired never comes back                *)
(* (redis.go:192-206): only SaveJob of Submit writes where there is none.   *)
THEOREM RecordsStayGone == Spec => NoResurrection
<1>1. ASSUME Inv, [Next]_vars, NEW j \in Jobs, record[j] = "none", record'[j] # "none"
      PROVE  submit[j] = "uploaded"
  <2>1. record \in [Jobs -> Status \cup {"none"}] /\ Typed
    BY <1>1 DEF Inv, TypeOK, PlatformTypeOK, Typed
  <2>2. ASSUME NEW k \in Jobs, SubmitStep(k)
        PROVE  submit[j] = "uploaded"
    BY <1>1, <2>1, <2>2 DEF SubmitStep, Upload, Save, Publish, MarkUnpublished, DiscardInput,
       SaveJob, UpdateJobResult, SubmitAt, DeleteInput, StoreInput
  <2>3. ASSUME NEW p \in Pollers, PollStep(p) \/ \E k \in Jobs : PollRead(p, k) PROVE FALSE
    BY <1>1, <2>1, <2>3 DEF PollStep, PollRead, PollFetch, PollRespond, DropResult, DropRecord,
       DeleteJob, platformVars, DeleteResult
  <2>4. ASSUME RelayNext PROVE FALSE
    <3>1. ASSUME NEW k \in Jobs, DeliverStep(k) PROVE FALSE
      BY <1>1, <3>1 DEF DeliverStep, Defer, ServeHTTP, ServeHTTPSync, Begin, platformVars
    <3>2. ASSUME NEW s \in Slots, Timeout(s) PROVE FALSE
      BY <1>1, <3>2 DEF Timeout
    <3>3. ASSUME NEW q \in Pods, ReapInput(q) \/ Evict(q) PROVE FALSE
      BY <1>1, <3>3 DEF ReapInput, Evict, DeleteInput
    <3>4. ASSUME NEW s \in Slots, SlotStep(s) PROVE FALSE
      BY <1>1, <3>4, SlotStepServices
    <3> QED
      BY <2>4, <3>1, <3>2, <3>3, <3>4 DEF RelayNext
  <2>5. ASSUME ConsumerNext PROVE FALSE
    BY <1>1, <2>1, <2>5, LogFacts DEF ConsumerNext, ConsumerStep, Fetch, Update, Read, Notify,
       Commit,
       HookStep, LoadResult, PostWebhook, ConsumerAt, UpdateJobResult, platformVars
  <2>6. ASSUME RecordExpires PROVE FALSE
    BY <1>1, <2>1, <2>6 DEF RecordExpires, Expire, DeleteJob
  <2> QED
    BY <1>1, <2>2, <2>3, <2>4, <2>5, <2>6 DEF Next, ApiNext, GatewayRestart, vars, platformVars
<1>2. Inv /\ [Next]_vars =>
        [\A j \in Jobs : record[j] = "none" /\ record'[j] # "none" => submit[j] = "uploaded"]_vars
  BY <1>1
<1> QED
  BY <1>2, Invariance, PTL DEF Spec, NoResurrection
=============================================================================
