------------------------ MODULE SyncPipeline_proofs ------------------------
(***************************************************************************)
(* Proofs about SyncPipeline.  Every step that is not one of the sync      *)
(* handler or of a subscriber's connection is a step of AsyncPipeline, so  *)
(* what AsyncPipeline_proofs and Outcomes_proofs say of a step holds of it.*)
(***************************************************************************)
EXTENDS SyncPipeline, Outcomes_proofs

-----------------------------------------------------------------------------
(***************************************************************************)
(* The inductive invariants                                                *)
(***************************************************************************)

(* Nobody submits an asynchronous job.                                      *)
SyncTyped ==
  /\ Typed
  /\ SyncTypeOK
  /\ \A j \in Jobs : submit[j] = "new"

(* The job's result has been stored, and is there until somebody answers.   *)
SyncStored(j) ==
  \/ j \in results
  \/ answered[j] # "never"
  \/ sync[j] \in {"dropRecord", "done", "aborted"}

(* Everything that speaks of a completed job comes after its result.        *)
SyncResultFirst ==
  /\ \A s \in Slots : slot[s].pc = "publish" => SyncStored(slot[s].job)
  /\ \A i \in 1..Len(log) : log[i].status = "completed" => SyncStored(log[i].job)
  /\ \A j \in Jobs : record[j] = "completed" => SyncStored(j)
  /\ \A p \in Pollers :
       poll[p].pc \in {"dropResult", "dropRecord"} => answered[poll[p].job] # "never"

(* The handler is past its publish.                                         *)
SyncSent(j) == sync[j] \notin {"new", "uploaded", "saved", "subscribed"}

(* Nothing speaks of a job before its message was sent.                     *)
SyncSentFirst ==
  /\ \A j \in Jobs : delivery[j] # "unsent" => SyncSent(j)
  /\ \A s \in Slots : slot[s].pc # "idle" => SyncSent(slot[s].job)
  /\ \A i \in 1..Len(log) : SyncSent(log[i].job)

(* The record that the handler is to be woken for has its outcome.          *)
Settled(j) == SyncSent(j) /\ (sync[j] = "waiting" => record[j] \in Outcome)

(* The signal follows the record, and a result that is fetched is there.    *)
WokenAfterOutcome ==
  /\ cons.pc \in {"read", "notify"} => Settled(Current.job)
  /\ \A j \in Jobs : channel[j] = "signal" => Settled(j)
  /\ \A j \in Jobs : sync[j] = "fetch" => j \in results
  /\ \A j \in Jobs : answered[j] = "never"

-----------------------------------------------------------------------------
(***************************************************************************)
(* The steps of the pipeline                                               *)
(***************************************************************************)

(* A step of the handler of one synchronous request.                        *)
SyncHandler(j) == SyncUpload(j) \/ GiveUp(j) \/ SyncHandlerStep(j)

(* The polls, the relay and the consumer are left alone.                    *)
OthersUnchanged == UNCHANGED apiVars /\ UNCHANGED relayVars /\ UNCHANGED loopVars

(* A step of a sync handler, of a connection, or of AsyncPipeline.          *)
LEMMA SyncCases ==
  ASSUME SyncTyped, [SyncPipelineNext]_syncVars
  PROVE  \/ (\E j \in Jobs : SyncHandler(j)) /\ OthersUnchanged
         \/ /\ \E j \in Jobs : Disconnect(j) \/ Reconnect(j)
            /\ UNCHANGED <<record, inputs, results, delivery, retries, log, sync>>
            /\ OthersUnchanged
         \/ /\ [Next]_vars
            /\ UNCHANGED submit
            /\ UNCHANGED sync \/ (SyncCrash /\ CloseAll /\ ConsumerRestart /\ UNCHANGED record)
            /\ UNCHANGED <<record, channel>> \/ ConsumerStep \/ CloseAll \/ UNCHANGED channel
<1>1. CASE UNCHANGED syncVars
  BY <1>1 DEF syncVars, vars, consumerVars, loopVars, platformVars, apiVars
<1>2. CASE SyncNext
  BY <1>2 DEF SyncNext, SyncHandler, OthersUnchanged
<1>3. CASE ConnectionNext
  BY <1>3 DEF ConnectionNext, OthersUnchanged
<1>4. CASE SyncPollNext
  BY <1>4 DEF SyncPollNext, Next, ApiNext, consumerVars, PollRead, PollStep, PollFetch, PollRespond,
     DropResult, DropRecord, PollAt, DeleteResult
<1>5. CASE SyncRelayNext
  BY <1>5 DEF SyncRelayNext, Next, RelayNext, DeliverStep, consumerVars, apiVars
<1>6. CASE SyncConsumerNext
  BY <1>6 DEF SyncConsumerNext, Next, ConsumerNext, apiVars
<1>7. CASE SyncGatewayRestart
  <2>1. UNCHANGED submit
    BY <1>7 DEF SyncGatewayRestart, ApiCrash, SyncTyped, Typed, TypeOK, ApiTypeOK
  <2> QED
    BY <1>7, <2>1 DEF SyncGatewayRestart, Next, GatewayRestart, ConsumerRestart, CloseAll
<1>8. CASE SyncRecordExpires
  BY <1>8 DEF SyncRecordExpires, Next, RecordExpires, consumerVars, apiVars
<1> QED
  BY <1>1, <1>2, <1>3, <1>4, <1>5, <1>6, <1>7, <1>8 DEF SyncPipelineNext

(***************************************************************************)
(* Types                                                                   *)
(***************************************************************************)

(* The sync handlers keep the types.                                        *)
LEMMA SyncHandlerTyped ==
  ASSUME SyncTyped, NEW j \in Jobs, SyncHandler(j), OthersUnchanged
  PROVE  SyncTyped'
<1> USE DEF SyncTyped, Typed, TypeOK, SyncTypeOK, OthersUnchanged, apiVars, relayVars, loopVars
<1>1. faults' \in Nat
  BY DEF SyncHandler, SyncHandlerStep, SyncUpload, SyncSave, SyncSubscribe, SubscribeJobDone,
     SyncPublish, DiscardSyncInput, DeleteInput, GiveUp, GetOutcome, FetchResult, DropSyncResult,
     DeleteResult, DropSyncRecord, CallFailsOrClientLeft, PlatformTypeOK, NoFault, Fault
<1>2. sync' \in [Jobs -> SyncPc]
  <2>1. ASSUME NEW from, NEW to \in SyncPc, SyncAt(j, from, to) PROVE sync' \in [Jobs -> SyncPc]
    BY <2>1 DEF SyncAt
  <2> USE DEF SyncPc
  <2>2. CASE SyncUpload(j) \/ SyncSave(j) \/ SyncSubscribe(j) \/ SyncPublish(j)
    BY <2>1, <2>2 DEF SyncUpload, SyncSave, SyncSubscribe, SyncPublish
  <2>3. CASE GiveUp(j) \/ GetOutcome(j) \/ FetchResult(j)
    BY <2>1, <2>3 DEF GiveUp, GetOutcome, FetchResult
  <2>4. CASE DiscardSyncInput(j) \/ DropSyncResult(j) \/ DropSyncRecord(j)
    BY <2>1, <2>4 DEF DiscardSyncInput, DropSyncResult, DropSyncRecord
  <2> QED
    BY <2>2, <2>3, <2>4 DEF SyncHandler, SyncHandlerStep
<1>3. ChannelTypeOK'
  BY DEF SyncHandler, SyncHandlerStep, SyncUpload, SyncSave, SyncSubscribe, SubscribeJobDone,
     SyncPublish, DiscardSyncInput, GiveUp, GetOutcome, FetchResult, DropSyncResult,
     DropSyncRecord, Close, ChannelTypeOK, ChannelState
<1>4. record' \in [Jobs -> Status \cup {"none"}]
  BY RecordTyped DEF SyncHandler, SyncHandlerStep, SyncUpload, SyncSave, SaveJob, SyncSubscribe,
     SyncPublish, DiscardSyncInput, GiveUp, GetOutcome, FetchResult, DropSyncResult,
     DropSyncRecord, DeleteJob, PlatformTypeOK, Status
<1>5. delivery' \in [Jobs -> Stage] /\ retries' \in [Jobs -> Nat] /\ log' = log
  BY StageTyped DEF SyncHandler, SyncHandlerStep, SyncUpload, SyncSave, SyncSubscribe,
     SyncPublish, PublishInputEvent, DiscardSyncInput, GiveUp, GetOutcome, FetchResult,
     DropSyncResult, DropSyncRecord, PlatformTypeOK, Stage
<1>6. inputs' \subseteq Jobs /\ results' \subseteq Jobs
  BY DEF SyncHandler, SyncHandlerStep, SyncUpload, StoreInput, SyncSave, SyncSubscribe,
     SyncPublish, DiscardSyncInput, DeleteInput, GiveUp, GetOutcome, FetchResult,
     DropSyncResult, DeleteResult, DropSyncRecord, PlatformTypeOK
<1>7. PlatformTypeOK'
  BY <1>1, <1>4, <1>5, <1>6 DEF PlatformTypeOK
<1>8. WellFormed'
  BY <1>5 DEF WellFormed
<1> QED
  BY <1>2, <1>3, <1>7, <1>8 DEF ApiTypeOK, RelayTypeOK, ConsumerTypeOK

(* So does every step.                                                      *)
LEMMA SyncTypedNext == SyncTyped /\ [SyncPipelineNext]_syncVars => SyncTyped'
<1> SUFFICES ASSUME SyncTyped, [SyncPipelineNext]_syncVars PROVE SyncTyped'
  OBVIOUS
<1>1. CASE (\E j \in Jobs : SyncHandler(j)) /\ OthersUnchanged
  BY <1>1, SyncHandlerTyped
<1>2. CASE /\ \E j \in Jobs : Disconnect(j) \/ Reconnect(j)
           /\ UNCHANGED <<record, inputs, results, delivery, retries, log, sync>>
           /\ OthersUnchanged
  <2>1. faults' \in Nat /\ ChannelTypeOK'
    BY <1>2 DEF Disconnect, Reconnect, SyncTyped, Typed, TypeOK, PlatformTypeOK, SyncTypeOK,
       ChannelTypeOK, ChannelState, Fault, NoFault
  <2> QED
    BY <1>2, <2>1 DEF SyncTyped, Typed, TypeOK, PlatformTypeOK, ApiTypeOK, RelayTypeOK,
       ConsumerTypeOK, SyncTypeOK, WellFormed, OthersUnchanged, apiVars, relayVars, loopVars
<1>3. ASSUME [Next]_vars, UNCHANGED submit, UNCHANGED sync \/ SyncCrash PROVE SyncTyped'
  <2>1. Typed'
    BY <1>3, TypedNext DEF SyncTyped
  <2>2. sync' \in [Jobs -> SyncPc]
    BY <1>3 DEF SyncTyped, SyncTypeOK, SyncCrash, SyncPc
  <2> QED
    BY <1>3, <2>1, <2>2 DEF SyncTyped, SyncTypeOK, Typed, TypeOK, ConsumerTypeOK
<1> QED
  BY <1>1, <1>2, <1>3, SyncCases

(* They hold in every reachable state.                                      *)
LEMMA SyncTypedInvariant == SyncSpec => []SyncTyped
<1>1. SyncPipelineInit => SyncTyped
  <2> SUFFICES ASSUME SyncPipelineInit PROVE SyncTyped
    OBVIOUS
  <2>1. Typed
    BY TypedInit DEF SyncPipelineInit, Init
  <2>2. SyncTypeOK /\ \A j \in Jobs : submit[j] = "new"
    BY DEF SyncPipelineInit, SyncInit, SyncTypeOK, ChannelInit, ChannelTypeOK, ChannelState,
       SyncPc, ApiInit
  <2> QED
    BY <2>1, <2>2 DEF SyncTyped
<1> QED
  BY <1>1, SyncTypedNext, PTL DEF SyncSpec

-----------------------------------------------------------------------------
(***************************************************************************)
(* What a sync handler does                                                *)
(***************************************************************************)

(* A handler moves along its own path only.                                 *)
SyncEdge(from, to) ==
  \/ from = "new" /\ to \in {"uploaded", "rejected"}
  \/ from = "uploaded" /\ to \in {"saved", "rejected"}
  \/ from = "saved" /\ to = "subscribed"
  \/ from = "subscribed" /\ to \in {"waiting", "discardInput"}
  \/ from = "discardInput" /\ to = "discardRecord"
  \/ from = "discardRecord" /\ to = "rejected"
  \/ from = "waiting" /\ to \in {"fetch", "dropRecord", "left"}
  \/ from = "fetch" /\ to = "dropResult"
  \/ from = "dropResult" /\ to = "dropRecord"
  \/ from = "dropRecord" /\ to = "done"

(* A handler's step is along that path, and moves it alone.                 *)
LEMMA HandlerMoves ==
  ASSUME SyncTyped, NEW j \in Jobs, SyncHandler(j)
  PROVE  SyncEdge(sync[j], sync'[j]) /\ \A k \in Jobs \ {j} : sync'[k] = sync[k]
<1>1. ASSUME NEW from, NEW to, SyncAt(j, from, to)
      PROVE  sync[j] = from /\ sync'[j] = to /\ \A k \in Jobs \ {j} : sync'[k] = sync[k]
  BY <1>1 DEF SyncAt, SyncTyped, SyncTypeOK
<1>2. CASE SyncUpload(j) \/ SyncSave(j)
  BY <1>1, <1>2 DEF SyncUpload, SyncSave, SyncEdge
<1>3. CASE SyncSubscribe(j) \/ SyncPublish(j)
  BY <1>1, <1>3 DEF SyncSubscribe, SyncPublish, SyncEdge
<1>4. CASE GiveUp(j) \/ GetOutcome(j)
  BY <1>1, <1>4 DEF GiveUp, GetOutcome, SyncEdge
<1>5. CASE FetchResult(j) \/ DropSyncResult(j)
  BY <1>1, <1>5 DEF FetchResult, DropSyncResult, SyncEdge
<1>6. CASE DiscardSyncInput(j) \/ DropSyncRecord(j)
  BY <1>1, <1>6 DEF DiscardSyncInput, DropSyncRecord, SyncEdge
<1> QED
  BY <1>2, <1>3, <1>4, <1>5, <1>6 DEF SyncHandler, SyncHandlerStep

(* The record is saved once and deleted once.                               *)
LEMMA HandlerRecord ==
  ASSUME SyncTyped, NEW j \in Jobs, SyncHandler(j), NEW k \in Jobs, record'[k] # record[k]
  PROVE  \/ sync[k] = "uploaded" /\ record'[k] = "pending"
         \/ sync[k] \in {"dropRecord", "discardRecord"} /\ record'[k] = "none"
<1>1. record \in [Jobs -> Status \cup {"none"}]
  BY DEF SyncTyped, Typed, TypeOK, PlatformTypeOK
<1>2. SyncSave(j) \/ DropSyncRecord(j)
  BY DEF SyncHandler, SyncHandlerStep, SyncUpload, SyncSubscribe, SyncPublish, DiscardSyncInput,
     GiveUp, GetOutcome, FetchResult, DropSyncResult
<1>3. CASE SyncSave(j)
  BY <1>1, <1>3 DEF SyncSave, SaveJob, SyncAt
<1>4. CASE DropSyncRecord(j)
  BY <1>1, <1>4 DEF DropSyncRecord, DeleteJob, SyncAt
<1> QED
  BY <1>2, <1>3, <1>4

(* Results only go, after the answer; the message only opens.               *)
LEMMA HandlerServices ==
  ASSUME SyncTyped, NEW j \in Jobs, SyncHandler(j), NEW k \in Jobs
  PROVE  /\ log' = log
         /\ k \in results /\ k \notin results' =>
              sync[k] = "dropResult" /\ sync'[k] = "dropRecord"
         /\ delivery'[k] # delivery[k] => k = j /\ sync[k] = "subscribed"
         /\ channel'[k] = "signal" => channel[k] = "signal"
<1>1. delivery \in [Jobs -> Stage] /\ channel \in [Jobs -> ChannelState]
  BY DEF SyncTyped, Typed, TypeOK, PlatformTypeOK, SyncTypeOK, ChannelTypeOK
<1>2. log' = log
  BY DEF SyncHandler, SyncHandlerStep, SyncUpload, SyncSave, SyncSubscribe, SyncPublish,
     DiscardSyncInput, GiveUp, GetOutcome, FetchResult, DropSyncResult, DropSyncRecord
<1>3. ASSUME k \in results, k \notin results'
      PROVE  sync[k] = "dropResult" /\ sync'[k] = "dropRecord"
  <2>1. DropSyncResult(j)
    BY <1>3 DEF SyncHandler, SyncHandlerStep, SyncUpload, SyncSave, SyncSubscribe, SyncPublish,
       DiscardSyncInput, GiveUp, GetOutcome, FetchResult, DropSyncRecord
  <2>2. k = j
    BY <1>3, <2>1 DEF DropSyncResult, DeleteResult
  <2> QED
    BY <2>1, <2>2 DEF DropSyncResult, SyncAt, SyncTyped, SyncTypeOK
<1>4. ASSUME delivery'[k] # delivery[k] PROVE k = j /\ sync[k] = "subscribed"
  <2>1. SyncPublish(j)
    BY <1>4 DEF SyncHandler, SyncHandlerStep, SyncUpload, SyncSave, SyncSubscribe,
       DiscardSyncInput, GiveUp, GetOutcome, FetchResult, DropSyncResult, DropSyncRecord
  <2> QED
    BY <1>1, <1>4, <2>1 DEF SyncPublish, PublishInputEvent, SyncAt
<1>5. ASSUME channel'[k] = "signal" PROVE channel[k] = "signal"
  <2>1. \/ UNCHANGED channel
        \/ channel' = [channel EXCEPT ![j] = "open"]
        \/ channel' = [channel EXCEPT ![j] = "down"]
        \/ channel' = [channel EXCEPT ![j] = "closed"]
    BY DEF SyncHandler, SyncHandlerStep, SyncUpload, SyncSave, SyncSubscribe, SubscribeJobDone,
       SyncPublish, DiscardSyncInput, GiveUp, GetOutcome, FetchResult, DropSyncResult,
       DropSyncRecord, Close
  <2> QED
    BY <1>1, <1>5, <2>1
<1> QED
  BY <1>2, <1>3, <1>4, <1>5

(* A job in a state that speaks of its message or result stays in one.      *)
LEMMA SyncStays ==
  ASSUME SyncTyped, [SyncPipelineNext]_syncVars, NEW j \in Jobs
  PROVE  /\ SyncSent(j) => SyncSent(j)'
         /\ sync[j] \in {"dropRecord", "done", "aborted"}
              => sync'[j] \in {"dropRecord", "done", "aborted"}
<1>1. ASSUME NEW k \in Jobs, SyncHandler(k)
      PROVE  sync'[j] = sync[j] \/ SyncEdge(sync[j], sync'[j])
  BY <1>1, HandlerMoves
<1>2. ASSUME SyncEdge(sync[j], sync'[j])
      PROVE  /\ SyncSent(j) => SyncSent(j)'
             /\ sync[j] \in {"dropRecord", "done", "aborted"}
                  => sync'[j] \in {"dropRecord", "done", "aborted"}
  BY <1>2 DEF SyncEdge, SyncSent
<1>3. ASSUME SyncCrash
      PROVE  sync'[j] = sync[j] \/ sync'[j] = "aborted"
  BY <1>3 DEF SyncCrash, SyncTyped, SyncTypeOK
<1> QED
  BY <1>1, <1>2, <1>3, SyncCases DEF SyncSent

-----------------------------------------------------------------------------
(***************************************************************************)
(* Results before what speaks of them                                      *)
(***************************************************************************)

(* A result that was stored stays, until somebody answers.                  *)
LEMMA SyncStoredStays ==
  ASSUME SyncTyped, SyncResultFirst, [SyncPipelineNext]_syncVars, NEW j \in Jobs, SyncStored(j)
  PROVE  SyncStored(j)'
<1>1. CASE sync[j] \in {"dropRecord", "done", "aborted"}
  BY <1>1, SyncStays DEF SyncStored
<1>2. CASE (\E k \in Jobs : SyncHandler(k)) /\ OthersUnchanged
  BY <1>1, <1>2, HandlerServices DEF SyncStored, OthersUnchanged, apiVars
<1>3. CASE UNCHANGED results /\ OthersUnchanged
  BY <1>1, <1>3 DEF SyncStored, OthersUnchanged, apiVars
<1>4. CASE [Next]_vars
  <2>1. Typed
    BY DEF SyncTyped
  <2>2. CASE answered[j] # "never"
    BY <1>4, <2>1, <2>2, AnsweredStays DEF SyncStored
  <2>3. CASE j \in results /\ j \notin results'
    <3>1. PICK p \in Pollers : poll[p].pc = "dropResult" /\ poll[p].job = j
      BY <1>4, <2>1, <2>3, ResultsLost
    <3>2. answered[j] # "never"
      BY <3>1 DEF SyncResultFirst
    <3> QED
      BY <2>2, <3>2
  <2> QED
    BY <1>1, <2>2, <2>3 DEF SyncStored
<1> QED
  BY <1>2, <1>3, <1>4, SyncCases

(* Every step keeps SyncResultFirst.                                        *)
LEMMA SyncResultFirstNext ==
  ASSUME SyncTyped, SyncResultFirst, [SyncPipelineNext]_syncVars
  PROVE  SyncResultFirst'
<1>1. SyncTyped' /\ Typed /\ Typed'
  BY SyncTypedNext DEF SyncTyped
<1>2. CASE /\ UNCHANGED log /\ OthersUnchanged
           /\ \A j \in Jobs : record'[j] = "completed" => record[j] = "completed"
  <2>1. UNCHANGED <<slot, poll, answered, log>>
    BY <1>2 DEF OthersUnchanged, apiVars, relayVars
  <2>2. \A j \in Jobs : record'[j] = "completed" => SyncStored(j)'
    BY <1>2, SyncStoredStays DEF SyncResultFirst
  <2>3. ASSUME NEW s \in Slots, slot[s].pc = "publish" PROVE SyncStored(slot[s].job)'
    <3>1. slot[s].job \in Jobs
      BY <1>1, <2>3 DEF Typed, WellFormed
    <3> QED
      BY <2>1, <2>3, <3>1, SyncStoredStays DEF SyncResultFirst, SyncStored
  <2>4. ASSUME NEW i \in 1..Len(log), log[i].status = "completed" PROVE SyncStored(log[i].job)'
    <3>1. log[i].job \in Jobs
      BY <1>1, LogFacts
    <3> QED
      BY <2>1, <2>4, <3>1, SyncStoredStays DEF SyncResultFirst, SyncStored
  <2>5. \A p \in Pollers :
          poll'[p].pc \in {"dropResult", "dropRecord"} => answered'[poll'[p].job] # "never"
    BY <2>1 DEF SyncResultFirst
  <2>6. \A s \in Slots : slot'[s].pc = "publish" => SyncStored(slot[s].job)'
    BY <2>1, <2>3
  <2>7. \A i \in 1..Len(log') : log'[i].status = "completed" => SyncStored(log[i].job)'
    BY <2>1, <2>4
  <2> QED
    BY <2>2, <2>5, <2>6, <2>7 DEF SyncResultFirst
<1>3. CASE [Next]_vars
  <2>1. ASSUME NEW s \in Slots, slot'[s].pc = "publish" PROVE SyncStored(slot[s].job)'
    <3>1. slot'[s].job \in Jobs
      BY <1>1, <2>1 DEF Typed, WellFormed
    <3>2. CASE slot'[s].job \in results'
      BY <3>2 DEF SyncStored
    <3>3. CASE slot[s].pc = "publish" /\ slot[s].job = slot'[s].job
      BY <3>1, <3>3, SyncStoredStays DEF SyncResultFirst, SyncStored
    <3> QED
      BY <1>1, <1>3, <2>1, <3>2, <3>3, SlotReaches
  <2>2. ASSUME NEW i \in 1..Len(log'), log'[i].status = "completed"
        PROVE  SyncStored(log[i].job)'
    <3>1. log'[i].job \in Jobs
      BY <1>1, <1>3, OffsetsNext
    <3>2. CASE i \in 1..Len(log) /\ log'[i] = log[i]
      BY <2>2, <3>1, <3>2, SyncStoredStays DEF SyncResultFirst, SyncStored
    <3>3. CASE ~(i \in 1..Len(log) /\ log'[i] = log[i])
      <4>1. PICK s \in Slots :
              slot[s].pc = "publish" /\ slot[s].job \in Jobs /\ log'[i].job = slot[s].job
        BY <1>1, <1>3, <2>2, <3>3, EventCauses
      <4> QED
        BY <4>1, SyncStoredStays DEF SyncResultFirst, SyncStored
    <3> QED
      BY <3>2, <3>3
  <2>3. ASSUME NEW j \in Jobs, record'[j] = "completed" PROVE SyncStored(j)'
    <3>1. CASE record[j] = "completed"
      BY <3>1, SyncStoredStays DEF SyncResultFirst
    <3>2. CASE record[j] # "completed"
      <4>1. cons.pc = "update" /\ Current.job = j /\ Current.status = "completed"
        BY <1>1, <1>3, <2>3, <3>2, RecordCompletes
      <4>2. cons.at \in 1..Len(log)
        BY <1>1, <4>1, LogFacts DEF Typed, WellFormed
      <4>3. SyncStored(j)
        BY <4>1, <4>2 DEF SyncResultFirst, Current
      <4> QED
        BY <4>3, SyncStoredStays
    <3> QED
      BY <3>1, <3>2
  <2>4. ASSUME NEW p \in Pollers, poll'[p].pc \in {"dropResult", "dropRecord"}
        PROVE  answered'[poll'[p].job] # "never"
    <3>1. poll'[p].job \in Jobs
      BY <1>1, <2>4 DEF Typed, WellFormed
    <3>2. CASE poll[p].pc \in {"dropResult", "dropRecord"} /\ poll[p].job = poll'[p].job
      BY <1>1, <1>3, <3>1, <3>2, AnsweredStays DEF SyncResultFirst
    <3> QED
      BY <1>1, <1>3, <2>4, <3>2, PollReaches
  <2> QED
    BY <2>1, <2>2, <2>3, <2>4 DEF SyncResultFirst
<1>4. ASSUME NEW k \in Jobs, SyncHandler(k)
      PROVE  /\ UNCHANGED log
             /\ \A j \in Jobs : record'[j] = "completed" => record[j] = "completed"
  BY <1>4, HandlerServices, HandlerRecord
<1> QED
  BY <1>2, <1>3, <1>4, SyncCases

-----------------------------------------------------------------------------
(***************************************************************************)
(* Safety of the synchronous path                                          *)
(***************************************************************************)

(* Every variable of the synchronous path keeps its type: the handlers of   *)
(* sync.go, the relay and the consumer stay on their own paths.             *)
THEOREM SyncTypeCorrect == SyncSpec => []SyncPipelineTypeOK
<1>1. SyncTyped => SyncPipelineTypeOK
  BY DEF SyncTyped, Typed, TypeOK, SyncPipelineTypeOK
<1> QED
  BY <1>1, SyncTypedInvariant, PTL

(* The relay stores a result before it announces it (relay.go:166-179), and *)
(* only what comes after an answer deletes one: a completed sync job        *)
(* without its result has been answered, whatever fails, restarts or        *)
(* expires, and however often its message is delivered.                     *)
THEOREM SyncResultsStored == SyncSpec => []SyncCompletedHasResult
<1>1. SyncPipelineInit => SyncResultFirst
  BY DEF SyncPipelineInit, PlatformInit, ApiInit, RelayInit, SyncResultFirst, IdleSlot, IdlePoll
<1>2. SyncTyped /\ SyncResultFirst /\ [SyncPipelineNext]_syncVars => SyncResultFirst'
  BY SyncResultFirstNext
<1>3. SyncResultFirst => SyncCompletedHasResult
  BY DEF SyncResultFirst, SyncStored, SyncCompletedHasResult
<1> QED
  BY <1>1, <1>2, <1>3, SyncTypedInvariant, PTL DEF SyncSpec

(* A record that the handler, a client or the TTL removed does not come     *)
(* back with a late or repeated event: the script of redis.go:192-206       *)
(* writes only over a record, and the handler saves once (sync.go:232).     *)
THEOREM SyncRecordsStayDeleted == SyncSpec => SyncNoResurrection
<1> DEFINE Kept ==
      \A j \in Jobs : record[j] = "none" /\ record'[j] # "none" => sync[j] = "uploaded"
<1>1. SyncTyped /\ [SyncPipelineNext]_syncVars => [Kept]_syncVars
  <2> SUFFICES ASSUME SyncTyped, [SyncPipelineNext]_syncVars, NEW j \in Jobs,
                      record[j] = "none", record'[j] # "none"
               PROVE  sync[j] = "uploaded"
    OBVIOUS
  <2>1. ASSUME NEW k \in Jobs, SyncHandler(k) PROVE sync[j] = "uploaded"
    BY <2>1, HandlerRecord
  <2>2. ~[Next]_vars
    <3> SUFFICES ASSUME [Next]_vars PROVE FALSE
      OBVIOUS
    <3>1. Typed /\ submit[j] = "new"
      BY DEF SyncTyped
    <3> QED
      BY <3>1, RecordCauses
  <2> QED
    BY <2>1, <2>2, SyncCases
<1> QED
  BY <1>1, SyncTypedInvariant, PTL DEF SyncSpec, SyncNoResurrection

-----------------------------------------------------------------------------
(***************************************************************************)
(* Signals after outcomes                                                  *)
(***************************************************************************)

(* Every step keeps SyncSentFirst.                                          *)
LEMMA SyncSentFirstNext ==
  ASSUME SyncTyped, FreeSlots, SyncSentFirst, [SyncPipelineNext]_syncVars
  PROVE  SyncSentFirst'
<1>1. Typed /\ Typed' /\ \A j \in Jobs : submit[j] = "new"
  BY SyncTypedNext DEF SyncTyped
<1>2. \A j \in Jobs : SyncSent(j) => SyncSent(j)'
  BY SyncStays
<1>3. CASE /\ UNCHANGED <<slot, log>>
           /\ \A j \in Jobs : delivery'[j] # delivery[j] => SyncSent(j)'
  <2>1. \A j \in Jobs : delivery'[j] # "unsent" => SyncSent(j)'
    BY <1>2, <1>3 DEF SyncSentFirst
  <2>2. \A s \in Slots : slot'[s].pc # "idle" => SyncSent(slot[s].job)'
    BY <1>1, <1>2, <1>3 DEF SyncSentFirst, SyncSent, Typed, WellFormed
  <2>3. \A i \in 1..Len(log') : SyncSent(log[i].job)'
    BY <1>1, <1>2, <1>3, LogFacts DEF SyncSentFirst, SyncSent
  <2> QED
    BY <2>1, <2>2, <2>3 DEF SyncSentFirst
<1>4. CASE [Next]_vars
  <2>1. ASSUME NEW j \in Jobs, delivery'[j] # "unsent" PROVE SyncSent(j)'
    <3>1. CASE delivery'[j] = delivery[j]
      BY <1>2, <2>1, <3>1 DEF SyncSentFirst
    <3>2. ASSUME NEW s \in Slots, slot[s].job = j, slot[s].pc # "idle" PROVE SyncSent(j)'
      BY <1>2, <3>2 DEF SyncSentFirst
    <3>3. ASSUME delivery'[j] # delivery[j], delivery'[j] = "exhausted" PROVE SyncSent(j)'
      <4>1. ASSUME NEW p \in Pods, Defer(j, p) PROVE SyncSent(j)'
        BY <1>2, <4>1 DEF SyncSentFirst, Defer, Deliverable
      <4>2. ASSUME NEW s \in Slots, slot[s].attached, slot[s].job = j PROVE SyncSent(j)'
        BY <3>2, <4>2 DEF FreeSlots, IdleSlot
      <4> QED
        BY <1>1, <1>4, <3>3, <4>1, <4>2, NackCauses
    <3> QED
      BY <1>1, <1>4, <3>1, <3>2, <3>3, StageCauses DEF Ends
  <2>2. ASSUME NEW s \in Slots, slot'[s].pc # "idle" PROVE SyncSent(slot[s].job)'
    <3>1. slot'[s].job \in Jobs /\ slot'[s] # IdleSlot
      BY <1>1, <2>2 DEF Typed, WellFormed, IdleSlot
    <3>2. CASE slot[s].pc # "idle" /\ slot'[s].job = slot[s].job
      BY <1>2, <3>1, <3>2 DEF SyncSentFirst, SyncSent
    <3>3. CASE SlotStep(s)
      <4>1. slot[s].pc # "idle" /\ slot'[s].job = slot[s].job
        BY <1>1, <3>1, <3>3, SlotStepCases DEF Goes, Ends
      <4> QED
        BY <3>2, <4>1
    <3>4. CASE Timeout(s)
      BY <1>1, <2>2, <3>2, <3>4 DEF Timeout, Typed, TypeOK, RelayTypeOK, SlotState
    <3>5. ASSUME NEW j \in Jobs, slot'[s] = [pc |-> "get", job |-> j, attached |-> TRUE],
                 Deliverable(j)
          PROVE  SyncSent(slot[s].job)'
      <4>1. SyncSent(j)'
        BY <1>2, <3>5 DEF SyncSentFirst, Deliverable
      <4> QED
        BY <3>5, <4>1 DEF SyncSent
    <3> QED
      BY <1>1, <1>4, <2>2, <3>1, <3>2, <3>3, <3>4, <3>5, SlotCauses
  <2>3. ASSUME NEW i \in 1..Len(log') PROVE SyncSent(log[i].job)'
    <3>1. log'[i].job \in Jobs
      BY <1>1, <1>4, OffsetsNext
    <3>2. CASE i \in 1..Len(log) /\ log'[i] = log[i]
      BY <1>2, <3>1, <3>2 DEF SyncSentFirst, SyncSent
    <3>3. CASE ~(i \in 1..Len(log) /\ log'[i] = log[i])
      <4>1. PICK s \in Slots : slot[s].pc # "idle" /\ log'[i].job = slot[s].job
        BY <1>1, <1>4, <3>3, EventCauses
      <4> QED
        BY <1>2, <3>1, <4>1 DEF SyncSentFirst, SyncSent
    <3> QED
      BY <3>2, <3>3
  <2> QED
    BY <2>1, <2>2, <2>3 DEF SyncSentFirst
<1>5. ASSUME NEW k \in Jobs, SyncHandler(k)
      PROVE  /\ UNCHANGED log
             /\ \A j \in Jobs : delivery'[j] # delivery[j] => SyncSent(j)'
  BY <1>5, HandlerServices, HandlerMoves DEF SyncEdge, SyncSent
<1> QED
  BY <1>3, <1>4, <1>5, SyncCases DEF OthersUnchanged, relayVars

(* No slot is attached while it is free.                                    *)
LEMMA SyncFreeSlotsNext ==
  ASSUME SyncTyped, FreeSlots, [SyncPipelineNext]_syncVars
  PROVE  FreeSlots'
<1>1. Typed
  BY DEF SyncTyped
<1>2. CASE UNCHANGED slot
  BY <1>2 DEF FreeSlots
<1> QED
  BY <1>1, <1>2, FreeSlotsNext, SyncCases DEF OthersUnchanged, relayVars

(* Nobody polls a synchronous job, and its record outlives the request.     *)
OnlyHandlersDelete == Pollers = {} /\ Without({"expiry"})

(* The handler alone deletes a record.                                      *)
LEMMA RecordsKept ==
  ASSUME OnlyHandlersDelete, Typed, [Next]_vars, NEW j \in Jobs, record[j] # "none"
  PROVE  record'[j] # "none"
<1>1. record \in [Jobs -> Status \cup {"none"}]
  BY DEF Typed, TypeOK, PlatformTypeOK
<1>2. ~Fault("expiry") /\ Pollers = {}
  BY DEF OnlyHandlersDelete, Without, Fault
<1>3. ASSUME NEW k \in Jobs, SubmitStep(k) PROVE record'[j] # "none"
  BY <1>1, <1>3 DEF SubmitStep, Upload, Save, Publish, MarkUnpublished, DiscardInput, SaveJob,
     UpdateJobResult
<1>4. ASSUME ConsumerStep PROVE record'[j] # "none"
  <2>1. CASE Update /\ record' # record
    <3>1. Current.status # "none"
      BY <1>1, <2>1, LogFacts DEF Update, ConsumerAt, Outcome
    <3> QED
      BY <1>1, <2>1, <3>1 DEF Update, UpdateJobResult
  <2> QED
    BY <1>4, <2>1 DEF ConsumerStep, Fetch, Read, Notify, Commit, platformVars
<1>5. ASSUME HookStep PROVE record' = record
  BY <1>5 DEF HookStep, LoadResult, PostWebhook
<1>6. ASSUME RelayNext PROVE record' = record
  <2>1. ASSUME NEW k \in Jobs, DeliverStep(k) PROVE record' = record
    BY <2>1 DEF DeliverStep, Defer, ServeHTTP, ServeHTTPSync, Begin, platformVars
  <2>2. ASSUME NEW s \in Slots, SlotStep(s) \/ Timeout(s) PROVE record' = record
    BY <2>2, SlotStepServices DEF Timeout
  <2> QED
    BY <1>6, <2>1, <2>2 DEF RelayNext, ReapInput, Evict
<1>7. CASE ApiNext
  BY <1>2, <1>3, <1>7 DEF ApiNext
<1>8. CASE ConsumerNext
  BY <1>4, <1>5, <1>8 DEF ConsumerNext
<1> QED
  BY <1>2, <1>6, <1>7, <1>8 DEF Next, GatewayRestart, RecordExpires, Expire, vars, platformVars

(* A record that is settled stays so while its handler waits.               *)
LEMMA SettledStays ==
  ASSUME OnlyHandlersDelete, SyncTyped, [SyncPipelineNext]_syncVars, NEW j \in Jobs,
         Settled(j)
  PROVE  Settled(j)'
<1>1. SyncSent(j)'
  BY SyncStays DEF Settled
<1>2. SUFFICES ASSUME sync'[j] = "waiting" PROVE record'[j] \in Outcome
  BY <1>1 DEF Settled
<1>3. ASSUME NEW k \in Jobs, SyncHandler(k) PROVE record'[j] \in Outcome
  <2>1. sync[j] = "waiting"
    BY <1>2, <1>3, HandlerMoves DEF SyncEdge, Settled, SyncSent
  <2> QED
    BY <1>3, <2>1, HandlerRecord DEF Settled
<1>4. ASSUME [Next]_vars, UNCHANGED submit, UNCHANGED sync PROVE record'[j] \in Outcome
  <2>1. Typed /\ submit[j] = "new" /\ record[j] \in Outcome
    BY <1>2, <1>4 DEF SyncTyped, Settled
  <2>2. record'[j] # "none"
    BY <1>4, <2>1, RecordsKept DEF Outcome
  <2>3. cons.pc = "update" => Current.status \in Outcome
    BY <2>1, LogFacts
  <2> QED
    BY <1>4, <2>1, <2>2, <2>3, RecordCauses
<1>5. ASSUME SyncCrash PROVE FALSE
  BY <1>2, <1>5 DEF SyncCrash
<1>6. CASE UNCHANGED <<record, sync>>
  BY <1>2, <1>6 DEF Settled
<1> QED
  BY <1>3, <1>4, <1>5, <1>6, SyncCases

(* What wakes a handler, and what it does when it is woken.                 *)
LEMMA HandlerFetches ==
  ASSUME SyncTyped, NEW k \in Jobs, SyncHandler(k),
         NEW j \in Jobs, sync[j] # "fetch", sync'[j] = "fetch"
  PROVE  sync[j] = "waiting" /\ record[j] = "completed" /\ UNCHANGED results
<1>1. k = j
  BY HandlerMoves
<1>2. ASSUME NEW from, NEW to, SyncAt(k, from, to) PROVE from = sync[j] /\ to = "fetch"
  BY <1>1, <1>2 DEF SyncAt, SyncTyped, SyncTypeOK
<1>3. GetOutcome(k)
  BY <1>2 DEF SyncHandler, SyncHandlerStep, SyncUpload, SyncSave, SyncSubscribe, SyncPublish,
     DiscardSyncInput, GiveUp, FetchResult, DropSyncResult, DropSyncRecord
<1> QED
  BY <1>1, <1>2, <1>3 DEF GetOutcome

(* The consumer signals after it has stored the outcome.                    *)
LEMMA WokenConsNext ==
  ASSUME OnlyHandlersDelete, SyncTyped, SyncSentFirst, WokenAfterOutcome,
         [SyncPipelineNext]_syncVars, cons'.pc \in {"read", "notify"}
  PROVE  Settled(Current.job)'
<1>1. Typed /\ Typed'
  BY SyncTypedNext DEF SyncTyped
<1>2. \A j \in Jobs : Settled(j) => Settled(j)'
  BY SettledStays
<1>3. CASE cons.pc \in {"read", "notify"} /\ cons'.at = cons.at /\ log'[cons.at] = log[cons.at]
  <2>1. Current.job \in Jobs /\ Settled(Current.job)
    BY <1>1, <1>3, LogFacts DEF WokenAfterOutcome
  <2>2. Current'.job = Current.job
    BY <1>3 DEF Current
  <2> QED
    BY <1>2, <2>1, <2>2 DEF Settled, SyncSent
<1>4. CASE UNCHANGED <<cons, log>>
  BY <1>3, <1>4
<1>5. CASE [Next]_vars /\ cons' = cons
  <2>1. cons.at \in 1..Len(log)
    BY <1>1, <1>5, LogFacts DEF Typed, WellFormed
  <2>2. log'[cons.at] = log[cons.at]
    BY <1>1, <1>5, <2>1, LogStays
  <2> QED
    BY <1>3, <1>5, <2>2
<1>6. CASE ConsumerStep /\ log' = log /\ UNCHANGED sync
  <2>1. cons \in [pc : ConsPc, at : Nat, got : Status]
    BY <1>1 DEF Typed, TypeOK, ConsumerTypeOK
  <2>2. CASE Read
    <3>1. cons.pc = "read" /\ cons'.at = cons.at
      BY <2>1, <2>2 DEF Read, ConsumerAt
    <3> QED
      BY <1>3, <1>6, <3>1
  <2>3. CASE Update
    <3>1. cons.pc = "update" /\ cons'.at = cons.at
      BY <2>1, <2>3 DEF Update, ConsumerAt
    <3>2. /\ record[Current.job] # "none"
          /\ record' = [record EXCEPT ![Current.job] = Current.status]
      BY <2>1, <2>3 DEF Update, ConsumerAt, UpdateJobResult
    <3>3. Current.job \in Jobs /\ Current.status \in Outcome /\ cons.at \in 1..Len(log)
      BY <1>1, <3>1, LogFacts DEF Typed, WellFormed
    <3>4. SyncSent(Current.job)
      BY <3>3 DEF SyncSentFirst, Current
    <3>5. record'[Current.job] \in Outcome
      BY <1>1, <3>2, <3>3 DEF Typed, TypeOK, PlatformTypeOK
    <3>6. Current'.job = Current.job
      BY <1>6, <3>1 DEF Current
    <3> QED
      BY <1>6, <3>4, <3>5, <3>6 DEF Settled, SyncSent
  <2>4. CASE Fetch \/ Notify \/ Commit
    BY <2>1, <2>4 DEF Fetch, Notify, Commit, ConsumerAt
  <2> QED
    BY <1>6, <2>2, <2>3, <2>4 DEF ConsumerStep
<1>7. ~ConsumerRestart
  BY DEF ConsumerRestart
<1>8. ASSUME [Next]_vars, UNCHANGED sync PROVE Settled(Current.job)'
  BY <1>1, <1>5, <1>6, <1>7, <1>8, ConsCauses
<1>9. ASSUME OthersUnchanged PROVE UNCHANGED cons
  BY <1>9 DEF OthersUnchanged, loopVars
<1> QED
  BY <1>4, <1>7, <1>8, <1>9, HandlerServices, SyncCases

(* So a signal that has arrived comes after it.                             *)
LEMMA WokenChannelNext ==
  ASSUME OnlyHandlersDelete, SyncTyped, WokenAfterOutcome, [SyncPipelineNext]_syncVars,
         NEW j \in Jobs, channel'[j] = "signal"
  PROVE  Settled(j)'
<1>1. Typed /\ channel \in [Jobs -> ChannelState]
  BY DEF SyncTyped, SyncTypeOK, ChannelTypeOK
<1>2. CASE channel[j] = "signal"
  BY <1>2, SettledStays DEF WokenAfterOutcome
<1>3. ASSUME NEW k \in Jobs, SyncHandler(k) PROVE channel[j] = "signal"
  BY <1>3, HandlerServices
<1>4. ASSUME NEW k \in Jobs, Disconnect(k) \/ Reconnect(k) PROVE channel[j] = "signal"
  BY <1>1, <1>4 DEF Disconnect, Reconnect
<1>5. CASE ConsumerStep
  <2>1. CASE Notify
    <3>1. cons.pc = "notify" /\ Current.job \in Jobs
      BY <1>1, <2>1, LogFacts DEF Notify, ConsumerAt
    <3>2. channel[j] = "signal" \/ j = Current.job
      BY <1>1, <2>1, <3>1 DEF Notify, NotifyJobDone, Signal
    <3> QED
      BY <1>2, <3>1, <3>2, SettledStays DEF WokenAfterOutcome
  <2> QED
    BY <1>2, <1>5, <2>1 DEF ConsumerStep, Fetch, Update, Read, Commit
<1>6. ~CloseAll
  BY DEF CloseAll
<1> QED
  BY <1>2, <1>3, <1>4, <1>5, <1>6, SyncCases

(* Every step keeps WokenAfterOutcome.                                      *)
LEMMA WokenAfterOutcomeNext ==
  ASSUME OnlyHandlersDelete, SyncTyped, SyncSentFirst, SyncResultFirst, WokenAfterOutcome,
         [SyncPipelineNext]_syncVars
  PROVE  WokenAfterOutcome'
<1>1. Typed
  BY DEF SyncTyped
<1>2. ASSUME NEW j \in Jobs PROVE answered'[j] = "never"
  BY <1>1, AnswerCauses, SyncCases DEF OnlyHandlersDelete, WokenAfterOutcome, OthersUnchanged, apiVars
<1>3. ASSUME NEW j \in Jobs, sync'[j] = "fetch" PROVE j \in results'
  <2>1. ASSUME NEW k \in Jobs, SyncHandler(k) PROVE j \in results'
    <3>1. CASE sync[j] = "fetch"
      BY <1>3, <2>1, <3>1, HandlerServices DEF WokenAfterOutcome
    <3>2. CASE sync[j] # "fetch"
      <4>1. sync[j] = "waiting" /\ record[j] = "completed" /\ UNCHANGED results
        BY <1>3, <2>1, <3>2, HandlerFetches
      <4> QED
        BY <4>1 DEF SyncResultFirst, SyncStored, WokenAfterOutcome
    <3> QED
      BY <3>1, <3>2
  <2>2. CASE [Next]_vars /\ UNCHANGED sync
    BY <1>1, <1>3, <2>2, ResultsLost DEF OnlyHandlersDelete, WokenAfterOutcome
  <2>3. ~SyncCrash
    BY <1>3 DEF SyncCrash
  <2>4. CASE UNCHANGED <<results, sync>>
    BY <1>3, <2>4 DEF WokenAfterOutcome
  <2> QED
    BY <2>1, <2>2, <2>3, <2>4, SyncCases
<1>4. cons'.pc \in {"read", "notify"} => Settled(Current.job)'
  BY WokenConsNext
<1>5. \A j \in Jobs : channel'[j] = "signal" => Settled(j)'
  BY WokenChannelNext
<1> QED
  BY <1>2, <1>3, <1>4, <1>5 DEF WokenAfterOutcome

(* "Retrieve the updated job BEFORE notifying sync waiters" (consumer.go:   *)
(* 184-185): a handler that is woken finds the outcome in the record, and a *)
(* result it then asks for is there (sync.go:358-363), whatever fails or    *)
(* restarts, if no client deletes the job behind its back through GET       *)
(* /jobs/{id} and the record outlives the request.                          *)
THEOREM WokenHandlersFindOutcomes ==
  OnlyHandlersDelete => (SyncSpec => []WokenFindsOutcome)
<1> SUFFICES ASSUME OnlyHandlersDelete PROVE SyncSpec => []WokenFindsOutcome
  OBVIOUS
<1>1. SyncPipelineInit => FreeSlots /\ SyncSentFirst /\ SyncResultFirst /\ WokenAfterOutcome
  <2>1. SyncPipelineInit => FreeSlots /\ SyncSentFirst /\ SyncResultFirst
    BY DEF SyncPipelineInit, PlatformInit, ApiInit, RelayInit, FreeSlots, SyncSentFirst,
       SyncResultFirst, IdleSlot, IdlePoll
  <2>2. SyncPipelineInit => WokenAfterOutcome
    BY DEF SyncPipelineInit, ApiInit, ConsumerInit, SyncInit, ChannelInit, WokenAfterOutcome
  <2> QED
    BY <2>1, <2>2
<1>2. /\ SyncTyped /\ FreeSlots /\ SyncSentFirst /\ SyncResultFirst /\ WokenAfterOutcome
      /\ [SyncPipelineNext]_syncVars
      => (FreeSlots /\ SyncSentFirst /\ SyncResultFirst /\ WokenAfterOutcome)'
  BY SyncFreeSlotsNext, SyncSentFirstNext, SyncResultFirstNext, WokenAfterOutcomeNext
<1>3. WokenAfterOutcome => WokenFindsOutcome
  BY DEF WokenAfterOutcome, WokenFindsOutcome, Settled
<1> QED
  BY <1>1, <1>2, <1>3, SyncTypedInvariant, PTL DEF SyncSpec

(* The counter of sync.go:17-25 in the composition of Sync_faults, whose    *)
(* jobs all have priority: it is the number of sync requests that the pod   *)
(* is serving, whatever fails.  SyncJobsAreCounted has asynchronous jobs.   *)
THEOREM SyncRequestsAreCounted == SyncSpec => []SyncPriorityCounts
<1>1. SyncPipelineInit => FreeSlots /\ SyncPriorityCounts
  <2>1. SyncPipelineInit => FreeSlots /\ \A p \in Pods : Busy(p) = {}
    BY RelayAssumption, PlatformAssumption DEF SyncPipelineInit, RelayInit, IdleSlot, Busy, FreeSlots
  <2> QED
    BY <2>1, FS_EmptySet DEF SyncPipelineInit, RelayInit, SyncPriorityCounts, Busy
<1>2. /\ SyncTyped /\ FreeSlots /\ SyncPriorityCounts /\ [SyncPipelineNext]_syncVars
      => (FreeSlots /\ SyncPriorityCounts)'
  <2> SUFFICES ASSUME SyncTyped, FreeSlots, SyncPriorityCounts, [SyncPipelineNext]_syncVars
               PROVE  SyncPriorityCounts'
    BY SyncFreeSlotsNext
  <2>1. Typed
    BY DEF SyncTyped
  <2>2. CASE UNCHANGED <<slot, syncPriority>>
    BY <2>2 DEF SyncPriorityCounts
  <2> QED
    BY <2>1, <2>2, SyncPriorityCountsNext, SyncCases DEF OthersUnchanged, relayVars
<1> QED
  BY <1>1, <1>2, SyncTypedInvariant, PTL DEF SyncSpec
=============================================================================
