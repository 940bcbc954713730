----------------------- MODULE ConsumerManager_proofs ------------------------
(***************************************************************************)
(* Proofs about ConsumerManager, for any configuration files, any number   *)
(* of reloads and any number of webhooks.                                  *)
(***************************************************************************)
EXTENDS ConsumerManager, FiniteSetTheorems, TLAPS

(***************************************************************************)
(* What Start and Reconcile start                                          *)
(***************************************************************************)

(* The image of a finite set is finite.                                     *)
LEMMA ImageFinite ==
  ASSUME NEW S, NEW T, IsFiniteSet(S), NEW f \in [S -> T],
         \A y \in T : \E x \in S : f[x] = y
  PROVE  IsFiniteSet(T)
<1>1. f \in Surjection(S, T)
  BY DEF Surjection
<1> QED
  BY <1>1, FS_Surjection

(* A configuration has finitely many services and topics.                   *)
LEMMA TopicsFinite ==
  ASSUME NEW c \in Configs
  PROVE  /\ IsFiniteSet(KafkaServices(c))
         /\ IsFiniteSet(ResultTopics(c))
         /\ ResultTopics(c) \subseteq Topics
<1>1. IsFiniteSet(KafkaServices(c))
  <2>1. IsFiniteSet(c.services)
    BY ManagerAssumption DEF Configs
  <2>2. KafkaServices(c) \subseteq c.services
    BY DEF KafkaServices
  <2> QED
    BY <2>1, <2>2, FS_Subset
<1>2. IsFiniteSet(ResultTopics(c))
  <2> DEFINE f == [svc \in KafkaServices(c) |-> svc.result]
  <2>1. f \in [KafkaServices(c) -> ResultTopics(c)]
    BY DEF ResultTopics
  <2>2. \A t \in ResultTopics(c) : \E svc \in KafkaServices(c) : f[svc] = t
    BY DEF ResultTopics
  <2> QED
    BY <1>1, <2>1, <2>2, ImageFinite
<1>3. ResultTopics(c) \subseteq Topics
  BY DEF ResultTopics, Topics, Services
<1> QED
  BY <1>1, <1>2, <1>3

(* The consumers of Start.                                                  *)
Initial(c) ==
  {[origin |-> svc, topic |-> svc.result, group |-> svc.type] : svc \in KafkaServices(c)}

(* The consumers of Start are finitely many, one per service with a result  *)
(* topic.                                                                   *)
LEMMA InitialConsumers ==
  ASSUME NEW c \in Configs
  PROVE  /\ IsFiniteSet(Initial(c))
         /\ Initial(c) \subseteq Consumer
         /\ \A k \in Initial(c) : k.origin \in KafkaServices(c) /\ k.origin \in Services
<1>1. KafkaServices(c) \subseteq Services
  BY DEF Services
<1>2. IsFiniteSet(Initial(c))
  <2> DEFINE f == [svc \in KafkaServices(c) |->
                     [origin |-> svc, topic |-> svc.result, group |-> svc.type]]
  <2>1. f \in [KafkaServices(c) -> Initial(c)]
    BY DEF Initial
  <2>2. \A k \in Initial(c) : \E svc \in KafkaServices(c) : f[svc] = k
    BY DEF Initial
  <2>3. IsFiniteSet(KafkaServices(c))
    BY TopicsFinite
  <2> HIDE DEF f
  <2> QED
    BY <2>1, <2>2, <2>3, ImageFinite
<1>3. Initial(c) \subseteq Consumer
  <2> SUFFICES ASSUME NEW svc \in KafkaServices(c)
               PROVE  [origin |-> svc, topic |-> svc.result, group |-> svc.type] \in Consumer
    BY DEF Initial
  <2>1. svc \in Services
    BY <1>1
  <2>2. svc.result \in Topics /\ svc.type \in Types
    BY <2>1 DEF Topics, Types
  <2> QED
    BY <2>1, <2>2 DEF Consumer
<1>4. \A k \in Initial(c) : k.origin \in KafkaServices(c)
  BY DEF Initial
<1> QED
  BY <1>1, <1>2, <1>3, <1>4

(* The consumers of Reconcile.                                              *)
LEMMA AddedConsumers ==
  ASSUME NEW c \in Configs, NEW f \in TypeByTopic(c), NEW r \in Reloads
  PROVE  /\ DOMAIN f = ResultTopics(c)
         /\ DOMAIN f \subseteq Topics
         /\ \A t \in DOMAIN f : /\ Started(r, f, t) \in Consumer
                                /\ Started(r, f, t).origin = r
                                /\ Started(r, f, t).topic = t
<1>1. f \in [ResultTopics(c) -> Types]
  BY DEF TypeByTopic
<1>2. ResultTopics(c) \subseteq Topics
  BY TopicsFinite
<1>3. \A t \in DOMAIN f : /\ Started(r, f, t) \in Consumer
                          /\ Started(r, f, t).origin = r
                          /\ Started(r, f, t).topic = t
  BY <1>1, <1>2 DEF Started, Consumer
<1> QED
  BY <1>1, <1>2, <1>3

(* So are those that a Reconcile adds.                                      *)
LEMMA AddedFinite ==
  ASSUME NEW c \in Configs, NEW f \in TypeByTopic(c), NEW r, NEW D, D \subseteq DOMAIN f
  PROVE  IsFiniteSet({Started(r, f, t) : t \in D})
<1> DEFINE g == [t \in D |-> Started(r, f, t)]
<1>1. DOMAIN f = ResultTopics(c) /\ IsFiniteSet(ResultTopics(c))
  BY TopicsFinite DEF TypeByTopic
<1>2. IsFiniteSet(D)
  BY <1>1, FS_Subset
<1>3. g \in [D -> {Started(r, f, t) : t \in D}]
  OBVIOUS
<1>4. \A k \in {Started(r, f, t) : t \in D} : \E t \in D : g[t] = k
  OBVIOUS
<1> HIDE DEF g
<1> QED
  BY <1>2, <1>3, <1>4, ImageFinite

(* The wait group is told of every consumer that is started.                *)
LEMMA StartCounted ==
  ASSUME Counted, webhooks \in Nat, NEW ks, NEW stopped, IsFiniteSet(ks),
         ks \cap live = {}, startLocked(ks, stopped), webhooks' = webhooks
  PROVE  Counted'
<1>1. IsFiniteSet(live \cup ks) /\ Cardinality(live \cup ks) = Cardinality(live) + Cardinality(ks)
  <2>1. /\ IsFiniteSet(live \cup ks)
        /\ Cardinality(live \cup ks) =
             Cardinality(live) + Cardinality(ks) - Cardinality(live \cap ks)
    BY FS_Union DEF Counted
  <2>2. Cardinality(live \cap ks) = 0
    BY FS_EmptySet
  <2>3. Cardinality(live) \in Nat /\ Cardinality(ks) \in Nat
    BY FS_CardinalityType DEF Counted
  <2> QED
    BY <2>1, <2>2, <2>3
<1>2. Cardinality(live) \in Nat /\ Cardinality(ks) \in Nat
  BY FS_CardinalityType DEF Counted
<1> QED
  BY <1>1, <1>2 DEF Counted, startLocked

(***************************************************************************)
(* The steps                                                               *)
(***************************************************************************)

(* The invariant holds at first.                                            *)
LEMMA InitKeeps == ManagerInit => ManagerInv
<1> SUFFICES ASSUME ManagerInit PROVE ManagerInv
  OBVIOUS
<1>1. router \in Configs /\ managed \in BOOLEAN
  BY ManagerAssumption DEF ManagerInit, Configs
<1>2. Range(cancels) = {} /\ DOMAIN cancels = {}
  BY DEF ManagerInit, Range
<1>3. ManagerTypeOK
  <2>1. reload \in [Reloads -> [pc : ReloadPc, cfg : Configs]]
    BY <1>1 DEF ManagerInit, ReloadPc
  <2> QED
    BY <1>1, <1>2, <2>1, ManagerAssumption DEF ManagerInit, ManagerTypeOK
<1>4. Counted
  BY FS_EmptySet DEF ManagerInit, Counted
<1>5. Draining /\ StartedOnce
  BY <1>2 DEF ManagerInit, Draining, StartedOnce, ShuttingDown
<1> QED
  BY <1>3, <1>4, <1>5 DEF ManagerInv

(* What the invariant says of the numbers.                                  *)
LEMMA Numbers ==
  ASSUME ManagerInv
  PROVE  /\ webhooks \in Nat /\ wg \in Nat
         /\ Cardinality(live) \in Nat
         /\ MaxWebhooks \in Nat /\ webhooks <= MaxWebhooks
         /\ wg = Cardinality(live) + webhooks
BY ManagerAssumption, FS_CardinalityType DEF ManagerInv, ManagerTypeOK, Counted

(* Start keeps it.                                                          *)
LEMMA StartKeeps ==
  ASSUME ManagerInv, Start
  PROVE  ManagerInv'
<1>1. router \in Configs /\ main = "start" /\ main' = "serving" /\ UNCHANGED <<managed, router, reload, lone, busy, webhooks>>
  BY DEF ManagerInv, ManagerTypeOK, Start
<1>2. live = {} /\ cancels = <<>> /\ cancelled = {} /\ busy = {}
  BY <1>1 DEF ManagerInv, ManagerTypeOK, Draining
<1>3. CASE managed
  <2>1. /\ startLocked(Initial(router), {})
        /\ cancels' \in [ResultTopics(router) -> Initial(router)]
        /\ \A t \in DOMAIN cancels' : cancels'[t].topic = t
    BY <1>3 DEF Start, Initial
  <2>2. live' = Initial(router) /\ cancelled' = {}
    BY <1>1, <1>2, <2>1 DEF startLocked, ShuttingDown
  <2>3. Counted'
    <3>1. IsFiniteSet(Initial(router)) /\ Initial(router) \cap live = {}
      BY <1>1, <1>2, InitialConsumers
    <3> QED
      BY <1>1, <2>1, <3>1, Numbers, StartCounted DEF ManagerInv
  <2>4. wg' \in Nat
    BY <2>3, <1>1, Numbers, FS_CardinalityType DEF Counted
  <2>5. Initial(router) \subseteq Consumer
    BY <1>1, InitialConsumers
  <2>6. DOMAIN cancels' = ResultTopics(router) /\ ResultTopics(router) \subseteq Topics
    BY <1>1, <2>1, TopicsFinite
  <2>7. ManagerTypeOK'
    BY <1>1, <1>2, <2>1, <2>2, <2>4, <2>5, <2>6 DEF ManagerInv, ManagerTypeOK
  <2>8. Draining'
    BY <1>1 DEF Draining, ShuttingDown
  <2>9. StartedOnce'
    <3>1. \A k \in live' \cup Range(cancels') : k.origin \in Services
      BY <1>1, <2>1, <2>2, InitialConsumers DEF Range
    <3> QED
      BY <3>1, ManagerAssumption DEF StartedOnce
  <2> QED
    BY <2>3, <2>7, <2>8, <2>9 DEF ManagerInv
<1>4. CASE ~managed
  <2>1. UNCHANGED <<cancels, live, cancelled, wg>>
    BY <1>4 DEF Start
  <2>2. ManagerTypeOK'
    BY <1>1, <2>1 DEF ManagerInv, ManagerTypeOK
  <2>3. Counted' /\ Draining' /\ StartedOnce'
    BY <1>1, <2>1 DEF ManagerInv, Counted, Draining, StartedOnce, ShuttingDown
  <2> QED
    BY <2>2, <2>3 DEF ManagerInv
<1> QED
  BY <1>3, <1>4

(* A reload's own progress disturbs no consumer.                            *)
LEMMA ReloadKeeps ==
  ASSUME ManagerInv, NEW r \in Reloads, NEW pc \in ReloadPc, NEW c \in Configs,
         main # "start", reload[r].pc # "done", router' \in Configs, lone' \in BOOLEAN,
         reload' = [reload EXCEPT ![r] = [pc |-> pc, cfg |-> c]],
         UNCHANGED <<main, managed, managerVars>>
  PROVE  ManagerInv'
<1>1. reload' \in [Reloads -> [pc : ReloadPc, cfg : Configs]]
  BY DEF ManagerInv, ManagerTypeOK
<1>2. ManagerTypeOK'
  BY <1>1 DEF ManagerInv, ManagerTypeOK, managerVars
<1>3. Counted' /\ Draining'
  BY DEF ManagerInv, Counted, Draining, ShuttingDown, managerVars
<1>4. StartedOnce'
  BY DEF ManagerInv, ManagerTypeOK, StartedOnce, managerVars
<1> QED
  BY <1>2, <1>3, <1>4 DEF ManagerInv

(* The consumers of a Reconcile are new.                                    *)
LEMMA AddedAreNew ==
  ASSUME ManagerInv, NEW r \in Reloads, reload[r].pc = "reconcile", NEW k, k.origin = r
  PROVE  k \notin live /\ k \notin Range(cancels) /\ k \notin cancelled
BY DEF ManagerInv, ManagerTypeOK, StartedOnce

(* Reconcile keeps it: it cancels, adds and counts as one step.             *)
LEMMA ReconcileKeeps ==
  ASSUME ManagerInv, NEW r \in Reloads, ReloadReconcile(r)
  PROVE  ManagerInv'
<1>1. /\ reload[r].pc = "reconcile" /\ main # "stopped"
      /\ reload' = [reload EXCEPT ![r].pc = "done"]
      /\ UNCHANGED <<main, managed, router, lone, busy, webhooks>>
  BY DEF ReloadReconcile, ReloadAt
<1>2. reload' \in [Reloads -> [pc : ReloadPc, cfg : Configs]]
  BY <1>1 DEF ManagerInv, ManagerTypeOK, ReloadPc
<1>3. /\ reload[r].cfg \in Configs /\ reload'[r].pc = "done"
      /\ \A q \in Reloads : reload[q].pc = "done" => reload'[q].pc = "done"
  BY <1>1 DEF ManagerInv, ManagerTypeOK
<1>4. CASE managed
  <2>1. PICK f \in TypeByTopic(reload[r].cfg) :
          /\ startLocked({Started(r, f, t) : t \in DOMAIN f \ DOMAIN cancels},
                         {cancels[t] : t \in DOMAIN cancels \ DOMAIN f})
          /\ cancels' = [t \in DOMAIN f |-> IF t \in DOMAIN cancels THEN cancels[t]
                                            ELSE Started(r, f, t)]
    BY <1>4 DEF ReloadReconcile, Reconcile
  <2> DEFINE ks == {Started(r, f, t) : t \in DOMAIN f \ DOMAIN cancels}
             stopped == {cancels[t] : t \in DOMAIN cancels \ DOMAIN f}
  <2>2. /\ DOMAIN f \subseteq Topics
        /\ \A t \in DOMAIN f : /\ Started(r, f, t) \in Consumer
                               /\ Started(r, f, t).origin = r
                               /\ Started(r, f, t).topic = t
        /\ IsFiniteSet(ks)
    <3>1. IsFiniteSet(ks)
      <4> DEFINE D == DOMAIN f \ DOMAIN cancels
      <4>1. D \subseteq DOMAIN f
        OBVIOUS
      <4> HIDE DEF D
      <4>2. IsFiniteSet({Started(r, f, t) : t \in D})
        BY <1>3, <4>1, AddedFinite
      <4> QED
        BY <4>2 DEF D
    <3>2. /\ DOMAIN f \subseteq Topics
          /\ \A t \in DOMAIN f : /\ Started(r, f, t) \in Consumer
                                 /\ Started(r, f, t).origin = r
                                 /\ Started(r, f, t).topic = t
      BY <1>3, AddedConsumers
    <3> QED
      BY <3>1, <3>2
  <2>3. ks \cap live = {} /\ ks \subseteq Consumer
    <3>1. \A k \in ks : k.origin = r /\ k \in Consumer
      BY <2>2
    <3> QED
      BY <1>1, <3>1, AddedAreNew
  <2>4. /\ live' = live \cup ks
        /\ cancelled' = cancelled \cup (stopped \cap live)
                                  \cup (IF ShuttingDown THEN ks ELSE {})
    BY <2>1 DEF startLocked
  <2>5. Counted'
    BY <1>1, <2>1, <2>2, <2>3, Numbers, StartCounted DEF ManagerInv
  <2>6. wg' \in Nat
    BY <1>1, <2>5, Numbers, FS_CardinalityType DEF Counted
  <2>7. /\ DOMAIN cancels' \subseteq Topics
        /\ \A t \in DOMAIN cancels' : cancels'[t] \in Consumer /\ cancels'[t].topic = t
    BY <2>1, <2>2 DEF ManagerInv, ManagerTypeOK
  <2>8. live' \subseteq Consumer /\ cancelled' \subseteq live' /\ busy' \subseteq live'
    BY <1>1, <2>3, <2>4 DEF ManagerInv, ManagerTypeOK
  <2>9. ManagerTypeOK'
    BY <1>1, <1>2, <2>6, <2>7, <2>8 DEF ManagerInv, ManagerTypeOK
  <2>10. Draining'
    <3>1. main # "start"
      BY <1>1 DEF ManagerInv, Draining
    <3>2. ShuttingDown => live' = cancelled'
      BY <2>4 DEF ManagerInv, Draining
    <3> QED
      BY <1>1, <3>1, <3>2 DEF ManagerInv, Draining, ShuttingDown
  <2>11. StartedOnce'
    <3>1. \A k \in live' \cup Range(cancels') : k \in live \cup Range(cancels) \/ k.origin = r
      BY <2>1, <2>2, <2>4 DEF Range
    <3> QED
      BY <1>3, <3>1 DEF ManagerInv, StartedOnce
  <2> QED
    BY <2>5, <2>9, <2>10, <2>11 DEF ManagerInv
<1>5. CASE ~managed
  <2>1. UNCHANGED <<cancels, live, cancelled, wg>>
    BY <1>5 DEF ReloadReconcile
  <2>2. ManagerTypeOK'
    BY <1>1, <1>2, <2>1 DEF ManagerInv, ManagerTypeOK
  <2>3. Counted' /\ Draining' /\ StartedOnce'
    BY <1>1, <1>3, <2>1 DEF ManagerInv, Counted, Draining, StartedOnce, ShuttingDown
  <2> QED
    BY <2>2, <2>3 DEF ManagerInv
<1> QED
  BY <1>4, <1>5 DEF ManagerInv, ManagerTypeOK

(* A consumer that has handled an event keeps it, and its webhook is        *)
(* counted.                                                                 *)
LEMMA HandleKeeps ==
  ASSUME ManagerInv, NEW k \in live, main # "stopped", Handle(k)
  PROVE  ManagerInv'
<1>1. /\ busy' = busy \ {k} /\ k \in busy
      /\ UNCHANGED <<main, managed, router, reload, lone, cancels, live, cancelled>>
      /\ \/ webhooks < MaxWebhooks /\ webhooks' = webhooks + 1 /\ wg' = wg + 1
         \/ UNCHANGED <<webhooks, wg>>
  BY DEF Handle
<1>2. webhooks' \in 0..MaxWebhooks /\ wg' \in Nat /\ wg' = Cardinality(live) + webhooks'
  BY <1>1, Numbers
<1>3. ManagerTypeOK'
  BY <1>1, <1>2 DEF ManagerInv, ManagerTypeOK
<1>4. Counted'
  BY <1>1, <1>2 DEF ManagerInv, Counted
<1>5. Draining' /\ StartedOnce'
  BY <1>1 DEF ManagerInv, Draining, StartedOnce, ShuttingDown
<1> QED
  BY <1>3, <1>4, <1>5 DEF ManagerInv

(* A consumer that returns is no longer counted.                            *)
LEMMA ReturnKeeps ==
  ASSUME ManagerInv, NEW k \in live, Return(k)
  PROVE  ManagerInv'
<1>1. /\ k \in cancelled \ busy
      /\ live' = live \ {k} /\ cancelled' = cancelled \ {k} /\ wg' = wg - 1
      /\ UNCHANGED <<main, managed, router, reload, lone, cancels, busy, webhooks>>
  BY DEF Return
<1>2. Counted' /\ wg' \in Nat
  <2>1. IsFiniteSet(live \ {k}) /\ Cardinality(live \ {k}) = Cardinality(live) - 1
    BY FS_RemoveElement DEF ManagerInv, Counted
  <2>2. Cardinality(live \ {k}) \in Nat
    BY <2>1, FS_CardinalityType
  <2> QED
    BY <1>1, <2>1, <2>2, Numbers DEF Counted
<1>3. ManagerTypeOK'
  BY <1>1, <1>2 DEF ManagerInv, ManagerTypeOK
<1>4. Draining' /\ StartedOnce'
  BY <1>1 DEF ManagerInv, Draining, StartedOnce, ShuttingDown
<1> QED
  BY <1>2, <1>3, <1>4 DEF ManagerInv

(* Nor is a webhook.                                                        *)
LEMMA WebhookDoneKeeps ==
  ASSUME ManagerInv, WebhookDone
  PROVE  ManagerInv'
<1>1. /\ webhooks > 0 /\ webhooks' = webhooks - 1 /\ wg' = wg - 1
      /\ UNCHANGED <<main, managed, router, reload, lone, cancels, live, cancelled, busy>>
  BY DEF WebhookDone
<1>2. webhooks' \in 0..MaxWebhooks /\ wg' \in Nat /\ wg' = Cardinality(live) + webhooks'
  BY <1>1, Numbers
<1>3. ManagerTypeOK' /\ Counted'
  BY <1>1, <1>2 DEF ManagerInv, ManagerTypeOK, Counted
<1>4. Draining' /\ StartedOnce'
  BY <1>1, Numbers DEF ManagerInv, Draining, StartedOnce, ShuttingDown
<1> QED
  BY <1>3, <1>4 DEF ManagerInv

(* The counter is zero: no consumer is left, nor a webhook.                 *)
LEMMA WaitKeeps ==
  ASSUME ManagerInv, Wait
  PROVE  ManagerInv'
<1>1. /\ main = "draining" /\ wg = 0 /\ main' = "closing"
      /\ UNCHANGED <<managed, router, reload, lone, managerVars>>
  BY DEF Wait
<1>2. live = {} /\ webhooks = 0
  <2>1. Cardinality(live) = 0 /\ webhooks = 0
    BY <1>1, Numbers
  <2> QED
    BY <2>1, FS_EmptySet DEF ManagerInv, Counted
<1>3. ManagerTypeOK' /\ Counted'
  BY <1>1 DEF ManagerInv, ManagerTypeOK, Counted, managerVars
<1>4. Draining'
  BY <1>1, <1>2 DEF ManagerInv, ManagerTypeOK, Draining, ShuttingDown, managerVars
<1>5. StartedOnce'
  BY <1>1 DEF ManagerInv, StartedOnce, managerVars
<1> QED
  BY <1>3, <1>4, <1>5 DEF ManagerInv

(* The shutdown keeps it.                                                   *)
LEMMA MainKeeps ==
  ASSUME ManagerInv, Cancel \/ Shutdown
  PROVE  ManagerInv'
<1>1. CASE Cancel
  <2>1. /\ main = "serving" /\ main' = "draining" /\ cancelled' = live
        /\ UNCHANGED <<managed, router, reload, lone, cancels, live, busy, webhooks, wg>>
    BY <1>1 DEF Cancel
  <2>2. ManagerTypeOK' /\ Counted'
    BY <2>1 DEF ManagerInv, ManagerTypeOK, Counted
  <2>3. Draining' /\ StartedOnce'
    BY <2>1 DEF ManagerInv, Draining, StartedOnce, ShuttingDown
  <2> QED
    BY <2>2, <2>3 DEF ManagerInv
<1>2. CASE Shutdown
  <2>1. /\ main = "closing" /\ main' = "stopped"
        /\ UNCHANGED <<managed, router, reload, lone, managerVars>>
    BY <1>2 DEF Shutdown
  <2>2. ManagerTypeOK' /\ Counted'
    BY <2>1 DEF ManagerInv, ManagerTypeOK, Counted, managerVars
  <2>3. Draining' /\ StartedOnce'
    BY <2>1 DEF ManagerInv, Draining, StartedOnce, ShuttingDown, managerVars
  <2> QED
    BY <2>2, <2>3 DEF ManagerInv
<1> QED
  BY <1>1, <1>2

(* A fetch keeps it.                                                        *)
LEMMA FetchKeeps ==
  ASSUME ManagerInv, NEW k \in live, Fetch(k)
  PROVE  ManagerInv'
<1>1. /\ k \notin cancelled /\ busy' = busy \cup {k}
      /\ UNCHANGED <<main, managed, router, reload, lone, cancels, live, cancelled, webhooks, wg>>
  BY DEF Fetch
<1>2. ~ShuttingDown
  BY <1>1 DEF ManagerInv, Draining
<1>3. ManagerTypeOK' /\ Counted'
  BY <1>1 DEF ManagerInv, ManagerTypeOK, Counted
<1>4. Draining' /\ StartedOnce'
  BY <1>1, <1>2 DEF ManagerInv, Draining, StartedOnce, ShuttingDown
<1> QED
  BY <1>3, <1>4 DEF ManagerInv

(* So do the other steps of a reload.                                       *)
LEMMA ReloadsKeep ==
  ASSUME ManagerInv, NEW r \in Reloads, ReloadRequest(r) \/ ReloadStep(r)
  PROVE  ManagerInv'
<1>1. /\ reload[r] \in [pc : ReloadPc, cfg : Configs] /\ reload[r].cfg \in Configs
      /\ reload[r] = [pc |-> reload[r].pc, cfg |-> reload[r].cfg]
      /\ reload \in [Reloads -> [pc : ReloadPc, cfg : Configs]]
      /\ router \in Configs /\ lone \in BOOLEAN
  BY DEF ManagerInv, ManagerTypeOK
<1>2. \A pc : [reload EXCEPT ![r].pc = pc] = [reload EXCEPT ![r] = [pc |-> pc, cfg |-> reload[r].cfg]]
  <2> SUFFICES ASSUME NEW pc
               PROVE  [reload[r] EXCEPT !.pc = pc] = [pc |-> pc, cfg |-> reload[r].cfg]
    OBVIOUS
  <2> QED
    BY <1>1
<1>3. CASE ReloadRequest(r)
  <2>1. /\ main # "start" /\ reload[r].pc = "new"
        /\ reload' = [reload EXCEPT ![r] = [pc |-> "load", cfg |-> reload[r].cfg]]
        /\ UNCHANGED <<main, managed, router, lone, managerVars>>
    BY <1>2, <1>3 DEF ReloadRequest, ReloadAt
  <2> QED
    BY <1>1, <2>1, ReloadKeeps DEF ReloadPc
<1>4. CASE ReloadLoad(r)
  <2>1. /\ main # "start" /\ reload[r].pc = "load"
        /\ UNCHANGED <<main, managed, router, lone, managerVars>>
    BY <1>4 DEF ReloadLoad, ManagerInv, Draining
  <2>2. \E pc \in ReloadPc, c \in Configs : reload' = [reload EXCEPT ![r] = [pc |-> pc, cfg |-> c]]
    BY <1>1, <1>2, <1>4 DEF ReloadLoad, ReloadPc
  <2> QED
    BY <1>1, <2>1, <2>2, ReloadKeeps
<1>5. CASE ReloadSwap(r)
  <2>1. /\ main # "start" /\ reload[r].pc = "swap"
        /\ reload' = [reload EXCEPT ![r] = [pc |-> "reconcile", cfg |-> reload[r].cfg]]
        /\ router' = reload[r].cfg /\ lone' \in BOOLEAN
        /\ UNCHANGED <<main, managed, managerVars>>
    BY <1>2, <1>5 DEF ReloadSwap, ReloadAt, ManagerInv, Draining
  <2> QED
    BY <1>1, <2>1, ReloadKeeps DEF ReloadPc
<1>6. CASE ReloadReconcile(r)
  BY <1>6, ReconcileKeeps
<1> QED
  BY <1>3, <1>4, <1>5, <1>6 DEF ReloadStep

(* So does a step that changes nothing.                                     *)
LEMMA StutterKeeps == ManagerInv /\ UNCHANGED vars => ManagerInv'
BY DEF vars, managerVars, ManagerInv, ManagerTypeOK, Counted, Draining, StartedOnce, ShuttingDown

(* The invariant holds in every reachable state.                            *)
LEMMA ManagerInductive == ManagerSpec => []ManagerInv
<1>1. ManagerInv /\ [ManagerNext]_vars => ManagerInv'
  <2> SUFFICES ASSUME ManagerInv, [ManagerNext]_vars PROVE ManagerInv'
    OBVIOUS
  <2>1. CASE Start
    BY <2>1, StartKeeps
  <2>2. CASE Cancel \/ Shutdown
    BY <2>2, MainKeeps
  <2>3. CASE Wait
    BY <2>3, WaitKeeps
  <2>4. CASE main # "stopped" /\ \E k \in live : Fetch(k) \/ ConsumerStep(k)
    BY <2>4, FetchKeeps, HandleKeeps, ReturnKeeps DEF ConsumerStep
  <2>5. CASE WebhookDone
    BY <2>5, WebhookDoneKeeps
  <2>6. CASE \E r \in Reloads : ReloadRequest(r) \/ ReloadStep(r)
    BY <2>6, ReloadsKeep
  <2>7. CASE UNCHANGED vars
    BY <2>7, StutterKeeps
  <2> QED
    BY <2>1, <2>2, <2>3, <2>4, <2>5, <2>6, <2>7 DEF ManagerNext
<1> QED
  BY <1>1, InitKeeps, PTL DEF ManagerSpec

(***************************************************************************)
(* The results                                                             *)
(***************************************************************************)

(* Every variable of the manager keeps its type, and the counter of the     *)
(* wait group is never negative (consumer.go:109-124).                      *)
THEOREM ManagerTypeCorrect == ManagerSpec => []ManagerTypeOK
<1>1. ManagerInv => ManagerTypeOK
  BY DEF ManagerInv
<1> QED
  BY <1>1, ManagerInductive, PTL

(* Nothing runs on after Wait has returned, whatever reloads come late      *)
(* (consumer.go:120-124, main.go:253-262).                                  *)
THEOREM WaitDrains == ManagerSpec => []DrainedBeforeShutdown
<1>1. ManagerInv => DrainedBeforeShutdown
  BY DEF ManagerInv, Draining, DrainedBeforeShutdown, ShuttingDown
<1> QED
  BY <1>1, ManagerInductive, PTL

(* Every configuration has one service per result topic.                    *)
OneServicePerTopic ==
  \A c \in Configs : \A svc1, svc2 \in KafkaServices(c) :
    svc1.result = svc2.result => svc1 = svc2

(* After Start the manager knows each consumer that runs.                   *)
LEMMA StartKnows ==
  ASSUME OneServicePerTopic, ManagerInv, RunningAreKnown, Start
  PROVE  RunningAreKnown'
<1>1. router \in Configs /\ main = "start" /\ live = {} /\ cancels = <<>> /\ cancelled = {}
  BY DEF ManagerInv, ManagerTypeOK, Draining, Start
<1>2. CASE managed
  <2>1. /\ live' = Initial(router) /\ cancelled' = {}
        /\ cancels' \in [ResultTopics(router) -> Initial(router)]
        /\ \A t \in DOMAIN cancels' : cancels'[t].topic = t
    BY <1>1, <1>2 DEF Start, Initial, startLocked, ShuttingDown
  <2>2. \A k \in Initial(router) : k.topic \in ResultTopics(router) /\ cancels'[k.topic] = k
    <3> TAKE k \in Initial(router)
    <3>1. k.topic \in ResultTopics(router)
      BY DEF Initial, ResultTopics
    <3>2. cancels'[k.topic] \in Initial(router) /\ cancels'[k.topic].topic = k.topic
      BY <2>1, <3>1
    <3>3. PICK svc1 \in KafkaServices(router) :
            k = [origin |-> svc1, topic |-> svc1.result, group |-> svc1.type]
      BY DEF Initial
    <3>4. PICK svc2 \in KafkaServices(router) :
            cancels'[k.topic] = [origin |-> svc2, topic |-> svc2.result, group |-> svc2.type]
      BY <3>2 DEF Initial
    <3>5. svc1 = svc2
      BY <1>1, <3>2, <3>3, <3>4 DEF OneServicePerTopic
    <3> QED
      BY <3>1, <3>3, <3>4, <3>5
  <2>3. Range(cancels') = Initial(router)
    BY <2>1, <2>2 DEF Range
  <2> QED
    BY <2>1, <2>3 DEF RunningAreKnown
<1>3. CASE ~managed
  BY <1>1, <1>3 DEF Start, RunningAreKnown, ShuttingDown
<1> QED
  BY <1>2, <1>3

(* Reconcile keeps it so: what it forgets it has cancelled.                 *)
LEMMA ReconcileKnows ==
  ASSUME ManagerInv, RunningAreKnown, NEW r \in Reloads, ReloadReconcile(r)
  PROVE  RunningAreKnown'
<1>1. reload[r].pc = "reconcile" /\ main' = main /\ reload[r].cfg \in Configs
  BY DEF ReloadReconcile, ReloadAt, ManagerInv, ManagerTypeOK
<1>2. CASE managed /\ ~ShuttingDown
  <2>1. PICK f \in TypeByTopic(reload[r].cfg) :
          /\ startLocked({Started(r, f, t) : t \in DOMAIN f \ DOMAIN cancels},
                         {cancels[t] : t \in DOMAIN cancels \ DOMAIN f})
          /\ cancels' = [t \in DOMAIN f |-> IF t \in DOMAIN cancels THEN cancels[t]
                                            ELSE Started(r, f, t)]
    BY <1>2 DEF ReloadReconcile, Reconcile
  <2> DEFINE ks == {Started(r, f, t) : t \in DOMAIN f \ DOMAIN cancels}
             stopped == {cancels[t] : t \in DOMAIN cancels \ DOMAIN f}
             kept == {cancels[t] : t \in DOMAIN cancels \cap DOMAIN f}
  <2>2. live' = live \cup ks /\ cancelled' = cancelled \cup (stopped \cap live)
    BY <1>2, <2>1 DEF startLocked
  <2>3. Range(cancels') = kept \cup ks
    BY <2>1 DEF Range
  <2>4. \A k \in ks : k \notin live /\ k \notin cancelled
    <3>1. \A t \in DOMAIN f : Started(r, f, t).origin = r
      BY <1>1, AddedConsumers
    <3> QED
      BY <1>1, <3>1, AddedAreNew
  <2>5. live \ cancelled = kept \cup stopped
    BY <1>2 DEF RunningAreKnown, Range
  <2>6. kept \cap stopped = {}
    BY DEF ManagerInv, ManagerTypeOK
  <2> HIDE DEF ks, kept, stopped
  <2>7. live' \ cancelled' = kept \cup ks
    BY <2>2, <2>4, <2>5, <2>6
  <2> QED
    BY <2>3, <2>7 DEF RunningAreKnown
<1>3. CASE ~managed
  BY <1>1, <1>3 DEF ReloadReconcile, RunningAreKnown, ShuttingDown
<1>4. CASE ShuttingDown
  BY <1>1, <1>4 DEF RunningAreKnown, ShuttingDown
<1> QED
  BY <1>2, <1>3, <1>4

(* Every step keeps it so.                                                  *)
LEMMA NextKnows ==
  ASSUME OneServicePerTopic, ManagerInv, RunningAreKnown, [ManagerNext]_vars
  PROVE  RunningAreKnown'
<1>1. CASE Start
  BY <1>1, StartKnows
<1>2. CASE Cancel \/ Wait \/ Shutdown
  BY <1>2 DEF Cancel, Wait, Shutdown, RunningAreKnown, ShuttingDown
<1>3. CASE \E k \in live : Fetch(k) \/ Handle(k)
  BY <1>3 DEF Fetch, Handle, RunningAreKnown, ShuttingDown
<1>4. CASE \E k \in live : Return(k)
  BY <1>4 DEF Return, RunningAreKnown, ShuttingDown
<1>5. CASE WebhookDone
  BY <1>5 DEF WebhookDone, RunningAreKnown, ShuttingDown
<1>6. CASE \E r \in Reloads : ReloadRequest(r) \/ ReloadLoad(r) \/ ReloadSwap(r)
  BY <1>6 DEF ReloadRequest, ReloadLoad, ReloadSwap, ReloadAt, managerVars,
              RunningAreKnown, ShuttingDown
<1>7. CASE \E r \in Reloads : ReloadReconcile(r)
  BY <1>7, ReconcileKnows
<1>8. CASE UNCHANGED vars
  BY <1>8 DEF vars, managerVars, RunningAreKnown, ShuttingDown
<1> QED
  BY <1>1, <1>2, <1>3, <1>4, <1>5, <1>6, <1>7, <1>8 DEF ManagerNext, ConsumerStep, ReloadStep

(* The manager can stop every consumer that runs, and none twice, if no     *)
(* configuration has two services with one result topic: of the two that    *)
(* Start starts for it, the map forgets one (consumer.go:74-76, 112).       *)
THEOREM RunningKnown ==
  ASSUME OneServicePerTopic
  PROVE  ManagerSpec => []RunningAreKnown
<1>1. ManagerInit => RunningAreKnown
  BY DEF ManagerInit, RunningAreKnown, Range
<1>2. ManagerInv /\ RunningAreKnown /\ [ManagerNext]_vars => RunningAreKnown'
  BY NextKnows
<1> QED
  BY <1>1, <1>2, ManagerInductive, PTL DEF ManagerSpec

(***************************************************************************)
(* The consumers and the router                                            *)
(***************************************************************************)

(* The map has the router's topics, or the one reload that is to reconcile  *)
(* them has the router's configuration in hand.                             *)
MapFollowsRouter ==
  managed /\ main = "serving" /\ lone =>
    \/ Swapped = {} /\ DOMAIN cancels = ResultTopics(router)
    \/ \E r \in Reloads : Swapped = {r} /\ reload[r].cfg = router

(* Whatever the router is, the map has the topics of one configuration.     *)
MapOfOneConfig ==
  managed /\ main = "serving" => \E c \in Configs : DOMAIN cancels = ResultTopics(c)

(* What a step of a reload means to the reloads that have swapped.          *)
LEMMA SwappedMoves ==
  ASSUME ManagerInv, NEW r \in Reloads
  PROVE  /\ ReloadRequest(r) \/ ReloadLoad(r) =>
              Swapped' = Swapped /\ \A q \in Swapped : reload'[q] = reload[q]
         /\ ReloadSwap(r) => Swapped' = Swapped \cup {r} /\ reload'[r].cfg = reload[r].cfg
         /\ ReloadReconcile(r) => r \in Swapped /\ Swapped' = Swapped \ {r}
<1>1. reload \in [Reloads -> [pc : ReloadPc, cfg : Configs]]
  BY DEF ManagerInv, ManagerTypeOK
<1>2. ASSUME NEW pc, reload' = [reload EXCEPT ![r].pc = pc]
      PROVE  /\ reload'[r].pc = pc /\ reload'[r].cfg = reload[r].cfg
             /\ \A q \in Reloads \ {r} : reload'[q] = reload[q]
  BY <1>1, <1>2
<1>3. ASSUME ReloadRequest(r) \/ ReloadLoad(r)
      PROVE  /\ reload[r].pc # "reconcile" /\ reload'[r].pc # "reconcile"
             /\ \A q \in Reloads \ {r} : reload'[q] = reload[q]
  <2>1. CASE ReloadRequest(r)
    BY <1>2, <2>1 DEF ReloadRequest, ReloadAt
  <2>2. CASE ReloadLoad(r)
    BY <1>1, <1>2, <2>2 DEF ReloadLoad
  <2> QED
    BY <1>3, <2>1, <2>2
<1>4. ASSUME ReloadSwap(r) PROVE Swapped' = Swapped \cup {r} /\ reload'[r].cfg = reload[r].cfg
  <2>1. /\ reload'[r].pc = "reconcile" /\ reload'[r].cfg = reload[r].cfg
        /\ \A q \in Reloads \ {r} : reload'[q] = reload[q]
    BY <1>2, <1>4 DEF ReloadSwap, ReloadAt
  <2> QED
    BY <2>1 DEF Swapped
<1>5. ASSUME ReloadReconcile(r) PROVE r \in Swapped /\ Swapped' = Swapped \ {r}
  <2>1. /\ reload[r].pc = "reconcile" /\ reload'[r].pc # "reconcile"
        /\ \A q \in Reloads \ {r} : reload'[q] = reload[q]
    BY <1>2, <1>5 DEF ReloadReconcile, ReloadAt
  <2> QED
    BY <2>1 DEF Swapped
<1>6. ASSUME ReloadRequest(r) \/ ReloadLoad(r)
      PROVE  Swapped' = Swapped /\ \A q \in Swapped : reload'[q] = reload[q]
  BY <1>3, <1>6 DEF Swapped
<1>7. ReloadRequest(r) \/ ReloadLoad(r) =>
        Swapped' = Swapped /\ \A q \in Swapped : reload'[q] = reload[q]
  BY <1>6
<1> QED
  BY <1>4, <1>5, <1>7

(* Every step keeps the map of cancel functions with the router.            *)
LEMMA MapFollowsNext ==
  ASSUME ManagerInv, MapFollowsRouter, [ManagerNext]_vars
  PROVE  MapFollowsRouter'
<1>1. CASE Start
  <2> SUFFICES ASSUME managed PROVE Swapped' = {} /\ DOMAIN cancels' = ResultTopics(router')
    BY <1>1 DEF Start, MapFollowsRouter
  <2>1. router' = router /\ reload' = reload /\ \A r \in Reloads : reload[r].pc = "new"
    BY <1>1 DEF Start, ManagerInv, Draining
  <2>2. DOMAIN cancels' = ResultTopics(router)
    BY <1>1 DEF Start
  <2> QED
    BY <2>1, <2>2 DEF Swapped, ResultTopics
<1>2. CASE UNCHANGED <<managed, router, reload, lone, cancels>> /\ (main' = main \/ main' # "serving")
  BY <1>2 DEF MapFollowsRouter, Swapped, ResultTopics
<1>3. ASSUME NEW r \in Reloads, ReloadRequest(r) \/ ReloadLoad(r) PROVE MapFollowsRouter'
  <2>1. UNCHANGED <<main, managed, router, lone, cancels>>
    BY <1>3 DEF ReloadRequest, ReloadLoad, managerVars
  <2> QED
    BY <1>3, <2>1, SwappedMoves DEF MapFollowsRouter, ResultTopics
<1>4. ASSUME NEW r \in Reloads, ReloadSwap(r) PROVE MapFollowsRouter'
  <2>1. lone' => Swapped' = {r} /\ reload'[r].cfg = router'
    BY <1>4, SwappedMoves DEF ReloadSwap
  <2> QED
    BY <2>1 DEF MapFollowsRouter
<1>5. ASSUME NEW r \in Reloads, ReloadReconcile(r) PROVE MapFollowsRouter'
  <2> SUFFICES ASSUME managed, main = "serving", lone
               PROVE  Swapped' = {} /\ DOMAIN cancels' = ResultTopics(router)
    BY <1>5 DEF ReloadReconcile, MapFollowsRouter, ResultTopics
  <2>1. r \in Swapped /\ Swapped' = Swapped \ {r}
    BY <1>5, SwappedMoves
  <2>2. Swapped = {r} /\ reload[r].cfg = router
    BY <2>1 DEF MapFollowsRouter
  <2>3. DOMAIN cancels' = ResultTopics(reload[r].cfg)
    BY <1>5 DEF ReloadReconcile, Reconcile, TypeByTopic
  <2> QED
    BY <2>1, <2>2, <2>3
<1>6. ASSUME NEW k, Fetch(k) \/ Handle(k) \/ Return(k)
      PROVE  UNCHANGED <<main, managed, router, reload, lone, cancels>>
  BY <1>6 DEF Fetch, Handle, Return
<1>7. ASSUME Cancel \/ Wait \/ Shutdown \/ WebhookDone \/ UNCHANGED vars
      PROVE  /\ UNCHANGED <<managed, router, reload, lone, cancels>>
             /\ main' = main \/ main' # "serving"
  BY <1>7 DEF Cancel, Wait, Shutdown, WebhookDone, vars, managerVars
<1> QED
  BY <1>1, <1>2, <1>3, <1>4, <1>5, <1>6, <1>7 DEF ManagerNext, ConsumerStep, ReloadStep

(* Every step keeps the topics of the map those of one configuration.       *)
LEMMA MapOfOneConfigNext ==
  ASSUME ManagerInv, MapOfOneConfig, [ManagerNext]_vars
  PROVE  MapOfOneConfig'
<1>1. router \in Configs /\ reload \in [Reloads -> [pc : ReloadPc, cfg : Configs]]
  BY DEF ManagerInv, ManagerTypeOK
<1>2. CASE Start
  <2> SUFFICES ASSUME managed PROVE DOMAIN cancels' = ResultTopics(router)
    BY <1>1, <1>2 DEF Start, MapOfOneConfig, ResultTopics
  <2> QED
    BY <1>2 DEF Start
<1>3. CASE UNCHANGED <<managed, cancels>> /\ (main' = main \/ main' # "serving")
  BY <1>3 DEF MapOfOneConfig, ResultTopics
<1>4. ASSUME NEW r \in Reloads, ReloadReconcile(r) PROVE MapOfOneConfig'
  <2> SUFFICES ASSUME managed PROVE DOMAIN cancels' = ResultTopics(reload[r].cfg)
    BY <1>1, <1>4 DEF ReloadReconcile, MapOfOneConfig, ResultTopics
  <2> QED
    BY <1>4 DEF ReloadReconcile, Reconcile, TypeByTopic
<1>5. ASSUME NEW r \in Reloads, ReloadRequest(r) \/ ReloadLoad(r) \/ ReloadSwap(r)
      PROVE  UNCHANGED <<main, managed, cancels>>
  BY <1>5 DEF ReloadRequest, ReloadLoad, ReloadSwap, managerVars
<1>6. ASSUME NEW k, Fetch(k) \/ Handle(k) \/ Return(k)
      PROVE  UNCHANGED <<main, managed, cancels>>
  BY <1>6 DEF Fetch, Handle, Return
<1>7. ASSUME Cancel \/ Wait \/ Shutdown \/ WebhookDone \/ UNCHANGED vars
      PROVE  UNCHANGED <<managed, cancels>> /\ (main' = main \/ main' # "serving")
  BY <1>7 DEF Cancel, Wait, Shutdown, WebhookDone, vars, managerVars
<1> QED
  BY <1>2, <1>3, <1>4, <1>5, <1>6, <1>7 DEF ManagerNext, ConsumerStep, ReloadStep

(* While a process that was started with brokers serves, the consumers that *)
(* run are those of one whole configuration, however reloads overlap        *)
(* (consumer.go:79-107); and it is the configuration of the active router   *)
(* when no reload is between its swap and its Reconcile (main.go:193-206)   *)
(* and the last did not swap while another was.  No configuration may have  *)
(* two services with one result topic.                                      *)
THEOREM ConsumersFollowRouter ==
  ASSUME OneServicePerTopic
  PROVE  ManagerSpec => []ConsumersMatchRouter
<1>1. ManagerInit => MapFollowsRouter /\ MapOfOneConfig
  BY DEF ManagerInit, MapFollowsRouter, MapOfOneConfig
<1>2. ManagerInv /\ MapFollowsRouter /\ MapOfOneConfig /\ [ManagerNext]_vars
        => (MapFollowsRouter /\ MapOfOneConfig)'
  BY MapFollowsNext, MapOfOneConfigNext
<1>3. ManagerInv /\ MapFollowsRouter /\ MapOfOneConfig /\ RunningAreKnown
        => ConsumersMatchRouter
  <2> SUFFICES ASSUME ManagerInv, MapFollowsRouter, MapOfOneConfig, RunningAreKnown,
                      managed, main = "serving"
               PROVE  \E c \in Configs :
                        /\ {k.topic : k \in live \ cancelled} = ResultTopics(c)
                        /\ lone /\ Swapped = {} => c = router
    BY DEF ConsumersMatchRouter
  <2>1. PICK c \in Configs :
          DOMAIN cancels = ResultTopics(c) /\ (lone /\ Swapped = {} => c = router)
    <3>1. CASE lone /\ Swapped = {}
      <4>1. router \in Configs /\ DOMAIN cancels = ResultTopics(router)
        BY <3>1 DEF MapFollowsRouter, ManagerInv, ManagerTypeOK
      <4> QED
        BY <4>1
    <3> QED
      BY <3>1 DEF MapOfOneConfig
  <2>2. live \ cancelled = {cancels[t] : t \in DOMAIN cancels}
    BY DEF RunningAreKnown, ShuttingDown, Range
  <2>3. \A t \in DOMAIN cancels : cancels[t].topic = t
    BY DEF ManagerInv, ManagerTypeOK
  <2> QED
    BY <2>1, <2>2, <2>3
<1> QED
  BY <1>1, <1>2, <1>3, ManagerInductive, RunningKnown, PTL DEF ManagerSpec
=============================================================================
