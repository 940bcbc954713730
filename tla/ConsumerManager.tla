-------------------------- MODULE ConsumerManager ---------------------------
(***************************************************************************)
(* The consumers of one gateway process (internal/kafka/consumer.go): which*)
(* goroutines Start and Reconcile leave running, while reloads             *)
(* (POST /-/reload) swap the router and a signal shuts the process down    *)
(* (cmd/gateway/main.go).                                                  *)
(*                                                                         *)
(* What a consumer does with an event is in ResultConsumer; here it is     *)
(* busy, and may start a webhook when it is done.                          *)
(***************************************************************************)
EXTENDS Configuration, FiniteSets, Functions

CONSTANTS
  Files,           (* what config.yaml may hold, valid or not               *)
  FirstFiles,      (* what it may hold when the process starts              *)
  Reloads,         (* the requests to POST /-/reload                        *)
  MaxWebhooks      (* bound: webhook goroutines at a time                   *)

Configs  == {f \in Files : validate(f)}
Services == UNION {KafkaServices(c) : c \in Configs}
Topics   == {svc.result : svc \in Services}
Types    == {svc.type : svc \in Services}

(* Services and reloads are told apart.                                     *)
ASSUME ManagerAssumption ==
  /\ \A f \in Files : f.brokers \in BOOLEAN /\ IsFiniteSet(f.services)
  /\ FirstFiles \subseteq Files
  /\ MaxWebhooks \in Nat
  /\ Reloads \cap Services = {}

VARIABLES
  main,        (* where main is: "start", "serving", "draining" in Wait,    *)
               (* "closing" in srv.Shutdown, "stopped"                      *)
  managed,     (* there is a consumer manager: the process was started with *)
               (* a configuration that has Kafka brokers                    *)
  router,      (* the configuration the active router was built from        *)
  reload,      (* the reload requests: next step, and configuration loaded  *)
  lone,        (* history: the router was swapped last when no other reload *)
               (* was between its swap and its Reconcile                    *)
  cancels,     (* the manager's map from topics to consumers it can stop    *)
  live,        (* the consumer goroutines                                   *)
  cancelled,   (* those whose context is cancelled                          *)
  busy,        (* those in handleResult or CommitMessages                   *)
  webhooks,    (* the number of sendWebhook goroutines                      *)
  wg           (* the wait group's counter                                  *)

managerVars == <<cancels, live, cancelled, busy, webhooks, wg>>
vars == <<main, managed, router, reload, lone, managerVars>>

(* A consumer is known by what started it: a service for Start, a reload    *)
(* for Reconcile.  Its group's ID is made from the service type.            *)
Consumer == [origin : Reloads \cup Services, topic : Topics, group : Types]

ReloadPc == {"new", "load", "swap", "reconcile", "done"}

(* The types of the state; cancelled and busy consumers are goroutines, and *)
(* the manager's map has consumers of the topics it maps.                   *)
ManagerTypeOK ==
  /\ main \in {"start", "serving", "draining", "closing", "stopped"}
  /\ managed \in BOOLEAN
  /\ router \in Configs
  /\ reload \in [Reloads -> [pc : ReloadPc, cfg : Configs]]
  /\ lone \in BOOLEAN
  /\ DOMAIN cancels \subseteq Topics
  /\ \A t \in DOMAIN cancels : cancels[t] \in Consumer /\ cancels[t].topic = t
  /\ live \subseteq Consumer
  /\ cancelled \subseteq live
  /\ busy \subseteq live
  /\ webhooks \in 0..MaxWebhooks
  /\ wg \in Nat

ManagerInit ==
  /\ main = "start"
  /\ router \in FirstFiles \cap Configs
  /\ managed = router.brokers
  /\ reload = [r \in Reloads |-> [pc |-> "new", cfg |-> router]]
  /\ lone = TRUE
  /\ cancels = <<>>
  /\ live = {}
  /\ cancelled = {}
  /\ busy = {}
  /\ webhooks = 0
  /\ wg = 0

ResultTopics(c) == {svc.result : svc \in KafkaServices(c)}

(* The context given to Start is cancelled.                                 *)
ShuttingDown == main \in {"draining", "closing", "stopped"}

-----------------------------------------------------------------------------
(* ConsumerManager                                                          *)

(* Variant: the consumers get a context of their own.                       *)
startLockedBackground(ks, stopped) ==
  /\ live' = live \cup ks
  /\ wg' = wg + Cardinality(ks)
  /\ cancelled' = cancelled \cup (stopped \cap live)

(* The consumers ks are started, with a child of the context given to Start *)
(* each; those in stopped are cancelled, if they have not returned.         *)
startLocked(ks, stopped) ==
  /\ live' = live \cup ks
  /\ wg' = wg + Cardinality(ks)
  /\ cancelled' = cancelled \cup (stopped \cap live)
                            \cup (IF ShuttingDown THEN ks ELSE {})

(* One consumer per service; of two services with one result topic, the map *)
(* keeps the consumer that was started last.                                *)
Start ==
  LET ks == {[origin |-> svc, topic |-> svc.result, group |-> svc.type] :
               svc \in KafkaServices(router)} IN
  /\ main = "start"
  /\ main' = "serving"
  /\ IF managed
     THEN /\ startLocked(ks, {})
          /\ \E last \in [ResultTopics(router) -> ks] :
               /\ \A t \in DOMAIN last : last[t].topic = t
               /\ cancels' = last
     ELSE UNCHANGED <<cancels, live, cancelled, wg>>
  /\ UNCHANGED <<managed, router, reload, lone, busy, webhooks>>

(* newServices: of two services with one topic, either may give its type.   *)
TypeByTopic(c) ==
  {f \in [ResultTopics(c) -> Types] :
     \A t \in DOMAIN f : \E svc \in KafkaServices(c) : svc.result = t /\ svc.type = f[t]}

Started(r, f, t) == [origin |-> r, topic |-> t, group |-> f[t]]

(* Variant: the consumers that run already are started again.               *)
ReconcileAnew(r) ==
  \E f \in TypeByTopic(reload[r].cfg) :
    /\ startLocked({Started(r, f, t) : t \in DOMAIN f},
                   {cancels[t] : t \in DOMAIN cancels \ DOMAIN f})
    /\ cancels' = [t \in DOMAIN f |-> Started(r, f, t)]

(* Variant: the consumers of removed topics are forgotten, not stopped.     *)
ReconcileForgets(r) ==
  \E f \in TypeByTopic(reload[r].cfg) :
    /\ startLocked({Started(r, f, t) : t \in DOMAIN f \ DOMAIN cancels}, {})
    /\ cancels' = [t \in DOMAIN f |-> IF t \in DOMAIN cancels THEN cancels[t]
                                      ELSE Started(r, f, t)]

(* Under the mutex: the consumers of topics that are gone are cancelled and *)
(* forgotten, those of new topics started.                                  *)
Reconcile(r) ==
  \E f \in TypeByTopic(reload[r].cfg) :
    /\ startLocked({Started(r, f, t) : t \in DOMAIN f \ DOMAIN cancels},
                   {cancels[t] : t \in DOMAIN cancels \ DOMAIN f})
    /\ cancels' = [t \in DOMAIN f |-> IF t \in DOMAIN cancels THEN cancels[t]
                                      ELSE Started(r, f, t)]

(* consume: FetchMessage returns an event.  A cancelled loop may get one    *)
(* more that was fetched ahead; every call it makes for it fails, and that  *)
(* is left out.                                                             *)
Fetch(k) ==
  /\ k \in live \ (busy \cup cancelled)
  /\ busy' = busy \cup {k}
  /\ UNCHANGED <<main, managed, router, reload, lone, cancels, live, cancelled, webhooks, wg>>

(* Variant: the goroutine is not counted.                                   *)
HandleUncounted(k) ==
  /\ k \in busy
  /\ busy' = busy \ {k}
  /\ \/ webhooks < MaxWebhooks /\ webhooks' = webhooks + 1
     \/ UNCHANGED webhooks
  /\ UNCHANGED <<main, managed, router, reload, lone, cancels, live, cancelled, wg>>

(* handleResult and the commit are over; a webhook may have been started.   *)
Handle(k) ==
  /\ k \in busy
  /\ busy' = busy \ {k}
  /\ \/ /\ webhooks < MaxWebhooks
        /\ webhooks' = webhooks + 1
        /\ wg' = wg + 1
     \/ UNCHANGED <<webhooks, wg>>
  /\ UNCHANGED <<main, managed, router, reload, lone, cancels, live, cancelled>>

(* Variant: consume, too, tells the wait group that it is done.             *)
ReturnTwiceDone(k) ==
  /\ k \in cancelled \ busy
  /\ live' = live \ {k}
  /\ cancelled' = cancelled \ {k}
  /\ wg' = wg - 2
  /\ UNCHANGED <<main, managed, router, reload, lone, cancels, busy, webhooks>>

(* consume: FetchMessage returns an error and the context is cancelled.     *)
Return(k) ==
  /\ k \in cancelled \ busy
  /\ live' = live \ {k}
  /\ cancelled' = cancelled \ {k}
  /\ wg' = wg - 1
  /\ UNCHANGED <<main, managed, router, reload, lone, cancels, busy, webhooks>>

(* sendWebhook, which no cancellation reaches, is done.                     *)
WebhookDone ==
  /\ webhooks > 0
  /\ webhooks' = webhooks - 1
  /\ wg' = wg - 1
  /\ UNCHANGED <<main, managed, router, reload, lone, cancels, live, cancelled, busy>>

-----------------------------------------------------------------------------
(* POST /-/reload                                                           *)

ReloadAt(r, from, to) ==
  /\ main # "stopped"
  /\ reload[r].pc = from
  /\ reload' = [reload EXCEPT ![r].pc = to]

(* The server accepts the request until Shutdown.                           *)
ReloadRequest(r) ==
  /\ main \in {"serving", "draining"}
  /\ ReloadAt(r, "new", "load")
  /\ UNCHANGED <<main, managed, router, lone, managerVars>>

(* config.Load: 500 if what the file holds now cannot be read or is not     *)
(* valid.  buildRouter, which fetches the services' documents, comes after. *)
ReloadLoad(r) ==
  /\ main # "stopped"
  /\ reload[r].pc = "load"
  /\ \/ \E c \in Configs : reload' = [reload EXCEPT ![r] = [pc |-> "swap", cfg |-> c]]
     \/ reload' = [reload EXCEPT ![r].pc = "done"]
  /\ UNCHANGED <<main, managed, router, lone, managerVars>>

Swapped == {r \in Reloads : reload[r].pc = "reconcile"}

ReloadSwap(r) ==
  /\ ReloadAt(r, "swap", "reconcile")
  /\ router' = reload[r].cfg
  /\ lone' = (Swapped = {})
  /\ UNCHANGED <<main, managed, managerVars>>

ReloadReconcile(r) ==
  /\ ReloadAt(r, "reconcile", "done")
  /\ IF managed THEN Reconcile(r) ELSE UNCHANGED <<cancels, live, cancelled, wg>>
  /\ UNCHANGED <<main, managed, router, lone, busy, webhooks>>

-----------------------------------------------------------------------------
(* main                                                                     *)

(* A signal, or ListenAndServe failed: cancel() reaches every consumer that *)
(* Start and Reconcile have started.                                        *)
Cancel ==
  /\ main = "serving"
  /\ main' = "draining"
  /\ cancelled' = live
  /\ UNCHANGED <<managed, router, reload, lone, cancels, live, busy, webhooks, wg>>

(* Wait returns when the counter is zero; without a manager nobody waits,   *)
(* and the counter is zero.                                                 *)
Wait ==
  /\ main = "draining"
  /\ wg = 0
  /\ main' = "closing"
  /\ UNCHANGED <<managed, router, reload, lone, managerVars>>

(* Shutdown returns when no request is left, or after 30 s; main returns.   *)
Shutdown ==
  /\ main = "closing"
  /\ main' = "stopped"
  /\ UNCHANGED <<managed, router, reload, lone, managerVars>>

ConsumerStep(k) == Handle(k) \/ Return(k)

ReloadStep(r) == ReloadLoad(r) \/ ReloadSwap(r) \/ ReloadReconcile(r)

ManagerNext ==
  \/ Start \/ Cancel \/ Wait \/ Shutdown
  \/ /\ main # "stopped"
     /\ \/ \E k \in live : Fetch(k) \/ ConsumerStep(k)
        \/ WebhookDone
  \/ \E r \in Reloads : ReloadRequest(r) \/ ReloadStep(r)

(* Goroutines run, webhooks have timeouts, and main goes on; nothing makes  *)
(* anybody request a reload or send a signal.                               *)
ManagerFairness ==
  /\ WF_vars(Start) /\ WF_vars(Wait) /\ WF_vars(Shutdown)
  /\ WF_vars(WebhookDone)
  /\ \A k \in Consumer : WF_vars(k \in live /\ ConsumerStep(k))
  /\ \A r \in Reloads : WF_vars(ReloadStep(r))

ManagerSpec == ManagerInit /\ [][ManagerNext]_vars
ManagerFairSpec == ManagerSpec /\ ManagerFairness

-----------------------------------------------------------------------------
(* The manager can stop every consumer that is running, and none twice: the *)
(* consumers that are not being stopped are those in the map.               *)
RunningAreKnown == ~ShuttingDown => live \ cancelled = Range(cancels)

(* In a process that was started with brokers (main.go:153-155) consumers   *)
(* run for the topics of one configuration, never for some of one and some  *)
(* of another, however the reloads overlap (consumer.go:79-107).  It is the *)
(* router's once no reload is between swap and Reconcile, provided that the *)
(* last one did not swap while another was there (main.go:193-206): reloads *)
(* that overlap may leave the consumers of one and the router of another.   *)
ConsumersMatchRouter ==
  managed /\ main = "serving" =>
    \E c \in Configs :
      /\ {k.topic : k \in live \ cancelled} = ResultTopics(c)
      /\ lone /\ Swapped = {} => c = router

(* When Wait has returned no webhook is running, and a consumer that a late *)
(* reload starts can only stop (consumer.go:109-124).                       *)
DrainedBeforeShutdown ==
  main \in {"closing", "stopped"} => webhooks = 0 /\ live = cancelled

(* Why, for the two before: the wait group counts the consumers and the     *)
(* webhooks; nothing runs before Start; and once the context is cancelled   *)
(* every consumer is, so that none gets busy again when Wait has returned.  *)
Counted == IsFiniteSet(live) /\ wg = Cardinality(live) + webhooks

Draining ==
  /\ main = "start" => /\ live = {} /\ cancels = <<>>
                       /\ \A r \in Reloads : reload[r].pc = "new"
  /\ ShuttingDown => live = cancelled
  /\ main \in {"closing", "stopped"} => busy = {} /\ webhooks = 0

(* A reload starts consumers once.                                          *)
StartedOnce ==
  \A k \in live \cup Range(cancels) :
    k.origin \in Reloads => reload[k.origin].pc = "done"

ManagerInv == ManagerTypeOK /\ Counted /\ Draining /\ StartedOnce

(* Two readers with one group and different topics get no partitions        *)
(* (consumer.go:127-130): readers of a group with different topics, as when *)
(* a type moves to another topic, do not stay together.  This is so if      *)
(* every configuration has one topic per type and no topic changes its type.*)
GroupsSettle ==
  <>[](\/ main = "stopped"
       \/ \A k1, k2 \in live : k1.group = k2.group => k1.topic = k2.topic)

(* A signal ends the process, whatever the reloads do meanwhile.            *)
ShutdownEnds == main = "draining" ~> main = "stopped"
=============================================================================
