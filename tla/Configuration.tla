---------------------------- MODULE Configuration ----------------------------
(***************************************************************************)
(* What the gateway accepts as its configuration                           *)
(* (internal/config/config.go), as far as it concerns Kafka and routing.   *)
(* An empty string is a field that is not there.                           *)
(***************************************************************************)
EXTENDS Integers

providers == {"openai", "anthropic", "ollama", "passthrough"}

(* Of a service's topics the gateway reads the result topic only; `others`  *)
(* are its sync and its priority topic.                                     *)
UsesKafka(svc) == svc.input # "" \/ svc.result # "" \/ svc.others # {}

ValidService(svc) ==
  /\ svc.type # ""
  /\ svc.input = "" <=> svc.result = ""
  /\ svc.provider \in providers \cup {""}
  /\ svc.cacheTTL >= 0

validate(cfg) ==
  /\ cfg.stores                        (* s3 and redis are configured       *)
  /\ cfg.services # {}
  /\ \A svc \in cfg.services : ValidService(svc)
  /\ (\E svc \in cfg.services : UsesKafka(svc)) => cfg.brokers

(* The services whose results the gateway consumes: of the entries with one *)
(* type and model the registry keeps the last, and `place` tells which.     *)
KafkaServices(cfg) ==
  {svc \in cfg.services :
     /\ svc.result # ""
     /\ \A other \in cfg.services :
          other.type = svc.type /\ other.model = svc.model => other.place <= svc.place}
=============================================================================
