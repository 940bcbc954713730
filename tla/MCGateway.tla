----------------------------- MODULE MCGateway ------------------------------
(* Instances of ConsumerManager for TLC.                                    *)
EXTENDS ConsumerManager

CONSTANTS r1, r2, r3

Svc(type, input, result) ==
  [type |-> type, model |-> "", input |-> input, result |-> result, others |-> {},
   provider |-> "", cacheTTL |-> 0, place |-> 1]

(* An entry further down the list.                                          *)
Later(svc) == [svc EXCEPT !.place = 2]

Cfg(brokers, services) == [stores |-> TRUE, brokers |-> brokers, services |-> services]

chat  == [Svc("llm", "", "") EXCEPT !.provider = "openai"]
audio == Svc("audio", "audio.input", "audio.results")
ocr(result) == Svc("ocr", "ocr.input", result)

Direct == Cfg(FALSE, {chat})
Both   == Cfg(TRUE, {audio, ocr("ocr.results")})
Moved  == Cfg(TRUE, {chat, ocr("ocr.results"), Later(ocr("ocr.v2.results"))})

(* No service with topics, and no brokers; two with topics; the first one   *)
(* gone, and the second followed by an entry that replaces it and has       *)
(* another topic; and three files Load rejects.                             *)
OneTopicPerType ==
  {Direct, Both, Moved, Cfg(FALSE, {audio}), Cfg(TRUE, {ocr("")}), Cfg(TRUE, {})}

WithAndWithoutBrokers == {Direct, Moved}
=============================================================================
