------------------------------- MODULE MCLlm --------------------------------
(* Instances of LlmProxy for TLC.                                           *)
EXTENDS LlmProxy

chat  == chatPath
embed == <<<<"v1">>, <<"embeddings">>>>
infer(model) == <<<<"v2">>, <<"m-">> \o model \o <<":infer">>>>

small == <<"s">>
large == <<"l">>
whisper == <<"w">>

Llm(model, default, operations) ==
  [type |-> "llm", model |-> model, default |-> default, backend |-> TRUE, results |-> FALSE,
   operations |-> operations, llm |-> TRUE, provider |-> "openai", backendModel |-> NoModel,
   cacheTTL |-> TRUE]

(* A service that translates, whose backend has a name of its own for it.   *)
Translating(def, name) == [def EXCEPT !.provider = "anthropic", !.backendModel = name]

Audio(model, default, operations) ==
  [type |-> "audio", model |-> model, default |-> default, backend |-> TRUE, results |-> TRUE,
   operations |-> operations, llm |-> FALSE, provider |-> "", backendModel |-> NoModel,
   cacheTTL |-> FALSE]

(* Two aliases that share paths of every kind, two models of one type under *)
(* one pattern, of which one has a second entry that replaces its first,    *)
(* and a service that takes over a path of another.                         *)
TwoAliases ==
  <<Translating(Llm(small, FALSE, {<<Exact(chat)>>, <<Wildcard(<<<<"v1">>>>)>>}), <<"haiku">>),
    Translating(Llm(large, TRUE, {<<Exact(chat), Wildcard(<<<<"v1">>>>)>>}), <<"opus">>)>>

Whisper == Audio(whisper, FALSE, {<<Pattern(<<<<"v2">>>>, <<"m-">>, <<":infer">>, <<>>)>>})

Patterns ==
  <<Llm(small, FALSE, {<<Wildcard(<<<<"v1">>>>)>>}),
    Whisper,
    Audio(large, TRUE, {<<Pattern(<<<<"v2">>>>, <<"m-">>, <<":infer">>, <<>>)>>, <<Exact(embed)>>}),
    Whisper>>

TwoConfigs == {TwoAliases, Patterns}

(* The configuration of docs/architecture/llm-proxy.md:77-83.               *)
OneWildcard == {<<Llm(small, FALSE, {<<Wildcard(<<<<"v1">>>>)>>})>>}

Json(model, messages) ==
  [model |-> model, messages |-> messages, max_tokens |-> Unset, max_completion_tokens |-> Unset,
   stop |-> <<>>, tools |-> {}, stream |-> FALSE, rest |-> ""]

Asks(url, user, json) == [url |-> url, user |-> user, noCache |-> FALSE, json |-> json]

Says(role, texts) == [role |-> role, content |-> texts]
Dialogue == <<Says("system", <<"be brief">>), Says("user", <<"a", "b">>), Says("assistant", <<"c">>),
              Says("system", <<"be kind">>), Says("user", <<"d">>)>>

(* Chat requests, whose fields all enter the key: the same request to       *)
(* either model and to none, and once to be streamed.                       *)
ChatBodies ==
  LET brief(model) == [Json(model, Dialogue) EXCEPT !.max_completion_tokens = 5, !.stop = <<"end">>]
  IN
  [r1 |-> Asks(chat, "ann", brief(small)),
   r2 |-> Asks(chat, "ann", brief(large)),
   r3 |-> Asks(chat, "bob", brief(NoModel)),
   r4 |-> Asks(chat, "bob", [brief(large) EXCEPT !.stream = TRUE])]

(* Two texts to embed.                                                      *)
EmbeddingBodies ==
  LET embeds(text) == Asks(embed, "ann", [Json(small, <<>>) EXCEPT !.rest = text])
  IN [r1 |-> embeds("one text"), r2 |-> embeds("another text")]

SomeUrls == {chat, embed, infer(whisper), infer(large), infer(<<>>),
             <<<<"v2">>, <<"m-w">>>>, <<<<"v1">>>>}
SomeModels == {NoModel, small, large, whisper, <<"unknown">>}
=============================================================================
