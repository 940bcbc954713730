------------------------------ MODULE Providers ------------------------------
(***************************************************************************)
(* The provider adapters (internal/llmproxy/provider): how a request in    *)
(* OpenAI's format is put to a backend, and how its response is put back   *)
(* into that format.  Only anthropic translates.                           *)
(*                                                                         *)
(* The body of a request is a record of its fields; a message has a role   *)
(* and a content, which is the sequence of its parts.  Texts are tokens,   *)
(* and a sequence of them stands for their concatenation.                  *)
(***************************************************************************)
EXTENDS Integers, SequencesExt

Unset  == -1           (* a limit that is not there                         *)
NoText == "image"      (* a part of a content that has no text              *)

(* The body of a request.                                                   *)
openAIMessage == [role : STRING, content : Seq(STRING)]
openAIRequest ==
  [model : Seq(STRING), messages : Seq(openAIMessage), max_tokens : Int,
   max_completion_tokens : Int, stop : Seq(STRING), tools : SUBSET STRING,
   stream : BOOLEAN, rest : STRING]

chatPath     == <<<<"v1">>, <<"chat">>>>
messagesPath == <<<<"v1">>, <<"messages">>>>

-----------------------------------------------------------------------------
(* Requests                                                                 *)

contentToString(content) ==
  FlattenSeq([i \in DOMAIN content |-> IF content[i] = NoText THEN <<>> ELSE <<content[i]>>])

(* max_tokens comes before max_completion_tokens.                           *)
maxTok(body, default) ==
  IF body.max_tokens # Unset THEN body.max_tokens
  ELSE IF body.max_completion_tokens # Unset THEN body.max_completion_tokens
  ELSE default

(* The role of a message that is not a system message.                      *)
turnRole(role) == IF role \in {"user", "assistant"} THEN role ELSE "user"

(* Variant: a system message replaces the one before it.                    *)
systemLast(messages) ==
  LET systems == {i \in DOMAIN messages : messages[i].role = "system"} IN
  IF systems = {} THEN <<>> ELSE contentToString(messages[Max(systems)].content)

(* The system messages, wherever they are, joined.                          *)
system(messages) ==
  FlattenSeq([i \in DOMAIN messages |->
    IF messages[i].role = "system" THEN contentToString(messages[i].content) ELSE <<>>])

(* The other messages.                                                      *)
turns(messages) ==
  FlattenSeq([i \in DOMAIN messages |->
    IF messages[i].role = "system" THEN <<>>
    ELSE <<[role    |-> turnRole(messages[i].role),
            content |-> contentToString(messages[i].content)]>>])

(* Every other field is dropped, among them tools and tool_choice.          *)
openAIToAnthropic(body) ==
  [model          |-> body.model,
   system         |-> system(body.messages),
   messages       |-> turns(body.messages),
   max_tokens     |-> maxTok(body, 4096),
   stop_sequences |-> body.stop,
   stream         |-> body.stream]

BuildRequest(provider, body, url) ==
  IF provider = "anthropic"
  THEN [url |-> messagesPath, body |-> openAIToAnthropic(body)]
  ELSE [url |-> url, body |-> body]

-----------------------------------------------------------------------------
(* Responses                                                                *)

NoUsage == [prompt |-> 0, completion |-> 0]

anthropicFinishReason(stopReason) ==
  CASE stopReason \in {"end_turn", "stop_sequence"} -> "stop"
    [] stopReason = "max_tokens" -> "length"
    [] stopReason = "tool_use"   -> "tool_calls"
    [] OTHER -> stopReason

(* Blocks of other types than text, such as tool_use, are dropped.          *)
anthropicToOpenAI(resp) ==
  [model  |-> resp.model,
   text   |-> FlattenSeq([i \in DOMAIN resp.content |->
                IF resp.content[i].type = "text" THEN resp.content[i].text ELSE <<>>]),
   finish |-> anthropicFinishReason(resp.stop_reason),
   usage  |-> [prompt |-> resp.usage.input, completion |-> resp.usage.output]]

IsJSON(body) == "events" \notin DOMAIN body

(* A body that is no JSON, or reports no usage, counts for nothing: Track   *)
(* leaves a sum alone to which it would add zero.                           *)
parseOpenAIUsage(body) ==
  IF IsJSON(body) /\ "usage" \in DOMAIN body THEN body.usage ELSE NoUsage

Translated(provider, body) == provider # "anthropic" \/ IsJSON(body)

(* Of a response with status 200 that can be translated.                    *)
TranslateResponse(provider, body) ==
  LET out == IF provider = "anthropic" THEN anthropicToOpenAI(body) ELSE body IN
  [body |-> out, usage |-> parseOpenAIUsage(out)]

-----------------------------------------------------------------------------
(* The backends.  What one says is determined by the model it is asked for, *)
(* the path, and what the request means, whichever format says it.          *)

Meaning(body) ==
  LET said == body.messages IN
  [system |-> FlattenSeq([i \in DOMAIN said |->
                IF said[i].role = "system" THEN said[i].content ELSE <<>>]),
   turns  |-> FlattenSeq([i \in DOMAIN said |->
                IF said[i].role = "system" THEN <<>> ELSE <<<<said[i].role, said[i].content>>>>]),
   limit  |-> {body.max_tokens, body.max_completion_tokens} \ {Unset},
   stop   |-> body.stop,
   other  |-> <<body.tools, body.rest>>]

AnthropicMeaning(body) ==
  [system |-> body.system,
   turns  |-> [i \in DOMAIN body.messages |-> <<body.messages[i].role, body.messages[i].content>>],
   limit  |-> {body.max_tokens},
   stop   |-> body.stop_sequences,
   other  |-> <<{}, "">>]

(* In OpenAI's format.  A short limit ends the answer early.                *)
OpenAIReply(model, url, meaning) ==
  [model  |-> model,
   text   |-> <<<<url, meaning>>>>,
   finish |-> IF \E n \in meaning.limit : n < 10 THEN "length" ELSE "stop",
   usage  |-> [prompt |-> Len(meaning.system) + Len(meaning.turns), completion |-> 1]]

(* The Messages API, which is for chat.                                     *)
AnthropicReply(model, meaning) ==
  LET reply == OpenAIReply(model, chatPath, meaning) IN
  [model       |-> model,
   content     |-> <<[type |-> "thinking"], [type |-> "text", text |-> reply.text]>>,
   stop_reason |-> IF reply.finish = "length" THEN "max_tokens" ELSE "end_turn",
   usage       |-> [input |-> reply.usage.prompt, output |-> reply.usage.completion]]

Streamed(body, reply) == IF body.stream THEN [events |-> reply] ELSE reply

BackendReply(provider, wire) ==
  Streamed(wire.body,
           IF provider = "anthropic"
           THEN AnthropicReply(wire.body.model, AnthropicMeaning(wire.body))
           ELSE OpenAIReply(wire.body.model, wire.url, Meaning(wire.body)))
=============================================================================
