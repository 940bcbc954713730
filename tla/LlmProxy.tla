------------------------------ MODULE LlmProxy ------------------------------
(***************************************************************************)
(* JSON requests on the synchronous paths: handleJSON                      *)
(* (internal/handler/sync.go) routes them with the registry of the router  *)
(* they came through, and ServeJSON (internal/llmproxy/handler.go) answers *)
(* from the response cache or from the provider, and fills the cache in a  *)
(* goroutine.  One action per call that leaves the process.                *)
(*                                                                         *)
(* A request has its path, its user, the no-cache directive and a body; of *)
(* the body's fields that are not in the cache key, `rest` stands for those*)
(* that a backend looks at, such as input and prompt.                      *)
(***************************************************************************)
EXTENDS Registry, Providers

CONSTANTS
  Configs,          (* lists of services that config.yaml may hold          *)
  Requests,         (* the requests                                         *)
  Body,             (* the request made by each                             *)
  Users,            (* authenticated consumers                              *)
  Urls, Models,     (* what a client may ask for, for the routing property  *)
  Fails             (* the calls that may fail                              *)

(* A service has finitely many operations.                                  *)
ASSUME LlmAssumption ==
  /\ Configs \subseteq {c \in Seq(Def) : \A i \in DOMAIN c : IsFiniteSet(c[i].operations)}
  /\ Body \in [Requests -> [url : Url, user : STRING, noCache : BOOLEAN,
                          json : openAIRequest]]
  /\ Urls \subseteq Url
  /\ Models \subseteq Seq(STRING)
  /\ Fails \subseteq {"get", "upstream", "track", "set"}

VARIABLES
  registry,   (* the registry of the active router                          *)
  request,    (* each request: next call, and the service routed to         *)
  answer,     (* what each request was answered, or is about to be          *)
  cache,      (* llm:cache:* in Redis                                       *)
  tracked     (* the tracker's sums: answers billed to each user            *)

llmVars == <<registry, request, answer, cache, tracked>>

NoAnswer == [status |-> "none"]
ErrorAnswer(status) == [status |-> status]

RequestPc == {"new", "lookup", "forward", "respond", "fill", "done"}

LlmInit ==
  /\ registry \in UNION {NewRegistry(c) : c \in Configs}
  /\ request = [r \in Requests |-> [pc |-> "new", def |-> NoDef]]
  /\ answer = [r \in Requests |-> NoAnswer]
  /\ cache = <<>>
  /\ tracked = [u \in Users |-> NoUsage]

-----------------------------------------------------------------------------
(* The cache key                                                            *)

Keyed(r) ==
  LET b == Body[r].json IN
  <<b.messages, b.max_tokens, b.max_completion_tokens, b.stop, b.tools>>

(* The provider and the hash of the cacheable fields, in which the alias    *)
(* takes the place of the model.                                            *)
Key(def, r) == <<def.provider, def.model, Keyed(r)>>

Cacheable(def, r) ==
  def.cacheTTL /\ ~Body[r].noCache /\ ~Body[r].json.stream

-----------------------------------------------------------------------------
(* ServeJSON                                                                *)

Goes(r, from, to) ==
  /\ request[r].pc = from
  /\ request' = [request EXCEPT ![r].pc = to]

(* A ZINCRBY for each kind of token.  An error is logged, and the tokens    *)
(* may have been added or not.                                              *)
Added(tokens) == {tokens} \cup (IF "track" \in Fails THEN {0} ELSE {})

Track(r, usage) ==
  IF Body[r].user \in Users
  THEN \E prompt \in Added(usage.prompt), completion \in Added(usage.completion) :
         tracked' = [tracked EXCEPT ![Body[r].user] =
                       [prompt |-> @.prompt + prompt, completion |-> @.completion + completion]]
  ELSE UNCHANGED tracked

(* handleJSON: 400 if there is no service; a service without a provider has *)
(* its requests proxied, which leaves no trace here.                        *)
Route(r) ==
  LET d == RouteSync(registry, Body[r].url, Body[r].json.model)
      def == registry[d].def
  IN
  /\ request[r].pc = "new"
  /\ IF d = NoDef
     THEN /\ request' = [request EXCEPT ![r].pc = "done"]
          /\ answer' = [answer EXCEPT ![r] = ErrorAnswer("400")]
     ELSE /\ request' = [request EXCEPT ![r] =
               [def |-> def,
                pc  |-> IF ~def.llm THEN "done"
                        ELSE IF Cacheable(def, r) THEN "lookup" ELSE "forward"]]
          /\ UNCHANGED answer
  /\ UNCHANGED <<registry, cache, tracked>>

(* What a cached body says of its usage.                                    *)
emitTokenMetrics(body) == parseOpenAIUsage(body)

(* Variant: a hit is not counted.                                           *)
LookupUntracked(r) ==
  /\ request[r].pc = "lookup"
  /\ LET k == Key(request[r].def, r) IN
     \/ /\ k \in DOMAIN cache
        /\ Goes(r, "lookup", "done")
        /\ answer' = [answer EXCEPT ![r] = cache[k]]
     \/ /\ k \notin DOMAIN cache \/ "get" \in Fails
        /\ Goes(r, "lookup", "forward")
        /\ UNCHANGED answer
  /\ UNCHANGED <<registry, cache, tracked>>

(* A hit is answered at once.  An error counts as a miss.                   *)
Lookup(r) ==
  /\ request[r].pc = "lookup"
  /\ LET k == Key(request[r].def, r) IN
     \/ /\ k \in DOMAIN cache
        /\ Goes(r, "lookup", "done")
        /\ answer' = [answer EXCEPT ![r] = cache[k]]
        /\ Track(r, emitTokenMetrics(cache[k].body))
     \/ /\ k \notin DOMAIN cache \/ "get" \in Fails
        /\ Goes(r, "lookup", "forward")
        /\ UNCHANGED <<answer, tracked>>
  /\ UNCHANGED <<registry, cache>>

(* The alias is replaced by the name the backend knows, if there is one.    *)
rewriteBodyModel(def, body) ==
  IF def.backendModel # NoModel THEN [body EXCEPT !.model = def.backendModel] ELSE body

(* The provider answers; or it answers with an error of its own, which is   *)
(* passed on, as when no model is named; or it cannot be reached (502); or  *)
(* what it answers cannot be translated (500).                              *)
Forward(r) ==
  LET def   == request[r].def
      wire  == BuildRequest(def.provider, rewriteBodyModel(def, Body[r].json), Body[r].url)
      reply == BackendReply(def.provider, wire)
      fails(status, to) ==
        Goes(r, "forward", to) /\ answer' = [answer EXCEPT ![r] = ErrorAnswer(status)]
  IN
  /\ request[r].pc = "forward"
  /\ \/ /\ wire.body.model # NoModel
        /\ Translated(def.provider, reply)
        /\ Goes(r, "forward", "respond")
        /\ answer' = [answer EXCEPT ![r] =
                        [status |-> "200", body |-> TranslateResponse(def.provider, reply).body]]
     \/ wire.body.model # NoModel /\ ~Translated(def.provider, reply) /\ fails("500", "done")
     \/ wire.body.model = NoModel /\ fails("400", "respond")
     \/ "upstream" \in Fails /\ (fails("429", "respond") \/ fails("502", "done"))
  /\ UNCHANGED <<registry, cache, tracked>>

(* The usage that TranslateResponse has found; errors report none.          *)
Usage(a) == IF a.status = "200" THEN parseOpenAIUsage(a.body) ELSE NoUsage

(* Variant: whatever was answered is cached.                                *)
RespondFillsAll(r) ==
  /\ request[r].pc = "respond"
  /\ IF Cacheable(request[r].def, r)
     THEN Goes(r, "respond", "fill") ELSE Goes(r, "respond", "done")
  /\ Track(r, Usage(answer[r]))
  /\ UNCHANGED <<registry, answer, cache>>

(* Track, write the response, and start the goroutine that fills the cache. *)
Respond(r) ==
  /\ request[r].pc = "respond"
  /\ IF Cacheable(request[r].def, r) /\ answer[r].status = "200"
     THEN Goes(r, "respond", "fill") ELSE Goes(r, "respond", "done")
  /\ Track(r, Usage(answer[r]))
  /\ UNCHANGED <<registry, answer, cache>>

(* The goroutine: Set, or an error that is logged.                          *)
Fill(r) ==
  /\ Goes(r, "fill", "done")
  /\ \/ LET key == Key(request[r].def, r) IN
        cache' = [k \in DOMAIN cache \cup {key} |-> IF k = key THEN answer[r] ELSE cache[k]]
     \/ "set" \in Fails /\ UNCHANGED cache
  /\ UNCHANGED <<registry, answer, tracked>>

(* The TTL of an entry runs out.                                            *)
ExpireEntry(k) ==
  /\ cache' = Restrict(cache, DOMAIN cache \ {k})
  /\ UNCHANGED <<registry, request, answer, tracked>>

(* A reload swaps the router; requests under way keep their service.        *)
SwapRegistry ==
  /\ registry' \in UNION {NewRegistry(c) : c \in Configs}
  /\ UNCHANGED <<request, answer, cache, tracked>>

LlmNext ==
  \/ \E r \in Requests : Route(r) \/ Lookup(r) \/ Forward(r) \/ Respond(r) \/ Fill(r)
  \/ \E k \in DOMAIN cache : ExpireEntry(k)
  \/ SwapRegistry

LlmSpec == LlmInit /\ [][LlmNext]_llmVars

-----------------------------------------------------------------------------
(* The types of the state; only successful answers are cached.              *)
LlmTypeOK ==
  /\ \A r \in Requests : request[r].pc \in RequestPc
  /\ \A r \in Requests : answer[r].status \in {"none", "200", "400", "429", "500", "502"}
  /\ \A k \in DOMAIN cache : cache[k].status = "200"
  /\ \A u \in Users : tracked[u] \in [prompt : Nat, completion : Nat]

Delivered(r) == request[r].pc \in {"fill", "done"} /\ answer[r].status = "200"

(* What the model behind the alias says to what the client means.  The      *)
(* Messages API has no request without a limit.                             *)
Due(def, r) ==
  LET json    == Body[r].json
      means   == Meaning(json)
      model   == IF def.backendModel # NoModel THEN def.backendModel ELSE def.model
      default == IF def.provider = "anthropic" /\ means.limit = {} THEN {4096} ELSE means.limit
  IN Streamed(json, OpenAIReply(model, Body[r].url, [means EXCEPT !.limit = default]))

(* A client gets, in OpenAI's format, the answer of the model it asked to   *)
(* what it said, whether from the cache or from the backend, translated or  *)
(* not (handler.go:81-101, key.go:43-60, anthropic.go:41-252).              *)
AnswerFitsRequest ==
  \A r \in Requests : Delivered(r) => answer[r].body = Due(request[r].def, r)

(* The tokens of every answer that was delivered to a known user are billed *)
(* once, cached or not, translated or not, whatever else fails, unless the  *)
(* count itself is lost (handler.go:88-95, 155-167).  Streamed answers are  *)
(* not billed: nobody looks for their usage (openai.go:39-52).              *)
EveryDeliveryBilled ==
  \A u \in Users :
    LET billed == {r \in Requests : Delivered(r) /\ Body[r].user = u /\ ~Body[r].json.stream}
        due(r) == Due(request[r].def, r).usage
    IN tracked[u] = [prompt     |-> SumFunctionOnSet([r \in billed |-> due(r).prompt], billed),
                     completion |-> SumFunctionOnSet([r \in billed |-> due(r).completion], billed)]

(* The service a request is routed to has a path that matches the URL; and  *)
(* its model is the one in the URL or the one asked for, unless the request *)
(* names none (registry.go:294-361).                                        *)
RoutedServiceMatches ==
  \A url \in Urls, m \in Models :
    LET d == RouteSync(registry, url, m) IN
    d # NoDef =>
      \E i \in DOMAIN registry[d].paths :
        LET p == registry[d].paths[i]  alias == registry[d].def.model IN
        CASE p.kind = "exact"    -> p.before = url /\ m \in {NoModel, alias}
          [] p.kind = "wildcard" -> under(p.before, url) /\ m \in {NoModel, alias}
          [] p.kind = "pattern"  ->
               url = p.before \o <<p.pre \o alias \o p.suf>> \o p.after

(* A consumer reads the results of every service that a synchronous or an   *)
(* asynchronous request may be routed to through Kafka, provided the        *)
(* service has a result topic (registry.go:494-504).                        *)
RoutedIsConsumed ==
  \A i \in DOMAIN registry :
    /\ registry[i].def.results
    /\ \/ \E url \in Urls, m \in Models : RouteSync(registry, url, m) = i
       \/ \E m \in Models : RouteAsync(registry, registry[i].def.type, m) = i
    => i \in KafkaServices(registry)
=============================================================================
