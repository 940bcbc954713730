--------------------------- MODULE LlmProxy_proofs ---------------------------
(***************************************************************************)
(* Theorems about LlmProxy, for any configurations, requests and failures: *)
(* where requests are routed to, that an answer fits its request, through  *)
(* the cache and a translating adapter, and that it is billed once.        *)
(***************************************************************************)
EXTENDS LlmProxy, Registry_proofs

-----------------------------------------------------------------------------
(* The registry                                                             *)

(* The registries that a configuration may become.                          *)
Registries == UNION {NewRegistry(c) : c \in Configs}

(* It is always one that was built of a configuration.                      *)
RegistryKept == registry \in Registries

(* It holds at first.                                                       *)
LEMMA RegistryInit == LlmInit => RegistryKept
  BY DEF LlmInit, RegistryKept, Registries

(* Only a reload replaces the registry, and by such a one.                  *)
LEMMA RegistryStep == RegistryKept /\ [LlmNext]_llmVars => RegistryKept'
<1> SUFFICES ASSUME RegistryKept, [LlmNext]_llmVars PROVE RegistryKept'
  OBVIOUS
<1>1. CASE \E r \in Requests : Route(r) \/ Lookup(r) \/ Forward(r) \/ Respond(r) \/ Fill(r)
  BY <1>1 DEF RegistryKept, Route, Lookup, Forward, Respond, Fill
<1>2. CASE \E k \in DOMAIN cache : ExpireEntry(k)
  BY <1>2 DEF RegistryKept, ExpireEntry
<1>3. CASE SwapRegistry
  BY <1>3 DEF RegistryKept, SwapRegistry, Registries
<1>4. CASE UNCHANGED llmVars
  BY <1>4 DEF RegistryKept, llmVars
<1> QED BY <1>1, <1>2, <1>3, <1>4 DEF LlmNext

(* So the registry is always one of them.                                   *)
LEMMA RegistryAlways == LlmSpec => []RegistryKept
  BY RegistryInit, RegistryStep, PTL DEF LlmSpec

(* The registries are those of the configurations.                          *)
LEMMA RegistriesBuilt ==
  ASSUME NEW reg \in Registries
  PROVE  \E c \in Configs : c \in Seq(Def) /\ RegistryOf(reg, c)
<1>1. PICK c \in Configs : reg \in NewRegistry(c)
  BY DEF Registries
<1>2. c \in Seq(Def) /\ \A i \in DOMAIN c : IsFiniteSet(c[i].operations)
  BY LlmAssumption
<1> QED BY <1>1, <1>2, RegistryBuilt

(* Requests are routed to services that have a path that matches the URL,   *)
(* in every order in which the maps of operations may be walked, for        *)
(* patterns and prefixes that overlap too (registry.go:294-361).            *)
THEOREM RoutesMatch == LlmSpec => []RoutedServiceMatches
<1>1. RegistryKept => RoutedServiceMatches
  <2> SUFFICES ASSUME RegistryKept PROVE RoutedServiceMatches
    OBVIOUS
  <2>1. PICK c \in Configs : c \in Seq(Def) /\ RegistryOf(registry, c)
    BY RegistriesBuilt DEF RegistryKept
  <2>2. Urls \subseteq Url
    BY LlmAssumption
  <2> QED BY <2>1, <2>2, RouteFits DEF RoutedServiceMatches
<1> QED BY <1>1, RegistryAlways, PTL

(* Two entries with one type and one model say the same of their paths,     *)
(* their backend and their default mark.  config.Load does not ask for it:  *)
(* of two that differ the last is the one consumed, while the paths of the  *)
(* first still lead to the first (registry.go:171-209, 494-504).            *)
RepeatsAgree ==
  \A c \in Configs : \A i, j \in DOMAIN c :
    c[i].type = c[j].type /\ c[i].model = c[j].model => Repeats(c[i], c[j])

(* Whichever way a request comes to a service, the service is the one that  *)
(* a consumer reads the results of (registry.go:494-504).                   *)
THEOREM RoutesConsumed == RepeatsAgree => (LlmSpec => []RoutedIsConsumed)
<1> SUFFICES ASSUME RepeatsAgree PROVE LlmSpec => []RoutedIsConsumed
  OBVIOUS
<1>1. RegistryKept => RoutedIsConsumed
  <2> SUFFICES ASSUME RegistryKept,
                      NEW i \in DOMAIN registry, registry[i].def.results,
                      \/ \E url \in Urls, m \in Models : RouteSync(registry, url, m) = i
                      \/ \E m \in Models : RouteAsync(registry, registry[i].def.type, m) = i
               PROVE  i \in KafkaServices(registry)
    BY DEF RoutedIsConsumed
  <2>1. PICK c \in Configs : c \in Seq(Def) /\ RegistryOf(registry, c)
    BY RegistriesBuilt DEF RegistryKept
  <2> DEFINE n == Len(c)
             def == registry[i].def
             same == Named(registry, ByType(registry, def.type), def.model)
  <2>2. n \in Nat /\ DOMAIN registry = 1..n /\ DOMAIN c = 1..n
        /\ \A k \in 1..n : registry[k].def = c[k]
    BY <2>1 DEF RegistryOf
  <2>3. i \in same /\ same \subseteq 1..n
    BY <2>2 DEF Named, ByType
  <2>4. \A k \in same : k \in DOMAIN registry /\ Repeats(registry[k].def, def) /\ registry[k].def.type = def.type
    BY <2>2, <2>3 DEF Named, ByType, RepeatsAgree
  <2>5. i # NoDef
    BY <2>2 DEF NoDef
  <2> HIDE DEF same
  <2>6. \A k \in same : k <= i
    <3>1. CASE \E url \in Urls, m \in Models : RouteSync(registry, url, m) = i
      <4>1. PICK url \in Urls, m \in Models : RouteSync(registry, url, m) = i
        BY <3>1
      <4>2. url \in Url
        BY LlmAssumption
      <4> QED BY <2>1, <2>4, <2>5, <4>1, <4>2, RouteIsLast
    <3>2. CASE \E m \in Models : RouteAsync(registry, def.type, m) = i
      <4>1. PICK m \in Models : RouteAsync(registry, def.type, m) = i
        BY <3>2
      <4> QED BY <2>1, <2>4, <2>5, <4>1, AsyncRouteIsLast
    <3> QED BY <3>1, <3>2
  <2>7. Latest(same) \in same /\ \A k \in same : k <= Latest(same)
    BY <2>2, <2>3, LatestIn
  <2>8. i = Latest(same)
    <3>1. Latest(same) <= i /\ i <= Latest(same)
      BY <2>3, <2>6, <2>7
    <3>2. Latest(same) \in Nat /\ i \in Nat
      BY <2>2, <2>3, <2>7
    <3> QED BY <3>1, <3>2
  <2> QED BY <2>8 DEF KafkaServices, same
<1> QED BY <1>1, RegistryAlways, PTL

-----------------------------------------------------------------------------
(* The adapters                                                             *)

(* What a user has used, or an answer says.                                 *)
UsageType == [prompt : Nat, completion : Nat]

(* The shortest sequences.                                                  *)
LEMMA ShortSequences ==
  ASSUME NEW T
  PROVE  <<>> \in Seq(T) /\ \A x \in T : <<x>> \in Seq(T)
OBVIOUS

(* The fields of a message.                                                 *)
LEMMA MessageFields ==
  ASSUME NEW messages \in Seq(openAIMessage), NEW i \in 1..Len(messages)
  PROVE  messages[i].role \in STRING /\ messages[i].content \in Seq(STRING)
<1>1. messages[i] \in openAIMessage
  OBVIOUS
<1>2. \A m \in openAIMessage : m.role \in STRING /\ m.content \in Seq(STRING)
  BY DEF openAIMessage
<1> QED BY <1>1, <1>2

(* The parts of a content that have a text.                                 *)
LEMMA ContentType ==
  ASSUME NEW content \in Seq(STRING)
  PROVE  contentToString(content) \in Seq(STRING)
<1> DEFINE ss == [i \in DOMAIN content |-> IF content[i] = NoText THEN <<>> ELSE <<content[i]>>]
<1>1. ASSUME NEW i \in 1..Len(content) PROVE ss[i] \in Seq(STRING)
  <2>1. i \in DOMAIN content /\ content[i] \in STRING
    OBVIOUS
  <2>2. ss[i] \in {<<>>, <<content[i]>>}
    BY <2>1
  <2> HIDE DEF ss
  <2> QED BY <2>1, <2>2, ShortSequences
<1>2. ss \in Seq(Seq(STRING))
  <2>1. DOMAIN ss = 1..Len(content)
    OBVIOUS
  <2> QED BY <1>1, <2>1
<1>3. contentToString(content) = FlattenSeq(ss)
  BY DEF contentToString
<1> HIDE DEF ss
<1> QED BY <1>2, <1>3, FlattenItems

(* What a request means, in either dialect, has a length.                   *)
LEMMA MeaningType ==
  ASSUME NEW json \in openAIRequest
  PROVE  /\ Meaning(json).system \in Seq(STRING)
         /\ Meaning(json).turns \in Seq(STRING \X Seq(STRING))
<1> DEFINE said == json.messages
           ss == [i \in DOMAIN said |-> IF said[i].role = "system" THEN said[i].content ELSE <<>>]
           tt == [i \in DOMAIN said |->
                    IF said[i].role = "system" THEN <<>> ELSE <<<<said[i].role, said[i].content>>>>]
<1>1. said \in Seq(openAIMessage)
  BY DEF openAIRequest
<1>2. \A i \in 1..Len(said) : said[i].role \in STRING /\ said[i].content \in Seq(STRING)
  <2> HIDE DEF said
  <2> QED BY <1>1, MessageFields
<1>3. DOMAIN said = 1..Len(said) /\ Len(said) \in Nat
  BY <1>1
<1>4. Meaning(json).system = FlattenSeq(ss) /\ Meaning(json).turns = FlattenSeq(tt)
  BY DEF Meaning
<1> HIDE DEF said
<1>5. ss \in Seq(Seq(STRING))
  <2>1. ASSUME NEW i \in 1..Len(said) PROVE ss[i] \in Seq(STRING)
    <3>1. ss[i] \in {<<>>, said[i].content}
      BY <1>3
    <3> HIDE DEF ss
    <3> QED BY <3>1, <1>2, ShortSequences
  <2>2. DOMAIN ss = 1..Len(said)
    BY <1>3
  <2> QED BY <2>1, <2>2, <1>3
<1>6. tt \in Seq(Seq(STRING \X Seq(STRING)))
  <2>1. ASSUME NEW i \in 1..Len(said) PROVE tt[i] \in Seq(STRING \X Seq(STRING))
    <3>1. tt[i] \in {<<>>, <<<<said[i].role, said[i].content>>>>}
      BY <1>3
    <3>2. <<said[i].role, said[i].content>> \in STRING \X Seq(STRING)
      BY <1>2
    <3> HIDE DEF tt
    <3> QED BY <3>1, <3>2, ShortSequences
  <2>2. DOMAIN tt = 1..Len(said)
    BY <1>3
  <2> QED BY <2>1, <2>2, <1>3
<1> HIDE DEF ss, tt
<1> QED BY <1>4, <1>5, <1>6, FlattenItems

(* A message, once it was translated.                                       *)
Turn == [role : STRING \cup {"user"}, content : Seq(STRING)]

(* A dialogue's system texts and turns are of the adapters' types.          *)
LEMMA SystemTurnsType ==
  ASSUME NEW messages \in Seq(openAIMessage)
  PROVE  /\ system(messages) \in Seq(STRING)
         /\ turns(messages) \in Seq(Turn)
<1> DEFINE ss == [i \in DOMAIN messages |->
                    IF messages[i].role = "system" THEN contentToString(messages[i].content) ELSE <<>>]
           tt == [i \in DOMAIN messages |->
                    IF messages[i].role = "system" THEN <<>>
                    ELSE <<[role    |-> turnRole(messages[i].role),
                            content |-> contentToString(messages[i].content)]>>]
<1>1. \A i \in 1..Len(messages) : messages[i].role \in STRING /\ messages[i].content \in Seq(STRING)
  BY MessageFields
<1>2. \A i \in 1..Len(messages) : contentToString(messages[i].content) \in Seq(STRING)
  BY <1>1, ContentType
<1>3. DOMAIN messages = 1..Len(messages) /\ Len(messages) \in Nat
  OBVIOUS
<1>4. system(messages) = FlattenSeq(ss) /\ turns(messages) = FlattenSeq(tt)
  BY DEF system, turns
<1>5. ss \in Seq(Seq(STRING))
  <2>1. ASSUME NEW i \in 1..Len(messages) PROVE ss[i] \in Seq(STRING)
    <3>1. ss[i] \in {<<>>, contentToString(messages[i].content)}
      BY <1>3
    <3> HIDE DEF ss
    <3> QED BY <3>1, <1>2, ShortSequences
  <2>2. DOMAIN ss = 1..Len(messages)
    BY <1>3
  <2> QED BY <2>1, <2>2, <1>3
<1>6. tt \in Seq(Seq(Turn))
  <2>1. \A i \in 1..Len(messages) :
           [role |-> turnRole(messages[i].role), content |-> contentToString(messages[i].content)]
             \in Turn
    <3>1. \A i \in 1..Len(messages) : turnRole(messages[i].role) \in STRING \cup {"user"}
      <4>1. ASSUME NEW role \in STRING PROVE turnRole(role) = role \/ turnRole(role) = "user"
        BY Zenon DEF turnRole
      <4> QED BY <1>1, <4>1
    <3> QED BY <3>1, <1>2 DEF Turn
  <2>2. ASSUME NEW i \in 1..Len(messages) PROVE tt[i] \in Seq(Turn)
    <3> DEFINE m == [role    |-> turnRole(messages[i].role),
                     content |-> contentToString(messages[i].content)]
    <3>1. tt[i] \in {<<>>, <<m>>}
      BY <1>3
    <3>2. m \in Turn
      BY <2>1
    <3> HIDE DEF tt, m
    <3> QED BY <3>1, <3>2, ShortSequences
  <2>3. DOMAIN tt = 1..Len(messages)
    BY <1>3
  <2> QED BY <2>2, <2>3, <1>3
<1> HIDE DEF ss, tt
<1> QED BY <1>4, <1>5, <1>6, FlattenItems

(* A sequence of single items, flattened, is the sequence of the items.     *)
LEMMA FlattenSingles ==
  ASSUME NEW T, NEW c \in Seq(T), NEW ss, DOMAIN ss = 1..Len(c), Len(ss) = Len(c),
         \A i \in 1..Len(c) : ss[i] = <<c[i]>>, Len(c) = 0 => ss = <<>>
  PROVE  FlattenSeq(ss) = c
<1>1. Len(c) \in Nat
  OBVIOUS
<1>2. CASE Len(c) = 0
  <2>1. c = <<>> /\ ss = <<>>
    BY <1>2
  <2> QED BY <2>1 DEF FlattenSeq
<1>3. CASE Len(c) # 0
  <2>1. PICK f : Flattens(f, ss) /\ FlattenSeq(ss) = f[Len(ss)]
    BY <1>1, <1>3, FlattenSteps
  <2> DEFINE S == [i \in 1..Len(ss) |-> {SubSeq(c, 1, i)}]
  <2>2. ss[1] \in S[1]
    <3>1. 1 \in 1..Len(c) /\ SubSeq(c, 1, 1) = <<c[1]>>
      BY <1>1, <1>3, OneItem
    <3> QED BY <3>1
  <2>3. ASSUME NEW i \in 1..Len(ss), i < Len(ss), f[i] \in S[i]
        PROVE  f[i] \o ss[i + 1] \in S[i + 1]
    <3>1. i + 1 \in 1..Len(c) /\ i \in Nat
      BY <1>1, <2>3
    <3>2. f[i] = SubSeq(c, 1, i)
      BY <2>3
    <3>3. SubSeq(c, 1, i) \o <<c[i + 1]>> = SubSeq(c, 1, i + 1)
      <4> DEFINE a == SubSeq(c, 1, i)
                 b == SubSeq(c, 1, i + 1)
      <4>1. a \in Seq(T) /\ Len(a) = i /\ \A k \in 1..i : a[k] = c[k]
        BY <3>1
      <4>2. b \in Seq(T) /\ Len(b) = i + 1 /\ \A k \in 1..(i + 1) : b[k] = c[k]
        BY <3>1
      <4>3. c[i + 1] \in T
        BY <3>1
      <4> HIDE DEF a, b
      <4>4. /\ Append(a, c[i + 1]) \in Seq(T) /\ Len(Append(a, c[i + 1])) = i + 1
            /\ \A k \in 1..(i + 1) : Append(a, c[i + 1])[k] = b[k]
        BY <4>1, <4>2, <4>3, <3>1
      <4>5. Append(a, c[i + 1]) = b
        BY <4>2, <4>4, SeqEqual
      <4>6. a \o <<c[i + 1]>> = Append(a, c[i + 1])
        BY <4>1, <4>3
      <4> QED BY <4>5, <4>6 DEF a, b
    <3> QED BY <3>1, <3>2, <3>3
  <2>4. \A i \in 1..Len(ss) : f[i] \in S[i]
    <3> HIDE DEF S
    <3> QED BY <1>1, <2>1, <2>2, <2>3, FlattenInduction
  <2>5. f[Len(ss)] = SubSeq(c, 1, Len(c))
    <3>1. Len(ss) \in 1..Len(ss)
      BY <1>1, <1>3
    <3> QED BY <2>4, <3>1
  <2>6. SubSeq(c, 1, Len(c)) = c
    OBVIOUS
  <2> QED BY <2>1, <2>5, <2>6
<1> QED BY <1>2, <1>3

(* A content all of whose parts have a text is passed on.                   *)
LEMMA ContentPlain ==
  ASSUME NEW content \in Seq(STRING), \A i \in 1..Len(content) : content[i] # NoText
  PROVE  contentToString(content) = content
<1> DEFINE ss == [i \in DOMAIN content |-> IF content[i] = NoText THEN <<>> ELSE <<content[i]>>]
<1>1. DOMAIN content = 1..Len(content) /\ Len(content) \in Nat
  OBVIOUS
<1>2. DOMAIN ss = 1..Len(content) /\ Len(ss) = Len(content)
  BY <1>1
<1>3. \A i \in 1..Len(content) : ss[i] = <<content[i]>>
  BY <1>1
<1>4. Len(content) = 0 => ss = <<>>
  BY <1>1, <1>2
<1>5. contentToString(content) = FlattenSeq(ss)
  BY DEF contentToString
<1> HIDE DEF ss
<1> QED BY <1>2, <1>3, <1>4, <1>5, FlattenSingles

(* Flattening goes with the translation of each item.                       *)
LEMMA FlattenMapped ==
  ASSUME NEW T, NEW U, NEW F \in [T -> U],
         NEW ss \in Seq(Seq(T)), NEW tt \in Seq(Seq(U)), Len(ss) = Len(tt),
         \A i \in 1..Len(ss) :
           /\ Len(tt[i]) = Len(ss[i])
           /\ \A k \in 1..Len(ss[i]) : tt[i][k] = F[ss[i][k]]
  PROVE  /\ Len(FlattenSeq(tt)) = Len(FlattenSeq(ss))
         /\ \A k \in 1..Len(FlattenSeq(ss)) : FlattenSeq(tt)[k] = F[FlattenSeq(ss)[k]]
<1> DEFINE Mapped(s, t) == /\ s \in Seq(T) /\ t \in Seq(U) /\ Len(t) = Len(s)
                           /\ \A k \in 1..Len(s) : t[k] = F[s[k]]
<1>1. /\ Len(ss) \in Nat
      /\ \A i \in 1..Len(ss) : Mapped(ss[i], tt[i])
  OBVIOUS
<1>2. ASSUME NEW s, NEW t, Mapped(s, t), NEW x, NEW y, Mapped(x, y)
      PROVE  Mapped(s \o x, t \o y)
  <2>1. /\ s \in Seq(T) /\ t \in Seq(U) /\ x \in Seq(T) /\ y \in Seq(U)
        /\ Len(t) = Len(s) /\ Len(y) = Len(x)
        /\ s \o x \in Seq(T) /\ t \o y \in Seq(U)
        /\ Len(s \o x) = Len(s) + Len(x) /\ Len(t \o y) = Len(s) + Len(x)
        /\ Len(s) \in Nat /\ Len(x) \in Nat
    <3>1. /\ s \in Seq(T) /\ t \in Seq(U) /\ x \in Seq(T) /\ y \in Seq(U)
          /\ Len(t) = Len(s) /\ Len(y) = Len(x)
      BY <1>2
    <3>2. /\ s \o x \in Seq(T) /\ Len(s \o x) = Len(s) + Len(x)
          /\ t \o y \in Seq(U) /\ Len(t \o y) = Len(t) + Len(y)
      BY <3>1, ConcatProperties
    <3> QED BY <3>1, <3>2
  <2>2. ASSUME NEW k \in 1..(Len(s) + Len(x)) PROVE (t \o y)[k] = F[(s \o x)[k]]
    <3>1. CASE k <= Len(s)
      <4>1. (t \o y)[k] = t[k] /\ (s \o x)[k] = s[k] /\ k \in 1..Len(s)
        BY <3>1, <2>1
      <4> QED BY <4>1, <1>2
    <3>2. CASE k > Len(s)
      <4>1. (t \o y)[k] = y[k - Len(s)] /\ (s \o x)[k] = x[k - Len(s)] /\ k - Len(s) \in 1..Len(x)
        BY <3>2, <2>1
      <4> QED BY <4>1, <1>2
    <3> QED BY <3>1, <3>2, <2>1
  <2> QED BY <2>1, <2>2
<1> HIDE DEF Mapped
<1>3. CASE Len(ss) = 0
  <2>1. \A V, u : u \in Seq(V) /\ Len(u) = 0 => u = <<>>
    OBVIOUS
  <2>2. ss = <<>> /\ tt = <<>>
    BY <1>3, <2>1
  <2>3. FlattenSeq(ss) = <<>> /\ FlattenSeq(tt) = <<>>
    BY <2>2 DEF FlattenSeq
  <2>4. Len(<<>>) = 0
    OBVIOUS
  <2> QED BY <2>3, <2>4
<1>4. CASE Len(ss) # 0
  <2>1. PICK f : Flattens(f, ss) /\ FlattenSeq(ss) = f[Len(ss)]
    BY <1>1, <1>4, FlattenSteps
  <2>2. PICK g : Flattens(g, tt) /\ FlattenSeq(tt) = g[Len(ss)]
    BY <1>1, <1>4, FlattenSteps
  <2> DEFINE Good == {i \in 1..Len(ss) : Mapped(f[i], g[i])}
  <2>3. 1 \in Good
    <3>1. 1 \in 1..Len(ss)
      BY <1>1, <1>4
    <3>2. f[1] = ss[1] /\ g[1] = tt[1]
      BY <2>1, <2>2, <3>1 DEF Flattens
    <3> QED BY <1>1, <3>1, <3>2
  <2>4. ASSUME NEW i \in 1..Len(ss), i \in Good, i < Len(ss) PROVE i + 1 \in Good
    <3>1. i + 1 \in 1..Len(ss) /\ i + 1 # 1 /\ (i + 1) - 1 = i
      BY <1>1, <2>4
    <3>2. f[i + 1] = f[i] \o ss[i + 1] /\ g[i + 1] = g[i] \o tt[i + 1]
      <4>1. f[i + 1] = f[i] \o ss[i + 1]
        BY <2>1, <3>1 DEF Flattens
      <4>2. g[i + 1] = g[i] \o tt[i + 1]
        BY <2>2, <3>1 DEF Flattens
      <4> QED BY <4>1, <4>2
    <3>3. Mapped(f[i] \o ss[i + 1], g[i] \o tt[i + 1])
      BY <1>1, <1>2, <2>4, <3>1
    <3> QED BY <3>1, <3>2, <3>3
  <2>5. 1..Len(ss) \subseteq Good
    <3> HIDE DEF Good
    <3> QED BY <1>1, <2>3, <2>4, InductionTo
  <2>6. Mapped(f[Len(ss)], g[Len(ss)])
    <3>1. Len(ss) \in 1..Len(ss)
      BY <1>1, <1>4
    <3> QED BY <2>5, <3>1
  <2> QED BY <2>1, <2>2, <2>6 DEF Mapped
<1> QED BY <1>3, <1>4

(* What the Messages API can be told: a chat of the three roles in texts,   *)
(* without tools and other fields, and with at most one limit.              *)
Plain(b) ==
  /\ b.url = chatPath
  /\ b.json.tools = {}
  /\ b.json.rest = ""
  /\ b.json.max_tokens = Unset \/ b.json.max_completion_tokens = Unset
  /\ \A i \in 1..Len(b.json.messages) :
       /\ b.json.messages[i].role \in {"system", "user", "assistant"}
       /\ \A k \in 1..Len(b.json.messages[i].content) : b.json.messages[i].content[k] # NoText

(* A plain dialogue means in the other dialect what it meant.               *)
LEMMA DialogueKept ==
  ASSUME NEW b, b.json \in openAIRequest, Plain(b)
  PROVE  /\ system(b.json.messages) = Meaning(b.json).system
         /\ [i \in DOMAIN turns(b.json.messages) |->
               <<turns(b.json.messages)[i].role, turns(b.json.messages)[i].content>>]
              = Meaning(b.json).turns
<1> DEFINE said == b.json.messages
           n == Len(said)
           U == (STRING \cup {"user"}) \X Seq(STRING)
           F == [m \in Turn |-> <<m.role, m.content>>]
           turn(i) == [role    |-> turnRole(said[i].role),
                       content |-> contentToString(said[i].content)]
           ss == [i \in DOMAIN said |->
                    IF said[i].role = "system" THEN contentToString(said[i].content) ELSE <<>>]
           zz == [i \in DOMAIN said |-> IF said[i].role = "system" THEN said[i].content ELSE <<>>]
           tt == [i \in DOMAIN said |-> IF said[i].role = "system" THEN <<>> ELSE <<turn(i)>>]
           uu == [i \in DOMAIN said |->
                    IF said[i].role = "system" THEN <<>> ELSE <<<<said[i].role, said[i].content>>>>]
<1>1. said \in Seq(openAIMessage)
  BY DEF openAIRequest
<1>2. /\ system(said) = FlattenSeq(ss) /\ turns(said) = FlattenSeq(tt)
      /\ Meaning(b.json).system = FlattenSeq(zz) /\ Meaning(b.json).turns = FlattenSeq(uu)
  BY DEF system, turns, Meaning
<1>3. \A i \in 1..n : /\ said[i].role \in {"system", "user", "assistant"}
                      /\ \A k \in 1..Len(said[i].content) : said[i].content[k] # NoText
  BY DEF Plain
<1> HIDE DEF said
<1>4. n \in Nat /\ DOMAIN said = 1..n
  BY <1>1
<1>5. \A i \in 1..n : said[i].role \in STRING /\ said[i].content \in Seq(STRING)
  BY <1>1, MessageFields
<1>6. \A i \in 1..n : contentToString(said[i].content) = said[i].content
  BY <1>3, <1>5, ContentPlain
<1>7. ss = zz
  BY <1>4, <1>6
<1>8. \A i \in 1..n : said[i].role # "system" => turnRole(said[i].role) = said[i].role
  BY <1>3 DEF turnRole
<1>9. \A i \in 1..n : turn(i) \in Turn
  <2>1. ASSUME NEW i \in 1..n PROVE turn(i) \in Turn
    <3>1. turnRole(said[i].role) \in STRING \cup {"user"}
      <4>1. turnRole(said[i].role) = said[i].role \/ turnRole(said[i].role) = "user"
        BY Zenon DEF turnRole
      <4> QED BY <4>1, <1>5
    <3> QED BY <3>1, <1>5, <1>6 DEF Turn
  <2> QED BY <2>1
<1>10. tt \in Seq(Seq(Turn)) /\ Len(tt) = n
  <2>1. ASSUME NEW i \in 1..n PROVE tt[i] \in Seq(Turn)
    <3>1. tt[i] \in {<<>>, <<turn(i)>>}
      BY <1>4
    <3> HIDE DEF tt, turn
    <3> QED BY <3>1, <1>9, ShortSequences
  <2>2. DOMAIN tt = 1..n
    BY <1>4
  <2> HIDE DEF tt
  <2>3. \A t : DOMAIN t = 1..n /\ (\A i \in 1..n : t[i] \in Seq(Turn)) /\ t = [i \in 1..n |-> t[i]]
                 => t \in Seq(Seq(Turn)) /\ Len(t) = n
    BY <1>4
  <2>4. tt = [i \in 1..n |-> tt[i]]
    BY <1>4 DEF tt
  <2> QED BY <2>1, <2>2, <2>3, <2>4
<1>11. uu \in Seq(Seq(U)) /\ Len(uu) = n
  <2>1. ASSUME NEW i \in 1..n PROVE uu[i] \in Seq(U)
    <3>1. uu[i] \in {<<>>, <<<<said[i].role, said[i].content>>>>}
      BY <1>4
    <3>2. <<said[i].role, said[i].content>> \in U
      BY <1>5
    <3> HIDE DEF uu, U
    <3> QED BY <3>1, <3>2, ShortSequences
  <2>2. DOMAIN uu = 1..n
    BY <1>4
  <2>4. uu = [i \in 1..n |-> uu[i]]
    BY <1>4
  <2> HIDE DEF uu, U
  <2>3. \A t : DOMAIN t = 1..n /\ (\A i \in 1..n : t[i] \in Seq(U)) /\ t = [i \in 1..n |-> t[i]]
                 => t \in Seq(Seq(U)) /\ Len(t) = n
    BY <1>4
  <2> QED BY <2>1, <2>2, <2>3, <2>4
<1>12. F \in [Turn -> U]
  <2>1. \A m \in Turn : <<m.role, m.content>> \in U
    BY DEF Turn
  <2> QED BY <2>1
<1>13. ASSUME NEW i \in 1..n
       PROVE  Len(uu[i]) = Len(tt[i]) /\ \A k \in 1..Len(tt[i]) : uu[i][k] = F[tt[i][k]]
  <2>1. CASE said[i].role = "system"
    <3>1. tt[i] = <<>> /\ uu[i] = <<>>
      BY <1>4, <2>1
    <3>2. Len(<<>>) = 0
      OBVIOUS
    <3> HIDE DEF tt, uu
    <3> QED BY <3>1, <3>2
  <2>2. CASE said[i].role # "system"
    <3>1. tt[i] = <<turn(i)>> /\ uu[i] = <<<<said[i].role, said[i].content>>>>
      BY <1>4, <2>2
    <3>2. turn(i).role = said[i].role /\ turn(i).content = said[i].content
      BY <1>6, <1>8, <2>2
    <3>3. F[turn(i)] = <<said[i].role, said[i].content>>
      <4> HIDE DEF turn
      <4> QED BY <3>2, <1>9
    <3> HIDE DEF tt, uu, turn, F
    <3> QED BY <3>1, <3>3
  <2> QED BY <2>1, <2>2
<1> HIDE DEF ss, zz, tt, uu, turn, U, F
<1>14. /\ Len(FlattenSeq(uu)) = Len(FlattenSeq(tt))
       /\ \A k \in 1..Len(FlattenSeq(tt)) : FlattenSeq(uu)[k] = F[FlattenSeq(tt)[k]]
  BY <1>10, <1>11, <1>12, <1>13, FlattenMapped
<1>15. FlattenSeq(tt) \in Seq(Turn) /\ FlattenSeq(uu) \in Seq(U)
  BY <1>10, <1>11, FlattenItems
<1>16. [i \in DOMAIN FlattenSeq(tt) |-> <<FlattenSeq(tt)[i].role, FlattenSeq(tt)[i].content>>]
         = FlattenSeq(uu)
  <2> DEFINE ts == FlattenSeq(tt)  us == FlattenSeq(uu)
  <2> HIDE DEF ts, us
  <2>1. DOMAIN ts = 1..Len(ts) /\ \A k \in 1..Len(ts) : ts[k] \in Turn
    BY <1>15 DEF ts
  <2>2. \A k \in 1..Len(ts) : us[k] = <<ts[k].role, ts[k].content>>
    BY <1>14, <2>1 DEF ts, us, F
  <2>3. us = [k \in 1..Len(ts) |-> us[k]]
    BY <1>14, <1>15 DEF us, ts
  <2> QED BY <2>1, <2>2, <2>3 DEF ts, us
<1> QED BY <1>2, <1>7, <1>16 DEF said

(* What is put to the backend for a request, what it replies, and what the  *)
(* client is given.                                                         *)
Wire(def, r)  == BuildRequest(def.provider, rewriteBodyModel(def, Body[r].json), Body[r].url)
(* What the backend says to a request that is routed to def.                *)
Reply(def, r) == BackendReply(def.provider, Wire(def, r))
(* What the adapter makes of it.                                            *)
Given(def, r) == TranslateResponse(def.provider, Reply(def, r)).body

(* The model that is to answer.                                             *)
ModelOf(def) == IF def.backendModel # NoModel THEN def.backendModel ELSE def.model

(* A request has a body and a URL.                                          *)
LEMMA BodyType ==
  ASSUME NEW r \in Requests
  PROVE  Body[r].json \in openAIRequest /\ Body[r].url \in Url
BY LlmAssumption

(* The alias is all that is rewritten.                                      *)
LEMMA Rewritten ==
  ASSUME NEW def, NEW json \in openAIRequest
  PROVE  LET body == rewriteBodyModel(def, json) IN
         /\ body.model = IF def.backendModel # NoModel THEN def.backendModel ELSE json.model
         /\ body.messages = json.messages
         /\ body.max_tokens = json.max_tokens
         /\ body.max_completion_tokens = json.max_completion_tokens
         /\ body.stop = json.stop
         /\ body.tools = json.tools
         /\ body.stream = json.stream
         /\ body.rest = json.rest
BY DEF rewriteBodyModel, openAIRequest

(* An adapter that passes on gives what the model answers to the request.   *)
LEMMA PassedOn ==
  ASSUME NEW def, NEW r \in Requests, def.provider # "anthropic",
         rewriteBodyModel(def, Body[r].json).model = ModelOf(def)
  PROVE  Given(def, r) = Due(def, r)
<1> DEFINE json == Body[r].json
           body == rewriteBodyModel(def, json)
           means == Meaning(json)
<1>1. json \in openAIRequest
  BY BodyType
<1>2. /\ body.model = ModelOf(def)
      /\ body.messages = json.messages
      /\ body.max_tokens = json.max_tokens
      /\ body.max_completion_tokens = json.max_completion_tokens
      /\ body.stop = json.stop
      /\ body.tools = json.tools
      /\ body.stream = json.stream
      /\ body.rest = json.rest
  BY <1>1, Rewritten
<1>3. Wire(def, r) = [url |-> Body[r].url, body |-> body]
  BY DEF Wire, BuildRequest
<1> HIDE DEF body
<1>4. Meaning(body) = means
  BY <1>2 DEF Meaning
<1>5. Reply(def, r) = Streamed(body, OpenAIReply(ModelOf(def), Body[r].url, means))
  BY <1>2, <1>3, <1>4 DEF Reply, BackendReply
<1>6. Given(def, r) = Reply(def, r)
  BY DEF Given, TranslateResponse
<1>7. [means EXCEPT !.limit = means.limit] = means
  BY DEF Meaning
<1>8. Due(def, r) = Streamed(json, OpenAIReply(ModelOf(def), Body[r].url, means))
  BY <1>7 DEF Due, ModelOf
<1> QED BY <1>2, <1>5, <1>6, <1>8 DEF Streamed

(* A text behind a block of another type is the text.                       *)
LEMMA TextOfBlocks ==
  ASSUME NEW T, NEW text \in Seq(T), NEW resp,
         resp.content = <<[type |-> "thinking"], [type |-> "text", text |-> text]>>
  PROVE  anthropicToOpenAI(resp).text = text
<1> DEFINE ss == [i \in DOMAIN resp.content |->
                    IF resp.content[i].type = "text" THEN resp.content[i].text ELSE <<>>]
<1>1. DOMAIN resp.content = 1..2
  OBVIOUS
<1>2. resp.content[1].type # "text" /\ resp.content[2].type = "text" /\ resp.content[2].text = text
  OBVIOUS
<1>3. ss[1] = <<>> /\ ss[2] = text /\ Len(ss) = 2
  BY <1>1, <1>2
<1>4. anthropicToOpenAI(resp).text = FlattenSeq(ss)
  BY DEF anthropicToOpenAI
<1> HIDE DEF ss
<1>5. PICK f : Flattens(f, ss) /\ FlattenSeq(ss) = f[2]
  <2>1. Len(ss) \in Nat /\ Len(ss) # 0
    BY <1>3
  <2>2. \E f : Flattens(f, ss) /\ FlattenSeq(ss) = f[Len(ss)]
    BY <2>1, FlattenSteps
  <2> QED BY <2>2, <1>3
<1>6. f[1] = <<>> /\ f[2] = f[1] \o text
  BY <1>3, <1>5 DEF Flattens
<1>7. <<>> \o text = text
  OBVIOUS
<1> QED BY <1>4, <1>5, <1>6, <1>7

(* The adapter that translates gives it too, in OpenAI's format, if the     *)
(* request is plain.                                                        *)
LEMMA PutBack ==
  ASSUME NEW def, NEW r \in Requests, def.provider = "anthropic", Plain(Body[r]),
         rewriteBodyModel(def, Body[r].json).model = ModelOf(def),
         Translated(def.provider, Reply(def, r))
  PROVE  Given(def, r) = Due(def, r)
<1> DEFINE json == Body[r].json
           body == rewriteBodyModel(def, json)
           out  == openAIToAnthropic(body)
           means == Meaning(json)
           limit == IF means.limit = {} THEN {4096} ELSE means.limit
           meant == [means EXCEPT !.limit = limit]
           reply == OpenAIReply(ModelOf(def), chatPath, meant)
           resp  == AnthropicReply(ModelOf(def), meant)
<1>1. json \in openAIRequest
  BY BodyType
<1>2. /\ body.model = ModelOf(def)
      /\ body.messages = json.messages
      /\ body.max_tokens = json.max_tokens
      /\ body.max_completion_tokens = json.max_completion_tokens
      /\ body.stop = json.stop
      /\ body.stream = json.stream
  BY <1>1, Rewritten
<1>3. Wire(def, r) = [url |-> messagesPath, body |-> out]
  BY DEF Wire, BuildRequest
<1> HIDE DEF body
<1>4. /\ out.model = ModelOf(def)
      /\ out.system = system(json.messages)
      /\ out.messages = turns(json.messages)
      /\ out.max_tokens = maxTok(json, 4096)
      /\ out.stop_sequences = json.stop
      /\ out.stream = json.stream
  BY <1>2 DEF openAIToAnthropic, maxTok
<1> HIDE DEF out
<1>5. limit = {maxTok(json, 4096)}
  <2>1. means.limit = {json.max_tokens, json.max_completion_tokens} \ {Unset}
    BY DEF Meaning
  <2>2. json.max_tokens = Unset \/ json.max_completion_tokens = Unset
    BY DEF Plain
  <2> HIDE DEF means, json
  <2> QED BY <2>1, <2>2 DEF maxTok
<1>6. AnthropicMeaning(out) = meant
  <2>1. json.tools = {} /\ json.rest = ""
    BY DEF Plain
  <2>2. /\ system(json.messages) = means.system
        /\ [i \in DOMAIN turns(json.messages) |->
              <<turns(json.messages)[i].role, turns(json.messages)[i].content>>] = means.turns
    BY <1>1, DialogueKept
  <2>3. means.stop = json.stop /\ means.other = <<json.tools, json.rest>>
    BY DEF Meaning
  <2>4. meant = [system |-> means.system, turns |-> means.turns, limit |-> limit,
                 stop |-> means.stop, other |-> means.other]
    <3>1. means = [system |-> means.system, turns |-> means.turns, limit |-> means.limit,
                   stop |-> means.stop, other |-> means.other]
      <4> HIDE DEF json
      <4> QED BY DEF Meaning
    <3> HIDE DEF limit, means
    <3> QED BY <3>1
  <2>5. AnthropicMeaning(out) =
          [system |-> out.system,
           turns  |-> [i \in DOMAIN out.messages |-> <<out.messages[i].role, out.messages[i].content>>],
           limit  |-> {out.max_tokens}, stop |-> out.stop_sequences, other |-> <<{}, "">>]
    BY DEF AnthropicMeaning
  <2> HIDE DEF means, json, limit, meant
  <2>6. /\ out.system = means.system /\ {out.max_tokens} = limit /\ out.stop_sequences = means.stop
        /\ [i \in DOMAIN out.messages |-> <<out.messages[i].role, out.messages[i].content>>]
             = means.turns
    BY <1>4, <1>5, <2>2, <2>3
  <2>7. means.other = <<{}, "">>
    BY <2>1, <2>3
  <2> QED BY <2>4, <2>5, <2>6, <2>7
<1>7. Reply(def, r) = Streamed(out, resp)
  BY <1>3, <1>4, <1>6 DEF Reply, BackendReply
<1>8. ~json.stream /\ Reply(def, r) = resp
  <2>1. ASSUME out.stream PROVE FALSE
    <3>1. Reply(def, r) = [events |-> resp]
      BY <1>7, <2>1 DEF Streamed
    <3>2. "events" \in DOMAIN [events |-> resp]
      OBVIOUS
    <3> QED BY <3>1, <3>2 DEF Translated, IsJSON
  <2> QED BY <1>4, <1>7, <2>1 DEF Streamed
<1>9. Given(def, r) = anthropicToOpenAI(resp)
  BY <1>8 DEF Given, TranslateResponse
<1>10. Due(def, r) = reply
  <2>1. Body[r].url = chatPath
    BY DEF Plain
  <2> QED BY <1>8, <2>1 DEF Due, ModelOf, Streamed
<1>11. anthropicToOpenAI(resp) = reply
  <2> HIDE DEF meant
  <2>1. /\ reply.model = ModelOf(def) /\ resp.model = ModelOf(def)
        /\ reply.finish \in {"length", "stop"}
        /\ resp.stop_reason = IF reply.finish = "length" THEN "max_tokens" ELSE "end_turn"
        /\ resp.usage = [input |-> reply.usage.prompt, output |-> reply.usage.completion]
        /\ resp.content = <<[type |-> "thinking"], [type |-> "text", text |-> reply.text]>>
    BY DEF OpenAIReply, AnthropicReply
  <2>2. reply.text \in Seq({<<chatPath, meant>>})
    BY DEF OpenAIReply
  <2>3. reply = [model |-> reply.model, text |-> reply.text, finish |-> reply.finish,
                 usage |-> [prompt |-> reply.usage.prompt, completion |-> reply.usage.completion]]
    BY DEF OpenAIReply
  <2> HIDE DEF reply, resp
  <2>4. anthropicToOpenAI(resp).text = reply.text
    BY <2>1, <2>2, TextOfBlocks
  <2>5. anthropicFinishReason(resp.stop_reason) = reply.finish
    BY <2>1 DEF anthropicFinishReason
  <2>6. anthropicToOpenAI(resp) =
          [model |-> resp.model, text |-> anthropicToOpenAI(resp).text,
           finish |-> anthropicFinishReason(resp.stop_reason),
           usage |-> [prompt |-> resp.usage.input, completion |-> resp.usage.output]]
    BY DEF anthropicToOpenAI
  <2> QED BY <2>1, <2>3, <2>4, <2>5, <2>6
<1> QED BY <1>9, <1>10, <1>11

-----------------------------------------------------------------------------
(* Usage                                                                    *)

(* What a backend counts for a request.                                     *)
UsageOf(def, json) ==
  [prompt     |-> IF def.provider = "anthropic"
                  THEN Len(system(json.messages)) + Len(turns(json.messages))
                  ELSE Len(Meaning(json).system) + Len(Meaning(json).turns),
   completion |-> 1]

(* The usage of a dialogue is two numbers.                                  *)
LEMMA UsageOfType ==
  ASSUME NEW def, NEW json \in openAIRequest
  PROVE  UsageOf(def, json) \in UsageType
<1>1. json.messages \in Seq(openAIMessage)
  BY DEF openAIRequest
<1>2. /\ Len(system(json.messages)) \in Nat /\ Len(turns(json.messages)) \in Nat
      /\ Len(Meaning(json).system) \in Nat /\ Len(Meaning(json).turns) \in Nat
  <2>1. system(json.messages) \in Seq(STRING) /\ turns(json.messages) \in Seq(Turn)
    BY <1>1, SystemTurnsType
  <2>2. Meaning(json).system \in Seq(STRING) /\ Meaning(json).turns \in Seq(STRING \X Seq(STRING))
    BY MeaningType
  <2>3. \A T, s : s \in Seq(T) => Len(s) \in Nat
    OBVIOUS
  <2> QED BY <2>1, <2>2, <2>3
<1> DEFINE p == IF def.provider = "anthropic"
                THEN Len(system(json.messages)) + Len(turns(json.messages))
                ELSE Len(Meaning(json).system) + Len(Meaning(json).turns)
<1>3. p \in Nat
  <2>1. \A a, b, c, d \in Nat : a + b \in Nat /\ c + d \in Nat
    OBVIOUS
  <2> QED BY <1>2, <2>1
<1>4. UsageOf(def, json) = [prompt |-> p, completion |-> 1]
  BY DEF UsageOf
<1> HIDE DEF p
<1> QED BY <1>3, <1>4 DEF UsageType

(* The usage that is found in what a client is given is what the backend    *)
(* has counted, or nothing if the answer was streamed.                      *)
LEMMA GivenUsage ==
  ASSUME NEW def, NEW r \in Requests, Translated(def.provider, Reply(def, r))
  PROVE  parseOpenAIUsage(Given(def, r))
           = IF Body[r].json.stream THEN NoUsage ELSE UsageOf(def, Body[r].json)
<1> DEFINE json == Body[r].json
           body == rewriteBodyModel(def, json)
           out  == openAIToAnthropic(body)
<1>1. json \in openAIRequest
  BY BodyType
<1>2. /\ body.messages = json.messages /\ body.stream = json.stream
  BY <1>1, Rewritten
<1> HIDE DEF body
<1>3. CASE def.provider # "anthropic"
  <2> DEFINE reply == OpenAIReply(body.model, Body[r].url, Meaning(body))
  <2>1. Given(def, r) = Streamed(body, reply)
    BY <1>3 DEF Given, TranslateResponse, Reply, BackendReply, Wire, BuildRequest, body
  <2>2. Meaning(body).system = Meaning(json).system /\ Meaning(body).turns = Meaning(json).turns
    BY <1>2 DEF Meaning
  <2>3. reply.usage = UsageOf(def, json)
    BY <1>3, <2>2 DEF OpenAIReply, UsageOf
  <2>4. DOMAIN reply = {"model", "text", "finish", "usage"}
    BY DEF OpenAIReply
  <2> HIDE DEF reply
  <2>5. CASE body.stream
    <3>1. Given(def, r) = [events |-> reply]
      BY <2>1, <2>5 DEF Streamed
    <3>2. "events" \in DOMAIN [events |-> reply]
      OBVIOUS
    <3> QED BY <1>2, <2>5, <3>1, <3>2 DEF parseOpenAIUsage, IsJSON
  <2>6. CASE ~body.stream
    <3>1. Given(def, r) = reply
      BY <2>1, <2>6 DEF Streamed
    <3>2. "events" \notin DOMAIN reply /\ "usage" \in DOMAIN reply
      BY <2>4
    <3> QED BY <1>2, <2>3, <2>6, <3>1, <3>2 DEF parseOpenAIUsage, IsJSON
  <2> QED BY <2>5, <2>6
<1>4. CASE def.provider = "anthropic"
  <2> DEFINE reply == OpenAIReply(out.model, chatPath, AnthropicMeaning(out))
             resp == AnthropicReply(out.model, AnthropicMeaning(out))
  <2>1. Reply(def, r) = Streamed(out, resp)
    BY <1>4 DEF Reply, BackendReply, Wire, BuildRequest, body
  <2>2. out.stream = json.stream /\ out.system = system(json.messages) /\ out.messages = turns(json.messages)
    BY <1>2 DEF openAIToAnthropic
  <2> HIDE DEF out
  <2>3. ~json.stream /\ Reply(def, r) = resp
    <3>1. ASSUME out.stream PROVE FALSE
      <4>1. Reply(def, r) = [events |-> resp]
        BY <2>1, <3>1 DEF Streamed
      <4>2. "events" \in DOMAIN [events |-> resp]
        OBVIOUS
      <4> QED BY <1>4, <4>1, <4>2 DEF Translated, IsJSON
    <3> QED BY <2>1, <2>2, <3>1 DEF Streamed
  <2>4. reply.usage = UsageOf(def, json)
    <3>1. Len(AnthropicMeaning(out).turns) = Len(out.messages)
      <4>1. out.messages \in Seq(Turn)
        <5>1. json.messages \in Seq(openAIMessage)
          BY <1>1 DEF openAIRequest
        <5> QED BY <2>2, <5>1, SystemTurnsType
      <4>2. AnthropicMeaning(out).turns
              = [i \in DOMAIN out.messages |-> <<out.messages[i].role, out.messages[i].content>>]
        BY DEF AnthropicMeaning
      <4>3. DOMAIN out.messages = 1..Len(out.messages) /\ Len(out.messages) \in Nat
        BY <4>1
      <4> QED BY <4>2, <4>3
    <3>2. AnthropicMeaning(out).system = out.system
      BY DEF AnthropicMeaning
    <3>3. reply.usage = [prompt |-> Len(AnthropicMeaning(out).system) + Len(AnthropicMeaning(out).turns),
                         completion |-> 1]
      BY DEF OpenAIReply
    <3> HIDE DEF reply
    <3> QED BY <1>4, <2>2, <3>1, <3>2, <3>3 DEF UsageOf
  <2>5. resp.usage = [input |-> reply.usage.prompt, output |-> reply.usage.completion]
    BY DEF AnthropicReply
  <2>6. Given(def, r) = anthropicToOpenAI(resp)
    BY <1>4, <2>3 DEF Given, TranslateResponse
  <2>7. /\ DOMAIN anthropicToOpenAI(resp) = {"model", "text", "finish", "usage"}
        /\ anthropicToOpenAI(resp).usage = [prompt |-> resp.usage.input, completion |-> resp.usage.output]
    <3> HIDE DEF resp
    <3> QED BY DEF anthropicToOpenAI
  <2> HIDE DEF resp, reply
  <2>8. anthropicToOpenAI(resp).usage = UsageOf(def, json)
    BY <2>4, <2>5, <2>7 DEF UsageOf
  <2>9. parseOpenAIUsage(Given(def, r)) = anthropicToOpenAI(resp).usage
    BY <2>6, <2>7 DEF parseOpenAIUsage, IsJSON
  <2> QED BY <2>3, <2>8, <2>9
<1> QED BY <1>3, <1>4

-----------------------------------------------------------------------------
(* Types                                                                    *)

(* The services of the configurations, and those a request may be led to.   *)
ServiceDefs == UNION {{c[i] : i \in DOMAIN c} : c \in Configs}

(* Some registry of a configuration routes the request to def.              *)
RoutesTo(r, def) ==
  \E reg \in Registries :
    LET d == RouteSync(reg, Body[r].url, Body[r].json.model) IN
    d # NoDef /\ def = reg[d].def

(* What the client may be answered.                                         *)
Statuses == {"none", "200", "400", "429", "500", "502"}

(* Who is under way at a service was routed to it; who looks into the cache *)
(* or fills it may; only a successful answer fills it; and nobody has an    *)
(* answer that is not called for.                                           *)
Underway(pc) == pc \in {"lookup", "forward", "respond", "fill"}

(* What is known of a request where it stands: its service, and whether it  *)
(* has an answer.                                                           *)
Served(r) ==
  LET def == request[r].def IN
  /\ Underway(request[r].pc) => def \in ServiceDefs /\ RoutesTo(r, def) /\ def.llm
  /\ request[r].pc \in {"lookup", "fill"} => Cacheable(def, r)
  /\ request[r].pc = "fill" => answer[r].status = "200"
  /\ request[r].pc \in {"new", "lookup", "forward"} => answer[r].status = "none"

(* The types; what the cache holds are answers 200.                         *)
LlmTyped ==
  /\ RegistryKept
  /\ request \in [Requests -> [def : ServiceDefs \cup {NoDef}, pc : RequestPc]]
  /\ DOMAIN answer = Requests
  /\ \A r \in Requests : Served(r)
  /\ \A r \in Requests : answer[r].status \in Statuses /\ Usage(answer[r]) \in UsageType
  /\ \A k \in DOMAIN cache : cache[k].status = "200" /\ Usage(cache[k]) \in UsageType
  /\ tracked \in [Users -> UsageType]

(* No usage is a usage.                                                     *)
LEMMA NoUsageType == NoUsage \in UsageType
BY DEF NoUsage, UsageType

(* An error reports no usage.                                               *)
LEMMA ErrorTyped ==
  ASSUME NEW status \in {"400", "429", "500", "502"}
  PROVE  ErrorAnswer(status).status = status /\ Usage(ErrorAnswer(status)) \in UsageType
BY NoUsageType DEF ErrorAnswer, Usage

(* Track keeps the sums numbers.                                            *)
LEMMA TrackTyped ==
  ASSUME NEW r \in Requests, tracked \in [Users -> UsageType], NEW usage \in UsageType,
         Track(r, usage)
  PROVE  tracked' \in [Users -> UsageType]
<1> DEFINE u == Body[r].user
<1> SUFFICES ASSUME u \in Users PROVE tracked' \in [Users -> UsageType]
  BY DEF Track
<1>1. PICK prompt \in Added(usage.prompt), completion \in Added(usage.completion) :
        tracked' = [tracked EXCEPT ![u] =
                      [prompt |-> @.prompt + prompt, completion |-> @.completion + completion]]
  BY DEF Track
<1>2. tracked[u] \in UsageType /\ prompt \in Nat /\ completion \in Nat
  BY DEF Added, UsageType
<1> DEFINE sum == [prompt     |-> tracked[u].prompt + prompt,
                   completion |-> tracked[u].completion + completion]
<1>3. sum \in UsageType
  <2> HIDE DEF u
  <2> QED BY <1>2 DEF UsageType
<1>4. tracked' = [tracked EXCEPT ![u] = sum]
  BY <1>1
<1> HIDE DEF sum, u
<1> QED BY <1>3, <1>4

(* If the count does not fail, Track adds what it is given.                 *)
LEMMA TracksAll ==
  ASSUME "track" \notin Fails, NEW r, NEW usage, Track(r, usage)
  PROVE  tracked' = IF Body[r].user \in Users
                    THEN [tracked EXCEPT ![Body[r].user] =
                            [prompt     |-> @.prompt + usage.prompt,
                             completion |-> @.completion + usage.completion]]
                    ELSE tracked
<1>1. \A tokens : Added(tokens) = {tokens}
  BY DEF Added
<1> QED BY <1>1 DEF Track

(* A request that moves on.                                                 *)
LEMMA GoesTyped ==
  ASSUME request \in [Requests -> [def : ServiceDefs \cup {NoDef}, pc : RequestPc]],
         NEW r \in Requests, NEW from, NEW to \in RequestPc, Goes(r, from, to)
  PROVE  /\ request' \in [Requests -> [def : ServiceDefs \cup {NoDef}, pc : RequestPc]]
         /\ request'[r].pc = to /\ request'[r].def = request[r].def
         /\ \A s \in Requests : s # r => request'[s] = request[s]
         /\ request[r].pc = from
BY DEF Goes

(* The types hold at first.                                                 *)
LEMMA TypedInit == LlmInit => LlmTyped
<1> SUFFICES ASSUME LlmInit PROVE LlmTyped
  OBVIOUS
<1>1. RegistryKept
  BY RegistryInit
<1>2. request \in [Requests -> [def : ServiceDefs \cup {NoDef}, pc : RequestPc]]
  BY DEF LlmInit, RequestPc
<1>3. DOMAIN answer = Requests /\ DOMAIN cache = {}
  BY DEF LlmInit
<1>4. ASSUME NEW r \in Requests
      PROVE  Served(r) /\ answer[r].status \in Statuses /\ Usage(answer[r]) \in UsageType
  <2>1. answer[r] = NoAnswer /\ request[r].pc = "new"
    BY DEF LlmInit
  <2> QED BY <2>1, NoUsageType DEF NoAnswer, Statuses, Usage, Served, Underway
<1>5. tracked \in [Users -> UsageType]
  BY NoUsageType DEF LlmInit
<1> QED BY <1>1, <1>2, <1>3, <1>4, <1>5 DEF LlmTyped

(* The service of a route.                                                  *)
LEMMA RoutedDef ==
  ASSUME NEW r \in Requests, RegistryKept,
         RouteSync(registry, Body[r].url, Body[r].json.model) # NoDef
  PROVE  LET def == registry[RouteSync(registry, Body[r].url, Body[r].json.model)].def
         IN  def \in ServiceDefs /\ RoutesTo(r, def)
<1> DEFINE d == RouteSync(registry, Body[r].url, Body[r].json.model)
<1>1. PICK c \in Configs : c \in Seq(Def) /\ RegistryOf(registry, c)
  BY RegistriesBuilt DEF RegistryKept
<1>2. Body[r].url \in Url
  BY BodyType
<1>3. d \in Indexed(registry)
  BY <1>1, <1>2, RouteFits
<1> HIDE DEF d
<1>4. d \in 1..Len(c) /\ registry[d].def = c[d] /\ d \in DOMAIN c
  BY <1>1, <1>3 DEF RegistryOf, Indexed
<1>5. registry[d].def \in ServiceDefs
  BY <1>4 DEF ServiceDefs
<1>6. RoutesTo(r, registry[d].def)
  BY DEF RoutesTo, RegistryKept, d
<1> QED BY <1>5, <1>6 DEF d

(* Routing keeps them.                                                      *)
LEMMA RouteTyped ==
  ASSUME LlmTyped, NEW r \in Requests, Route(r)
  PROVE  LlmTyped'
<1> DEFINE d == RouteSync(registry, Body[r].url, Body[r].json.model)
           def == registry[d].def
           Pc == IF ~def.llm THEN "done" ELSE IF Cacheable(def, r) THEN "lookup" ELSE "forward"
<1>1. /\ request[r].pc = "new"
      /\ UNCHANGED <<registry, cache, tracked>>
      /\ \/ /\ d = NoDef
            /\ request' = [request EXCEPT ![r].pc = "done"]
            /\ answer' = [answer EXCEPT ![r] = ErrorAnswer("400")]
         \/ /\ d # NoDef
            /\ request' = [request EXCEPT ![r] = [def |-> def, pc |-> Pc]]
            /\ answer' = answer
  BY DEF Route
<1>2. d # NoDef => def \in ServiceDefs /\ RoutesTo(r, def)
  BY RoutedDef DEF LlmTyped
<1>3. Pc \in {"done", "lookup", "forward"} /\ (Pc # "done" => def.llm) /\ (Pc = "lookup" => Cacheable(def, r))
  OBVIOUS
<1> HIDE DEF d, def, Pc
<1>4. request \in [Requests -> [def : ServiceDefs \cup {NoDef}, pc : RequestPc]]
  BY DEF LlmTyped
<1>5. /\ request' \in [Requests -> [def : ServiceDefs \cup {NoDef}, pc : RequestPc]]
      /\ \A s \in Requests : s # r => request'[s] = request[s]
      /\ d = NoDef => request'[r].pc = "done"
      /\ d # NoDef => request'[r].pc = Pc /\ request'[r].def = def
  BY <1>1, <1>2, <1>3, <1>4 DEF RequestPc
<1>6. /\ DOMAIN answer' = Requests
      /\ \A s \in Requests : s # r => answer'[s] = answer[s]
      /\ answer'[r] = answer[r] \/ answer'[r] = ErrorAnswer("400")
  BY <1>1 DEF LlmTyped
<1>7. ASSUME NEW s \in Requests
      PROVE  answer'[s].status \in Statuses /\ Usage(answer'[s]) \in UsageType
  <2>1. answer[s].status \in Statuses /\ Usage(answer[s]) \in UsageType
    BY DEF LlmTyped
  <2> QED BY <1>6, <2>1, ErrorTyped DEF Statuses
<1>8. ASSUME NEW s \in Requests PROVE Served(s)'
  <2>1. Served(s)
    BY DEF LlmTyped
  <2>2. CASE s # r
    BY <1>5, <1>6, <2>1, <2>2 DEF Served
  <2>3. CASE s = r /\ d = NoDef
    BY <1>5, <2>3 DEF Served, Underway
  <2>4. CASE s = r /\ d # NoDef
    <3>1. answer'[r].status = "none"
      BY <1>1, <2>1, <2>4 DEF Served
    <3> QED BY <1>2, <1>3, <1>5, <2>4, <3>1 DEF Served, Underway
  <2> QED BY <2>2, <2>3, <2>4
<1> QED BY <1>1, <1>5, <1>6, <1>7, <1>8 DEF LlmTyped, RegistryKept

(* A step by which one request moves on, with an answer or without.         *)
LEMMA MovedTyped ==
  ASSUME LlmTyped, NEW r \in Requests, NEW from, NEW to \in RequestPc, Goes(r, from, to),
         registry' = registry, tracked' \in [Users -> UsageType],
         \A k \in DOMAIN cache' : cache'[k].status = "200" /\ Usage(cache'[k]) \in UsageType,
         NEW a, answer' = answer \/ answer' = [answer EXCEPT ![r] = a],
         answer' = answer \/ (a.status \in Statuses /\ Usage(a) \in UsageType),
         Served(r)'
  PROVE  LlmTyped'
<1>1. request \in [Requests -> [def : ServiceDefs \cup {NoDef}, pc : RequestPc]]
  BY DEF LlmTyped
<1>2. /\ request' \in [Requests -> [def : ServiceDefs \cup {NoDef}, pc : RequestPc]]
      /\ \A s \in Requests : s # r => request'[s] = request[s]
  BY <1>1, GoesTyped
<1>3. DOMAIN answer = Requests
  BY DEF LlmTyped
<1>4. /\ DOMAIN answer' = Requests
      /\ \A s \in Requests : s # r => answer'[s] = answer[s]
      /\ answer'[r] = answer[r] \/ (answer'[r] = a /\ a.status \in Statuses /\ Usage(a) \in UsageType)
  <2>1. CASE answer' = answer
    BY <2>1, <1>3
  <2>2. CASE answer' # answer
    BY <2>2, <1>3
  <2> QED BY <2>1, <2>2
<1>5. ASSUME NEW s \in Requests
      PROVE  answer'[s].status \in Statuses /\ Usage(answer'[s]) \in UsageType
  <2>1. answer[s].status \in Statuses /\ Usage(answer[s]) \in UsageType
    BY DEF LlmTyped
  <2> QED BY <1>4, <2>1
<1>6. ASSUME NEW s \in Requests PROVE Served(s)'
  <2>1. Served(s)
    BY DEF LlmTyped
  <2>2. CASE s # r
    BY <1>2, <1>4, <2>1, <2>2 DEF Served
  <2> QED BY <2>2
<1>7. RegistryKept'
  BY DEF LlmTyped, RegistryKept
<1> QED BY <1>2, <1>4, <1>5, <1>6, <1>7 DEF LlmTyped

(* A reply that is given to a client with 200.                              *)
Answered(def, r) == [status |-> "200", body |-> Given(def, r)]

(* A translated answer is 200, and its usage is the body's.                 *)
LEMMA AnsweredTyped ==
  ASSUME NEW def, NEW r \in Requests, Translated(def.provider, Reply(def, r))
  PROVE  /\ Answered(def, r).status = "200" /\ Answered(def, r).body = Given(def, r)
         /\ Usage(Answered(def, r)) = parseOpenAIUsage(Given(def, r))
         /\ Usage(Answered(def, r)) \in UsageType
<1>1. /\ Answered(def, r).status = "200" /\ Answered(def, r).body = Given(def, r)
      /\ Usage(Answered(def, r)) = parseOpenAIUsage(Given(def, r))
  BY DEF Answered, Usage
<1>2. UsageOf(def, Body[r].json) \in UsageType
  BY BodyType, UsageOfType
<1> QED BY <1>1, <1>2, GivenUsage, NoUsageType

(* The ways in which Lookup and Forward end.                                *)
LookupHits(r) ==
  LET k == Key(request[r].def, r) IN
  /\ k \in DOMAIN cache
  /\ Goes(r, "lookup", "done")
  /\ answer' = [answer EXCEPT ![r] = cache[k]]
  /\ Track(r, emitTokenMetrics(cache[k].body))

(* The cache has no answer, or fails.                                       *)
LookupMisses(r) ==
  Goes(r, "lookup", "forward") /\ UNCHANGED <<answer, tracked>>

(* The backend answers and its answer is translated.                        *)
ForwardAnswers(r) ==
  LET def == request[r].def IN
  /\ Wire(def, r).body.model # NoModel
  /\ Translated(def.provider, Reply(def, r))
  /\ Goes(r, "forward", "respond")
  /\ answer' = [answer EXCEPT ![r] = Answered(def, r)]

(* The request cannot be built or sent, or its answer not be used.          *)
ForwardFails(r) ==
  \E status \in {"400", "429", "500", "502"}, to \in {"respond", "done"} :
    Goes(r, "forward", to) /\ answer' = [answer EXCEPT ![r] = ErrorAnswer(status)]

(* A lookup hits or misses.                                                 *)
LEMMA LookupIs ==
  ASSUME NEW r \in Requests, Lookup(r)
  PROVE  /\ UNCHANGED <<registry, cache>>
         /\ LookupHits(r) \/ LookupMisses(r)
BY DEF Lookup, LookupHits, LookupMisses

(* A forward answers or fails.                                              *)
LEMMA ForwardIs ==
  ASSUME NEW r \in Requests, Forward(r)
  PROVE  /\ UNCHANGED <<registry, cache, tracked>>
         /\ ForwardAnswers(r) \/ ForwardFails(r)
<1> DEFINE def == request[r].def
           wire == BuildRequest(def.provider, rewriteBodyModel(def, Body[r].json), Body[r].url)
           reply == BackendReply(def.provider, wire)
           fails(status, to) ==
             Goes(r, "forward", to) /\ answer' = [answer EXCEPT ![r] = ErrorAnswer(status)]
<1>1. /\ UNCHANGED <<registry, cache, tracked>>
      /\ \/ /\ wire.body.model # NoModel
            /\ Translated(def.provider, reply)
            /\ Goes(r, "forward", "respond")
            /\ answer' = [answer EXCEPT ![r] =
                            [status |-> "200", body |-> TranslateResponse(def.provider, reply).body]]
         \/ fails("500", "done") \/ fails("400", "respond") \/ fails("429", "respond") \/ fails("502", "done")
  BY DEF Forward
<1>2. wire = Wire(def, r) /\ reply = Reply(def, r)
      /\ TranslateResponse(def.provider, reply).body = Given(def, r)
  BY DEF Wire, Reply, Given
<1> HIDE DEF wire, reply
<1>3. CASE /\ wire.body.model # NoModel
           /\ Translated(def.provider, reply)
           /\ Goes(r, "forward", "respond")
           /\ answer' = [answer EXCEPT ![r] =
                           [status |-> "200", body |-> TranslateResponse(def.provider, reply).body]]
  BY <1>1, <1>2, <1>3 DEF ForwardAnswers, Answered
<1>4. CASE fails("500", "done") \/ fails("400", "respond") \/ fails("429", "respond") \/ fails("502", "done")
  BY <1>1, <1>4 DEF ForwardFails
<1> QED BY <1>1, <1>3, <1>4

(* A lookup keeps the types.                                                *)
LEMMA LookupTyped ==
  ASSUME LlmTyped, NEW r \in Requests, Lookup(r)
  PROVE  LlmTyped'
<1> DEFINE k == Key(request[r].def, r)
<1>1. UNCHANGED <<registry, cache>> /\ (LookupHits(r) \/ LookupMisses(r))
  BY LookupIs
<1>2. request \in [Requests -> [def : ServiceDefs \cup {NoDef}, pc : RequestPc]]
  BY DEF LlmTyped
<1>3. \A j \in DOMAIN cache' : cache'[j].status = "200" /\ Usage(cache'[j]) \in UsageType
  BY <1>1 DEF LlmTyped, Usage
<1>4. Served(r) /\ tracked \in [Users -> UsageType]
  BY DEF LlmTyped
<1>5. "done" \in RequestPc /\ "forward" \in RequestPc
  BY DEF RequestPc
<1>6. CASE LookupHits(r)
  <2>1. /\ k \in DOMAIN cache /\ Goes(r, "lookup", "done")
        /\ answer' = [answer EXCEPT ![r] = cache[k]]
        /\ Track(r, emitTokenMetrics(cache[k].body))
    BY <1>6 DEF LookupHits
  <2> HIDE DEF k
  <2>2. cache[k].status = "200" /\ Usage(cache[k]) \in UsageType
    BY <2>1 DEF LlmTyped
  <2>3. emitTokenMetrics(cache[k].body) = Usage(cache[k])
    BY <2>2 DEF emitTokenMetrics, Usage
  <2>4. tracked' \in [Users -> UsageType]
    BY <1>4, <2>1, <2>2, <2>3, TrackTyped
  <2>5. request'[r].pc = "done"
    BY <1>2, <1>5, <2>1, GoesTyped
  <2>6. Served(r)'
    BY <2>5 DEF Served, Underway
  <2> QED BY <1>1, <1>3, <1>5, <2>1, <2>2, <2>4, <2>6, MovedTyped DEF Statuses
<1>7. CASE LookupMisses(r)
  <2>1. Goes(r, "lookup", "forward") /\ UNCHANGED <<answer, tracked>>
    BY <1>7 DEF LookupMisses
  <2>2. request'[r].pc = "forward" /\ request'[r].def = request[r].def /\ request[r].pc = "lookup"
    BY <1>2, <1>5, <2>1, GoesTyped
  <2>3. Served(r)'
    BY <1>4, <2>1, <2>2 DEF Served, Underway
  <2>4. tracked' \in [Users -> UsageType]
    BY <1>4, <2>1
  <2> QED BY <1>1, <1>3, <1>5, <2>1, <2>3, <2>4, MovedTyped
<1> QED BY <1>1, <1>6, <1>7

(* So does a forward.                                                       *)
LEMMA ForwardTyped ==
  ASSUME LlmTyped, NEW r \in Requests, Forward(r)
  PROVE  LlmTyped'
<1> DEFINE def == request[r].def
<1>1. UNCHANGED <<registry, cache, tracked>> /\ (ForwardAnswers(r) \/ ForwardFails(r))
  BY ForwardIs
<1>2. request \in [Requests -> [def : ServiceDefs \cup {NoDef}, pc : RequestPc]]
  BY DEF LlmTyped
<1>3. \A j \in DOMAIN cache' : cache'[j].status = "200" /\ Usage(cache'[j]) \in UsageType
  BY <1>1 DEF LlmTyped, Usage
<1>4. Served(r) /\ tracked' \in [Users -> UsageType]
  BY <1>1 DEF LlmTyped
<1>5. "done" \in RequestPc /\ "respond" \in RequestPc
  BY DEF RequestPc
<1>6. ASSUME NEW to \in {"respond", "done"}, Goes(r, "forward", to) PROVE Served(r)'
  <2>1. request'[r].pc = to /\ request'[r].def = def /\ request[r].pc = "forward"
    BY <1>2, <1>5, <1>6, GoesTyped
  <2> QED BY <1>4, <2>1 DEF Served, Underway
<1>7. CASE ForwardAnswers(r)
  <2>1. /\ Translated(def.provider, Reply(def, r)) /\ Goes(r, "forward", "respond")
        /\ answer' = [answer EXCEPT ![r] = Answered(def, r)]
    BY <1>7 DEF ForwardAnswers
  <2>2. Answered(def, r).status \in Statuses /\ Usage(Answered(def, r)) \in UsageType
    <3> HIDE DEF def
    <3> QED BY <2>1, AnsweredTyped DEF Statuses
  <2>3. Served(r)'
    BY <1>6, <2>1
  <2> HIDE DEF def
  <2> QED BY <1>1, <1>3, <1>4, <1>5, <2>1, <2>2, <2>3, MovedTyped
<1>8. CASE ForwardFails(r)
  <2>1. PICK status \in {"400", "429", "500", "502"}, to \in {"respond", "done"} :
          Goes(r, "forward", to) /\ answer' = [answer EXCEPT ![r] = ErrorAnswer(status)]
    BY <1>8 DEF ForwardFails
  <2>2. ErrorAnswer(status).status \in Statuses /\ Usage(ErrorAnswer(status)) \in UsageType
    BY ErrorTyped DEF Statuses
  <2>3. Served(r)'
    BY <1>6, <2>1
  <2>4. to \in RequestPc
    BY <1>5
  <2> QED BY <1>1, <1>3, <1>4, <2>1, <2>2, <2>3, <2>4, MovedTyped
<1> QED BY <1>1, <1>7, <1>8

(* So does a response.                                                      *)
LEMMA RespondTyped ==
  ASSUME LlmTyped, NEW r \in Requests, Respond(r)
  PROVE  LlmTyped'
<1>1. /\ request[r].pc = "respond"
      /\ \/ /\ Cacheable(request[r].def, r) /\ answer[r].status = "200"
            /\ Goes(r, "respond", "fill")
         \/ Goes(r, "respond", "done")
      /\ Track(r, Usage(answer[r]))
      /\ UNCHANGED <<registry, answer, cache>>
  BY DEF Respond
<1>2. request \in [Requests -> [def : ServiceDefs \cup {NoDef}, pc : RequestPc]]
  BY DEF LlmTyped
<1>3. \A j \in DOMAIN cache' : cache'[j].status = "200" /\ Usage(cache'[j]) \in UsageType
  BY <1>1 DEF LlmTyped, Usage
<1>4. Served(r) /\ tracked \in [Users -> UsageType] /\ Usage(answer[r]) \in UsageType
  BY DEF LlmTyped
<1>5. tracked' \in [Users -> UsageType]
  BY <1>1, <1>4, TrackTyped
<1>6. "done" \in RequestPc /\ "fill" \in RequestPc
  BY DEF RequestPc
<1>7. CASE Cacheable(request[r].def, r) /\ answer[r].status = "200" /\ Goes(r, "respond", "fill")
  <2>1. request'[r].pc = "fill" /\ request'[r].def = request[r].def
    BY <1>2, <1>6, <1>7, GoesTyped
  <2>2. Served(r)'
    BY <1>1, <1>4, <1>7, <2>1 DEF Served, Underway
  <2> QED BY <1>1, <1>3, <1>5, <1>6, <1>7, <2>2, MovedTyped
<1>8. CASE Goes(r, "respond", "done")
  <2>1. request'[r].pc = "done"
    BY <1>2, <1>6, <1>8, GoesTyped
  <2>2. Served(r)'
    BY <2>1 DEF Served, Underway
  <2> QED BY <1>1, <1>3, <1>5, <1>6, <1>8, <2>2, MovedTyped
<1> QED BY <1>1, <1>7, <1>8

(* So does a fill, since only a 200 is filled in.                           *)
LEMMA FillTyped ==
  ASSUME LlmTyped, NEW r \in Requests, Fill(r)
  PROVE  LlmTyped'
<1> DEFINE k == Key(request[r].def, r)
<1>1. /\ Goes(r, "fill", "done")
      /\ \/ cache' = [j \in DOMAIN cache \cup {k} |-> IF j = k THEN answer[r] ELSE cache[j]]
         \/ cache' = cache
      /\ UNCHANGED <<registry, answer, tracked>>
  BY DEF Fill
<1> HIDE DEF k
<1>2. request \in [Requests -> [def : ServiceDefs \cup {NoDef}, pc : RequestPc]]
  BY DEF LlmTyped
<1>3. "done" \in RequestPc
  BY DEF RequestPc
<1>4. request'[r].pc = "done" /\ request[r].pc = "fill"
  BY <1>1, <1>2, <1>3, GoesTyped
<1>5. answer[r].status = "200" /\ Usage(answer[r]) \in UsageType
  BY <1>4 DEF LlmTyped, Served
<1>6. ASSUME NEW j \in DOMAIN cache'
      PROVE  \E a : cache'[j] = a /\ a.status = "200" /\ Usage(a) \in UsageType
  <2>1. (cache'[j] = answer[r]) \/ (j \in DOMAIN cache /\ cache'[j] = cache[j])
    BY <1>1
  <2>2. j \in DOMAIN cache => cache[j].status = "200" /\ Usage(cache[j]) \in UsageType
    BY DEF LlmTyped
  <2> QED BY <1>5, <2>1, <2>2
<1>7. \A j \in DOMAIN cache' : cache'[j].status = "200" /\ Usage(cache'[j]) \in UsageType
  BY <1>6
<1>8. Served(r)'
  BY <1>4 DEF Served, Underway
<1>9. tracked' \in [Users -> UsageType]
  BY <1>1 DEF LlmTyped
<1> QED BY <1>1, <1>3, <1>7, <1>8, <1>9, MovedTyped

(* The requests are as they were.                                           *)
LEMMA OthersTyped ==
  ASSUME LlmTyped, RegistryKept', UNCHANGED <<request, answer, tracked>>,
         \A j \in DOMAIN cache' : j \in DOMAIN cache /\ cache'[j] = cache[j]
  PROVE  LlmTyped'
<1>1. \A j \in DOMAIN cache' : cache'[j].status = "200" /\ Usage(cache'[j]) \in UsageType
  BY DEF LlmTyped
<1>2. \A r \in Requests : Served(r)'
  BY DEF LlmTyped, Served
<1> QED BY <1>1, <1>2 DEF LlmTyped

(* Every step keeps the types.                                              *)
LEMMA TypedStep == LlmTyped /\ [LlmNext]_llmVars => LlmTyped'
<1> SUFFICES ASSUME LlmTyped, [LlmNext]_llmVars PROVE LlmTyped'
  OBVIOUS
<1>1. RegistryKept'
  BY RegistryStep DEF LlmTyped
<1>2. ASSUME NEW r \in Requests, Route(r) \/ Lookup(r) \/ Forward(r) \/ Respond(r) \/ Fill(r)
      PROVE  LlmTyped'
  BY <1>2, RouteTyped, LookupTyped, ForwardTyped, RespondTyped, FillTyped
<1>3. ASSUME NEW k \in DOMAIN cache, ExpireEntry(k) PROVE LlmTyped'
  <2>1. \A j \in DOMAIN cache' : j \in DOMAIN cache /\ cache'[j] = cache[j]
    BY <1>3 DEF ExpireEntry, Restrict
  <2> QED BY <1>1, <1>3, <2>1, OthersTyped DEF ExpireEntry
<1>4. CASE SwapRegistry
  BY <1>1, <1>4, OthersTyped DEF SwapRegistry
<1>5. CASE UNCHANGED llmVars
  BY <1>1, <1>5, OthersTyped DEF llmVars
<1> QED BY <1>2, <1>3, <1>4, <1>5 DEF LlmNext

(* So they hold in every reachable state.                                   *)
LEMMA TypedAlways == LlmSpec => []LlmTyped
BY TypedInit, TypedStep, PTL DEF LlmSpec

(* The proxy keeps the types of its state; nothing but a successful answer  *)
(* is cached, whichever calls fail and however often the router is swapped  *)
(* (handler.go:79-124).                                                     *)
THEOREM LlmTypeCorrect == LlmSpec => []LlmTypeOK
<1>1. LlmTyped => LlmTypeOK
  BY DEF LlmTyped, LlmTypeOK, Statuses, UsageType
<1> QED BY <1>1, TypedAlways, PTL

-----------------------------------------------------------------------------
(* Where answers and entries come from                                      *)

(* A request that was routed to a model.                                    *)
Asked(r) ==
  LET def == request[r].def IN def \in ServiceDefs /\ RoutesTo(r, def) /\ def.llm

(* A step in which a request gets an answer of the backend, or a cached one.*)
FromBackend(r) ==
  LET def == request[r].def IN
  /\ Wire(def, r).body.model # NoModel
  /\ Translated(def.provider, Reply(def, r))
  /\ answer'[r] = Answered(def, r)

(* The answer is what the cache holds for the request.                      *)
FromCache(r) ==
  LET k == Key(request[r].def, r) IN
  /\ Cacheable(request[r].def, r)
  /\ k \in DOMAIN cache
  /\ answer'[r] = cache[k]

(* There are no other answers.                                              *)
LEMMA AnswersMade ==
  ASSUME LlmTyped, [LlmNext]_llmVars, NEW r \in Requests
  PROVE  \/ answer'[r] = answer[r] /\ request'[r].def = request[r].def
         \/ answer'[r].status # "200"
         \/ Asked(r) /\ request'[r].def = request[r].def /\ (FromBackend(r) \/ FromCache(r))
<1>1. /\ request \in [Requests -> [def : ServiceDefs \cup {NoDef}, pc : RequestPc]]
      /\ DOMAIN answer = Requests /\ Served(r)
  BY DEF LlmTyped
<1>2. ASSUME NEW s \in Requests, NEW from, NEW to, Goes(s, from, to)
      PROVE  request'[r].def = request[r].def /\ request[s].pc = from
  BY <1>1, <1>2 DEF Goes
<1>3. ASSUME NEW s \in Requests, Route(s)
      PROVE  \/ answer'[r] = answer[r] /\ request'[r].def = request[r].def
             \/ answer'[r].status # "200"
  <2>1. CASE s # r
    BY <1>1, <1>3, <2>1 DEF Route
  <2>2. CASE s = r
    <3>1. answer[r].status = "none" /\ (answer'[r] = answer[r] \/ answer'[r] = ErrorAnswer("400"))
      BY <1>1, <1>3, <2>2 DEF Route, Served
    <3> QED BY <3>1, ErrorTyped
  <2> QED BY <2>1, <2>2
<1>4. ASSUME NEW s \in Requests, Lookup(s)
      PROVE  \/ answer'[r] = answer[r] /\ request'[r].def = request[r].def
             \/ Asked(r) /\ request'[r].def = request[r].def /\ FromCache(r)
  <2>1. CASE LookupMisses(s)
    BY <1>2, <2>1 DEF LookupMisses
  <2>2. CASE LookupHits(s)
    <3>1. request'[r].def = request[r].def /\ request[s].pc = "lookup"
      BY <1>2, <2>2 DEF LookupHits
    <3>2. CASE s # r
      BY <1>1, <2>2, <3>1, <3>2 DEF LookupHits
    <3>3. CASE s = r
      <4>1. FromCache(r)
        BY <1>1, <2>2, <3>1, <3>3 DEF LookupHits, FromCache, Served
      <4>2. Asked(r)
        BY <1>1, <3>1, <3>3 DEF Asked, Served, Underway
      <4> QED BY <3>1, <4>1, <4>2
    <3> QED BY <3>2, <3>3
  <2> QED BY <1>4, <2>1, <2>2, LookupIs
<1>5. ASSUME NEW s \in Requests, Forward(s)
      PROVE  \/ answer'[r] = answer[r] /\ request'[r].def = request[r].def
             \/ answer'[r].status # "200"
             \/ Asked(r) /\ request'[r].def = request[r].def /\ FromBackend(r)
  <2>1. CASE ForwardFails(s)
    <3>1. PICK status \in {"400", "429", "500", "502"}, to \in {"respond", "done"} :
            Goes(s, "forward", to) /\ answer' = [answer EXCEPT ![s] = ErrorAnswer(status)]
      BY <2>1 DEF ForwardFails
    <3>2. ErrorAnswer(status).status # "200"
      BY ErrorTyped
    <3>3. CASE s # r
      BY <1>1, <1>2, <3>1, <3>3
    <3>4. CASE s = r
      BY <1>1, <3>1, <3>2, <3>4
    <3> QED BY <3>3, <3>4
  <2>2. CASE ForwardAnswers(s)
    <3>1. request'[r].def = request[r].def /\ request[s].pc = "forward"
      BY <1>2, <2>2 DEF ForwardAnswers
    <3>2. CASE s # r
      BY <1>1, <2>2, <3>1, <3>2 DEF ForwardAnswers
    <3>3. CASE s = r
      <4>1. FromBackend(r)
        BY <1>1, <2>2, <3>3 DEF ForwardAnswers, FromBackend
      <4>2. Asked(r)
        BY <1>1, <3>1, <3>3 DEF Asked, Served, Underway
      <4> QED BY <3>1, <4>1, <4>2
    <3> QED BY <3>2, <3>3
  <2> QED BY <1>5, <2>1, <2>2, ForwardIs
<1>6. ASSUME NEW s \in Requests, Respond(s) \/ Fill(s)
      PROVE  answer'[r] = answer[r] /\ request'[r].def = request[r].def
  BY <1>2, <1>6 DEF Respond, Fill
<1>7. ASSUME \/ \E k \in DOMAIN cache : ExpireEntry(k)
             \/ SwapRegistry
             \/ UNCHANGED llmVars
      PROVE  answer'[r] = answer[r] /\ request'[r].def = request[r].def
  BY <1>7 DEF ExpireEntry, SwapRegistry, llmVars
<1> QED BY <1>3, <1>4, <1>5, <1>6, <1>7 DEF LlmNext

(* Entries are answers, of requests with their key.                         *)
LEMMA EntriesMade ==
  ASSUME LlmTyped, [LlmNext]_llmVars, NEW k \in DOMAIN cache'
  PROVE  \/ k \in DOMAIN cache /\ cache'[k] = cache[k]
         \/ \E r \in Requests :
              /\ Asked(r) /\ Cacheable(request[r].def, r)
              /\ answer[r].status = "200"
              /\ k = Key(request[r].def, r) /\ cache'[k] = answer[r]
<1>1. ASSUME NEW r \in Requests, Fill(r)
      PROVE  \/ k \in DOMAIN cache /\ cache'[k] = cache[k]
             \/ /\ Asked(r) /\ Cacheable(request[r].def, r)
                /\ answer[r].status = "200"
                /\ k = Key(request[r].def, r) /\ cache'[k] = answer[r]
  <2> DEFINE key == Key(request[r].def, r)
  <2>1. /\ request[r].pc = "fill"
        /\ \/ cache' = [j \in DOMAIN cache \cup {key} |-> IF j = key THEN answer[r] ELSE cache[j]]
           \/ cache' = cache
    BY <1>1 DEF Fill, Goes
  <2>2. Served(r)
    BY DEF LlmTyped
  <2>3. Asked(r) /\ Cacheable(request[r].def, r) /\ answer[r].status = "200"
    BY <2>1, <2>2 DEF Served, Underway, Asked
  <2> HIDE DEF key
  <2>4. (k \in DOMAIN cache /\ cache'[k] = cache[k]) \/ (k = key /\ cache'[k] = answer[r])
    BY <2>1
  <2> QED BY <2>3, <2>4 DEF key
<1>2. ASSUME NEW r \in Requests, Route(r) \/ Lookup(r) \/ Forward(r) \/ Respond(r)
      PROVE  cache' = cache
  BY <1>2 DEF Route, Lookup, Forward, Respond
<1>3. ASSUME NEW j \in DOMAIN cache, ExpireEntry(j) PROVE k \in DOMAIN cache /\ cache'[k] = cache[k]
  BY <1>3 DEF ExpireEntry, Restrict
<1>4. CASE SwapRegistry \/ UNCHANGED llmVars
  BY <1>4 DEF SwapRegistry, llmVars
<1> QED BY <1>1, <1>2, <1>3, <1>4 DEF LlmNext

-----------------------------------------------------------------------------
(* Answers                                                                  *)

(* The requests that may be routed to an LLM service.                       *)
MayAsk(r, def) == RoutesTo(r, def) /\ def.llm

(* A request names no other model in its body than in its URL, if it goes   *)
(* to a service whose alias is the name that its backend knows: the name in *)
(* the body is the one that is passed on (rewrite.go:28-36).                *)
OneModelNamed ==
  \A r \in Requests, def \in ServiceDefs :
    MayAsk(r, def) /\ def.backendModel = NoModel => Body[r].json.model \in {NoModel, def.model}

(* What the Messages API is asked can be said in it: the adapter drops the  *)
(* rest (anthropic.go:41-139).                                              *)
PlainIfTranslated ==
  \A r \in Requests, def \in ServiceDefs :
    MayAsk(r, def) /\ def.provider = "anthropic" => Plain(Body[r])

(* Cacheable requests with one key differ in nothing that a backend looks   *)
(* at: not in their path, nor in a field that is not hashed, as requests    *)
(* for embeddings do, nor in the name that a reload gives to the model of   *)
(* an alias (key.go:43-60).                                                 *)
KeysTellApart ==
  \A r, s \in Requests, def, e \in ServiceDefs :
    /\ MayAsk(r, def) /\ MayAsk(s, e)
    /\ Cacheable(def, r) /\ Cacheable(e, s)
    /\ Key(def, r) = Key(e, s)
    => /\ Body[r].url = Body[s].url
       /\ Body[r].json.rest = Body[s].json.rest
       /\ ModelOf(def) = ModelOf(e)

(* An entry is what was due to a request with its key.                      *)
EntryFits(k) ==
  \E r \in Requests, def \in ServiceDefs :
    /\ MayAsk(r, def) /\ Cacheable(def, r)
    /\ k = Key(def, r) /\ cache[k].body = Due(def, r)

(* The invariant: every answer, and every entry of the cache for each       *)
(* request that would find it, is the one that is due.                      *)
AnswersFit ==
  /\ \A r \in Requests : answer[r].status = "200" => answer[r].body = Due(request[r].def, r)
  /\ \A k \in DOMAIN cache : EntryFits(k)

(* What was due to one of two requests with a key is due to the other.      *)
LEMMA SameDue ==
  ASSUME KeysTellApart,
         NEW r \in Requests, NEW s \in Requests,
         NEW def \in ServiceDefs, NEW e \in ServiceDefs,
         MayAsk(r, def), MayAsk(s, e), Cacheable(def, r), Cacheable(e, s), Key(def, r) = Key(e, s)
  PROVE  Due(def, r) = Due(e, s)
<1> DEFINE a == Body[r].json
           b == Body[s].json
<1>1. Body[r].url = Body[s].url /\ a.rest = b.rest /\ ModelOf(def) = ModelOf(e)
  BY DEF KeysTellApart
<1>2. def.provider = e.provider /\ Keyed(r) = Keyed(s)
  BY DEF Key
<1>3. /\ a.messages = b.messages /\ a.max_tokens = b.max_tokens
      /\ a.max_completion_tokens = b.max_completion_tokens
      /\ a.stop = b.stop /\ a.tools = b.tools
  BY <1>2 DEF Keyed
<1>4. ~a.stream /\ ~b.stream
  BY DEF Cacheable
<1>5. Meaning(a) = Meaning(b)
  <2> HIDE DEF a, b
  <2> QED BY <1>1, <1>3 DEF Meaning
<1> DEFINE limit(provider, means) ==
             IF provider = "anthropic" /\ means.limit = {} THEN {4096} ELSE means.limit
<1>6. /\ Due(def, r) = Streamed(a, OpenAIReply(ModelOf(def), Body[r].url,
                         [Meaning(a) EXCEPT !.limit = limit(def.provider, Meaning(a))]))
      /\ Due(e, s) = Streamed(b, OpenAIReply(ModelOf(e), Body[s].url,
                         [Meaning(b) EXCEPT !.limit = limit(e.provider, Meaning(b))]))
  BY DEF Due, ModelOf
<1> HIDE DEF a, b, limit
<1> QED BY <1>1, <1>2, <1>4, <1>5, <1>6 DEF Streamed

(* What a backend is found to answer is due.                                *)
LEMMA BackendDue ==
  ASSUME OneModelNamed, PlainIfTranslated, NEW r \in Requests, NEW def \in ServiceDefs,
         MayAsk(r, def), Wire(def, r).body.model # NoModel, Translated(def.provider, Reply(def, r))
  PROVE  Given(def, r) = Due(def, r)
<1> DEFINE body == rewriteBodyModel(def, Body[r].json)
<1>1. body.model = IF def.backendModel # NoModel THEN def.backendModel ELSE Body[r].json.model
  BY BodyType, Rewritten
<1>2. Wire(def, r).body.model = body.model
  BY DEF Wire, BuildRequest, openAIToAnthropic
<1> HIDE DEF body
<1>3. body.model = ModelOf(def)
  BY <1>1, <1>2 DEF ModelOf, OneModelNamed
<1>4. CASE def.provider = "anthropic"
  <2>1. Plain(Body[r])
    BY <1>4 DEF PlainIfTranslated
  <2> QED BY <1>3, <1>4, <2>1, PutBack DEF body
<1>5. CASE def.provider # "anthropic"
  BY <1>3, <1>5, PassedOn DEF body
<1> QED BY <1>4, <1>5

(* It holds at first.                                                       *)
LEMMA FitInit == LlmInit => AnswersFit
BY DEF LlmInit, AnswersFit, NoAnswer

(* Every step keeps it.                                                     *)
LEMMA FitStep ==
  ASSUME OneModelNamed, PlainIfTranslated, KeysTellApart,
         LlmTyped, AnswersFit, [LlmNext]_llmVars
  PROVE  AnswersFit'
<1>1. ASSUME NEW r \in Requests, answer'[r].status = "200"
      PROVE  answer'[r].body = Due(request'[r].def, r)
  <2> DEFINE def == request[r].def
  <2>1. CASE answer'[r] = answer[r] /\ request'[r].def = def
    BY <1>1, <2>1 DEF AnswersFit
  <2>2. CASE Asked(r) /\ request'[r].def = def /\ FromBackend(r)
    <3>1. def \in ServiceDefs /\ MayAsk(r, def)
      BY <2>2 DEF Asked, MayAsk
    <3>2. /\ Wire(def, r).body.model # NoModel
          /\ Translated(def.provider, Reply(def, r))
          /\ answer'[r] = Answered(def, r)
      BY <2>2 DEF FromBackend
    <3> HIDE DEF def
    <3>3. Given(def, r) = Due(def, r) /\ Answered(def, r).body = Given(def, r)
      BY <3>1, <3>2, BackendDue, AnsweredTyped
    <3> QED BY <2>2, <3>2, <3>3
  <2>3. CASE Asked(r) /\ request'[r].def = def /\ FromCache(r)
    <3> DEFINE k == Key(def, r)
    <3>1. def \in ServiceDefs /\ MayAsk(r, def)
      BY <2>3 DEF Asked, MayAsk
    <3>2. Cacheable(def, r) /\ k \in DOMAIN cache /\ answer'[r] = cache[k]
      BY <2>3 DEF FromCache
    <3>3. PICK s \in Requests, e \in ServiceDefs :
            /\ MayAsk(s, e) /\ Cacheable(e, s)
            /\ k = Key(e, s) /\ cache[k].body = Due(e, s)
      BY <3>2 DEF AnswersFit, EntryFits
    <3> HIDE DEF def
    <3>4. Due(def, r) = Due(e, s)
      BY <3>1, <3>2, <3>3, SameDue
    <3> QED BY <2>3, <3>2, <3>3, <3>4
  <2> QED BY <1>1, <2>1, <2>2, <2>3, AnswersMade
<1>2. ASSUME NEW k \in DOMAIN cache' PROVE EntryFits(k)'
  <2>1. CASE k \in DOMAIN cache /\ cache'[k] = cache[k]
    <3>1. EntryFits(k)
      BY <2>1 DEF AnswersFit
    <3> QED BY <2>1, <3>1 DEF EntryFits
  <2>2. ASSUME NEW r \in Requests, Asked(r), Cacheable(request[r].def, r), answer[r].status = "200",
               k = Key(request[r].def, r), cache'[k] = answer[r]
        PROVE  EntryFits(k)'
    <3>1. answer[r].body = Due(request[r].def, r)
      BY <2>2 DEF AnswersFit
    <3> QED BY <2>2, <3>1 DEF EntryFits, Asked, MayAsk
  <2> QED BY <2>1, <2>2, EntriesMade
<1> QED BY <1>1, <1>2 DEF AnswersFit

(* A client is given what the model it asked says to its request, from the  *)
(* backend or from the cache, translated or not, across reloads, failures   *)
(* and expiry: provided that its request can be translated where it has to  *)
(* be, that it names one model, and that the cache key tells apart what     *)
(* backends do (handler.go:81-101, key.go:43-60, anthropic.go:41-252).      *)
THEOREM AnswersDue ==
  OneModelNamed /\ PlainIfTranslated /\ KeysTellApart => (LlmSpec => []AnswerFitsRequest)
<1> SUFFICES ASSUME OneModelNamed, PlainIfTranslated, KeysTellApart
             PROVE  LlmSpec => []AnswerFitsRequest
  OBVIOUS
<1>1. LlmTyped /\ AnswersFit /\ [LlmNext]_llmVars => AnswersFit'
  BY FitStep
<1>2. LlmSpec => []AnswersFit
  BY <1>1, FitInit, TypedAlways, PTL DEF LlmSpec
<1>3. AnswersFit => AnswerFitsRequest
  BY DEF AnswersFit, AnswerFitsRequest, Delivered
<1> QED BY <1>2, <1>3, PTL

-----------------------------------------------------------------------------
(* Sums                                                                     *)

(* What holds of a set if it holds of the set without one of its members    *)
(* holds of every finite set.                                               *)
LEMMA SubsetInduction ==
  ASSUME NEW S, IsFiniteSet(S), NEW G, {} \in G,
         \A s \in SUBSET S : s # {} /\ (\A r \in s : s \ {r} \in G) => s \in G
  PROVE  SUBSET S \subseteq G
<1> DEFINE N == {n \in Nat : \A s \in SUBSET S : Cardinality(s) = n => s \in G}
<1>1. \A s \in SUBSET S : IsFiniteSet(s) /\ Cardinality(s) \in Nat
  BY FS_Subset, FS_CardinalityType
<1>2. 0 \in N
  BY <1>1, FS_EmptySet
<1>3. ASSUME NEW n \in Nat, n \in N PROVE n + 1 \in N
  <2>1. ASSUME NEW s \in SUBSET S, Cardinality(s) = n + 1 PROVE s \in G
    <3>1. s # {}
      BY <2>1, FS_EmptySet
    <3>2. ASSUME NEW r \in s PROVE s \ {r} \in G
      <4>1. Cardinality(s \ {r}) = Cardinality(s) - 1
        BY <1>1, FS_RemoveElement
      <4>2. s \ {r} \in SUBSET S /\ Cardinality(s \ {r}) = n
        BY <2>1, <4>1
      <4> QED BY <1>3, <4>2
    <3> QED BY <3>1, <3>2
  <2> QED BY <2>1
<1>4. Nat \subseteq N
  <2> HIDE DEF N
  <2> QED BY <1>2, <1>3, Induction
<1> QED BY <1>1, <1>4

(* The recursive definition of a sum, which takes out one member after the  *)
(* other, has a solution.                                                   *)
Picked(s) == CHOOSE x \in s : TRUE

(* g sums f over every part of S, taking out one element at a time.         *)
TakesOut(g, f, S) ==
  g = [s \in SUBSET S |-> IF s = {} THEN 0 ELSE f[Picked(s)] + g[s \ {Picked(s)}]]

(* There is such a g.                                                       *)
LEMMA SumExists ==
  ASSUME NEW S, IsFiniteSet(S), NEW f
  PROVE  \E g : TakesOut(g, f, S)
<1> DEFINE Next(g, s) == IF s = {} THEN 0 ELSE f[Picked(s)] + g[s \ {Picked(s)}]
           Upto(n) == \E g : /\ g = [s \in SUBSET S |-> g[s]]
                             /\ \A s \in SUBSET S : Cardinality(s) <= n => g[s] = Next(g, s)
           N == {n \in Nat : Upto(n)}
<1>1. \A s \in SUBSET S : IsFiniteSet(s) /\ Cardinality(s) \in Nat
  BY FS_Subset, FS_CardinalityType
<1>2. ASSUME NEW s \in SUBSET S, s # {}
      PROVE  s \ {Picked(s)} \in SUBSET S /\ Cardinality(s \ {Picked(s)}) = Cardinality(s) - 1
  <2>1. Picked(s) \in s
    BY <1>2 DEF Picked
  <2> QED BY <1>1, <2>1, FS_RemoveElement
<1>3. 0 \in N
  <2> DEFINE g == [s \in SUBSET S |-> 0]
  <2>1. \A s \in SUBSET S : Cardinality(s) <= 0 => g[s] = Next(g, s)
    BY <1>1, FS_EmptySet
  <2>2. g = [s \in SUBSET S |-> g[s]]
    OBVIOUS
  <2>3. Upto(0)
    <3> HIDE DEF g, Next
    <3> QED BY <2>1, <2>2
  <2> HIDE DEF Upto
  <2> QED BY <2>3
<1>4. ASSUME NEW n \in Nat, n \in N PROVE n + 1 \in N
  <2>1. PICK g : \A s \in SUBSET S : Cardinality(s) <= n => g[s] = Next(g, s)
    BY <1>4
  <2> DEFINE h == [s \in SUBSET S |-> IF Cardinality(s) <= n THEN g[s] ELSE Next(g, s)]
  <2>2. ASSUME NEW s \in SUBSET S, Cardinality(s) <= n + 1 PROVE h[s] = Next(h, s)
    <3>1. h[s] = Next(g, s)
      BY <2>1
    <3>2. CASE s = {}
      BY <3>1, <3>2
    <3>3. CASE s # {}
      <4> DEFINE t == s \ {Picked(s)}
      <4>1. t \in SUBSET S /\ Cardinality(t) <= n
        BY <1>1, <1>2, <2>2, <3>3
      <4> HIDE DEF t
      <4>2. h[t] = g[t]
        BY <4>1
      <4> HIDE DEF h
      <4> QED BY <3>1, <3>3, <4>2 DEF t
    <3> QED BY <3>2, <3>3
  <2>3. h = [s \in SUBSET S |-> h[s]]
    OBVIOUS
  <2>4. Upto(n + 1)
    <3> HIDE DEF h, Next
    <3> QED BY <2>2, <2>3
  <2> HIDE DEF Upto
  <2> QED BY <2>4
<1>5. Nat \subseteq N
  <2> HIDE DEF N
  <2> QED BY <1>3, <1>4, Induction
<1>6. Upto(Cardinality(S))
  BY <1>1, <1>5
<1>7. PICK g : /\ g = [s \in SUBSET S |-> g[s]]
               /\ \A s \in SUBSET S : Cardinality(s) <= Cardinality(S) => g[s] = Next(g, s)
  BY <1>6
<1>8. \A s \in SUBSET S : g[s] = Next(g, s)
  <2>1. \A s \in SUBSET S : Cardinality(s) <= Cardinality(S)
    BY FS_Subset
  <2> QED BY <1>7, <2>1
<1>9. g = [s \in SUBSET S |-> Next(g, s)]
  <2> HIDE DEF Next
  <2> QED BY <1>7, <1>8
<1> QED BY <1>9 DEF TakesOut

(* The sums of the parts of a set: any member may be taken out.             *)
Adds(g, f, S) ==
  /\ g = [s \in SUBSET S |-> g[s]]
  /\ g[{}] = 0
  /\ \A s \in SUBSET S : g[s] \in Nat /\ \A r \in s : g[s] = f[r] + g[s \ {r}]

(* The sum over a finite set is zero for none and grows by f of what joins. *)
LEMMA SumAdds ==
  ASSUME NEW S, IsFiniteSet(S), NEW f, \A r \in S : f[r] \in Nat
  PROVE  \E g : Adds(g, f, S) /\ SumFunctionOnSet(f, S) = g[S]
<1> DEFINE g == CHOOSE h : h = [s \in SUBSET S |->
                                  IF s = {} THEN 0 ELSE f[Picked(s)] + h[s \ {Picked(s)}]]
<1>1. SumFunctionOnSet(f, S) = g[S]
  BY DEF SumFunctionOnSet, FoldFunctionOnSet, MapThenFoldSet, Picked
<1>2. g = [s \in SUBSET S |-> IF s = {} THEN 0 ELSE f[Picked(s)] + g[s \ {Picked(s)}]]
  <2>1. PICK h : TakesOut(h, f, S)
    <3> HIDE DEF g
    <3> QED BY SumExists
  <2>2. h = [s \in SUBSET S |-> IF s = {} THEN 0 ELSE f[Picked(s)] + h[s \ {Picked(s)}]]
    BY <2>1 DEF TakesOut
  <2> QED BY <2>2
<1> HIDE DEF g
<1>3. g = [s \in SUBSET S |-> g[s]] /\ g[{}] = 0
  BY <1>2
<1>4. \A s \in SUBSET S : s # {} => Picked(s) \in s /\ g[s] = f[Picked(s)] + g[s \ {Picked(s)}]
  BY <1>2 DEF Picked
<1> DEFINE Numbers == {s \in SUBSET S : g[s] \in Nat}
<1>5. \A s \in SUBSET S : g[s] \in Nat
  <2>1. {} \in Numbers
    BY <1>3
  <2>2. ASSUME NEW s \in SUBSET S, s # {}, \A r \in s : s \ {r} \in Numbers PROVE s \in Numbers
    <3>1. Picked(s) \in s /\ g[s] = f[Picked(s)] + g[s \ {Picked(s)}]
      BY <1>4, <2>2
    <3>2. f[Picked(s)] \in Nat /\ g[s \ {Picked(s)}] \in Nat
      BY <2>2, <3>1
    <3> QED BY <3>1, <3>2
  <2>3. SUBSET S \subseteq Numbers
    <3> HIDE DEF Numbers
    <3> QED BY <2>1, <2>2, SubsetInduction
  <2> QED BY <2>3
<1> DEFINE G == {s \in SUBSET S : g[s] \in Nat /\ \A r \in s : g[s] = f[r] + g[s \ {r}]}
<1>6. {} \in G
  BY <1>3
<1>7. ASSUME NEW s \in SUBSET S, s # {}, \A r \in s : s \ {r} \in G PROVE s \in G
  <2> DEFINE p == Picked(s)
  <2>1. p \in s /\ g[s] = f[p] + g[s \ {p}]
    BY <1>4, <1>7
  <2> HIDE DEF p
  <2>2. \A r \in s : f[r] \in Nat /\ g[s \ {r}] \in Nat
    BY <1>7
  <2>3. g[s] \in Nat
    BY <2>1, <2>2
  <2>4. ASSUME NEW r \in s, r # p PROVE g[s] = f[r] + g[s \ {r}]
    <3> DEFINE t == (s \ {p}) \ {r}
    <3>1. r \in s \ {p} /\ p \in s \ {r} /\ (s \ {r}) \ {p} = t
      BY <2>1, <2>4
    <3>2. g[s \ {p}] = f[r] + g[t] /\ g[s \ {r}] = f[p] + g[t]
      BY <1>7, <2>1, <3>1
    <3>3. g[t] \in Nat
      BY <1>5
    <3> HIDE DEF t
    <3>4. \A a, b, c \in Nat : a + (b + c) = b + (a + c)
      OBVIOUS
    <3> QED BY <2>1, <2>2, <3>2, <3>3, <3>4
  <2> QED BY <2>1, <2>3, <2>4
<1>8. SUBSET S \subseteq G
  <2> HIDE DEF G
  <2> QED BY <1>6, <1>7, SubsetInduction
<1>9. Adds(g, f, S)
  BY <1>3, <1>8 DEF Adds
<1> QED BY <1>1, <1>9

(* Sums over a set of numbers that are the same are the same, whatever      *)
(* larger set they are part of.                                             *)
LEMMA AddsAgree ==
  ASSUME NEW S, IsFiniteSet(S), NEW T, S \subseteq T,
         NEW f, NEW g, Adds(g, f, S), NEW e, NEW h, Adds(h, e, T),
         \A r \in S : f[r] = e[r]
  PROVE  g[S] = h[S]
<1> DEFINE G == {s \in SUBSET S : g[s] = h[s]}
<1>1. {} \in G
  BY DEF Adds
<1>2. ASSUME NEW s \in SUBSET S, s # {}, \A r \in s : s \ {r} \in G PROVE s \in G
  <2>1. PICK r \in s : TRUE
    BY <1>2
  <2>2. r \in S /\ s \in SUBSET T
    OBVIOUS
  <2>3. g[s] = f[r] + g[s \ {r}] /\ h[s] = e[r] + h[s \ {r}]
    BY <2>1, <2>2 DEF Adds
  <2>4. f[r] = e[r] /\ g[s \ {r}] = h[s \ {r}]
    BY <1>2, <2>2
  <2>5. g[s] = h[s]
    BY <2>3, <2>4
  <2> QED BY <2>5
<1>3. SUBSET S \subseteq G
  <2> HIDE DEF G
  <2> QED BY <1>1, <1>2, SubsetInduction
<1> QED BY <1>3

(* The sum over a set with one more member.                                 *)
LEMMA SumWith ==
  ASSUME NEW S, IsFiniteSet(S), NEW f, \A x \in S : f[x] \in Nat,
         NEW r, r \notin S, NEW T, T = S \cup {r},
         NEW e, \A x \in S : e[x] = f[x], e[r] \in Nat
  PROVE  SumFunctionOnSet(e, T) = SumFunctionOnSet(f, S) + e[r]
<1>1. IsFiniteSet(T)
  BY FS_AddElement
<1>2. PICK g : Adds(g, f, S) /\ SumFunctionOnSet(f, S) = g[S]
  BY SumAdds
<1>3. PICK h : Adds(h, e, T) /\ SumFunctionOnSet(e, T) = h[T]
  <2>1. \A x \in T : e[x] \in Nat
    OBVIOUS
  <2> QED BY <1>1, <2>1, SumAdds
<1>4. g[S] = h[S]
  <2>1. S \subseteq T
    OBVIOUS
  <2> QED BY <1>2, <1>3, <2>1, AddsAgree
<1>5. h[T] = e[r] + h[T \ {r}]
  <2>1. T \in SUBSET T /\ r \in T
    OBVIOUS
  <2> QED BY <1>3, <2>1 DEF Adds
<1>6. T \ {r} = S
  OBVIOUS
<1>7. g[S] \in Nat
  BY <1>2 DEF Adds
<1>8. e[r] + g[S] = g[S] + e[r]
  BY <1>7
<1> QED BY <1>2, <1>3, <1>4, <1>5, <1>6, <1>8

-----------------------------------------------------------------------------
(* Billing                                                                  *)

(* What a request costs at its service.                                     *)
Bill(r) == UsageOf(request[r].def, Body[r].json)

(* The usage in an answer is the bill of its request, and the usage in an   *)
(* entry the bill of all requests with its key.                             *)
UsagesFit ==
  /\ \A r \in Requests :
       answer[r].status = "200" =>
         Asked(r) /\ Usage(answer[r]) = IF Body[r].json.stream THEN NoUsage ELSE Bill(r)
  /\ \A k \in DOMAIN cache : \A r \in Requests, def \in ServiceDefs :
       k = Key(def, r) => Usage(cache[k]) = UsageOf(def, Body[r].json)

(* Requests with one key cost the same.                                     *)
LEMMA SameUsage ==
  ASSUME NEW r \in Requests, NEW s \in Requests, NEW def \in ServiceDefs, NEW e \in ServiceDefs,
         Key(def, r) = Key(e, s)
  PROVE  UsageOf(def, Body[r].json) = UsageOf(e, Body[s].json)
<1>1. def.provider = e.provider /\ Body[r].json.messages = Body[s].json.messages
  BY DEF Key, Keyed
<1>2. /\ Meaning(Body[r].json).system = Meaning(Body[s].json).system
      /\ Meaning(Body[r].json).turns = Meaning(Body[s].json).turns
  BY <1>1 DEF Meaning
<1> QED BY <1>1, <1>2 DEF UsageOf

(* Every step keeps the usages.                                             *)
LEMMA UsagesStep ==
  ASSUME LlmTyped, UsagesFit, [LlmNext]_llmVars
  PROVE  UsagesFit'
<1>1. ASSUME NEW r \in Requests, answer'[r].status = "200"
      PROVE  Asked(r)' /\ Usage(answer'[r]) = IF Body[r].json.stream THEN NoUsage ELSE Bill(r)'
  <2> DEFINE def == request[r].def
  <2>1. CASE answer'[r] = answer[r] /\ request'[r].def = def
    <3>1. Asked(r) /\ Usage(answer[r]) = IF Body[r].json.stream THEN NoUsage ELSE Bill(r)
      BY <1>1, <2>1 DEF UsagesFit
    <3> QED BY <2>1, <3>1 DEF Asked, Bill
  <2>2. CASE Asked(r) /\ request'[r].def = def /\ FromBackend(r)
    <3>1. Translated(def.provider, Reply(def, r)) /\ answer'[r] = Answered(def, r)
      BY <2>2 DEF FromBackend
    <3>2. Usage(answer'[r]) = IF Body[r].json.stream THEN NoUsage ELSE UsageOf(def, Body[r].json)
      <4> HIDE DEF def
      <4> QED BY <3>1, AnsweredTyped, GivenUsage
    <3> QED BY <2>2, <3>2 DEF Asked, Bill
  <2>3. CASE Asked(r) /\ request'[r].def = def /\ FromCache(r)
    <3> DEFINE k == Key(def, r)
    <3>1. Cacheable(def, r) /\ k \in DOMAIN cache /\ answer'[r] = cache[k]
      BY <2>3 DEF FromCache
    <3>2. def \in ServiceDefs /\ ~Body[r].json.stream
      BY <2>3, <3>1 DEF Asked, Cacheable
    <3>3. Usage(cache[k]) = UsageOf(def, Body[r].json)
      BY <3>1, <3>2 DEF UsagesFit
    <3> QED BY <2>3, <3>1, <3>2, <3>3 DEF Asked, Bill
  <2> QED BY <1>1, <2>1, <2>2, <2>3, AnswersMade
<1>2. ASSUME NEW k \in DOMAIN cache', NEW r \in Requests, NEW def \in ServiceDefs, k = Key(def, r)
      PROVE  Usage(cache'[k]) = UsageOf(def, Body[r].json)
  <2>1. CASE k \in DOMAIN cache /\ cache'[k] = cache[k]
    <3>1. Usage(cache[k]) = UsageOf(def, Body[r].json)
      BY <1>2, <2>1 DEF UsagesFit
    <3> QED BY <2>1, <3>1
  <2>2. ASSUME NEW s \in Requests, Asked(s), Cacheable(request[s].def, s), answer[s].status = "200",
               k = Key(request[s].def, s), cache'[k] = answer[s]
        PROVE  Usage(cache'[k]) = UsageOf(def, Body[r].json)
    <3>1. Usage(answer[s]) = UsageOf(request[s].def, Body[s].json)
      BY <2>2 DEF UsagesFit, Cacheable, Bill
    <3>2. request[s].def \in ServiceDefs
      BY <2>2 DEF Asked
    <3>3. UsageOf(def, Body[r].json) = UsageOf(request[s].def, Body[s].json)
      <4> DEFINE e == request[s].def
      <4>1. Key(def, r) = Key(e, s) /\ e \in ServiceDefs
        BY <1>2, <2>2, <3>2
      <4> HIDE DEF e
      <4> QED BY <4>1, SameUsage DEF e
    <3> QED BY <2>2, <3>1, <3>3
  <2> QED BY <2>1, <2>2, EntriesMade
<1>3. UsagesFit' <=>
        /\ \A r \in Requests :
             answer'[r].status = "200" =>
               Asked(r)' /\ Usage(answer'[r]) = IF Body[r].json.stream THEN NoUsage ELSE Bill(r)'
        /\ \A k \in DOMAIN cache' : \A r \in Requests, def \in ServiceDefs :
             k = Key(def, r) => Usage(cache'[k]) = UsageOf(def, Body[r].json)
  BY DEF UsagesFit
<1> QED BY <1>1, <1>2, <1>3

(* They hold in every reachable state.                                      *)
LEMMA UsagesAlways == LlmSpec => []UsagesFit
<1>1. LlmInit => UsagesFit
  BY DEF LlmInit, UsagesFit, NoAnswer
<1>2. LlmTyped /\ UsagesFit /\ [LlmNext]_llmVars => UsagesFit'
  BY UsagesStep
<1> QED BY <1>1, <1>2, TypedAlways, PTL DEF LlmSpec

(* A step that delivers nothing, and one that delivers an answer to r and   *)
(* bills it, unless it was streamed or nobody is known to have asked.       *)
NothingDelivered ==
  /\ \A s \in Requests : Delivered(s)' <=> Delivered(s)
  /\ \A s \in Requests : Delivered(s) => request'[s].def = request[s].def
  /\ tracked' = tracked

(* A request's delivery, and it alone, is billed with it.                   *)
Delivers(r) ==
  /\ ~Delivered(r) /\ Delivered(r)'
  /\ \A s \in Requests : s # r => Delivered(s)' <=> Delivered(s)
  /\ \A s \in Requests : request'[s].def = request[s].def
  /\ tracked' = IF Body[r].user \in Users /\ ~Body[r].json.stream
                THEN [tracked EXCEPT ![Body[r].user] =
                        [prompt     |-> @.prompt + Bill(r).prompt,
                         completion |-> @.completion + Bill(r).completion]]
                ELSE tracked

(* Nothing is added to a sum.                                               *)
LEMMA TrackNothing ==
  ASSUME "track" \notin Fails, tracked \in [Users -> UsageType], NEW r, Track(r, NoUsage)
  PROVE  tracked' = tracked
<1> DEFINE u == Body[r].user
           sum == [prompt |-> tracked[u].prompt + 0, completion |-> tracked[u].completion + 0]
<1>1. tracked' = IF u \in Users THEN [tracked EXCEPT ![u] = sum] ELSE tracked
  BY TracksAll DEF NoUsage
<1>2. ASSUME u \in Users PROVE sum = tracked[u]
  <2>1. tracked[u] \in [prompt : Nat, completion : Nat]
    BY <1>2 DEF UsageType
  <2> HIDE DEF u
  <2>2. tracked[u].prompt + 0 = tracked[u].prompt /\ tracked[u].completion + 0 = tracked[u].completion
    BY <2>1
  <2>3. tracked[u] = [prompt |-> tracked[u].prompt, completion |-> tracked[u].completion]
    BY <2>1
  <2> QED BY <2>2, <2>3
<1> HIDE DEF sum, u
<1> QED BY <1>1, <1>2

(* One request moves on, and its answer may change.                         *)
LEMMA MovedOn ==
  ASSUME LlmTyped, NEW r \in Requests, NEW from, NEW to, Goes(r, from, to),
         \A s \in Requests : s # r => answer'[s] = answer[s]
  PROVE  /\ request[r].pc = from /\ request'[r].pc = to
         /\ \A s \in Requests : request'[s].def = request[s].def
         /\ \A s \in Requests : s # r => Delivered(s)' <=> Delivered(s)
<1>1. request \in [Requests -> [def : ServiceDefs \cup {NoDef}, pc : RequestPc]]
  BY DEF LlmTyped
<1> QED BY <1>1 DEF Goes, Delivered

(* A hit is a delivery, with a bill for it.                                 *)
LEMMA LookupBills ==
  ASSUME "track" \notin Fails, LlmTyped, UsagesFit, NEW r \in Requests, Lookup(r)
  PROVE  NothingDelivered \/ Delivers(r)
<1> DEFINE def == request[r].def
           k == Key(def, r)
<1>1. DOMAIN answer = Requests /\ Served(r) /\ tracked \in [Users -> UsageType]
  BY DEF LlmTyped
<1>2. CASE LookupHits(r)
  <2>1. /\ k \in DOMAIN cache /\ Goes(r, "lookup", "done")
        /\ answer' = [answer EXCEPT ![r] = cache[k]]
        /\ Track(r, emitTokenMetrics(cache[k].body))
    BY <1>2 DEF LookupHits
  <2>2. \A s \in Requests : s # r => answer'[s] = answer[s]
    BY <1>1, <2>1
  <2>3. /\ request[r].pc = "lookup" /\ request'[r].pc = "done"
        /\ \A s \in Requests : request'[s].def = request[s].def
        /\ \A s \in Requests : s # r => Delivered(s)' <=> Delivered(s)
    BY <2>1, <2>2, MovedOn
  <2>4. def \in ServiceDefs /\ ~Body[r].json.stream
    BY <1>1, <2>3 DEF Served, Underway, Cacheable
  <2>5. cache[k].status = "200"
    BY <2>1 DEF LlmTyped
  <2>6. emitTokenMetrics(cache[k].body) = Bill(r)
    <3>1. Usage(cache[k]) = UsageOf(def, Body[r].json)
      BY <2>1, <2>4 DEF UsagesFit
    <3> QED BY <2>5, <3>1 DEF emitTokenMetrics, Usage, Bill
  <2>7. ~Delivered(r) /\ Delivered(r)'
    <3>1. answer'[r].status = "200"
      BY <1>1, <2>1, <2>5
    <3> QED BY <2>3, <3>1 DEF Delivered
  <2> QED BY <2>1, <2>3, <2>4, <2>6, <2>7, TracksAll DEF Delivers
<1>3. CASE LookupMisses(r)
  <2>1. Goes(r, "lookup", "forward") /\ UNCHANGED <<answer, tracked>>
    BY <1>3 DEF LookupMisses
  <2>2. /\ request[r].pc = "lookup" /\ request'[r].pc = "forward"
        /\ \A s \in Requests : request'[s].def = request[s].def
        /\ \A s \in Requests : s # r => Delivered(s)' <=> Delivered(s)
    BY <2>1, MovedOn
  <2>3. Delivered(r)' <=> Delivered(r)
    BY <2>2 DEF Delivered
  <2> QED BY <2>1, <2>2, <2>3 DEF NothingDelivered
<1> QED BY <1>2, <1>3, LookupIs

(* A forward delivers nothing.                                              *)
LEMMA ForwardBillsNothing ==
  ASSUME LlmTyped, NEW r \in Requests, Forward(r)
  PROVE  NothingDelivered
<1>1. DOMAIN answer = Requests
  BY DEF LlmTyped
<1>2. \E to, a : /\ Goes(r, "forward", to) /\ answer' = [answer EXCEPT ![r] = a]
                 /\ to = "respond" \/ a.status # "200"
  <2>1. CASE ForwardAnswers(r)
    BY <2>1 DEF ForwardAnswers
  <2>2. CASE ForwardFails(r)
    <3>1. PICK status \in {"400", "429", "500", "502"}, to \in {"respond", "done"} :
            Goes(r, "forward", to) /\ answer' = [answer EXCEPT ![r] = ErrorAnswer(status)]
      BY <2>2 DEF ForwardFails
    <3>2. ErrorAnswer(status).status # "200"
      BY ErrorTyped
    <3> QED BY <3>1, <3>2
  <2> QED BY <2>1, <2>2, ForwardIs
<1>3. PICK to, a : /\ Goes(r, "forward", to) /\ answer' = [answer EXCEPT ![r] = a]
                   /\ to = "respond" \/ a.status # "200"
  BY <1>2
<1>4. /\ request[r].pc = "forward" /\ request'[r].pc = to
      /\ \A s \in Requests : request'[s].def = request[s].def
      /\ \A s \in Requests : s # r => Delivered(s)' <=> Delivered(s)
  BY <1>1, <1>3, MovedOn
<1>5. ~Delivered(r) /\ ~Delivered(r)'
  <2>1. answer'[r] = a
    BY <1>1, <1>3
  <2> QED BY <1>3, <1>4, <2>1 DEF Delivered
<1>6. tracked' = tracked
  BY ForwardIs
<1> QED BY <1>4, <1>5, <1>6 DEF NothingDelivered

(* A response is a delivery, with a bill for it, if it is one.              *)
LEMMA RespondBills ==
  ASSUME "track" \notin Fails, LlmTyped, UsagesFit, NEW r \in Requests, Respond(r)
  PROVE  NothingDelivered \/ Delivers(r)
<1>1. /\ Goes(r, "respond", "fill") \/ Goes(r, "respond", "done")
      /\ Track(r, Usage(answer[r])) /\ answer' = answer
  BY DEF Respond
<1>2. tracked \in [Users -> UsageType]
  BY DEF LlmTyped
<1>3. PICK to \in {"fill", "done"} : Goes(r, "respond", to)
  BY <1>1
<1>4. /\ request[r].pc = "respond" /\ request'[r].pc = to
      /\ \A s \in Requests : request'[s].def = request[s].def
      /\ \A s \in Requests : s # r => Delivered(s)' <=> Delivered(s)
  BY <1>1, <1>3, MovedOn
<1>5. CASE answer[r].status = "200"
  <2>1. Usage(answer[r]) = IF Body[r].json.stream THEN NoUsage ELSE Bill(r)
    BY <1>5 DEF UsagesFit
  <2>2. ~Delivered(r) /\ Delivered(r)'
    BY <1>1, <1>4, <1>5 DEF Delivered
  <2>3. CASE Body[r].json.stream
    <3>1. tracked' = tracked
      BY <1>1, <1>2, <2>1, <2>3, TrackNothing
    <3> QED BY <1>4, <2>2, <2>3, <3>1 DEF Delivers
  <2>4. CASE ~Body[r].json.stream
    BY <1>1, <1>4, <2>1, <2>2, <2>4, TracksAll DEF Delivers
  <2> QED BY <2>3, <2>4
<1>6. CASE answer[r].status # "200"
  <2>1. Usage(answer[r]) = NoUsage
    BY <1>6 DEF Usage
  <2>2. tracked' = tracked
    BY <1>1, <1>2, <2>1, TrackNothing
  <2>3. ~Delivered(r) /\ ~Delivered(r)'
    BY <1>1, <1>6 DEF Delivered
  <2> QED BY <1>4, <2>2, <2>3 DEF NothingDelivered
<1> QED BY <1>5, <1>6

(* Routing delivers nothing.                                                *)
LEMMA RouteBillsNothing ==
  ASSUME LlmTyped, NEW r \in Requests, Route(r)
  PROVE  NothingDelivered
<1>1. /\ request \in [Requests -> [def : ServiceDefs \cup {NoDef}, pc : RequestPc]]
      /\ DOMAIN answer = Requests /\ Served(r)
  BY DEF LlmTyped
<1>2. request[r].pc = "new" /\ tracked' = tracked
  BY DEF Route
<1>3. answer[r].status = "none" /\ (answer'[r] = answer[r] \/ answer'[r] = ErrorAnswer("400"))
  BY <1>1, <1>2 DEF Route, Served
<1>4. ~Delivered(r) /\ ~Delivered(r)'
  <2>1. answer'[r].status # "200"
    BY <1>3, ErrorTyped
  <2> QED BY <1>2, <2>1 DEF Delivered
<1>5. \A s \in Requests : s # r => request'[s] = request[s] /\ answer'[s] = answer[s]
  BY <1>1 DEF Route
<1>6. \A s \in Requests : s # r => Delivered(s)' <=> Delivered(s)
  BY <1>5 DEF Delivered
<1> QED BY <1>2, <1>4, <1>5, <1>6 DEF NothingDelivered

(* A fill delivers nothing: the answer has gone already.                    *)
LEMMA FillBillsNothing ==
  ASSUME LlmTyped, NEW r \in Requests, Fill(r)
  PROVE  NothingDelivered
<1>1. Goes(r, "fill", "done") /\ answer' = answer /\ tracked' = tracked
  BY DEF Fill
<1>2. /\ request[r].pc = "fill" /\ request'[r].pc = "done"
      /\ \A s \in Requests : request'[s].def = request[s].def
      /\ \A s \in Requests : s # r => Delivered(s)' <=> Delivered(s)
  BY <1>1, MovedOn
<1>3. Delivered(r)' <=> Delivered(r)
  BY <1>1, <1>2 DEF Delivered
<1> QED BY <1>1, <1>2, <1>3 DEF NothingDelivered

(* A step delivers nothing, or to one request, with its bill.               *)
LEMMA BillingSteps ==
  ASSUME "track" \notin Fails, LlmTyped, UsagesFit, [LlmNext]_llmVars
  PROVE  NothingDelivered \/ \E r \in Requests : Delivers(r)
<1>1. ASSUME NEW r \in Requests, Route(r) \/ Lookup(r) \/ Forward(r) \/ Respond(r) \/ Fill(r)
      PROVE  NothingDelivered \/ Delivers(r)
  BY <1>1, RouteBillsNothing, LookupBills, ForwardBillsNothing, RespondBills, FillBillsNothing
<1>2. CASE \/ \E k \in DOMAIN cache : ExpireEntry(k)
           \/ SwapRegistry
           \/ UNCHANGED llmVars
  <2>1. UNCHANGED <<request, answer, tracked>>
    BY <1>2 DEF ExpireEntry, SwapRegistry, llmVars
  <2> QED BY <2>1 DEF NothingDelivered, Delivered
<1> QED BY <1>1, <1>2 DEF LlmNext

(* The requests that are billed to a user, and their bills.                 *)
Billed(u) == {r \in Requests : Delivered(r) /\ Body[r].user = u /\ ~Body[r].json.stream}

(* What is due to be billed to a user.                                      *)
Total(u) ==
  [prompt     |-> SumFunctionOnSet([r \in Billed(u) |-> Bill(r).prompt], Billed(u)),
   completion |-> SumFunctionOnSet([r \in Billed(u) |-> Bill(r).completion], Billed(u))]

(* Finitely many requests have begun, and the sums are those of the bills.  *)
Begun == {r \in Requests : request[r].pc # "new"}

(* The sums are what is due, for finitely many requests.                    *)
BillsKept ==
  /\ IsFiniteSet(Begun)
  /\ \A u \in Users : tracked[u] = Total(u)

(* One request at most begins in a step.                                    *)
LEMMA BegunStep ==
  ASSUME LlmTyped, IsFiniteSet(Begun), [LlmNext]_llmVars
  PROVE  IsFiniteSet(Begun')
<1>1. ASSUME NEW r \in Requests, Route(r) \/ Lookup(r) \/ Forward(r) \/ Respond(r) \/ Fill(r)
      PROVE  IsFiniteSet(Begun')
  <2>1. request \in [Requests -> [def : ServiceDefs \cup {NoDef}, pc : RequestPc]]
    BY DEF LlmTyped
  <2>2. \E x : request' = [request EXCEPT ![r] = x]
    <3>1. CASE Route(r)
      <4>1. \/ request' = [request EXCEPT ![r].pc = "done"]
            \/ \E x : request' = [request EXCEPT ![r] = x]
        BY <3>1 DEF Route
      <4>2. \E x : [request EXCEPT ![r].pc = "done"] = [request EXCEPT ![r] = x]
        OBVIOUS
      <4> QED BY <4>1, <4>2
    <3>2. ASSUME NEW from, NEW to, Goes(r, from, to) PROVE \E x : request' = [request EXCEPT ![r] = x]
      BY <3>2 DEF Goes
    <3>3. CASE Lookup(r)
      <4>1. Goes(r, "lookup", "done") \/ Goes(r, "lookup", "forward")
        BY <3>3 DEF Lookup
      <4> QED BY <3>2, <4>1
    <3>4. CASE Forward(r)
      <4>1. \E to : Goes(r, "forward", to)
        BY <3>4, ForwardIs DEF ForwardAnswers, ForwardFails
      <4> QED BY <3>2, <4>1
    <3>5. CASE Respond(r)
      <4>1. Goes(r, "respond", "fill") \/ Goes(r, "respond", "done")
        BY <3>5 DEF Respond
      <4> QED BY <3>2, <4>1
    <3>6. CASE Fill(r)
      BY <3>2, <3>6 DEF Fill
    <3> QED BY <1>1, <3>1, <3>3, <3>4, <3>5, <3>6
  <2>3. Begun' \subseteq Begun \cup {r}
    BY <2>1, <2>2 DEF Begun
  <2>4. IsFiniteSet(Begun \cup {r})
    BY FS_AddElement
  <2> QED BY <2>3, <2>4, FS_Subset
<1>2. CASE \/ \E k \in DOMAIN cache : ExpireEntry(k)
           \/ SwapRegistry
           \/ UNCHANGED llmVars
  <2>1. request' = request
    BY <1>2 DEF ExpireEntry, SwapRegistry, llmVars
  <2> QED BY <2>1 DEF Begun
<1> QED BY <1>1, <1>2 DEF LlmNext

(* Bills are numbers, of finitely many requests.                            *)
LEMMA BilledFinite ==
  ASSUME IsFiniteSet(Begun), NEW u
  PROVE  IsFiniteSet(Billed(u))
<1>1. Billed(u) \subseteq Begun
  BY DEF Billed, Begun, Delivered
<1> QED BY <1>1, FS_Subset

(* A bill is two numbers.                                                   *)
LEMMA BillType ==
  ASSUME NEW r \in Requests
  PROVE  Bill(r).prompt \in Nat /\ Bill(r).completion \in Nat
<1>1. Bill(r) \in UsageType
  BY BodyType, UsageOfType DEF Bill
<1> QED BY <1>1 DEF UsageType

(* The sums of a user to whom nothing was delivered.                        *)
LEMMA TotalKept ==
  ASSUME NEW u, Billed(u)' = Billed(u),
         \A r \in Billed(u) : request'[r].def = request[r].def
  PROVE  Total(u)' = Total(u)
<1>1. \A r \in Billed(u) : Bill(r)' = Bill(r)
  BY DEF Bill
<1>2. /\ [r \in Billed(u) |-> Bill(r).prompt]' = [r \in Billed(u) |-> Bill(r).prompt]
      /\ [r \in Billed(u) |-> Bill(r).completion]' = [r \in Billed(u) |-> Bill(r).completion]
  BY <1>1
<1> QED BY <1>2 DEF Total

(* The sums with the bill of one more request.                              *)
LEMMA TotalWith ==
  ASSUME IsFiniteSet(Begun), NEW u, NEW r \in Requests,
         r \notin Billed(u), Billed(u)' = Billed(u) \cup {r},
         \A s \in Requests : request'[s].def = request[s].def
  PROVE  Total(u)' = [prompt     |-> Total(u).prompt + Bill(r).prompt,
                      completion |-> Total(u).completion + Bill(r).completion]
<1> DEFINE B == Billed(u)
           C == B \cup {r}
           p == [s \in B |-> Bill(s).prompt]
           q == [s \in C |-> Bill(s).prompt]
           c == [s \in B |-> Bill(s).completion]
           d == [s \in C |-> Bill(s).completion]
<1>1. IsFiniteSet(B) /\ B \subseteq Requests /\ r \notin B
  BY BilledFinite DEF Billed
<1>2. \A s \in Requests : Bill(s)' = Bill(s)
  BY DEF Bill
<1>3. Total(u)' = [prompt |-> SumFunctionOnSet(q, C), completion |-> SumFunctionOnSet(d, C)]
  <2>1. [s \in Billed(u) |-> Bill(s).prompt]' = q /\ [s \in Billed(u) |-> Bill(s).completion]' = d
    BY <1>1, <1>2
  <2> HIDE DEF q, d
  <2> QED BY <2>1 DEF Total
<1>4. Total(u) = [prompt |-> SumFunctionOnSet(p, B), completion |-> SumFunctionOnSet(c, B)]
  BY DEF Total
<1>5. \A s \in Requests : Bill(s).prompt \in Nat /\ Bill(s).completion \in Nat
  BY BillType
<1>6. SumFunctionOnSet(q, C) = SumFunctionOnSet(p, B) + Bill(r).prompt
  <2>1. /\ \A s \in B : p[s] \in Nat
        /\ \A s \in B : q[s] = p[s]
        /\ q[r] = Bill(r).prompt /\ q[r] \in Nat
    BY <1>1, <1>5
  <2>2. C = B \cup {r}
    OBVIOUS
  <2> HIDE DEF p, q, B, C
  <2>3. SumFunctionOnSet(q, C) = SumFunctionOnSet(p, B) + q[r]
    BY <1>1, <2>1, <2>2, SumWith
  <2> QED BY <2>1, <2>3
<1>7. SumFunctionOnSet(d, C) = SumFunctionOnSet(c, B) + Bill(r).completion
  <2>1. /\ \A s \in B : c[s] \in Nat
        /\ \A s \in B : d[s] = c[s]
        /\ d[r] = Bill(r).completion /\ d[r] \in Nat
    BY <1>1, <1>5
  <2>2. C = B \cup {r}
    OBVIOUS
  <2> HIDE DEF c, d, B, C
  <2>3. SumFunctionOnSet(d, C) = SumFunctionOnSet(c, B) + d[r]
    BY <1>1, <2>1, <2>2, SumWith
  <2> QED BY <2>1, <2>3
<1> HIDE DEF p, q, c, d, B, C
<1> QED BY <1>3, <1>4, <1>6, <1>7

(* Every step keeps the bills.                                              *)
LEMMA BillsStep ==
  ASSUME "track" \notin Fails, LlmTyped, UsagesFit, BillsKept, [LlmNext]_llmVars
  PROVE  BillsKept'
<1>1. IsFiniteSet(Begun) /\ IsFiniteSet(Begun')
  BY BegunStep DEF BillsKept
<1>2. CASE NothingDelivered
  <2>1. ASSUME NEW u \in Users PROVE tracked'[u] = Total(u)'
    <3>1. Billed(u)' = Billed(u)
      BY <1>2 DEF Billed, NothingDelivered
    <3>2. \A r \in Billed(u) : request'[r].def = request[r].def
      BY <1>2 DEF Billed, NothingDelivered
    <3>3. Total(u)' = Total(u)
      BY <3>1, <3>2, TotalKept
    <3> QED BY <1>2, <3>3 DEF NothingDelivered, BillsKept
  <2> QED BY <1>1, <2>1 DEF BillsKept
<1>3. ASSUME NEW r \in Requests, Delivers(r) PROVE BillsKept'
  <2>1. ASSUME NEW u \in Users PROVE tracked'[u] = Total(u)'
    <3>1. tracked[u] = Total(u)
      BY DEF BillsKept
    <3>2. tracked \in [Users -> UsageType]
      BY DEF LlmTyped
    <3>3. \A s \in Requests : request'[s].def = request[s].def
      BY <1>3 DEF Delivers
    <3>4. CASE Body[r].user = u /\ ~Body[r].json.stream
      <4>1. r \notin Billed(u) /\ Billed(u)' = Billed(u) \cup {r}
        BY <1>3, <3>4 DEF Billed, Delivers
      <4>2. Total(u)' = [prompt     |-> Total(u).prompt + Bill(r).prompt,
                         completion |-> Total(u).completion + Bill(r).completion]
        BY <1>1, <3>3, <4>1, TotalWith
      <4>3. tracked'[u] = [prompt     |-> tracked[u].prompt + Bill(r).prompt,
                           completion |-> tracked[u].completion + Bill(r).completion]
        BY <1>3, <3>2, <3>4 DEF Delivers
      <4> QED BY <3>1, <4>2, <4>3
    <3>5. CASE ~(Body[r].user = u /\ ~Body[r].json.stream)
      <4>1. Billed(u)' = Billed(u)
        BY <1>3, <3>5 DEF Billed, Delivers
      <4>2. \A s \in Billed(u) : request'[s].def = request[s].def
        BY <3>3 DEF Billed
      <4>3. Total(u)' = Total(u)
        BY <4>1, <4>2, TotalKept
      <4>4. tracked'[u] = tracked[u]
        BY <1>3, <3>2, <3>5 DEF Delivers
      <4> QED BY <3>1, <4>3, <4>4
    <3> QED BY <3>4, <3>5
  <2> QED BY <1>1, <2>1 DEF BillsKept
<1> QED BY <1>2, <1>3, BillingSteps

(* They are kept at first.                                                  *)
LEMMA BillsInit == LlmInit => BillsKept
<1> SUFFICES ASSUME LlmInit PROVE BillsKept
  OBVIOUS
<1>1. Begun = {}
  BY DEF LlmInit, Begun
<1>2. ASSUME NEW u \in Users PROVE tracked[u] = Total(u)
  <2>1. Billed(u) = {}
    BY <1>1 DEF Billed, Begun, Delivered
  <2> DEFINE p == [r \in Billed(u) |-> Bill(r).prompt]
             c == [r \in Billed(u) |-> Bill(r).completion]
  <2>2. \A f : SumFunctionOnSet(f, {}) = 0
    <3>1. ASSUME NEW f PROVE SumFunctionOnSet(f, {}) = 0
      <4>1. PICK g : Adds(g, f, {}) /\ SumFunctionOnSet(f, {}) = g[{}]
        BY FS_EmptySet, SumAdds
      <4> QED BY <4>1 DEF Adds
    <3> QED BY <3>1
  <2>3. Total(u) = [prompt |-> SumFunctionOnSet(p, {}), completion |-> SumFunctionOnSet(c, {})]
    BY <2>1 DEF Total
  <2> HIDE DEF p, c
  <2>4. tracked[u] = NoUsage
    BY DEF LlmInit
  <2> QED BY <2>2, <2>3, <2>4 DEF NoUsage
<1> QED BY <1>1, <1>2, FS_EmptySet DEF BillsKept

(* A request that can be translated where it has to be costs what the due   *)
(* answer says.                                                             *)
LEMMA BillDue ==
  ASSUME PlainIfTranslated, NEW r \in Requests, Asked(r), ~Body[r].json.stream
  PROVE  Due(request[r].def, r).usage = Bill(r)
<1> DEFINE def == request[r].def
           json == Body[r].json
           means == Meaning(json)
<1>1. def \in ServiceDefs /\ MayAsk(r, def)
  BY DEF Asked, MayAsk
<1>2. json \in openAIRequest
  BY BodyType
<1>3. Due(def, r).usage = [prompt |-> Len(means.system) + Len(means.turns), completion |-> 1]
  <2>1. ASSUME NEW limit
        PROVE  /\ [means EXCEPT !.limit = limit].system = means.system
               /\ [means EXCEPT !.limit = limit].turns = means.turns
    BY DEF Meaning
  <2> DEFINE limit == IF def.provider = "anthropic" /\ means.limit = {} THEN {4096} ELSE means.limit
             meant == [means EXCEPT !.limit = limit]
  <2>2. Due(def, r) = OpenAIReply(ModelOf(def), Body[r].url, meant)
    BY DEF Due, ModelOf, Streamed
  <2>3. meant.system = means.system /\ meant.turns = means.turns
    <3> HIDE DEF means, limit
    <3> QED BY <2>1
  <2> HIDE DEF meant, def, means
  <2> QED BY <2>2, <2>3 DEF OpenAIReply
<1> HIDE DEF def
<1>4. CASE def.provider # "anthropic"
  BY <1>3, <1>4 DEF Bill, UsageOf, def
<1>5. CASE def.provider = "anthropic"
  <2> DEFINE tt == turns(json.messages)
  <2>1. Plain(Body[r])
    BY <1>1, <1>5 DEF PlainIfTranslated
  <2>2. /\ system(json.messages) = means.system
        /\ [i \in DOMAIN tt |-> <<tt[i].role, tt[i].content>>] = means.turns
    BY <1>2, <2>1, DialogueKept
  <2>3. tt \in Seq(Turn)
    <3>1. json.messages \in Seq(openAIMessage)
      BY <1>2 DEF openAIRequest
    <3> QED BY <3>1, SystemTurnsType
  <2> HIDE DEF tt, means
  <2>4. Len(means.turns) = Len(tt)
    BY <2>2, <2>3
  <2> QED BY <1>3, <1>5, <2>2, <2>4 DEF Bill, UsageOf, def, tt
<1> QED BY <1>4, <1>5 DEF def

(* Every answer that a known user was given, and that was not streamed, is  *)
(* in the sums once, as what it said of its usage: answered by a backend or *)
(* by the cache, translated or not, before or after a reload, in any order. *)
(* This needs the count itself not to fail, and the requests to translated  *)
(* services to be such as can be translated (handler.go:88-95, 155-167).    *)
THEOREM DeliveriesBilled ==
  "track" \notin Fails /\ PlainIfTranslated => (LlmSpec => []EveryDeliveryBilled)
<1> SUFFICES ASSUME "track" \notin Fails, PlainIfTranslated PROVE LlmSpec => []EveryDeliveryBilled
  OBVIOUS
<1>1. LlmTyped /\ UsagesFit /\ BillsKept /\ [LlmNext]_llmVars => BillsKept'
  BY BillsStep
<1>2. LlmSpec => []BillsKept
  BY <1>1, BillsInit, TypedAlways, UsagesAlways, PTL DEF LlmSpec
<1>3. UsagesFit /\ BillsKept => EveryDeliveryBilled
  <2> SUFFICES ASSUME UsagesFit, BillsKept PROVE EveryDeliveryBilled
    OBVIOUS
  <2>1. ASSUME NEW u \in Users
        PROVE  tracked[u] =
                 [prompt     |-> SumFunctionOnSet(
                                   [r \in Billed(u) |-> Due(request[r].def, r).usage.prompt], Billed(u)),
                  completion |-> SumFunctionOnSet(
                                   [r \in Billed(u) |-> Due(request[r].def, r).usage.completion], Billed(u))]
    <3>1. \A r \in Billed(u) : Due(request[r].def, r).usage = Bill(r)
      BY BillDue DEF Billed, UsagesFit, Delivered
    <3>2. /\ [r \in Billed(u) |-> Due(request[r].def, r).usage.prompt]
               = [r \in Billed(u) |-> Bill(r).prompt]
          /\ [r \in Billed(u) |-> Due(request[r].def, r).usage.completion]
               = [r \in Billed(u) |-> Bill(r).completion]
      BY <3>1
    <3> QED BY <3>2 DEF BillsKept, Total
  <2> QED BY <2>1 DEF EveryDeliveryBilled, Billed
<1> QED BY <1>2, <1>3, UsagesAlways, PTL
=============================================================================
