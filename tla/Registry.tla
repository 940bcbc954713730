------------------------------ MODULE Registry ------------------------------
(***************************************************************************)
(* The service registry (internal/service/registry.go): which service a    *)
(* request is routed to.                                                   *)
(*                                                                         *)
(* A segment of a URL, and a model name, is a sequence of tokens.  The     *)
(* registry is the list of service entries of the configuration, each with *)
(* its paths in the order in which the loops of NewRegistry visited them:  *)
(* the operations are a Go map, so that any order of them may come up.     *)
(* What a map holds for a key is the last entry indexed under it.          *)
(***************************************************************************)
EXTENDS Naturals, FiniteSets, SequencesExt, FiniteSetsExt

(* The three kinds of path: an exact one, one with a {model} placeholder    *)
(* between `pre` and `suf` in one of its segments, and a prefix "/a/b/*".   *)
Exact(url) == [kind |-> "exact", before |-> url, pre |-> <<>>, suf |-> <<>>, after |-> <<>>]
Pattern(before, pre, suf, after) ==
  [kind |-> "pattern", before |-> before, pre |-> pre, suf |-> suf, after |-> after]
Wildcard(prefix) == [Exact(prefix) EXCEPT !.kind = "wildcard"]

NoModel == <<>>

(* A URL path, a path of a service, and a service.                          *)
Url  == Seq(Seq(STRING))
Path == [kind : {"exact", "pattern", "wildcard"},
         before : Url, pre : Seq(STRING), suf : Seq(STRING), after : Url]
Def  == [type : STRING, model : Seq(STRING), default : BOOLEAN, backend : BOOLEAN,
         results : BOOLEAN, operations : SUBSET Seq(Path), llm : BOOLEAN, provider : STRING,
         backendModel : Seq(STRING), cacheTTL : BOOLEAN]

(* "No such service", where an entry is known by its place in the list.     *)
NoDef == 0

-----------------------------------------------------------------------------
(* NewRegistry                                                              *)

(* The registries that may come of a list of services: the paths of each,   *)
(* its operations in any order.                                             *)
NewRegistry(services) ==
  LET arranged(s) == {FlattenSeq(ops) : ops \in SetToSeqs(s.operations)}
      orders == {o \in [DOMAIN services -> UNION {arranged(services[i]) : i \in DOMAIN services}] :
                   \A i \in DOMAIN services : o[i] \in arranged(services[i])}
  IN {[i \in DOMAIN services |-> [def |-> services[i], paths |-> o[i]]] : o \in orders}

(* Sync routing indexes the entries that have a model and a backend.        *)
Indexed(reg) == {i \in DOMAIN reg : reg[i].def.model # NoModel /\ reg[i].def.backend}

IndexedPaths(reg) ==
  FlattenSeq([i \in DOMAIN reg |-> IF i \in Indexed(reg) THEN reg[i].paths ELSE <<>>])

(* byTypeModel[type]; bySync[path], defsByModel and byModel of one path.    *)
ByType(reg, type) == {i \in DOMAIN reg : reg[i].def.type = type}
ByPath(reg, path) == {i \in Indexed(reg) : Contains(reg[i].paths, path)}

Named(reg, entries, model) == {i \in entries : reg[i].def.model = model}

Latest(entries) == IF entries = {} THEN NoDef ELSE Max(entries)

-----------------------------------------------------------------------------
(* Lookup                                                                   *)

(* Variant: an unknown model gets the default.                              *)
ResolveLeniently(reg, entries, model) ==
  LET models   == {reg[i].def.model : i \in entries}
      defaults == {i \in entries : reg[i].def.default}
  IN IF model \in models THEN Latest(Named(reg, entries, model))
     ELSE IF Cardinality(models) = 1 THEN Latest(entries)
     ELSE Latest(defaults)

(* By model; without one, the only model there is, or else the default.     *)
Resolve(reg, entries, model) ==
  LET models   == {reg[i].def.model : i \in entries}
      defaults == {i \in entries : reg[i].def.default}
  IN IF model # NoModel THEN Latest(Named(reg, entries, model))
     ELSE IF Cardinality(models) = 1 THEN Latest(entries)
     ELSE Latest(defaults)

RouteAsync(reg, type, model) == Resolve(reg, ByType(reg, type), model)

(* The part of the segment in place of {model}, if the rest matches.         *)
matchModelSegment(p, segment) ==
  IF /\ IsPrefix(p.pre, segment)
     /\ IsSuffix(p.suf, segment)
     /\ Len(segment) >= Len(p.pre) + Len(p.suf)
  THEN SubSeq(segment, Len(p.pre) + 1, Len(segment) - Len(p.suf))
  ELSE NoModel

(* The model named in the URL, if it matches the pattern.                   *)
match(p, url) ==
  LET hole == Len(p.before) + 1 IN
  IF /\ Len(url) = hole + Len(p.after)
     /\ IsPrefix(p.before, url)
     /\ IsSuffix(p.after, url)
  THEN matchModelSegment(p, url[hole])
  ELSE NoModel

(* "/v1/*" is the prefix "/v1/".                                            *)
under(prefix, url) == IsPrefix(prefix, url) /\ Len(url) > Len(prefix)

(* Exact path, then the first pattern that matches, then the first prefix.  *)
RouteSync(reg, url, model) ==
  LET exact == ByPath(reg, Exact(url))
      paths == IndexedPaths(reg)
      p == SelectInSeq(paths, LAMBDA q : q.kind = "pattern" /\ match(q, url) # NoModel)
      w == SelectInSeq(paths, LAMBDA q : q.kind = "wildcard" /\ under(q.before, url))
  IN IF exact # {} THEN Resolve(reg, exact, model)
     ELSE IF p # 0 THEN Latest(Named(reg, ByPath(reg, paths[p]), match(paths[p], url)))
     ELSE IF w # 0 THEN Resolve(reg, ByPath(reg, paths[w]), model)
     ELSE NoDef

(* Variant: one service of each type.                                       *)
KafkaServicesByType(reg) ==
  {i \in DOMAIN reg : reg[i].def.results /\ i = Latest(ByType(reg, reg[i].def.type))}

(* KafkaServices: of the entries with one type and model, the last, if it   *)
(* has a result topic.                                                      *)
KafkaServices(reg) ==
  {i \in DOMAIN reg : /\ reg[i].def.results
                      /\ i = Latest(Named(reg, ByType(reg, reg[i].def.type), reg[i].def.model))}
=============================================================================
