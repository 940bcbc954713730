--------------------------- MODULE Registry_proofs ---------------------------
(***************************************************************************)
(* Facts about the operators of Registry: what flattening a sequence of    *)
(* sequences keeps, and what a request is routed to.  The data may be of   *)
(* any size, so the facts about recursive functions are proved by          *)
(* induction, which is stated here for sets of numbers.                    *)
(***************************************************************************)
EXTENDS Registry, SequenceTheorems, FiniteSetTheorems, WellFoundedInduction, TLAPS

-----------------------------------------------------------------------------
(* Induction                                                                *)

(* A set of natural numbers has a least element.                            *)
LEMMA LeastOf ==
  ASSUME NEW T, T \subseteq Nat, T # {}
  PROVE  \E m \in T : \A k \in T : m <= k
<1>1. IsWellFoundedOn(OpToRel(<, Nat), Nat)
  BY NatLessThanWellFounded
<1>2. PICK m \in T : \A k \in T : ~(<<k, m>> \in OpToRel(<, Nat))
  BY <1>1, WFMin
<1>3. ASSUME NEW k \in T PROVE m <= k
  <2>1. <<k, m>> \notin OpToRel(<, Nat)
    BY <1>2
  <2>2. ~(k < m)
    BY <2>1 DEF OpToRel
  <2> QED BY <2>2
<1> QED BY <1>3

(* A set that has 0, and with every number its successor, has all of them.  *)
LEMMA Induction ==
  ASSUME NEW S, 0 \in S, \A n \in Nat : n \in S => n + 1 \in S
  PROVE  Nat \subseteq S
<1> DEFINE T == {n \in Nat : n \notin S}
<1> SUFFICES ASSUME T # {} PROVE FALSE
  OBVIOUS
<1>1. PICK m \in T : \A k \in T : m <= k
  BY LeastOf
<1>2. m # 0
  OBVIOUS
<1>3. m - 1 \in Nat /\ m - 1 \in S
  BY <1>1, <1>2
<1> QED BY <1>3, <1>1

(* The same from 1 to some number.                                          *)
LEMMA InductionTo ==
  ASSUME NEW n \in Nat, NEW S,
         1 \in S, \A i \in 1..n : i \in S /\ i < n => i + 1 \in S
  PROVE  1..n \subseteq S
<1> DEFINE T == {k \in Nat : k + 1 \in S \/ k + 1 > n}
<1>1. 0 \in T
  OBVIOUS
<1>2. ASSUME NEW k \in Nat, k \in T PROVE k + 1 \in T
  <2>1. CASE k + 2 > n
    BY <2>1
  <2>2. CASE k + 2 <= n
    <3>1. k + 1 \in S /\ k + 1 \in 1..n /\ k + 1 < n
      BY <1>2, <2>2
    <3>2. (k + 1) + 1 \in S
      BY <3>1
    <3> QED BY <3>2
  <2> QED BY <2>1, <2>2
<1>3. Nat \subseteq T
  <2> HIDE DEF T
  <2> QED BY <1>1, <1>2, Induction
<1>4. ASSUME NEW i \in 1..n PROVE i \in S
  <2>1. i - 1 \in Nat /\ i - 1 \in T
    BY <1>3
  <2> QED BY <2>1
<1> QED BY <1>4

(* A set of numbers with a bound has a greatest element.                    *)
LEMMA GreatestOf ==
  ASSUME NEW n \in Nat, NEW T, T \subseteq 1..n, T # {}
  PROVE  Max(T) \in T /\ \A k \in T : k <= Max(T)
<1> DEFINE U == {n - k : k \in T}
<1>1. U \subseteq Nat /\ U # {}
  <2>1. \A k \in T : n - k \in Nat
    OBVIOUS
  <2>2. PICK k \in T : TRUE
    OBVIOUS
  <2>3. n - k \in U
    BY <2>2
  <2> QED BY <2>1, <2>3
<1>2. PICK u \in U : \A k \in U : u <= k
  <2> HIDE DEF U
  <2> QED BY <1>1, LeastOf
<1>3. PICK m \in T : u = n - m
  BY <1>2
<1>4. \A k \in T : m >= k
  <2> SUFFICES ASSUME NEW k \in T PROVE m >= k
    OBVIOUS
  <2>1. n - k \in U
    OBVIOUS
  <2>2. n - m <= n - k
    BY <2>1, <1>2, <1>3
  <2> QED BY <2>2
<1>5. \E x \in T : \A y \in T : x >= y
  BY <1>4
<1>6. Max(T) \in T /\ \A y \in T : Max(T) >= y
  BY <1>5 DEF Max
<1> QED BY <1>6

(* The first place at which a test holds is one at which it holds.          *)
LEMMA LeastIndex ==
  ASSUME NEW n \in Nat, NEW I, I \subseteq 1..n, I # {}
  PROVE  Min(I) \in I
<1>1. I \subseteq Nat
  OBVIOUS
<1>2. \E x \in I : \A y \in I : x <= y
  BY <1>1, LeastOf
<1> QED BY <1>2 DEF Min

-----------------------------------------------------------------------------
(* Flattening                                                               *)

(* The partial results of FlattenSeq.                                       *)
Flattens(f, ss) ==
  f = [i \in 1..Len(ss) |-> IF i = 1 THEN ss[i] ELSE f[i - 1] \o ss[i]]

(* There are such partial results: its recursive definition has a solution. *)
LEMMA FlattensExists ==
  ASSUME NEW ss, Len(ss) \in Nat
  PROVE  \E f : Flattens(f, ss)
<1> DEFINE Upto(n) == \E f : f = [i \in 1..n |-> IF i = 1 THEN ss[i] ELSE f[i - 1] \o ss[i]]
           S == {n \in Nat : Upto(n)}
<1>1. 0 \in S
  <2>1. \E f : f = [i \in 1..0 |-> IF i = 1 THEN ss[i] ELSE f[i - 1] \o ss[i]]
    <3> DEFINE f == [i \in 1..0 |-> ss[i]]
    <3>1. f = [i \in 1..0 |-> IF i = 1 THEN ss[i] ELSE f[i - 1] \o ss[i]]
      OBVIOUS
    <3> QED BY <3>1
  <2> QED BY <2>1
<1>2. ASSUME NEW n \in Nat, n \in S PROVE n + 1 \in S
  <2>1. PICK f : f = [i \in 1..n |-> IF i = 1 THEN ss[i] ELSE f[i - 1] \o ss[i]]
    BY <1>2
  <2> DEFINE g == [i \in 1..(n + 1) |->
                     IF i = n + 1 THEN (IF i = 1 THEN ss[i] ELSE f[i - 1] \o ss[i]) ELSE f[i]]
  <2>2. ASSUME NEW i \in 1..(n + 1)
        PROVE  g[i] = IF i = 1 THEN ss[i] ELSE g[i - 1] \o ss[i]
    <3>1. CASE i = 1
      <4>1. n = 0 \/ 1 \in 1..n
        OBVIOUS
      <4> QED BY <3>1, <4>1, <2>1
    <3>2. CASE i # 1 /\ i = n + 1
      <4>1. i - 1 \in 1..(n + 1) /\ i - 1 # n + 1
        BY <3>2
      <4>2. g[i - 1] = f[i - 1]
        BY <4>1
      <4> QED BY <3>2, <4>2
    <3>3. CASE i # 1 /\ i # n + 1
      <4>1. i \in 1..n /\ i - 1 \in 1..(n + 1) /\ i - 1 # n + 1
        BY <3>3
      <4>2. g[i - 1] = f[i - 1] /\ g[i] = f[i]
        BY <4>1, <3>3
      <4>3. f[i] = f[i - 1] \o ss[i]
        BY <2>1, <4>1, <3>3
      <4> QED BY <3>3, <4>2, <4>3
    <3> QED BY <3>1, <3>2, <3>3
  <2>3. g = [i \in 1..(n + 1) |-> IF i = 1 THEN ss[i] ELSE g[i - 1] \o ss[i]]
    <3>1. DOMAIN g = 1..(n + 1) /\ g = [i \in 1..(n + 1) |-> g[i]]
      OBVIOUS
    <3> HIDE DEF g
    <3> QED BY <2>2, <3>1
  <2>4. Upto(n + 1)
    <3> HIDE DEF g
    <3> QED BY <2>3
  <2> HIDE DEF g, Upto
  <2> QED BY <2>4
<1>3. Nat \subseteq S
  <2> HIDE DEF S
  <2> QED BY <1>1, <1>2, Induction
<1>4. Upto(Len(ss))
  BY <1>3
<1> QED BY <1>4 DEF Flattens

(* What FlattenSeq is: the last of the partial results.                     *)
LEMMA FlattenSteps ==
  ASSUME NEW ss, Len(ss) \in Nat, Len(ss) # 0
  PROVE  \E f : Flattens(f, ss) /\ FlattenSeq(ss) = f[Len(ss)]
<1> DEFINE f == CHOOSE g : g = [i \in 1..Len(ss) |-> IF i = 1 THEN ss[i] ELSE g[i - 1] \o ss[i]]
<1>1. FlattenSeq(ss) = f[Len(ss)]
  BY DEF FlattenSeq
<1>2. \E g : g = [i \in 1..Len(ss) |-> IF i = 1 THEN ss[i] ELSE g[i - 1] \o ss[i]]
  BY FlattensExists DEF Flattens
<1>3. f = [i \in 1..Len(ss) |-> IF i = 1 THEN ss[i] ELSE f[i - 1] \o ss[i]]
  BY <1>2
<1> HIDE DEF f
<1>4. Flattens(f, ss)
  BY <1>3 DEF Flattens
<1> QED BY <1>1, <1>4

(* A property of the partial results that every step keeps holds of all.    *)
LEMMA FlattenInduction ==
  ASSUME NEW ss, Len(ss) \in Nat, NEW f, Flattens(f, ss), NEW S,
         Len(ss) # 0 => ss[1] \in S[1],
         \A i \in 1..Len(ss) :
           i < Len(ss) /\ f[i] \in S[i] => f[i] \o ss[i + 1] \in S[i + 1]
  PROVE  \A i \in 1..Len(ss) : f[i] \in S[i]
<1> DEFINE Good == {i \in 1..Len(ss) : f[i] \in S[i]}
<1>1. CASE Len(ss) = 0
  BY <1>1
<1>2. CASE Len(ss) # 0
  <2>1. 1 \in Good
    BY <1>2 DEF Flattens
  <2>2. ASSUME NEW i \in 1..Len(ss), i \in Good, i < Len(ss) PROVE i + 1 \in Good
    <3>1. i + 1 \in 1..Len(ss) /\ i + 1 # 1 /\ (i + 1) - 1 = i
      BY <2>2
    <3>2. f[i + 1] = f[i] \o ss[i + 1]
      BY <3>1 DEF Flattens
    <3> QED BY <3>1, <3>2, <2>2
  <2>3. 1..Len(ss) \subseteq Good
    <3> HIDE DEF Good
    <3> QED BY <2>1, <2>2, InductionTo
  <2> QED BY <2>3
<1> QED BY <1>1, <1>2

(* What a sequence holds.                                                   *)
Items(s) == {s[k] : k \in 1..Len(s)}

(* Joined sequences hold what either holds.                                 *)
LEMMA ItemsOfJoin ==
  ASSUME NEW T, NEW s \in Seq(T), NEW t \in Seq(T)
  PROVE  Items(s \o t) = Items(s) \cup Items(t)
<1>1. Len(s \o t) = Len(s) + Len(t) /\ Len(s) \in Nat /\ Len(t) \in Nat
  OBVIOUS
<1>2. ASSUME NEW k \in 1..Len(s \o t) PROVE (s \o t)[k] \in Items(s) \cup Items(t)
  <2>1. CASE k <= Len(s)
    <3>1. (s \o t)[k] = s[k] /\ k \in 1..Len(s)
      BY <2>1, <1>1
    <3> QED BY <3>1 DEF Items
  <2>2. CASE k > Len(s)
    <3>1. (s \o t)[k] = t[k - Len(s)] /\ k - Len(s) \in 1..Len(t)
      BY <2>2, <1>1
    <3> QED BY <3>1 DEF Items
  <2> QED BY <2>1, <2>2, <1>1
<1>3. ASSUME NEW k \in 1..Len(s) PROVE s[k] \in Items(s \o t)
  <2>1. k \in 1..Len(s \o t) /\ (s \o t)[k] = s[k]
    BY <1>1
  <2> QED BY <2>1 DEF Items
<1>4. ASSUME NEW k \in 1..Len(t) PROVE t[k] \in Items(s \o t)
  <2>1. Len(s) + k \in 1..Len(s \o t) /\ (s \o t)[Len(s) + k] = t[k]
    BY <1>1
  <2> QED BY <2>1 DEF Items
<1>5. Items(s \o t) \subseteq Items(s) \cup Items(t)
  <2>1. SUFFICES ASSUME NEW x \in Items(s \o t) PROVE x \in Items(s) \cup Items(t)
    OBVIOUS
  <2>2. PICK k \in 1..Len(s \o t) : x = (s \o t)[k]
    BY DEF Items
  <2> QED BY <2>2, <1>2
<1>6. Items(s) \subseteq Items(s \o t) /\ Items(t) \subseteq Items(s \o t)
  BY <1>3, <1>4 DEF Items
<1> QED BY <1>5, <1>6

(* A flattened sequence holds what the sequences in it hold.                *)
LEMMA FlattenItems ==
  ASSUME NEW T, NEW ss \in Seq(Seq(T))
  PROVE  /\ FlattenSeq(ss) \in Seq(T)
         /\ Items(FlattenSeq(ss)) = UNION {Items(ss[i]) : i \in 1..Len(ss)}
<1>1. Len(ss) \in Nat /\ \A i \in 1..Len(ss) : ss[i] \in Seq(T)
  OBVIOUS
<1>2. CASE Len(ss) = 0
  <2>1. ss = <<>>
    BY <1>2
  <2>2. FlattenSeq(ss) = <<>>
    BY <2>1, <1>2 DEF FlattenSeq
  <2>3. <<>> \in Seq(T) /\ Len(<<>>) = 0
    OBVIOUS
  <2>4. Items(<<>>) = {}
    BY <2>3 DEF Items
  <2> QED BY <2>2, <2>3, <2>4, <1>2
<1>3. CASE Len(ss) # 0
  <2>1. PICK f : Flattens(f, ss) /\ FlattenSeq(ss) = f[Len(ss)]
    BY <1>1, <1>3, FlattenSteps
  <2> DEFINE Upto(i) == UNION {Items(ss[j]) : j \in 1..i}
             S == [i \in 1..Len(ss) |-> {s \in Seq(T) : Items(s) = Upto(i)}]
  <2>2. ss[1] \in S[1]
    <3>1. Upto(1) = Items(ss[1])
      <4>1. 1..1 = {1}
        OBVIOUS
      <4> QED BY <4>1
    <3>2. 1 \in 1..Len(ss)
      BY <1>1, <1>3
    <3> QED BY <3>1, <3>2, <1>1
  <2>3. ASSUME NEW i \in 1..Len(ss), i < Len(ss), f[i] \in S[i]
        PROVE  f[i] \o ss[i + 1] \in S[i + 1]
    <3>1. i + 1 \in 1..Len(ss) /\ ss[i + 1] \in Seq(T)
      BY <1>1, <2>3
    <3>2. f[i] \in Seq(T) /\ Items(f[i]) = Upto(i)
      BY <2>3
    <3>3. Items(f[i] \o ss[i + 1]) = Upto(i) \cup Items(ss[i + 1])
      BY <3>1, <3>2, ItemsOfJoin
    <3>4. Upto(i + 1) = Upto(i) \cup Items(ss[i + 1])
      <4>1. 1..(i + 1) = (1..i) \cup {i + 1}
        OBVIOUS
      <4> QED BY <4>1
    <3>5. f[i] \o ss[i + 1] \in Seq(T)
      BY <3>1, <3>2
    <3> HIDE DEF Upto
    <3> QED BY <3>1, <3>3, <3>4, <3>5
  <2>4. \A i \in 1..Len(ss) : f[i] \in S[i]
    <3> HIDE DEF S
    <3> QED BY <1>1, <2>1, <2>2, <2>3, FlattenInduction
  <2>5. Len(ss) \in 1..Len(ss)
    BY <1>1, <1>3
  <2>6. f[Len(ss)] \in S[Len(ss)]
    BY <2>4, <2>5
  <2> QED BY <2>1, <2>5, <2>6
<1> QED BY <1>2, <1>3

-----------------------------------------------------------------------------
(* What NewRegistry builds                                                  *)

(* The paths of an entry are those of its operations, in any order.         *)
PathsOf(def) == UNION {Items(op) : op \in def.operations}

(* A registry of these services: entry i is service i, with the paths of    *)
(* its operations in some order.                                            *)
RegistryOf(reg, services) ==
  /\ DOMAIN reg = 1..Len(services)
  /\ \A i \in 1..Len(services) :
       /\ reg[i].def = services[i]
       /\ reg[i].paths \in Seq(Path)
       /\ Items(reg[i].paths) = PathsOf(services[i])

(* The operations in any order hold every operation.                        *)
LEMMA Arranged ==
  ASSUME NEW S, IsFiniteSet(S), NEW ops \in SetToSeqs(S)
  PROVE  ops \in Seq(S) /\ Items(ops) = S
<1>1. Cardinality(S) \in Nat
  BY FS_CardinalityType
<1> DEFINE n == Cardinality(S)
<1>2. ops \in [1..n -> S] /\ \A i, j \in 1..n : i # j => ops[i] # ops[j]
  BY DEF SetToSeqs
<1>3. ops \in Seq(S) /\ Len(ops) = n
  BY <1>1, <1>2
<1>4. ops \in Injection(1..n, S)
  BY <1>2 DEF Injection, IsInjective
<1>5. IsFiniteSet(1..n) /\ Cardinality(1..n) = n
  BY <1>1, FS_Interval
<1>6. ops \in Surjection(1..n, S)
  BY <1>4, <1>5, FS_Injection
<1>7. \A x \in S : \E i \in 1..n : ops[i] = x
  BY <1>6 DEF Surjection
<1>8. S \subseteq Items(ops)
  BY <1>3, <1>7 DEF Items
<1>9. Items(ops) \subseteq S
  BY <1>2, <1>3 DEF Items
<1> QED BY <1>3, <1>8, <1>9

(* The registries of a list of services are lists of these services, with   *)
(* the paths of their operations.                                           *)
LEMMA RegistryBuilt ==
  ASSUME NEW services \in Seq(Def), \A i \in DOMAIN services : IsFiniteSet(services[i].operations),
         NEW reg \in NewRegistry(services)
  PROVE  RegistryOf(reg, services)
<1> DEFINE arranged(s) == {FlattenSeq(ops) : ops \in SetToSeqs(s.operations)}
<1>1. PICK o \in [DOMAIN services -> UNION {arranged(services[i]) : i \in DOMAIN services}] :
        /\ \A i \in DOMAIN services : o[i] \in arranged(services[i])
        /\ reg = [i \in DOMAIN services |-> [def |-> services[i], paths |-> o[i]]]
  BY DEF NewRegistry
<1>2. DOMAIN services = 1..Len(services)
  OBVIOUS
<1>3. ASSUME NEW i \in 1..Len(services)
      PROVE  o[i] \in Seq(Path) /\ Items(o[i]) = PathsOf(services[i])
  <2> DEFINE s == services[i]
  <2>1. s \in Def /\ IsFiniteSet(s.operations)
    BY <1>2
  <2>2. s.operations \subseteq Seq(Path)
    BY <2>1 DEF Def
  <2> HIDE DEF s
  <2>3. PICK ops \in SetToSeqs(s.operations) : o[i] = FlattenSeq(ops)
    BY <1>1, <1>2 DEF s
  <2>4. ops \in Seq(s.operations) /\ Items(ops) = s.operations
    BY <2>1, Arranged
  <2>5. ops \in Seq(Seq(Path))
    BY <2>2, <2>4
  <2>6. o[i] \in Seq(Path) /\ Items(o[i]) = UNION {Items(ops[k]) : k \in 1..Len(ops)}
    BY <2>3, <2>5, FlattenItems
  <2>7. {Items(ops[k]) : k \in 1..Len(ops)} = {Items(op) : op \in s.operations}
    <3>1. \A op : op \in s.operations <=> \E k \in 1..Len(ops) : op = ops[k]
      BY <2>4 DEF Items
    <3> QED BY <3>1
  <2> QED BY <2>6, <2>7 DEF PathsOf, s
<1> QED BY <1>1, <1>2, <1>3 DEF RegistryOf

-----------------------------------------------------------------------------
(* What a request is routed to                                              *)

(* The last of some entries is one of them, unless there are none.          *)
LEMMA LatestIn ==
  ASSUME NEW n \in Nat, NEW T, T \subseteq 1..n
  PROVE  /\ Latest(T) # NoDef => Latest(T) \in T /\ \A k \in T : k <= Latest(T)
         /\ Latest(T) = NoDef => T = {}
<1>1. CASE T = {}
  BY <1>1 DEF Latest
<1>2. CASE T # {}
  <2>1. Max(T) \in T /\ \A k \in T : k <= Max(T)
    BY <1>2, GreatestOf
  <2>2. Latest(T) = Max(T)
    BY <1>2 DEF Latest
  <2> HIDE DEF NoDef
  <2>3. NoDef = 0
    BY DEF NoDef
  <2> QED BY <2>1, <2>2, <2>3
<1> QED BY <1>1, <1>2

(* Resolve picks one of the entries, whose model is the one asked for; and  *)
(* the last of those with its model and its default mark.                   *)
LEMMA ResolveIn ==
  ASSUME NEW n \in Nat, NEW reg, NEW entries, entries \subseteq 1..n, NEW model,
         Resolve(reg, entries, model) # NoDef
  PROVE  LET d == Resolve(reg, entries, model) IN
         /\ d \in entries
         /\ model = NoModel \/ model = reg[d].def.model
         /\ \A k \in entries :
              /\ reg[k].def.model = reg[d].def.model
              /\ reg[k].def.default = reg[d].def.default
              => k <= d
<1> DEFINE d == Resolve(reg, entries, model)
           defaults == {i \in entries : reg[i].def.default}
           single == Cardinality({reg[i].def.model : i \in entries}) = 1
<1>1. CASE model # NoModel
  <2>1. d = Latest(Named(reg, entries, model))
    BY <1>1 DEF Resolve
  <2>2. Named(reg, entries, model) \subseteq 1..n
    BY DEF Named
  <2>3. d \in Named(reg, entries, model) /\ \A k \in Named(reg, entries, model) : k <= d
    BY <2>1, <2>2, LatestIn
  <2> QED BY <2>3 DEF Named
<1>2. CASE model = NoModel /\ single
  <2>1. d = Latest(entries)
    BY <1>2 DEF Resolve
  <2>2. d \in entries /\ \A k \in entries : k <= d
    BY <2>1, LatestIn
  <2> HIDE DEF d
  <2> QED BY <2>2, <1>2 DEF d
<1>3. CASE model = NoModel /\ ~single
  <2>1. d = Latest(defaults)
    BY <1>3 DEF Resolve
  <2>2. defaults \subseteq 1..n
    OBVIOUS
  <2>3. d \in defaults /\ \A k \in defaults : k <= d
    <3> HIDE DEF defaults
    <3> QED BY <2>1, <2>2, LatestIn
  <2> HIDE DEF d
  <2>4. \A k \in entries : reg[k].def.default = reg[d].def.default => k <= d
    BY <2>3
  <2> QED BY <2>3, <2>4, <1>3 DEF d
<1> QED BY <1>1, <1>2, <1>3

(* The entries of a path are those that have it.                            *)
LEMMA ByPathIs ==
  ASSUME NEW reg, NEW p
  PROVE  /\ ByPath(reg, p) = {i \in Indexed(reg) : p \in Items(reg[i].paths)}
         /\ ByPath(reg, p) \subseteq DOMAIN reg
<1>1. \A i : Contains(reg[i].paths, p) <=> p \in Items(reg[i].paths)
  BY DEF Contains, Items
<1> QED BY <1>1 DEF ByPath, Indexed

(* The indexed paths are paths.                                             *)
LEMMA IndexedPathsType ==
  ASSUME NEW services, Len(services) \in Nat, NEW reg, RegistryOf(reg, services)
  PROVE  IndexedPaths(reg) \in Seq(Path)
<1> DEFINE ss == [i \in DOMAIN reg |-> IF i \in Indexed(reg) THEN reg[i].paths ELSE <<>>]
<1>1. \A i \in 1..Len(services) : ss[i] \in Seq(Path)
  BY DEF RegistryOf
<1>2. ss \in Seq(Seq(Path))
  <2>1. DOMAIN ss = 1..Len(services)
    BY DEF RegistryOf
  <2> QED BY <1>1, <2>1
<1>3. IndexedPaths(reg) = FlattenSeq(ss)
  BY DEF IndexedPaths
<1> HIDE DEF ss
<1> QED BY <1>2, <1>3, FlattenItems

(* A path that fits a URL, and the entries that it leads to.                *)
FitsExactly(p, url)  == p = Exact(url)
(* A URL that the pattern matches with some model.                          *)
FitsPattern(p, url)  == p.kind = "pattern" /\ match(p, url) # NoModel
(* A URL under the wildcard.                                                *)
FitsWildcard(p, url) == p.kind = "wildcard" /\ under(p.before, url)

(* The route of a request is by a path that fits, among its entries.        *)
LEMMA RouteSyncIs ==
  ASSUME NEW services, Len(services) \in Nat, NEW reg, RegistryOf(reg, services),
         NEW url, NEW model, RouteSync(reg, url, model) # NoDef
  PROVE  \E p :
           LET d == RouteSync(reg, url, model)
               entries == ByPath(reg, p)
           IN \/ FitsExactly(p, url) /\ d = Resolve(reg, entries, model)
              \/ p \in Path /\ FitsPattern(p, url) /\ d = Latest(Named(reg, entries, match(p, url)))
              \/ p \in Path /\ FitsWildcard(p, url) /\ d = Resolve(reg, entries, model)
<1> DEFINE d == RouteSync(reg, url, model)
           paths == IndexedPaths(reg)
           I == {i \in 1..Len(paths) : paths[i].kind = "pattern" /\ match(paths[i], url) # NoModel}
           J == {i \in 1..Len(paths) : paths[i].kind = "wildcard" /\ under(paths[i].before, url)}
           exact == ByPath(reg, Exact(url))
<1>1. d = IF exact # {} THEN Resolve(reg, exact, model)
          ELSE LET p == IF I # {} THEN Min(I) ELSE 0
                   w == IF J # {} THEN Min(J) ELSE 0
               IN IF p # 0 THEN Latest(Named(reg, ByPath(reg, paths[p]), match(paths[p], url)))
                  ELSE IF w # 0 THEN Resolve(reg, ByPath(reg, paths[w]), model)
                  ELSE NoDef
  BY DEF RouteSync, SelectInSeq
<1>2. paths \in Seq(Path)
  BY IndexedPathsType
<1>3. Len(paths) \in Nat /\ I \subseteq 1..Len(paths) /\ J \subseteq 1..Len(paths)
  <2> HIDE DEF paths
  <2>1. Len(paths) \in Nat
    BY <1>2
  <2>2. I \subseteq 1..Len(paths) /\ J \subseteq 1..Len(paths)
    OBVIOUS
  <2> QED BY <2>1, <2>2
<1>4. CASE exact # {}
  <2>1. d = Resolve(reg, exact, model) /\ FitsExactly(Exact(url), url)
    BY <1>1, <1>4 DEF FitsExactly
  <2> QED BY <2>1
<1>5. CASE exact = {} /\ I # {}
  <2>1. Min(I) \in I
    <3> HIDE DEF I, paths
    <3> QED BY <1>3, <1>5, LeastIndex
  <2>2. paths[Min(I)] \in Path /\ FitsPattern(paths[Min(I)], url) /\ Min(I) # 0
    <3> DEFINE i == Min(I)
    <3>1. i \in 1..Len(paths) /\ paths[i].kind = "pattern" /\ match(paths[i], url) # NoModel
      <4> HIDE DEF i, paths
      <4> QED BY <2>1 DEF i
    <3> HIDE DEF i, paths
    <3>2. paths[i] \in Path /\ i # 0
      BY <1>2, <3>1
    <3> QED BY <3>1, <3>2 DEF FitsPattern, i
  <2>3. d = Latest(Named(reg, ByPath(reg, paths[Min(I)]), match(paths[Min(I)], url)))
    <3> HIDE DEF I, J, d, paths, exact
    <3> QED BY <1>1, <1>5, <2>2
  <2> HIDE DEF I, paths
  <2> QED BY <2>2, <2>3
<1>6. CASE exact = {} /\ I = {}
  <2>1. d = IF J # {} /\ Min(J) # 0 THEN Resolve(reg, ByPath(reg, paths[Min(J)]), model) ELSE NoDef
    <3> HIDE DEF I, J, d, paths, exact
    <3> QED BY <1>1, <1>6
  <2>2. J # {} /\ d = Resolve(reg, ByPath(reg, paths[Min(J)]), model)
    <3> HIDE DEF J, paths
    <3> QED BY <2>1
  <2>3. Min(J) \in J
    <3> HIDE DEF J, paths
    <3> QED BY <1>3, <2>2, LeastIndex
  <2>4. paths[Min(J)] \in Path /\ FitsWildcard(paths[Min(J)], url)
    BY <1>2, <2>3 DEF FitsWildcard
  <2> HIDE DEF J, paths
  <2> QED BY <2>2, <2>4
<1> QED BY <1>4, <1>5, <1>6

(* What it is to be a prefix and a suffix, element by element.              *)
LEMMA PrefixIs ==
  ASSUME NEW T, NEW s \in Seq(T), NEW t \in Seq(T), IsPrefix(s, t)
  PROVE  Len(s) <= Len(t) /\ \A k \in 1..Len(s) : s[k] = t[k]
<1>1. Len(s) <= Len(t) /\ SubSeq(s, 1, Len(s)) = SubSeq(t, 1, Len(s))
  BY DEF IsPrefix
<1>2. ASSUME NEW k \in 1..Len(s) PROVE s[k] = t[k]
  <2>1. SubSeq(s, 1, Len(s))[k] = s[k] /\ SubSeq(t, 1, Len(s))[k] = t[k]
    BY <1>1
  <2> QED BY <1>1, <2>1
<1> QED BY <1>1, <1>2

(* So for the suffix.                                                       *)
LEMMA SuffixIs ==
  ASSUME NEW T, NEW s \in Seq(T), NEW t \in Seq(T), IsSuffix(s, t)
  PROVE  Len(s) <= Len(t) /\ \A k \in 1..Len(s) : s[k] = t[Len(t) - Len(s) + k]
<1> DEFINE rs == Reverse(s)  rt == Reverse(t)
<1>1. /\ rs \in Seq(T) /\ Len(rs) = Len(s) /\ \A k \in 1..Len(s) : rs[k] = s[(Len(s) - k) + 1]
      /\ rt \in Seq(T) /\ Len(rt) = Len(t) /\ \A k \in 1..Len(t) : rt[k] = t[(Len(t) - k) + 1]
  BY DEF Reverse
<1>2. Len(rs) <= Len(rt) /\ \A k \in 1..Len(rs) : rs[k] = rt[k]
  <2>1. IsPrefix(rs, rt)
    BY DEF IsSuffix
  <2> HIDE DEF rs, rt
  <2> QED BY <1>1, <2>1, PrefixIs
<1> HIDE DEF rs, rt
<1>3. ASSUME NEW k \in 1..Len(s) PROVE s[k] = t[Len(t) - Len(s) + k]
  <2> DEFINE i == (Len(s) - k) + 1
  <2>1. i \in 1..Len(s) /\ i \in 1..Len(t) /\ (Len(s) - i) + 1 = k /\ (Len(t) - i) + 1 = Len(t) - Len(s) + k
    BY <1>1, <1>2
  <2> HIDE DEF i
  <2>2. rs[i] = s[k] /\ rt[i] = t[Len(t) - Len(s) + k] /\ rs[i] = rt[i]
    BY <2>1, <1>1, <1>2
  <2> QED BY <2>2
<1> QED BY <1>1, <1>2, <1>3

(* A sequence is its prefix, its middle and its suffix.                     *)
LEMMA ThreeParts ==
  ASSUME NEW T, NEW s \in Seq(T), NEW a \in Seq(T), NEW c \in Seq(T),
         IsPrefix(a, s), IsSuffix(c, s), Len(s) >= Len(a) + Len(c)
  PROVE  s = a \o SubSeq(s, Len(a) + 1, Len(s) - Len(c)) \o c
<1> DEFINE m == SubSeq(s, Len(a) + 1, Len(s) - Len(c))
           l == Len(s) - Len(c) - Len(a)
<1>1. Len(s) \in Nat /\ Len(a) \in Nat /\ Len(c) \in Nat /\ l \in Nat
  OBVIOUS
<1>2. m \in Seq(T) /\ Len(m) = l /\ \A k \in 1..l : m[k] = s[Len(a) + k]
  OBVIOUS
<1> HIDE DEF m
<1>3. \A k \in 1..Len(a) : a[k] = s[k]
  BY PrefixIs
<1>4. \A k \in 1..Len(c) : c[k] = s[Len(s) - Len(c) + k]
  BY SuffixIs
<1>5. (a \o m) \o c \in Seq(T) /\ Len((a \o m) \o c) = Len(s)
  BY <1>1, <1>2
<1>6. ASSUME NEW k \in 1..Len(s) PROVE s[k] = ((a \o m) \o c)[k]
  <2>1. CASE k <= Len(a)
    <3>1. ((a \o m) \o c)[k] = a[k] /\ k \in 1..Len(a)
      BY <2>1, <1>1, <1>2
    <3> QED BY <3>1, <1>3
  <2>2. CASE k > Len(a) /\ k <= Len(a) + l
    <3>1. ((a \o m) \o c)[k] = m[k - Len(a)] /\ k - Len(a) \in 1..l
      BY <2>2, <1>1, <1>2
    <3>2. Len(a) + (k - Len(a)) = k
      BY <1>1
    <3> QED BY <3>1, <3>2, <1>2
  <2>3. CASE k > Len(a) + l
    <3>1. ((a \o m) \o c)[k] = c[k - Len(a) - l] /\ k - Len(a) - l \in 1..Len(c)
      BY <2>3, <1>1, <1>2
    <3>2. Len(s) - Len(c) + (k - Len(a) - l) = k
      BY <1>1
    <3> QED BY <3>1, <3>2, <1>4
  <2>4. k <= Len(a) \/ (k > Len(a) /\ k <= Len(a) + l) \/ k > Len(a) + l
    BY <1>1
  <2> QED BY <2>1, <2>2, <2>3, <2>4
<1>7. s = (a \o m) \o c
  <2> DEFINE w == (a \o m) \o c
  <2>1. w \in Seq(T) /\ Len(s) = Len(w) /\ \A k \in 1..Len(s) : s[k] = w[k]
    BY <1>5, <1>6
  <2>2. s = w
    <3> HIDE DEF w
    <3> QED BY <2>1, SeqEqual
  <2> QED BY <2>2
<1> QED BY <1>7 DEF m

(* A part of length one.                                                    *)
LEMMA OneItem ==
  ASSUME NEW T, NEW s \in Seq(T), NEW k \in 1..Len(s)
  PROVE  SubSeq(s, k, k) = <<s[k]>>
<1>1. Len(s) \in Nat /\ k \in Int /\ (k - k) + 1 = 1
  OBVIOUS
<1>2. SubSeq(s, k, k) \in Seq(T) /\ Len(SubSeq(s, k, k)) = 1 /\ SubSeq(s, k, k)[1] = s[k]
  BY <1>1
<1>3. \A t \in Seq(T) : Len(t) = 1 => t = <<t[1]>>
  OBVIOUS
<1> QED BY <1>2, <1>3

(* A URL that a pattern matches is the pattern with the model in its hole.  *)
LEMMA MatchIs ==
  ASSUME NEW p \in Path, NEW url \in Url, match(p, url) # NoModel
  PROVE  url = p.before \o <<p.pre \o match(p, url) \o p.suf>> \o p.after
<1> DEFINE hole == Len(p.before) + 1
           seg  == url[hole]
<1>1. /\ p.before \in Seq(Seq(STRING)) /\ p.after \in Seq(Seq(STRING))
      /\ p.pre \in Seq(STRING) /\ p.suf \in Seq(STRING) /\ url \in Seq(Seq(STRING))
  BY DEF Path, Url
<1>2. /\ Len(url) = hole + Len(p.after)
      /\ IsPrefix(p.before, url) /\ IsSuffix(p.after, url)
      /\ match(p, url) = matchModelSegment(p, seg)
  BY DEF match
<1>3. /\ IsPrefix(p.pre, seg) /\ IsSuffix(p.suf, seg)
      /\ Len(seg) >= Len(p.pre) + Len(p.suf)
      /\ match(p, url) = SubSeq(seg, Len(p.pre) + 1, Len(seg) - Len(p.suf))
  <2> HIDE DEF seg
  <2> QED BY <1>2 DEF matchModelSegment
<1>4. Len(p.before) \in Nat /\ Len(p.after) \in Nat /\ hole \in 1..Len(url)
  <2>1. Len(p.before) \in Nat /\ Len(p.after) \in Nat /\ Len(url) \in Nat
    BY <1>1
  <2>2. Len(url) = Len(p.before) + 1 + Len(p.after)
    BY <1>2
  <2>3. \A a, b, c \in Nat : c = a + 1 + b => a + 1 \in 1..c
    OBVIOUS
  <2> QED BY <2>1, <2>2, <2>3
<1>5. seg \in Seq(STRING)
  BY <1>1, <1>4
<1>6. seg = p.pre \o match(p, url) \o p.suf
  <2> HIDE DEF seg
  <2> QED BY <1>1, <1>3, <1>5, ThreeParts
<1>7. url = p.before \o SubSeq(url, Len(p.before) + 1, Len(url) - Len(p.after)) \o p.after
  <2>1. Len(url) >= Len(p.before) + Len(p.after)
    BY <1>2, <1>4
  <2> QED BY <1>1, <1>2, <2>1, ThreeParts
<1>8. SubSeq(url, Len(p.before) + 1, Len(url) - Len(p.after)) = <<seg>>
  <2>1. Len(url) - Len(p.after) = hole
    BY <1>2, <1>4
  <2>2. SubSeq(url, hole, hole) = <<seg>>
    BY <1>1, <1>4, OneItem
  <2> QED BY <2>1, <2>2
<1> QED BY <1>6, <1>7, <1>8

(* Where a request is routed to has a path that fits the URL, and the model *)
(* that the URL or the request names.                                       *)
LEMMA RouteFits ==
  ASSUME NEW services \in Seq(Def), NEW reg, RegistryOf(reg, services),
         NEW url \in Url, NEW model, RouteSync(reg, url, model) # NoDef
  PROVE  LET d == RouteSync(reg, url, model) IN
         /\ d \in Indexed(reg)
         /\ \E i \in DOMAIN reg[d].paths :
              LET p == reg[d].paths[i]  alias == reg[d].def.model IN
              CASE p.kind = "exact"    -> p.before = url /\ model \in {NoModel, alias}
                [] p.kind = "wildcard" -> under(p.before, url) /\ model \in {NoModel, alias}
                [] p.kind = "pattern"  ->
                     url = p.before \o <<p.pre \o alias \o p.suf>> \o p.after
<1> DEFINE d == RouteSync(reg, url, model)
           n == Len(services)
           Fits(p) ==
             LET alias == reg[d].def.model IN
             CASE p.kind = "exact"    -> p.before = url /\ model \in {NoModel, alias}
               [] p.kind = "wildcard" -> under(p.before, url) /\ model \in {NoModel, alias}
               [] p.kind = "pattern"  ->
                    url = p.before \o <<p.pre \o alias \o p.suf>> \o p.after
<1>1. n \in Nat /\ DOMAIN reg = 1..n
  BY DEF RegistryOf
<1>2. PICK p :
        \/ FitsExactly(p, url) /\ d = Resolve(reg, ByPath(reg, p), model)
        \/ p \in Path /\ FitsPattern(p, url) /\ d = Latest(Named(reg, ByPath(reg, p), match(p, url)))
        \/ p \in Path /\ FitsWildcard(p, url) /\ d = Resolve(reg, ByPath(reg, p), model)
  BY <1>1, RouteSyncIs
<1> HIDE DEF d, n
<1>3. d # NoDef
  BY DEF d
<1>4. ByPath(reg, p) \subseteq 1..n
  BY <1>1, ByPathIs
<1>5. d \in ByPath(reg, p) /\ Fits(p)
  <2>1. CASE FitsExactly(p, url) /\ d = Resolve(reg, ByPath(reg, p), model)
    <3>1. d \in ByPath(reg, p) /\ model \in {NoModel, reg[d].def.model}
      BY <1>1, <1>3, <1>4, <2>1, ResolveIn
    <3>2. p.kind = "exact" /\ p.before = url
      BY <2>1 DEF FitsExactly, Exact
    <3> QED BY <3>1, <3>2
  <2>2. CASE p \in Path /\ FitsPattern(p, url) /\ d = Latest(Named(reg, ByPath(reg, p), match(p, url)))
    <3>1. Named(reg, ByPath(reg, p), match(p, url)) \subseteq 1..n
      BY <1>4 DEF Named
    <3>2. d \in Named(reg, ByPath(reg, p), match(p, url))
      BY <1>1, <1>3, <2>2, <3>1, LatestIn
    <3>3. d \in ByPath(reg, p) /\ reg[d].def.model = match(p, url)
      BY <3>2 DEF Named
    <3>4. p.kind = "pattern" /\ match(p, url) # NoModel
      BY <2>2 DEF FitsPattern
    <3>5. url = p.before \o <<p.pre \o match(p, url) \o p.suf>> \o p.after
      BY <2>2, <3>4, MatchIs
    <3>6. url = p.before \o <<p.pre \o reg[d].def.model \o p.suf>> \o p.after
      BY <3>3, <3>5
    <3> QED BY <3>3, <3>4, <3>6
  <2>3. CASE p \in Path /\ FitsWildcard(p, url) /\ d = Resolve(reg, ByPath(reg, p), model)
    <3>1. d \in ByPath(reg, p) /\ model \in {NoModel, reg[d].def.model}
      BY <1>1, <1>3, <1>4, <2>3, ResolveIn
    <3>2. p.kind = "wildcard" /\ under(p.before, url)
      BY <2>3 DEF FitsWildcard
    <3> QED BY <3>1, <3>2
  <2> QED BY <1>2, <2>1, <2>2, <2>3
<1> HIDE DEF Fits
<1>6. d \in Indexed(reg) /\ p \in Items(reg[d].paths)
  BY <1>5, ByPathIs
<1>7. d \in 1..n /\ reg[d].paths \in Seq(Path)
  BY <1>1, <1>4, <1>5 DEF RegistryOf, n
<1>8. PICK i \in DOMAIN reg[d].paths : reg[d].paths[i] = p
  BY <1>6, <1>7 DEF Items
<1>9. \E j \in DOMAIN reg[d].paths : Fits(reg[d].paths[j])
  BY <1>5, <1>8
<1> QED BY <1>6, <1>9 DEF Fits, d

(* An entry that says the same of itself as another, as far as routing goes.*)
Repeats(def, other) ==
  /\ def.model = other.model
  /\ def.default = other.default
  /\ def.backend = other.backend
  /\ def.operations = other.operations

(* The entry that a request is routed to is the last of those that repeat   *)
(* it.                                                                      *)
LEMMA RouteIsLast ==
  ASSUME NEW services \in Seq(Def), NEW reg, RegistryOf(reg, services),
         NEW url, NEW model, RouteSync(reg, url, model) # NoDef,
         NEW k \in DOMAIN reg, Repeats(reg[k].def, reg[RouteSync(reg, url, model)].def)
  PROVE  k <= RouteSync(reg, url, model)
<1> DEFINE d == RouteSync(reg, url, model)
           n == Len(services)
<1>1. n \in Nat /\ DOMAIN reg = 1..n
  BY DEF RegistryOf
<1>2. PICK p :
        \/ d = Resolve(reg, ByPath(reg, p), model)
        \/ d = Latest(Named(reg, ByPath(reg, p), match(p, url)))
  BY <1>1, RouteSyncIs
<1>3. d # NoDef /\ Repeats(reg[k].def, reg[d].def)
  OBVIOUS
<1> HIDE DEF d, n
<1>4. ByPath(reg, p) \subseteq 1..n
  BY <1>1, ByPathIs
<1>5. d \in ByPath(reg, p) => k \in ByPath(reg, p)
  <2> SUFFICES ASSUME d \in ByPath(reg, p) PROVE k \in ByPath(reg, p)
    OBVIOUS
  <2>1. d \in Indexed(reg) /\ p \in Items(reg[d].paths) /\ d \in 1..n
    BY <1>4, ByPathIs
  <2>2. k \in Indexed(reg)
    BY <1>3, <2>1 DEF Indexed, Repeats
  <2>3. Items(reg[k].paths) = PathsOf(reg[k].def) /\ Items(reg[d].paths) = PathsOf(reg[d].def)
    BY <1>1, <2>1 DEF RegistryOf, n
  <2>4. PathsOf(reg[k].def) = PathsOf(reg[d].def)
    BY <1>3 DEF PathsOf, Repeats
  <2> QED BY <2>1, <2>2, <2>3, <2>4, ByPathIs
<1>6. CASE d = Resolve(reg, ByPath(reg, p), model)
  <2>1. d \in ByPath(reg, p)
    BY <1>1, <1>3, <1>4, <1>6, ResolveIn
  <2>2. \A j \in ByPath(reg, p) :
           reg[j].def.model = reg[d].def.model /\ reg[j].def.default = reg[d].def.default => j <= d
    BY <1>1, <1>3, <1>4, <1>6, ResolveIn
  <2> QED BY <2>1, <2>2, <1>3, <1>5 DEF Repeats, d
<1>7. CASE d = Latest(Named(reg, ByPath(reg, p), match(p, url)))
  <2> DEFINE named == Named(reg, ByPath(reg, p), match(p, url))
  <2>1. named \subseteq 1..n
    BY <1>4 DEF Named
  <2>2. d \in named /\ \A j \in named : j <= d
    <3> HIDE DEF named
    <3> QED BY <1>1, <1>3, <1>7, <2>1, LatestIn DEF named
  <2>3. k \in named
    BY <2>2, <1>3, <1>5 DEF Named, Repeats
  <2> HIDE DEF named
  <2> QED BY <2>2, <2>3 DEF d
<1> QED BY <1>2, <1>6, <1>7

(* The same for the entry that an asynchronous request is routed to.        *)
LEMMA AsyncRouteIsLast ==
  ASSUME NEW services \in Seq(Def), NEW reg, RegistryOf(reg, services),
         NEW type, NEW model, RouteAsync(reg, type, model) # NoDef,
         NEW k \in DOMAIN reg, Repeats(reg[k].def, reg[RouteAsync(reg, type, model)].def),
         reg[k].def.type = type
  PROVE  k <= RouteAsync(reg, type, model)
<1> DEFINE d == RouteAsync(reg, type, model)
           n == Len(services)
<1>1. n \in Nat /\ DOMAIN reg = 1..n
  BY DEF RegistryOf
<1>2. d = Resolve(reg, ByType(reg, type), model) /\ d # NoDef /\ Repeats(reg[k].def, reg[d].def)
  BY DEF RouteAsync
<1>3. ByType(reg, type) \subseteq 1..n /\ k \in ByType(reg, type)
  BY <1>1 DEF ByType
<1> HIDE DEF d, n
<1>4. \A j \in ByType(reg, type) :
         reg[j].def.model = reg[d].def.model /\ reg[j].def.default = reg[d].def.default => j <= d
  BY <1>1, <1>2, <1>3, ResolveIn
<1> QED BY <1>2, <1>3, <1>4 DEF Repeats, d
=============================================================================
