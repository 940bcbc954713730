------------------------- MODULE JobListing_proofs --------------------------
(***************************************************************************)
(* Proofs about ConsumerIndex and JobListing, for any jobs, consumers and  *)
(* clients, any TTL and any page size.                                     *)
(***************************************************************************)
EXTENDS JobListing, FiniteSetTheorems, TLAPS

(***************************************************************************)
(* The index                                                               *)
(***************************************************************************)

(* The store is typed at first.                                             *)
LEMMA IndexTypedInit == ListingInit => IndexTypeOK
BY IndexAssumption DEF ListingInit, IndexInit, IndexTypeOK, Stage, Outcome

(* Each operation of the store leaves it well typed.                        *)
StoreTyped ==
  /\ record \in [Jobs -> {"none", "pending"} \cup Outcome]
  /\ ttl \in [Jobs -> 0..TTL]
  /\ \A j \in Jobs : record[j] # "none" => ttl[j] > 0
  /\ index \in [Consumers -> SUBSET Jobs]
  /\ indexTTL \in [Consumers -> 0..TTL]

(* SaveJob keeps it typed.                                                  *)
LEMMA SaveTyped ==
  ASSUME StoreTyped, NEW j \in Jobs, SaveJob(j)
  PROVE  StoreTyped'
<1> USE IndexAssumption DEF StoreTyped, SaveJob, Put
<1>1. TTL \in 0..TTL /\ TTL > 0
  OBVIOUS
<1>2. /\ record' \in [Jobs -> {"none", "pending"} \cup Outcome]
      /\ ttl' \in [Jobs -> 0..TTL]
      /\ \A i \in Jobs : record'[i] # "none" => ttl'[i] > 0
  BY <1>1
<1>3. index' \in [Consumers -> SUBSET Jobs]
  OBVIOUS
<1>4. indexTTL' \in [Consumers -> 0..TTL]
  BY <1>1
<1> QED
  BY <1>2, <1>3, <1>4

(* So does UpdateJobResult.                                                 *)
LEMMA UpdateTyped ==
  ASSUME StoreTyped, NEW j \in Jobs, NEW status \in Outcome, UpdateJobResult(j, status)
  PROVE  StoreTyped'
<1> USE IndexAssumption DEF StoreTyped, UpdateJobResult, Put
<1>1. TTL \in 0..TTL /\ TTL > 0
  OBVIOUS
<1> QED
  BY <1>1

(* So does DeleteJob.                                                       *)
LEMMA DeleteTyped ==
  ASSUME StoreTyped, NEW j \in Jobs, DeleteJob(j)
  PROVE  StoreTyped'
<1> USE IndexAssumption DEF StoreTyped, DeleteJob
<1>1. /\ record' \in [Jobs -> {"none", "pending"} \cup Outcome]
      /\ ttl' \in [Jobs -> 0..TTL]
      /\ \A i \in Jobs : record'[i] # "none" => ttl'[i] > 0
  OBVIOUS
<1>2. index' \in [Consumers -> SUBSET Jobs]
  OBVIOUS
<1>3. indexTTL' \in [Consumers -> 0..TTL]
  OBVIOUS
<1> QED
  BY <1>1, <1>2, <1>3

(* So does the passing of time.                                             *)
LEMMA TickTyped ==
  ASSUME StoreTyped, Tick
  PROVE  StoreTyped'
<1> USE IndexAssumption DEF StoreTyped, Tick
<1>1. \A n \in 0..TTL : n > 0 => n - 1 \in 0..TTL
  OBVIOUS
<1>2. ttl' \in [Jobs -> 0..TTL] /\ indexTTL' \in [Consumers -> 0..TTL]
  BY <1>1
<1>3. \A i \in Jobs : record'[i] # "none" => ttl'[i] > 0
  <2> SUFFICES ASSUME NEW i \in Jobs, record'[i] # "none" PROVE ttl'[i] > 0
    OBVIOUS
  <2>1. ~(ttl[i] <= 1) /\ ttl[i] \in Nat
    OBVIOUS
  <2> QED
    BY <2>1
<1>4. /\ record' \in [Jobs -> {"none", "pending"} \cup Outcome]
      /\ index' \in [Consumers -> SUBSET Jobs]
  OBVIOUS
<1> QED
  BY <1>2, <1>3, <1>4

(* So does every step of the store.                                         *)
LEMMA IndexTypedNext ==
  ASSUME IndexTypeOK, [IndexNext]_indexVars
  PROVE  IndexTypeOK'
<1>1. StoreTyped /\ stage \in [Jobs -> Stage] /\ cleaners \subseteq Jobs
  BY DEF IndexTypeOK, StoreTyped
<1>2. CASE UNCHANGED indexVars
  BY <1>2 DEF indexVars, storeVars, IndexTypeOK
<1>3. CASE Tick
  <2>1. StoreTyped'
    BY <1>1, <1>3, TickTyped
  <2> QED
    BY <1>1, <1>3, <2>1 DEF Tick, IndexTypeOK, StoreTyped
<1>4. ASSUME NEW j \in Jobs, JobStep(j) PROVE IndexTypeOK'
  <2>1. StoreTyped'
    BY <1>1, <1>4, SaveTyped, UpdateTyped, DeleteTyped
       DEF JobStep, Create, Save, Settle, StartCleanup, Cleanup, storeVars, StoreTyped
  <2>2. stage' \in [Jobs -> Stage] /\ cleaners' \subseteq Jobs
    BY <1>1, <1>4 DEF JobStep, Create, Save, Settle, StartCleanup, Cleanup, Stage
  <2> QED
    BY <2>1, <2>2 DEF IndexTypeOK, StoreTyped
<1> QED
  BY <1>2, <1>3, <1>4 DEF IndexNext

(* Whatever is pending was saved with its index, whose TTL is the longer.   *)
LEMMA PendingListedNext ==
  ASSUME IndexTypeOK, PendingListed, [IndexNext]_indexVars
  PROVE  PendingListed'
<1> SUFFICES ASSUME NEW i \in Jobs, NEW c \in Consumers, Owner[i] = c, record'[i] = "pending"
             PROVE  i \in index'[c] /\ ttl'[i] <= indexTTL'[c]
  BY DEF PendingListed
<1>1. /\ record[i] = "pending" => i \in index[c] /\ ttl[i] <= indexTTL[c]
      /\ record \in [Jobs -> {"none", "pending"} \cup Outcome]
      /\ ttl \in [Jobs -> 0..TTL] /\ indexTTL \in [Consumers -> 0..TTL]
      /\ record[i] # "none" => ttl[i] > 0
      /\ TTL \in Nat
  BY IndexAssumption DEF PendingListed, IndexTypeOK
<1>2. CASE UNCHANGED storeVars
  BY <1>1, <1>2 DEF storeVars
<1>3. CASE Tick
  <2>1. record[i] = "pending" /\ ttl[i] > 1
    BY <1>1, <1>3 DEF Tick
  <2>2. ttl[i] \in Nat /\ indexTTL[c] \in Nat /\ indexTTL[c] > 1
    BY <1>1, <2>1
  <2> QED
    BY <1>1, <1>3, <2>1, <2>2 DEF Tick
<1>4. ASSUME NEW j \in Jobs, SaveJob(j) PROVE i \in index'[c] /\ ttl'[i] <= indexTTL'[c]
  <2>1. CASE i = j
    BY <1>1, <1>4, <2>1 DEF SaveJob, Put
  <2>2. CASE i # j
    <3>1. record[i] = "pending" /\ ttl'[i] = ttl[i]
      BY <1>1, <1>4, <2>2 DEF SaveJob, Put
    <3> QED
      BY <1>1, <1>4, <3>1 DEF SaveJob, Put
  <2> QED
    BY <2>1, <2>2
<1>5. ASSUME NEW j \in Jobs, NEW status \in Outcome, UpdateJobResult(j, status)
      PROVE  i \in index'[c] /\ ttl'[i] <= indexTTL'[c]
  <2>1. i # j
    BY <1>1, <1>5 DEF UpdateJobResult, Put, Outcome
  <2> QED
    BY <1>1, <1>5, <2>1 DEF UpdateJobResult, Put
<1>6. ASSUME NEW j \in Jobs, DeleteJob(j) PROVE i \in index'[c] /\ ttl'[i] <= indexTTL'[c]
  <2>1. i # j /\ record[i] = "pending" /\ ttl'[i] = ttl[i]
    BY <1>1, <1>6 DEF DeleteJob
  <2>2. i \in index[c] \ {j}
    BY <1>1, <2>1
  <2> QED
    BY <1>1, <1>6, <2>1, <2>2 DEF DeleteJob
<1>7. ASSUME NEW j \in Jobs, JobStep(j) PROVE i \in index'[c] /\ ttl'[i] <= indexTTL'[c]
  BY <1>2, <1>4, <1>5, <1>6, <1>7 DEF JobStep, Create, Save, Settle, StartCleanup, Cleanup
<1> QED
  BY <1>2, <1>3, <1>7 DEF IndexNext, indexVars

(***************************************************************************)
(* The walks through the list                                              *)
(***************************************************************************)

(* A step of a client or of the store is one of the store, or leaves it     *)
(* alone.                                                                   *)
LEMMA NextIsIndexed == Next => [IndexNext]_indexVars
BY DEF Next

(* A client's jobs are finitely many.                                       *)
LEMMA MineFinite ==
  ASSUME IndexTypeOK, NEW w \in Clients
  PROVE  Mine(w) \in SUBSET Jobs /\ IsFiniteSet(Mine(w)) /\ Cardinality(Mine(w)) \in Nat
<1>1. Mine(w) \in SUBSET Jobs /\ IsFiniteSet(Jobs)
  BY ListingAssumption DEF IndexTypeOK, Mine
<1>2. IsFiniteSet(Mine(w))
  BY <1>1, FS_Subset
<1> QED
  BY <1>1, <1>2, FS_CardinalityType

(* The rank of a member is below the size of the set ...                    *)
LEMMA RankBelow ==
  ASSUME NEW S, IsFiniteSet(S), NEW j \in S, Score[j] \in Nat, Member[j] \in Nat
  PROVE  Rank(S, j) \in Nat /\ Rank(S, j) < Cardinality(S)
<1> DEFINE later == {i \in S : Precedes(i, j)}
<1>1. later \in SUBSET S /\ later # S
  BY DEF Precedes
<1>2. IsFiniteSet(later) /\ Cardinality(later) \in Nat
  BY <1>1, FS_Subset, FS_CardinalityType
<1>3. Cardinality(later) < Cardinality(S)
  BY <1>1, FS_Subset, FS_CardinalityType
<1> QED
  BY <1>2, <1>3 DEF Rank

(* ... and does not decrease as the set grows.                              *)
LEMMA RankGrows ==
  ASSUME NEW S, NEW T, IsFiniteSet(T), S \subseteq T, NEW j
  PROVE  Rank(S, j) \in Nat /\ Rank(T, j) \in Nat /\ Rank(S, j) <= Rank(T, j)
<1> DEFINE before == {i \in S : Precedes(i, j)}
           after  == {i \in T : Precedes(i, j)}
<1>1. before \in SUBSET after /\ after \in SUBSET T
  OBVIOUS
<1>2. IsFiniteSet(after)
  BY <1>1, FS_Subset
<1>3. /\ Cardinality(before) <= Cardinality(after)
      /\ Cardinality(before) \in Nat /\ Cardinality(after) \in Nat
  BY <1>1, <1>2, FS_Subset, FS_CardinalityType
<1> QED
  BY <1>3 DEF Rank

(* What a walk through the pages holds.                                     *)
WalkState == [pc : WalkPc, offset : Nat, total : Nat, ids : SUBSET Jobs]

(* A walk holds such a thing after every step.                              *)
LEMMA WalkTyped ==
  ASSUME ListingTypeOK, [Next]_vars
  PROVE  walk' \in [Clients -> WalkState]
<1>1. walk \in [Clients -> WalkState] /\ Limit \in Nat
  BY ListingAssumption DEF ListingTypeOK, WalkState
<1>2. CASE UNCHANGED walk
  BY <1>1, <1>2
<1>3. ASSUME NEW w \in Clients, ListStep(w) PROVE walk' \in [Clients -> WalkState]
  <2>1. /\ walk[w].offset \in Nat /\ walk[w].total \in Nat /\ walk[w].ids \in SUBSET Jobs
        /\ walk[w].offset + Limit \in Nat
    BY <1>1 DEF WalkState
  <2>2. Cardinality(Mine(w)) \in Nat /\ Page(Mine(w), walk[w].offset) \in SUBSET Jobs
    BY MineFinite DEF ListingTypeOK, Page, Ranked
  <2>3. ASSUME NEW pc \in WalkPc, NEW offset \in Nat, NEW total \in Nat,
               NEW ids \in SUBSET Jobs, Goes(w, pc, offset, total, ids)
        PROVE  walk' \in [Clients -> WalkState]
    BY <1>1, <2>3 DEF Goes, WalkState
  <2>4. "count" \in WalkPc /\ "range" \in WalkPc /\ "fetch" \in WalkPc /\ "done" \in WalkPc
    BY DEF WalkPc
  <2>5. CASE Answered(w)
    BY <2>1, <2>3, <2>4, <2>5 DEF Answered
  <2>6. CASE Begin(w) \/ ListFails(w) \/ ZCard(w)
    BY <2>1, <2>2, <2>3, <2>4, <2>6 DEF Begin, ListFails, ZCard
  <2>7. CASE Goes(w, "fetch", walk[w].offset, walk[w].total, Page(Mine(w), walk[w].offset))
    BY <2>1, <2>2, <2>3, <2>4, <2>7
  <2> QED
    BY <1>3, <2>5, <2>6, <2>7 DEF ListStep, ZRevRange, MGet
<1> QED
  BY <1>2, <1>3 DEF Next, vars

(* Every step keeps the types.                                              *)
LEMMA ListingTypedNext ==
  ASSUME ListingTypeOK, [Next]_vars
  PROVE  ListingTypeOK'
<1>1. IndexTypeOK'
  BY IndexTypedNext, NextIsIndexed DEF ListingTypeOK, vars, indexVars
<1>2. walk' \in [Clients -> [pc : WalkPc, offset : Nat, total : Nat, ids : SUBSET Jobs]]
  BY WalkTyped DEF WalkState
<1>3. disturbed' \in [Clients -> BOOLEAN] /\ missing' \in [Clients -> SUBSET Jobs]
  <2>1. CASE UNCHANGED vars
    BY <2>1 DEF ListingTypeOK, vars
  <2>2. CASE Next
    <3>1. Observe /\ disturbed \in [Clients -> BOOLEAN] /\ missing \in [Clients -> SUBSET Jobs]
      BY <2>2 DEF ListingTypeOK, Next
    <3>2. \A w \in Clients : (disturbed[w] \/ Disturbs(w)) \in BOOLEAN
      BY <3>1 DEF Disturbs
    <3>3. disturbed' \in [Clients -> BOOLEAN]
      BY <3>1, <3>2 DEF Observe
    <3>4. \A w \in Clients : Present(w) \in SUBSET Jobs
      BY MineFinite DEF Present, ListingTypeOK
    <3> QED
      BY <3>1, <3>3, <3>4, ListingAssumption DEF Observe, ListingTypeOK, IndexTypeOK
  <2> QED
    BY <2>1, <2>2
<1> QED
  BY <1>1, <1>2, <1>3 DEF ListingTypeOK

(***************************************************************************)
(* A walk misses nothing                                                   *)
(***************************************************************************)

(* MissingAhead, for one client.                                            *)
Ahead(v) ==
  /\ walk[v].pc = "idle" => ~disturbed[v]
  /\ disturbed[v] \/ ~Walking(v) => missing[v] = {}
  /\ missing[v] \subseteq Present(v)
  /\ walk[v].pc = "range" /\ ~disturbed[v] => walk[v].total = Cardinality(Mine(v))
  /\ \A j \in missing[v] :
       /\ Rank(Mine(v), j) >= walk[v].offset
       /\ walk[v].pc = "fetch" /\ j \notin walk[v].ids =>
            /\ Rank(Mine(v), j) >= walk[v].offset + Limit
            /\ walk[v].offset + Limit < walk[v].total

(* While jobs come and go the client's walk stands still.                   *)
LEMMA AheadAsJobsChange ==
  ASSUME ListingTypeOK, ListingTypeOK', NEW v \in Clients, Ahead(v),
         walk'[v] = walk[v], Observe
  PROVE  Ahead(v)'
<1>1. /\ disturbed'[v] = (disturbed[v] \/ Disturbs(v))
      /\ ~disturbed'[v] => missing'[v] = missing[v] \cap Present(v)'
      /\ disturbed'[v] => missing'[v] = {}
  <2>1. ~(walk[v].pc = "idle" /\ walk'[v].pc # "idle") /\ Given(v) = {}
    BY DEF Given
  <2> QED
    BY <2>1 DEF Observe
<1>2. walk[v].pc = "idle" => ~disturbed'[v]
  BY <1>1 DEF Ahead, Disturbs, Walking
<1>3. disturbed'[v] \/ ~Walking(v) => missing'[v] = {}
  BY <1>1 DEF Ahead
<1>4. missing'[v] \subseteq Present(v)'
  BY <1>1
<1>5. ASSUME walk[v].pc = "range", ~disturbed'[v]
      PROVE  walk[v].total = Cardinality(Mine(v))'
  <2>1. Mine(v)' = Mine(v) /\ ~disturbed[v]
    BY <1>1, <1>5 DEF Disturbs, Walking
  <2> QED
    BY <1>5, <2>1 DEF Ahead
<1>6. ASSUME NEW j \in missing'[v]
      PROVE  /\ j \in missing[v]
             /\ Rank(Mine(v), j) \in Nat /\ Rank(Mine(v)', j) \in Nat
             /\ Rank(Mine(v)', j) >= Rank(Mine(v), j)
  <2>1. j \in missing[v] /\ ~disturbed'[v]
    BY <1>1, <1>6
  <2>2. Mine(v) \subseteq Mine(v)'
    BY <1>1, <2>1 DEF Ahead, Disturbs
  <2>3. IsFiniteSet(Mine(v)')
    <3>1. IndexTypeOK'
      BY DEF ListingTypeOK
    <3>2. Mine(v)' \in SUBSET Jobs
      BY <3>1, ListingAssumption DEF IndexTypeOK, Mine
    <3> QED
      BY <3>2, ListingAssumption, FS_Subset
  <2> QED
    BY <2>1, <2>2, <2>3, RankGrows
<1>7. walk[v].offset \in Nat /\ Limit \in Nat
  BY ListingAssumption DEF ListingTypeOK
<1>8. \A j \in missing'[v] :
        /\ Rank(Mine(v)', j) >= walk[v].offset
        /\ walk[v].pc = "fetch" /\ j \notin walk[v].ids =>
             /\ Rank(Mine(v)', j) >= walk[v].offset + Limit
             /\ walk[v].offset + Limit < walk[v].total
  <2> SUFFICES ASSUME NEW j \in missing'[v]
               PROVE  /\ Rank(Mine(v)', j) >= walk[v].offset
                      /\ walk[v].pc = "fetch" /\ j \notin walk[v].ids =>
                           /\ Rank(Mine(v)', j) >= walk[v].offset + Limit
                           /\ walk[v].offset + Limit < walk[v].total
    OBVIOUS
  <2>1. /\ Rank(Mine(v), j) >= walk[v].offset
        /\ walk[v].pc = "fetch" /\ j \notin walk[v].ids =>
             /\ Rank(Mine(v), j) >= walk[v].offset + Limit
             /\ walk[v].offset + Limit < walk[v].total
    BY <1>6 DEF Ahead
  <2> QED
    BY <1>6, <1>7, <2>1
<1> QED
  BY <1>2, <1>3, <1>4, <1>5, <1>8 DEF Ahead, Walking

(* The client makes its next call; the jobs stand still.                    *)
LEMMA AheadAsWalkMoves ==
  ASSUME ListingTypeOK, NEW v \in Clients, Ahead(v), ListStep(v), UNCHANGED indexVars, Observe
  PROVE  Ahead(v)'
<1>1. Mine(v)' = Mine(v) /\ Present(v)' = Present(v)
  BY DEF Mine, Present, indexVars, storeVars
<1>2. /\ walk[v].offset \in Nat /\ walk[v].total \in Nat /\ walk[v].pc \in WalkPc
      /\ Limit \in Nat /\ Limit > 0 /\ disturbed[v] \in BOOLEAN
  BY ListingAssumption DEF ListingTypeOK
<1>3. ASSUME NEW j \in missing[v]
      PROVE  Rank(Mine(v), j) \in Nat /\ Rank(Mine(v), j) < Cardinality(Mine(v))
  <2>1. j \in Mine(v) /\ j \in Jobs
    BY MineFinite DEF Ahead, Present, ListingTypeOK
  <2>2. Score[j] \in Nat /\ Member[j] \in Nat
    BY <2>1, IndexAssumption
  <2> QED
    BY <2>1, <2>2, MineFinite, RankBelow DEF ListingTypeOK
<1>4. ASSUME NEW pc \in WalkPc, NEW offset, NEW total, NEW ids, Goes(v, pc, offset, total, ids)
      PROVE  /\ walk'[v].pc = pc /\ walk'[v].offset = offset
             /\ walk'[v].total = total /\ walk'[v].ids = ids
  BY <1>4 DEF Goes, ListingTypeOK
<1>5. disturbed'[v] = disturbed[v]
  BY <1>1, <1>2 DEF Observe, Disturbs
<1>6. "count" \in WalkPc /\ "range" \in WalkPc /\ "fetch" \in WalkPc /\ "done" \in WalkPc
  BY DEF WalkPc
<1>7. CASE Begin(v)
  <2>1. /\ walk[v].pc = "idle" /\ walk'[v].pc = "count" /\ walk'[v].offset = 0
    BY <1>4, <1>6, <1>7 DEF Begin
  <2>2. missing'[v] = Present(v) /\ ~disturbed'[v]
    BY <1>5, <2>1 DEF Observe, Ahead
  <2>3. \A j \in missing'[v] : Rank(Mine(v), j) >= 0
    BY <2>2, MineFinite, RankGrows DEF ListingTypeOK, Present
  <2> QED
    BY <1>1, <2>1, <2>2, <2>3 DEF Ahead, Walking
<1>8. ASSUME walk[v].pc # "idle"
      PROVE  /\ disturbed'[v] => missing'[v] = {}
             /\ ~disturbed'[v] => missing'[v] = missing[v] \ Given(v)
  BY <1>1, <1>8 DEF Observe, Ahead
<1>9. CASE ListFails(v)
  <2>1. /\ walk[v].pc # "idle" /\ walk'[v].pc = "count" /\ walk'[v].offset = walk[v].offset
    BY <1>4, <1>6, <1>9 DEF ListFails
  <2>2. missing'[v] \subseteq missing[v]
    BY <1>8, <2>1
  <2> QED
    BY <1>1, <1>8, <2>1, <2>2 DEF Ahead, Walking
<1>10. CASE ZCard(v)
  <2>1. /\ walk[v].pc = "count" /\ walk'[v].pc = "range" /\ walk'[v].offset = walk[v].offset
        /\ walk'[v].total = Cardinality(Mine(v))
    BY <1>4, <1>6, <1>10 DEF ZCard
  <2>2. missing'[v] \subseteq missing[v]
    BY <1>8, <2>1
  <2> QED
    BY <1>1, <1>8, <2>1, <2>2 DEF Ahead, Walking
<1>11. CASE ZRevRange(v) /\ Page(Mine(v), walk[v].offset) # {}
  <2>1. /\ walk[v].pc = "range" /\ walk'[v].pc = "fetch" /\ walk'[v].offset = walk[v].offset
        /\ walk'[v].total = walk[v].total /\ walk'[v].ids = Page(Mine(v), walk[v].offset)
    BY <1>4, <1>6, <1>11 DEF ZRevRange
  <2>2. missing'[v] \subseteq missing[v] /\ missing'[v] \subseteq Present(v)
    BY <1>8, <2>1 DEF Ahead
  <2>3. ASSUME NEW j \in missing'[v], j \notin Page(Mine(v), walk[v].offset)
        PROVE  /\ Rank(Mine(v), j) >= walk[v].offset + Limit
               /\ walk[v].offset + Limit < walk[v].total
    <3>1. j \in missing[v] /\ j \in Mine(v) /\ ~disturbed[v]
      BY <1>5, <1>8, <2>1, <2>2 DEF Present
    <3>2. /\ Rank(Mine(v), j) \in Nat /\ Rank(Mine(v), j) < walk[v].total
          /\ Rank(Mine(v), j) >= walk[v].offset
      BY <1>3, <2>1, <3>1 DEF Ahead
    <3>3. Rank(Mine(v), j) \notin walk[v].offset..(walk[v].offset + Limit - 1)
      BY <2>3, <3>1 DEF Page, Ranked
    <3> QED
      BY <1>2, <3>2, <3>3
  <2>4. \A j \in missing'[v] : Rank(Mine(v), j) >= walk[v].offset
    BY <2>2 DEF Ahead
  <2> QED
    BY <1>1, <1>8, <2>1, <2>2, <2>3, <2>4 DEF Ahead, Walking
<1>12. CASE Answered(v) /\ walk[v].pc \in {"range", "fetch"}
            /\ \A j \in missing'[v] : /\ Rank(Mine(v), j) >= walk[v].offset + Limit
                                      /\ walk[v].offset + Limit < walk[v].total
  <2>1. walk'[v].offset = walk[v].offset + Limit /\ walk'[v].pc \in {"count", "done"}
    BY <1>4, <1>6, <1>12 DEF Answered
  <2>2. walk'[v].pc = "done" => missing'[v] = {}
    BY <1>4, <1>6, <1>12 DEF Answered
  <2>3. missing'[v] \subseteq missing[v] /\ walk[v].pc # "idle"
    BY <1>8, <1>12
  <2> QED
    BY <1>1, <1>8, <1>12, <2>1, <2>2, <2>3 DEF Ahead, Walking
<1>13. CASE ZRevRange(v) /\ Page(Mine(v), walk[v].offset) = {}
  <2>1. walk[v].pc = "range" /\ Answered(v)
    BY <1>13 DEF ZRevRange
  <2>2. ASSUME NEW j \in missing'[v]
        PROVE  /\ Rank(Mine(v), j) >= walk[v].offset + Limit
               /\ walk[v].offset + Limit < walk[v].total
    <3>1. j \in missing[v] /\ ~disturbed[v]
      BY <1>5, <1>8, <2>1
    <3>2. /\ Rank(Mine(v), j) \in Nat /\ Rank(Mine(v), j) < walk[v].total
          /\ Rank(Mine(v), j) >= walk[v].offset /\ j \in Mine(v)
      BY <1>3, <2>1, <3>1 DEF Ahead, Present
    <3>3. Rank(Mine(v), j) \notin walk[v].offset..(walk[v].offset + Limit - 1)
      BY <1>13, <3>2 DEF Page, Ranked
    <3> QED
      BY <1>2, <3>2, <3>3
  <2> QED
    BY <1>12, <2>1, <2>2
<1>14. CASE MGet(v)
  <2>1. walk[v].pc = "fetch" /\ Answered(v)
    BY <1>14 DEF MGet
  <2>2. walk'[v].offset # walk[v].offset
    BY <1>2, <1>4, <1>6, <2>1 DEF Answered
  <2>3. Given(v) = Present(v) \cap walk[v].ids
    BY <2>1, <2>2 DEF Given
  <2>4. \A j \in missing'[v] : j \in missing[v] /\ j \notin walk[v].ids
    BY <1>8, <2>1, <2>3 DEF Ahead
  <2>5. \A j \in missing'[v] : /\ Rank(Mine(v), j) >= walk[v].offset + Limit
                               /\ walk[v].offset + Limit < walk[v].total
    BY <2>1, <2>4 DEF Ahead
  <2> QED
    BY <1>12, <2>1, <2>5
<1> QED
  BY <1>7, <1>9, <1>10, <1>11, <1>13, <1>14 DEF ListStep

(* Every step keeps what a walk misses ahead of it.                         *)
LEMMA MissingAheadNext ==
  ASSUME ListingTypeOK, MissingAhead, [Next]_vars
  PROVE  MissingAhead'
<1>1. MissingAhead <=> \A v \in Clients : Ahead(v)
  BY DEF MissingAhead, Ahead
<1>2. MissingAhead' <=> \A v \in Clients : Ahead(v)'
  BY DEF MissingAhead, Ahead
<1>3. ListingTypeOK'
  BY ListingTypedNext
<1> SUFFICES ASSUME NEW v \in Clients PROVE Ahead(v)'
  BY <1>2
<1>4. Ahead(v)
  BY <1>1
<1>5. CASE UNCHANGED vars
  BY <1>4, <1>5 DEF Ahead, Walking, Present, Mine, vars, indexVars, storeVars
<1>6. CASE Next /\ walk'[v] = walk[v]
  BY <1>3, <1>4, <1>6, AheadAsJobsChange DEF Next
<1>7. ASSUME Next, NEW w \in Clients, ListStep(w), walk'[v] # walk[v]
      PROVE  ListStep(v)
  <2>1. \A pc, offset, total, ids : Goes(w, pc, offset, total, ids) /\ v # w => walk'[v] = walk[v]
    BY DEF Goes, ListingTypeOK
  <2>2. v # w => walk'[v] = walk[v]
    BY <1>7, <2>1 DEF ListStep, Begin, ZCard, ZRevRange, MGet, ListFails, Answered
  <2> QED
    BY <1>7, <2>2
<1>8. CASE Next /\ walk'[v] # walk[v]
  <2>1. ListStep(v) /\ UNCHANGED indexVars /\ Observe
    BY <1>7, <1>8 DEF Next
  <2> QED
    BY <1>4, <2>1, AheadAsWalkMoves
<1> QED
  BY <1>5, <1>6, <1>8

(***************************************************************************)
(* The theorems                                                            *)
(***************************************************************************)

(* The invariant holds in every reachable state.                            *)
LEMMA ListingInductive == Spec => []ListingInv
<1>1. ListingInit => ListingInv
  <2> SUFFICES ASSUME ListingInit PROVE ListingInv
    OBVIOUS
  <2>1. ListingTypeOK
    BY IndexTypedInit DEF ListingInit, ListingTypeOK, WalkPc
  <2>2. PendingListed
    BY DEF ListingInit, IndexInit, PendingListed
  <2>3. MissingAhead
    BY DEF ListingInit, MissingAhead, Walking
  <2> QED
    BY <2>1, <2>2, <2>3 DEF ListingInv
<1>2. ListingInv /\ [Next]_vars => ListingInv'
  <2> SUFFICES ASSUME ListingInv, [Next]_vars PROVE ListingInv'
    OBVIOUS
  <2>1. ListingTypeOK /\ IndexTypeOK /\ PendingListed /\ MissingAhead
    BY DEF ListingInv, ListingTypeOK
  <2>2. [IndexNext]_indexVars
    BY NextIsIndexed DEF vars, indexVars
  <2> QED
    BY <2>1, <2>2, ListingTypedNext, PendingListedNext, MissingAheadNext DEF ListingInv
<1> QED
  BY <1>1, <1>2, PTL DEF Spec

(* The record store, the index and the walks keep their types; in           *)
(* particular every record has a TTL, so Redis forgets every job.           *)
THEOREM ListingTypeCorrect == Spec => []ListingTypeOK
<1>1. ListingInv => ListingTypeOK
  BY DEF ListingInv
<1> QED
  BY <1>1, ListingInductive, PTL

(* A pending job is in its consumer's index, which does not expire first.   *)
THEOREM PendingIsListed == Spec => []PendingListed
<1>1. ListingInv => PendingListed
  BY DEF ListingInv
<1> QED
  BY <1>1, ListingInductive, PTL

(* A client that goes through the pages of its list, of any size, is given  *)
(* every job that was there throughout, unless the index lost a job or ran  *)
(* ahead of the total meanwhile.                                            *)
THEOREM WalkIsComplete == Spec => []WalkCovers
<1>1. ListingInv => WalkCovers
  BY DEF ListingInv, MissingAhead, Walking, WalkCovers
<1> QED
  BY <1>1, ListingInductive, PTL
=============================================================================
