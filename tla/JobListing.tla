----------------------------- MODULE JobListing -----------------------------
(***************************************************************************)
(* GET /jobs: ListJobs (internal/handler/jobs.go) and ListJobsByConsumer   *)
(* (internal/storage/redis.go), called by clients that go through all the  *)
(* pages of their list while jobs come, end and expire.                    *)
(*                                                                         *)
(* The pipeline of ZCARD and ZREVRANGE is no transaction: other commands   *)
(* may run between the two.  The transaction before it, whose answers are  *)
(* not looked at, changes nothing.                                         *)
(***************************************************************************)
EXTENDS ConsumerIndex, FiniteSets

CONSTANTS
  Clients,     (* those who list their jobs, one walk each                  *)
  Requester,   (* the consumer header each sends                            *)
  Limit        (* the page size; jobs.go:359-371 allows 1 to 100            *)

ASSUME ListingAssumption ==
  /\ IsFiniteSet(Jobs)
  /\ Requester \in [Clients -> Consumers]
  /\ Limit \in 1..100

VARIABLES
  walk,       (* each client: next call, offset, total and ids of the page  *)
  missing,    (* history: the jobs that were indexed and there ever since   *)
              (* the walk began, and that the client has not been given yet *)
  disturbed   (* history: the index lost a job meanwhile, or got one        *)
              (* between ZCARD and ZREVRANGE                                *)

vars == <<indexVars, walk, missing, disturbed>>

WalkPc == {"idle", "count", "range", "fetch", "done"}

ListingTypeOK ==
  /\ IndexTypeOK
  /\ walk \in [Clients -> [pc : WalkPc, offset : Nat, total : Nat, ids : SUBSET Jobs]]
  /\ missing \in [Clients -> SUBSET Jobs]
  /\ disturbed \in [Clients -> BOOLEAN]

ListingInit ==
  /\ IndexInit
  /\ walk = [w \in Clients |-> [pc |-> "idle", offset |-> 0, total |-> 0, ids |-> {}]]
  /\ missing = [w \in Clients |-> {}]
  /\ disturbed = [w \in Clients |-> FALSE]

Goes(w, pc, offset, total, ids) ==
  walk' = [walk EXCEPT ![w] = [pc |-> pc, offset |-> offset, total |-> total, ids |-> ids]]

Begin(w) ==
  /\ walk[w].pc = "idle"
  /\ Goes(w, "count", 0, 0, {})

-----------------------------------------------------------------------------
(* ListJobsByConsumer                                                       *)

Mine(w) == index[Requester[w]]

(* The order of ZREVRANGE: Redis compares members where scores are equal.   *)
Precedes(i, j) ==
  Score[i] > Score[j] \/ (Score[i] = Score[j] /\ Member[i] > Member[j])

(* Ranks count from 0.                                                      *)
Rank(ids, j) == Cardinality({i \in ids : Precedes(i, j)})

Ranked(ids, first, last) == {j \in ids : Rank(ids, j) \in first..last}

(* Variant: the limit given as the last rank.                               *)
PageToLimit(ids, offset) == Ranked(ids, offset, Limit - 1)

Page(ids, offset) == Ranked(ids, offset, offset + Limit - 1)

(* The answer is on its way; the client asks for the next page if `total`   *)
(* says that there is one.                                                  *)
Answered(w) ==
  LET next == walk[w].offset + Limit IN
  Goes(w, IF next < walk[w].total THEN "count" ELSE "done", next, 0, {})

(* 500; the client asks for the page again.                                 *)
ListFails(w) ==
  /\ walk[w].pc \in {"range", "fetch"}
  /\ Goes(w, "count", walk[w].offset, 0, {})

ZCard(w) ==
  /\ walk[w].pc = "count"
  /\ Goes(w, "range", walk[w].offset, Cardinality(Mine(w)), {})

ZRevRange(w) ==
  LET ids == Page(Mine(w), walk[w].offset) IN
  /\ walk[w].pc = "range"
  /\ IF ids = {} THEN Answered(w)
     ELSE Goes(w, "fetch", walk[w].offset, walk[w].total, ids)

(* MGET; the answer has the records that are still there.                   *)
MGet(w) ==
  /\ walk[w].pc = "fetch"
  /\ Answered(w)

ListStep(w) == Begin(w) \/ ZCard(w) \/ ZRevRange(w) \/ MGet(w) \/ ListFails(w)

-----------------------------------------------------------------------------
Present(w) == {j \in Mine(w) : record[j] # "none"}

(* What a client is given by this step.                                     *)
Given(w) ==
  IF walk[w].pc = "fetch" /\ walk'[w].offset # walk[w].offset
  THEN Present(w) \cap walk[w].ids ELSE {}

Walking(w) == walk[w].pc \in {"count", "range", "fetch"}

Disturbs(w) ==
  /\ Walking(w)
  /\ \/ ~(Mine(w) \subseteq Mine(w)')
     \/ walk[w].pc = "range" /\ walk'[w].pc = "range" /\ Mine(w)' # Mine(w)

(* What a step means for the walks under way.                               *)
Observe ==
  /\ disturbed' = [w \in Clients |-> disturbed[w] \/ Disturbs(w)]
  /\ missing' = [w \in Clients |->
       IF walk[w].pc = "idle" /\ walk'[w].pc # "idle" THEN Present(w)
       ELSE IF disturbed'[w] THEN {}
       ELSE (missing[w] \cap Present(w)') \ Given(w)]

Next ==
  /\ \/ IndexNext /\ UNCHANGED walk
     \/ (\E w \in Clients : ListStep(w)) /\ UNCHANGED indexVars
  /\ Observe

Spec == ListingInit /\ [][Next]_vars

(* Time passes; nobody owes a job, and no handler or client its next call.  *)
FairSpec == Spec /\ WF_vars(Tick /\ UNCHANGED walk /\ Observe)

-----------------------------------------------------------------------------
(* "ordered most-recent-first", "total is the full count before pagination" *)
(* (redis.go:133-135): a client that goes through the pages up to total has *)
(* been given every job that was there all the time, whatever was submitted *)
(* or has expired meanwhile.  The deletion of a job on a page before moves  *)
(* the others up, past the client; and a total that is older than its page  *)
(* ends the walk too early.                                                 *)
WalkCovers ==
  \A w \in Clients : walk[w].pc = "done" => missing[w] = {}

(* Why: what is missing is on the page in hand or on a later one, new jobs  *)
(* only move it further back, and total reaches that far.                   *)
MissingAhead ==
  \A w \in Clients :
    /\ walk[w].pc = "idle" => ~disturbed[w]
    /\ disturbed[w] \/ ~Walking(w) => missing[w] = {}
    /\ missing[w] \subseteq Present(w)
    /\ walk[w].pc = "range" /\ ~disturbed[w] => walk[w].total = Cardinality(Mine(w))
    /\ \A j \in missing[w] :
         /\ Rank(Mine(w), j) >= walk[w].offset
         /\ walk[w].pc = "fetch" /\ j \notin walk[w].ids =>
              /\ Rank(Mine(w), j) >= walk[w].offset + Limit
              /\ walk[w].offset + Limit < walk[w].total

ListingInv == ListingTypeOK /\ PendingListed /\ MissingAhead
=============================================================================
