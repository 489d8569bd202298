----------------------------- MODULE Collection -----------------------------
(***************************************************************************)
(* Collecting one source: collect_source of mlsc/tasks/ingest.py with the  *)
(* adapters of the six source kinds (sources/*.py), the plan that binds    *)
(* them (sources/collect.py), the fetch client's response cache, the       *)
(* documents' natural key, the source's watermark and the FetchStats row.  *)
(*                                                                         *)
(* Several collections of one source may overlap: the daily run, a         *)
(* dispatch started again, and a backfill all call collect_source and      *)
(* share the one watermark.  Each has its own run, so its own ledger row.  *)
(***************************************************************************)
EXTENDS Naturals, FiniteSets, Sequences, Functions

CONSTANTS
  Kinds,        \* the kinds of source that are considered, of SourceName
  Collections,  \* calls of collect_source
  NQ,           \* the source's queries 1..NQ, in the order of plan.adapters
  NP,           \* pages of reviews the App Store shows (10)
  Quota,        \* MonitorSource.daily_quota
  Page,         \* items one response shows
  MaxItems,     \* bound: items the source ever publishes
  MaxFailures,  \* bound: failed plans, fetches and document writes
  MaxCrashes,   \* bound: collections that die with their worker
  Uncached,     \* a request with no response in the cache
  NoStats       \* a collection without a ledger row

SourceName == {"play", "appstore", "discourse", "news", "rss", "hackernews"}

ASSUME CollectionAssumption ==
  /\ Kinds \subseteq SourceName /\ IsFiniteSet(Collections)
  /\ NQ \in Nat \ {0} /\ NP \in Nat \ {0}
  /\ Quota \in Nat
  /\ Page \in Nat \ {0}
  /\ MaxItems \in Nat /\ MaxFailures \in Nat /\ MaxCrashes \in Nat
  /\ Uncached \notin Nat

VARIABLES
  kind,      \* the source's source_name
  feed,      \* the items in the order of publication: the queries that match
             \* each and its timestamp; its length is the clock
  cached,    \* cached[n]: when the response to request n was fetched
  docs,      \* the items with a document
  cursor,    \* the item whose id and timestamp the source has saved, or 0
  stats,     \* FetchStats by collection
  job,       \* state of each collection
  failures,  \* spent of MaxFailures
  crashes    \* spent of MaxCrashes

vars == <<kind, feed, cached, docs, cursor, stats, job, failures, crashes>>

Queries == 1 .. NQ
Items == 1 .. MaxItems
Times == 0 .. MaxItems
Now == Len(feed)
Requests == 1 .. IF NQ > NP THEN NQ ELSE NP

\* A plan has an adapter for every query of these kinds, one for the others;
\* the App Store's one asks for numbered pages.
FanOut == {"discourse", "news", "hackernews"}
Last == CASE kind \in FanOut -> NQ [] kind = "appstore" -> NP [] OTHER -> 1

\* Kinds whose request does not ask for the newest items first.
Ranked == {"discourse", "news"}

\* Kinds whose responses need not begin with the newest item: the order of a
\* feed is its publisher's.
Unordered == Ranked \cup {"rss"}

\* Kinds whose items carry a timestamp without a timezone, which Python does
\* not compare with the saved watermark, which has one.
Naive == {"rss", "news", "play"}

Newest(S) == CHOOSE i \in S : \A j \in S : j <= i

\* The n newest of a set of items.
Latest(S, n) == {i \in S : Cardinality({j \in S : j > i}) < n}

\* Item i is not newer than the saved item m.
Below(i, m) ==
  m # 0 /\ IF kind = "appstore" THEN i <= m ELSE feed[i].at <= feed[m].at

-----------------------------------------------------------------------------
(* What the response to request n shows at time t.                         *)
Matching(q, t) == {i \in 1 .. t : q \in feed[i].queries}
SearchPage(q, t) == Latest(Matching(q, t), Page)
FeedPage(t) == Latest(1 .. t, Page)

\* Continuation tokens: the pages of a walk are those of its first response.
ReviewPages(t) == 1 .. t
ReviewPage(p, t) == Latest(1 .. t, p * Page) \ Latest(1 .. t, (p - 1) * Page)

Shown(n, t) ==
  CASE kind \in FanOut -> SearchPage(n, t)
    [] kind = "rss" -> FeedPage(t)
    [] kind = "play" -> ReviewPages(t)
    [] kind = "appstore" -> ReviewPage(n, t)

(* How an adapter walks what is shown: fresh are the items above the       *)
(* watermark, behind tells that there is one below it, n is the allowance. *)
NewestFirst(fresh, n) ==
  {[got |-> Latest(fresh, n), first |-> IF fresh = {} THEN 0 ELSE Newest(fresh)]}

\* In no order: an item below the watermark ends the walk before others.
AnyOrder(fresh, behind, n) ==
  {w \in [got : SUBSET fresh, first : fresh \cup {0}] :
     /\ Cardinality(w.got) <= n
     /\ Cardinality(w.got) < n /\ w.got # fresh => behind
     /\ IF w.got = {} THEN w.first = 0 ELSE w.first \in w.got}

Walks(fresh, behind, n) ==
  IF kind \in Unordered THEN AnyOrder(fresh, behind, n) ELSE NewestFirst(fresh, n)

-----------------------------------------------------------------------------
\* A call of collect_source.  next: the request it makes next; from: the
\* watermark it read; items, attempted: what the fan-out returned, without
\* and with the repeats that several requests show; mark: the item of the new
\* cursor; shown is auxiliary: what the responses showed, and had a text.
NewJob == [pc |-> "new", next |-> 1, from |-> 0, items |-> {}, attempted |-> 0,
           mark |-> 0, shown |-> {}, reached |-> FALSE,
           error |-> FALSE, kept |-> 0]
JobStates == [pc : {"new", "fetch", "persist", "stats", "done", "lost", "raised"},
              next : 1 .. Last + 1, from : Times, items : SUBSET Items,
              attempted : 0 .. Quota, mark : Times, shown : SUBSET Items,
              reached : BOOLEAN, error : BOOLEAN, kept : Times]
Stats == [attempted : 0 .. Quota, kept : Times, reached : BOOLEAN, error : BOOLEAN]
ASSUME NoStatsAssumption == NoStats \notin Stats

\* attempted never exceeds the quota: the whole fan-out runs under the
\* source's single daily allowance.
TypeOK ==
  /\ kind \in Kinds
  /\ feed \in Seq([queries : SUBSET Queries, at : 1 .. MaxItems]) /\ Now <= MaxItems
  /\ cached \in [Requests -> Times \cup {Uncached}]
  /\ docs \in SUBSET (1 .. Now)
  /\ cursor \in docs \cup {0}
  /\ stats \in [Collections -> Stats \cup {NoStats}]
  /\ job \in [Collections -> JobStates]
  /\ failures \in 0 .. MaxFailures
  /\ crashes \in 0 .. MaxCrashes

Init ==
  /\ kind \in Kinds
  /\ feed = <<>>
  /\ cached = [n \in Requests |-> Uncached]
  /\ docs = {}
  /\ cursor = 0
  /\ stats = [r \in Collections |-> NoStats]
  /\ job = [r \in Collections |-> NewJob]
  /\ failures = 0
  /\ crashes = 0

-----------------------------------------------------------------------------
(* The world *)

\* An item, at the time of the one before it or later.
Publish ==
  /\ Now < MaxItems
  /\ \E qs \in IF kind \in FanOut THEN (SUBSET Queries) \ {{}} ELSE {{1}}, step \in {0, 1} :
       LET before == IF Now = 0 THEN 0 ELSE feed[Now].at IN
       /\ before + step > 0
       /\ feed' = Append(feed, [queries |-> qs, at |-> before + step])
  /\ UNCHANGED <<kind, cached, docs, cursor, stats, job, failures, crashes>>

\* The cache's TTL (an hour by default).
CacheExpire(n) ==
  /\ cached[n] # Uncached
  /\ cached' = [cached EXCEPT ![n] = Uncached]
  /\ UNCHANGED <<kind, feed, docs, cursor, stats, job, failures, crashes>>

Fail ==
  /\ failures < MaxFailures
  /\ failures' = failures + 1

-----------------------------------------------------------------------------
(* collect_source *)

\* The source's row is read once, its watermark with it.
Begin(r) ==
  /\ job[r].pc = "new"
  /\ job' = [job EXCEPT ![r] = [NewJob EXCEPT !.pc = "fetch", !.from = cursor]]
  /\ UNCHANGED <<kind, feed, cached, docs, cursor, stats, failures, crashes>>

\* A stored config that will not build goes straight to an error row.
PlanFails(r) ==
  /\ job[r].pc = "new"
  /\ Fail
  /\ job' = [job EXCEPT ![r] = [NewJob EXCEPT !.pc = "stats", !.from = cursor,
                                              !.error = TRUE]]
  /\ UNCHANGED <<kind, feed, cached, docs, cursor, stats, crashes>>

Remaining(j) == Quota - j.attempted

\* With nothing left of the allowance the fan-out stops before this adapter.
AllowanceSpent(r) ==
  /\ job[r].pc = "fetch"
  /\ Remaining(job[r]) = 0
  /\ job' = [job EXCEPT ![r] = [@ EXCEPT !.pc = "persist", !.reached = TRUE]]
  /\ UNCHANGED <<kind, feed, cached, docs, cursor, stats, failures, crashes>>

\* The response to a collection's next request, from the cache if it is there.
AsOf(j) == IF cached[j.next] = Uncached THEN Now ELSE cached[j.next]
Response(j) == Shown(j.next, AsOf(j))

\* What is above the watermark; the App Store's walk knows its cursor by the
\* id only and takes all of a page without it.
Fresh(j, shown) ==
  IF kind = "appstore" /\ j.from \notin shown THEN shown ELSE {i \in shown : ~Below(i, j.from)}

\* The first item is compared with the watermark, unless it is the very item
\* of the Play cursor.
Compared(j, shown) ==
  j.from # 0 /\ shown # {} /\ ~(kind = "play" /\ Newest(shown) = j.from)

\* An empty first page of reviews fails validation.
Empty(j, shown) == kind \in {"play", "appstore"} /\ j.next = 1 /\ shown = {}

\* The last request: the App Store's walk ends at its cursor too, and at a
\* page without entries.
Ends(j, shown) ==
  j.next = Last \/ (kind = "appstore" /\ (shown = {} \/ j.from \in shown))

\* The new cursor of a fan-out is the newest of its adapters' first items; of
\* the App Store's pages, the first item of the walk.
Mark(old, first) ==
  CASE first = 0 -> old
    [] first # 0 /\ old = 0 -> first
    [] OTHER -> IF kind = "appstore" \/ Below(first, old) THEN old ELSE first

\* An article that cannot be resolved or extracted is passed over.
Readable(shown) == IF kind = "news" THEN SUBSET shown ELSE {shown}

\* Mutant: every adapter gets the full allowance.
FetchFullAllowance(r) ==
  LET j     == job[r]
      whole == Response(j)
  IN
  /\ j.pc = "fetch" /\ ~Empty(j, whole) /\ ~(kind \in Naive /\ Compared(j, whole))
  /\ \E shown \in Readable(whole) : \E w \in Walks(Fresh(j, shown), Fresh(j, shown) # shown, Quota) :
       job' = [job EXCEPT ![r] = [j EXCEPT
         !.items = @ \cup w.got, !.attempted = @ + Cardinality(w.got),
         !.mark = Mark(@, w.first), !.shown = @ \cup shown,
         !.next = @ + 1, !.pc = IF Ends(j, whole) THEN "persist" ELSE "fetch"]]
  /\ UNCHANGED <<kind, feed, cached, docs, cursor, stats, failures, crashes>>

\* Mutant: the adapter's own quota_reached is dropped.
FetchForgetsQuota(r) ==
  LET j     == job[r]
      whole == Response(j)
  IN
  /\ j.pc = "fetch" /\ ~Empty(j, whole) /\ ~(kind \in Naive /\ Compared(j, whole))
  /\ Remaining(j) > 0
  /\ \E shown \in Readable(whole) :
     \E w \in Walks(Fresh(j, shown), Fresh(j, shown) # shown, Remaining(j)) :
       job' = [job EXCEPT ![r] = [j EXCEPT
         !.items = @ \cup w.got, !.attempted = @ + Cardinality(w.got),
         !.mark = Mark(@, w.first), !.shown = @ \cup shown,
         !.next = @ + 1, !.pc = IF Ends(j, whole) THEN "persist" ELSE "fetch"]]
  /\ UNCHANGED <<kind, feed, cached, docs, cursor, stats, failures, crashes>>

\* One request, and the walk of what it shows down to the watermark or until
\* the allowance is spent.
Fetch(r) ==
  LET j     == job[r]
      whole == Response(j)
  IN
  /\ j.pc = "fetch" /\ ~Empty(j, whole) /\ ~(kind \in Naive /\ Compared(j, whole))
  /\ Remaining(j) > 0
  /\ cached' = IF kind = "appstore" /\ whole = {} THEN cached
               ELSE [cached EXCEPT ![j.next] = AsOf(j)]
  /\ \E shown \in Readable(whole) :
     \E w \in Walks(Fresh(j, shown), Fresh(j, shown) # shown, Remaining(j)) :
       LET spent == Cardinality(w.got) = Remaining(j) IN
       job' = [job EXCEPT ![r] = [j EXCEPT
         !.items = @ \cup w.got, !.attempted = @ + Cardinality(w.got),
         !.mark = Mark(@, w.first), !.shown = @ \cup shown,
         !.reached = @ \/ spent, !.next = @ + 1,
         !.pc = IF Ends(j, whole) \/ (kind = "appstore" /\ spent) THEN "persist" ELSE "fetch"]]
  /\ UNCHANGED <<kind, feed, docs, cursor, stats, failures, crashes>>

\* An adapter that raises (transport, validation, an open breaker) ends the
\* fan-out; what the earlier ones returned is kept, the earlier pages of the
\* one that raised are not.
FetchFails(r) ==
  LET j == job[r] IN
  /\ j.pc = "fetch"
  /\ Remaining(j) > 0
  /\ Fail \/ (Empty(j, Response(j)) /\ UNCHANGED failures)
  /\ job' = [job EXCEPT ![r] =
       IF kind = "appstore"
       THEN [NewJob EXCEPT !.pc = "persist", !.next = j.next, !.from = j.from, !.error = TRUE]
       ELSE [j EXCEPT !.pc = "persist", !.error = TRUE]]
  /\ UNCHANGED <<kind, feed, cached, docs, cursor, stats, crashes>>

\* The comparison raises a TypeError, which no one expects: it leaves
\* collect_source without a ledger row.
FetchRaises(r) ==
  LET j == job[r] IN
  /\ j.pc = "fetch"
  /\ Remaining(j) > 0
  /\ kind \in Naive /\ Compared(j, Response(j))
  /\ cached' = [cached EXCEPT ![j.next] = AsOf(j)]
  /\ job' = [job EXCEPT ![r].pc = "raised"]
  /\ UNCHANGED <<kind, feed, docs, cursor, stats, failures, crashes>>

\* Mutant: the watermark advances past a failed query.
PersistPastError(r) ==
  LET j == job[r] IN
  /\ j.pc = "persist"
  /\ docs' = docs \cup j.items
  /\ cursor' = IF j.items = {} THEN cursor ELSE j.mark
  /\ job' = [job EXCEPT ![r] = [j EXCEPT !.pc = "stats", !.kept = Cardinality(j.items \ docs)]]
  /\ UNCHANGED <<kind, feed, cached, stats, failures, crashes>>

\* Mutant: kept counts every row sent, not the rows written.
PersistCountsAll(r) ==
  LET j == job[r] IN
  /\ j.pc = "persist"
  /\ docs' = docs \cup j.items
  /\ cursor' = IF j.error \/ j.items = {} THEN cursor ELSE j.mark
  /\ job' = [job EXCEPT ![r] = [j EXCEPT !.pc = "stats", !.kept = Cardinality(j.items)]]
  /\ UNCHANGED <<kind, feed, cached, stats, failures, crashes>>

\* The documents, new ones only, and the watermark in one transaction; after
\* an error the watermark stays.  It is set to what this collection found
\* whatever another one has saved since this one read it.
Persist(r) ==
  LET j == job[r] IN
  /\ j.pc = "persist"
  /\ docs' = docs \cup j.items
  /\ cursor' = IF j.error \/ j.items = {} THEN cursor ELSE j.mark
  /\ job' = [job EXCEPT ![r] =
       [j EXCEPT !.pc = "stats", !.kept = Cardinality(j.items \ docs)]]
  /\ UNCHANGED <<kind, feed, cached, stats, failures, crashes>>

\* The database rejects that transaction: nothing landed.
PersistFails(r) ==
  /\ job[r].pc = "persist"
  /\ Fail
  /\ job' = [job EXCEPT ![r] = [@ EXCEPT !.pc = "stats", !.error = TRUE]]
  /\ UNCHANGED <<kind, feed, cached, docs, cursor, stats, crashes>>

\* The ledger row, in a transaction of its own.
WriteStats(r) ==
  LET j == job[r] IN
  /\ j.pc = "stats"
  /\ stats' = [stats EXCEPT ![r] =
       [attempted |-> j.attempted, kept |-> j.kept, reached |-> j.reached,
        error |-> j.error]]
  /\ job' = [job EXCEPT ![r] = [j EXCEPT !.pc = "done"]]
  /\ UNCHANGED <<kind, feed, cached, docs, cursor, failures, crashes>>

\* The worker dies, or the ledger row itself cannot be written.
Crash(r) ==
  /\ job[r].pc \in {"fetch", "persist", "stats"}
  /\ crashes < MaxCrashes
  /\ crashes' = crashes + 1
  /\ job' = [job EXCEPT ![r] = [@ EXCEPT !.pc = "lost"]]
  /\ UNCHANGED <<kind, feed, cached, docs, cursor, stats, failures>>

-----------------------------------------------------------------------------
Next ==
  \/ Publish
  \/ \E n \in Requests : CacheExpire(n)
  \/ \E r \in Collections :
       \/ Begin(r) \/ PlanFails(r)
       \/ AllowanceSpent(r) \/ Fetch(r) \/ FetchFails(r) \/ FetchRaises(r)
       \/ Persist(r) \/ PersistFails(r)
       \/ WriteStats(r) \/ Crash(r)

Spec == Init /\ [][Next]_vars

-----------------------------------------------------------------------------
(* Properties *)

\* Collection r can have moved the watermark over item i.
Passed(r, i) ==
  /\ job[r].pc \in {"stats", "done", "lost"}
  /\ job[r].items # {} /\ ~job[r].error
  /\ Below(i, job[r].mark) /\ ~Below(i, job[r].from)

\* An item at or below the watermark is never fetched again, so it must be a
\* document, or its loss must be explained by the collection that passed it:
\* that one hit its allowance, and says so in the ledger unless it died before
\* writing its row; or no response it worked from showed the item; or the item
\* is an article without text; or the search ranked it behind one that was
\* known.  A response does not show an item that has left the page, that is
\* published between two requests of the fan-out, that an hour-old response
\* lacks, or that comes later with the same timestamp.  A failed fetch or
\* write alone, or an overlapping collection, loses nothing.
\* (tasks/ingest.py:124-188)
SkipsAreExplained ==
  \A i \in {x \in 1 .. Now : Below(x, cursor)} \ docs :
    \E r \in Collections :
      /\ Passed(r, i)
      /\ \/ (job[r].reached /\ (job[r].pc = "done" => stats[r].reached))
         \/ i \notin job[r].shown
         \/ (kind \in Ranked /\ \E x \in job[r].shown : Below(x, job[r].from))

\* quota_reached "tells the caller whether kept is a measurement or a floor"
\* (sources/play.py): after a row within its allowance and without an error,
\* every item its responses showed above the watermark it read is a document,
\* articles without text apart, if the source lists the newest items first.
MeasurementIsComplete ==
  \A r \in Collections :
    stats[r] # NoStats /\ ~stats[r].reached /\ ~stats[r].error /\ kind \notin Ranked =>
      \A i \in job[r].shown : Below(i, job[r].from) \/ i \in docs

\* Overlapping collections that fetch the same items do not both count them:
\* the kept counts of all collections that persisted add up to the documents.
\* (repositories/documents.py:28-47)
KeptAddsUp ==
  SumFunctionOnSet([r \in Collections |-> job[r].kept], Collections)
    = Cardinality(docs)

\* "The stats row is written on every outcome" (tasks/ingest.py:89-94): a
\* collection is over without its row only if its worker died.
RowOnEveryOutcome ==
  \A r \in Collections : job[r].pc \in {"done", "raised"} => stats[r] # NoStats
=============================================================================
