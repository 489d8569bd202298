--------------------------- MODULE CollectionProofs ---------------------------
(***************************************************************************)
(* Proofs about Collection for every kind of source, every number of       *)
(* overlapping collections, queries, pages and items and every bound.      *)
(***************************************************************************)
EXTENDS Collection, SequenceTheorems, FiniteSetTheorems, TLAPS

\* Items are in the order of their timestamps, and no timestamp runs ahead of
\* its item's number.
FeedOrdered ==
  \A i \in 1 .. Now : feed[i].at <= i /\ feed[i].at <= feed[Now].at

\* A response in the cache was fetched in the past.
CachePast == \A n \in Requests : cached[n] # Uncached => cached[n] <= Now

\* What a collection holds: items that were shown and exist, of which one is
\* its new cursor; until it has persisted it has kept nothing.
Coherent(r) ==
  LET j == job[r] IN
  /\ j.pc = "new" => j = NewJob
  /\ j.items \subseteq j.shown /\ j.shown \subseteq 1 .. Now /\ j.from <= Now
  /\ j.mark \in j.items \cup {0} /\ (j.items # {} => j.mark # 0)
  /\ j.pc = "fetch" => j.next <= Last /\ ~j.error
  /\ j.pc \in {"fetch", "persist"} => j.kept = 0

TypeInv == TypeOK /\ FeedOrdered /\ CachePast /\ \A r \in Collections : Coherent(r)

\* What is not taken of what was shown is known, or the allowance was spent,
\* or a ranked search put it behind an item that is known.
Walked(r) ==
  LET j == job[r] IN
  ~j.error => \A i \in j.shown :
    \/ Below(i, j.from) \/ i \in j.items \/ j.reached
    \/ kind \in Ranked /\ \E x \in j.shown : Below(x, j.from)

\* Only the App Store's walk takes items that are not newer than its cursor.
Newer(r) == kind # "appstore" => \A i \in job[r].items : ~Below(i, job[r].from)

\* The ledger row says what the collection found, and the items of one that
\* reports no error are documents.
Reported(r) ==
  LET j == job[r] IN
  /\ stats[r] = IF j.pc = "done"
                THEN [attempted |-> j.attempted, kept |-> j.kept, reached |-> j.reached, error |-> j.error]
                ELSE NoStats
  /\ j.pc \in {"stats", "done"} /\ ~j.error => j.items \subseteq docs

Honest == \A r \in Collections : Walked(r) /\ Newer(r) /\ Reported(r)

\* The watermarks that are saved or in use.
Watermarks == {cursor} \cup {job[r].from : r \in Collections}

\* Collection r moved the watermark to m.
Moved(r, m) ==
  job[r].pc \in {"stats", "done", "lost"} /\ job[r].items # {} /\ ~job[r].error /\ job[r].mark = m

\* Collection r passed item i, and why it could.
Explains(r, i) ==
  /\ Passed(r, i)
  /\ \/ (job[r].reached /\ (job[r].pc = "done" => stats[r].reached))
     \/ i \notin job[r].shown
     \/ (kind \in Ranked /\ \E x \in job[r].shown : Below(x, job[r].from))

\* A collection moved every watermark to where it is, and one explains every
\* item at or below it that is no document.
Accounted ==
  \A m \in Watermarks :
    /\ m # 0 => \E r \in Collections : Moved(r, m)
    /\ \A i \in (1 .. Now) \ docs : Below(i, m) => \E r \in Collections : Explains(r, i)


-----------------------------------------------------------------------------
(* Finite sets of items.                                                   *)

\* Among the subsets of a finite set with some property one is minimal.  It
\* stands for induction: a minimal counterexample is refuted.
LEMMA MinimalSet ==
  ASSUME NEW S, IsFiniteSet(S), NEW B, B # {}, \A T \in B : T \subseteq S
  PROVE  \E T \in B : \A U \in B : U \subseteq T => U = T
<1>1. IsWellFoundedOn(StrictSubsetOrdering(S), SUBSET S)
  BY FS_StrictSubsetOrderingWellFounded, FS_FiniteSubsetsOfFinite
<1>2. B \subseteq SUBSET S
  OBVIOUS
<1>3. \E T \in B : \A U \in B : ~ (<<U, T>> \in StrictSubsetOrdering(S))
  <2> HIDE DEF StrictSubsetOrdering
  <2> QED
    BY <1>1, <1>2, WFMin
<1> QED
  BY <1>3 DEF StrictSubsetOrdering

\* A finite set of numbers has a greatest and a least element.
LEMMA Extremes ==
  ASSUME NEW S, IsFiniteSet(S), S # {}, \A x \in S : x \in Nat
  PROVE  /\ \E x \in S : \A j \in S : j <= x
         /\ \E x \in S : \A j \in S : x <= j
<1>1. \E x \in S : \A j \in S : j <= x
  <2> DEFINE above(x) == {j \in S : j > x}
             B == {T \in SUBSET S : \E x \in S : T = above(x)}
  <2>1. B # {} /\ \A T \in B : T \subseteq S
    OBVIOUS
  <2>2. \E T \in B : \A U \in B : U \subseteq T => U = T
    <3> HIDE DEF B
    <3> QED
      BY <2>1, MinimalSet
  <2>3. PICK x \in S : \A U \in B : U \subseteq above(x) => U = above(x)
    BY <2>2
  <2>4. \A j \in S : j <= x
    <3> SUFFICES ASSUME NEW j \in S, j > x PROVE FALSE
      OBVIOUS
    <3>1. above(j) \subseteq above(x) /\ j \in above(x) /\ j \notin above(j)
      OBVIOUS
    <3>2. above(j) \in B
      OBVIOUS
    <3> QED
      BY <2>3, <3>1, <3>2
  <2> QED
    BY <2>4
<1>2. \E x \in S : \A j \in S : x <= j
  <2> DEFINE below(x) == {j \in S : j < x}
             B == {T \in SUBSET S : \E x \in S : T = below(x)}
  <2>1. B # {} /\ \A T \in B : T \subseteq S
    OBVIOUS
  <2>2. \E T \in B : \A U \in B : U \subseteq T => U = T
    <3> HIDE DEF B
    <3> QED
      BY <2>1, MinimalSet
  <2>3. PICK x \in S : \A U \in B : U \subseteq below(x) => U = below(x)
    BY <2>2
  <2>4. \A j \in S : x <= j
    <3> SUFFICES ASSUME NEW j \in S, j < x PROVE FALSE
      OBVIOUS
    <3>1. below(j) \subseteq below(x) /\ j \in below(x) /\ j \notin below(j)
      OBVIOUS
    <3>2. below(j) \in B
      OBVIOUS
    <3> QED
      BY <2>3, <3>1, <3>2
  <2> QED
    BY <2>4
<1> QED
  BY <1>1, <1>2

\* Sets of items are finite sets of numbers.
LEMMA ItemSets ==
  ASSUME NEW n \in Nat, NEW S, S \subseteq 1 .. n
  PROVE  /\ IsFiniteSet(S) /\ Cardinality(S) \in Nat
         /\ \A x \in S : x \in Nat \ {0} /\ x <= n
<1>1. IsFiniteSet(1 .. n)
  BY FS_Interval
<1>2. IsFiniteSet(S)
  BY <1>1, FS_Subset
<1> QED
  BY <1>2, FS_CardinalityType

ItemSet(S) == \E n \in Nat : S \subseteq 1 .. n

\* Newest is the greatest item.
LEMMA NewestIsLast ==
  ASSUME NEW n \in Nat, NEW S, S \subseteq 1 .. n, S # {}
  PROVE  /\ Newest(S) \in S
         /\ \A j \in S : j <= Newest(S)
<1>1. IsFiniteSet(S) /\ \A x \in S : x \in Nat
  BY ItemSets
<1>2. \E x \in S : \A j \in S : j <= x
  BY <1>1, Extremes
<1> QED
  BY <1>2 DEF Newest

\* The n newest items of a set are at most n of them, all of them if they
\* are fewer, and its newest is one.
LEMMA LatestFacts ==
  ASSUME NEW m \in Nat, NEW S, S \subseteq 1 .. m, NEW n \in Nat
  PROVE  /\ Latest(S, n) \subseteq S
         /\ IsFiniteSet(Latest(S, n)) /\ Cardinality(Latest(S, n)) \in 0 .. n
         /\ Cardinality(Latest(S, n)) < n => Latest(S, n) = S
         /\ n > 0 /\ S # {} => Newest(S) \in Latest(S, n)
<1> DEFINE L == Latest(S, n)
           above(x) == {j \in S : j > x}
<1>1. \A U : U \subseteq S => IsFiniteSet(U) /\ Cardinality(U) \in Nat
  <2> SUFFICES ASSUME NEW U, U \subseteq S PROVE IsFiniteSet(U) /\ Cardinality(U) \in Nat
    OBVIOUS
  <2>1. U \subseteq 1 .. m
    OBVIOUS
  <2> QED
    BY <2>1, ItemSets
<1>2. L \subseteq S /\ \A x \in S : x \in L <=> Cardinality(above(x)) < n
  BY DEF Latest
<1>3. \A x \in S : x \in Nat
  BY ItemSets
<1> HIDE DEF L
<1>4. Cardinality(L) < n => L = S
  <2> SUFFICES ASSUME Cardinality(L) < n, S \ L # {} PROVE FALSE
    BY <1>2
  <2>1. PICK x \in S \ L : \A j \in S \ L : j <= x
    <3>1. IsFiniteSet(S \ L) /\ \A y \in S \ L : y \in Nat
      BY <1>1, <1>3
    <3> QED
      BY <3>1, Extremes
  <2>2. above(x) \subseteq L
    <3> SUFFICES ASSUME NEW j \in S, j > x, j \notin L PROVE FALSE
      OBVIOUS
    <3>1. j <= x /\ j \in Nat /\ x \in Nat
      BY <1>3, <2>1
    <3> QED
      BY <3>1
  <2>3. Cardinality(above(x)) <= Cardinality(L) /\ Cardinality(above(x)) \in Nat
    BY <1>1, <1>2, <2>2, FS_Subset
  <2>4. ~ (Cardinality(above(x)) < n)
    BY <1>2, <2>1
  <2>5. Cardinality(L) \in Nat
    BY <1>1, <1>2
  <2> HIDE DEF above
  <2> QED
    BY <2>3, <2>4, <2>5
<1>5. Cardinality(L) <= n
  <2> SUFFICES ASSUME L # {} PROVE Cardinality(L) <= n
    BY FS_EmptySet
  <2>1. PICK x \in L : \A j \in L : x <= j
    <3>1. IsFiniteSet(L) /\ \A y \in L : y \in Nat
      BY <1>1, <1>2, <1>3
    <3> QED
      BY <3>1, Extremes
  <2>2. L \ {x} \subseteq above(x)
    <3> SUFFICES ASSUME NEW j \in L, j # x PROVE j \in S /\ j > x
      OBVIOUS
    <3>1. x <= j /\ x \in Nat /\ j \in Nat
      BY <1>2, <1>3, <2>1
    <3> QED
      BY <1>2, <3>1
  <2>3. IsFiniteSet(L)
    BY <1>1, <1>2
  <2>4. Cardinality(L \ {x}) = Cardinality(L) - 1 /\ Cardinality(L) \in Nat
    BY <2>3, FS_RemoveElement, FS_CardinalityType
  <2>5. IsFiniteSet(above(x)) /\ Cardinality(above(x)) \in Nat
    BY <1>1
  <2>6. Cardinality(L \ {x}) <= Cardinality(above(x))
    BY <2>2, <2>5, FS_Subset
  <2>7. Cardinality(above(x)) < n
    BY <1>2, <2>1
  <2> QED
    BY <2>4, <2>5, <2>6, <2>7
<1>6. ASSUME n > 0, S # {} PROVE Newest(S) \in L
  <2>1. Newest(S) \in S /\ \A j \in S : j <= Newest(S)
    BY <1>6, NewestIsLast
  <2>2. \A j \in S : ~ (j > Newest(S))
    <3> SUFFICES ASSUME NEW j \in S PROVE ~ (j > Newest(S))
      OBVIOUS
    <3>1. j <= Newest(S) /\ j \in Nat /\ Newest(S) \in Nat
      BY <1>3, <2>1
    <3> QED
      BY <3>1
  <2>3. above(Newest(S)) = {}
    BY <2>2
  <2>4. Cardinality(above(Newest(S))) = 0
    BY <2>3, FS_EmptySet
  <2> QED
    BY <1>2, <1>6, <2>1, <2>4
<1>7. IsFiniteSet(L) /\ Cardinality(L) \in Nat
  BY <1>1, <1>2
<1> QED
  BY <1>2, <1>4, <1>5, <1>6, <1>7 DEF L

-----------------------------------------------------------------------------
(* Requests, responses and walks.                                          *)

LEMMA LastFacts ==
  ASSUME kind \in Kinds
  PROVE  /\ Last \in Nat \ {0}
         /\ \A n \in 1 .. Last : n \in Requests
  BY CollectionAssumption DEF Last, Requests

LEMMA LatestShrinks == \A S, n : Latest(S, n) \subseteq S
  BY DEF Latest

\* A response of time t shows items published until then.
LEMMA ShownFacts ==
  ASSUME kind \in Kinds, NEW n, NEW t
  PROVE  Shown(n, t) \subseteq 1 .. t
<1>1. SearchPage(n, t) \subseteq 1 .. t
  BY LatestShrinks DEF SearchPage, Matching
<1>2. FeedPage(t) \subseteq 1 .. t
  BY LatestShrinks DEF FeedPage
<1>3. ReviewPage(n, t) \subseteq 1 .. t
  BY LatestShrinks DEF ReviewPage
<1>4. kind \in FanOut \cup {"rss", "play", "appstore"}
  BY CollectionAssumption DEF SourceName, FanOut
<1> QED
  BY <1>1, <1>2, <1>3, <1>4 DEF Shown, ReviewPages

\* The feed is a sequence of items, whose length is the clock.
LEMMA FeedFacts ==
  ASSUME TypeOK
  PROVE  /\ Now \in Nat /\ Now \in 0 .. MaxItems /\ DOMAIN feed = 1 .. Now
         /\ \A i \in 1 .. Now : feed[i].at \in Nat /\ feed[i].at \in 1 .. MaxItems
<1> DEFINE Item == [queries : SUBSET Queries, at : 1 .. MaxItems]
<1>1. feed \in Seq(Item) /\ Now <= MaxItems /\ MaxItems \in Nat
  BY CollectionAssumption DEF TypeOK
<1> HIDE DEF Item
<1>2. Len(feed) \in Nat /\ DOMAIN feed = 1 .. Len(feed) /\ \A i \in 1 .. Len(feed) : feed[i] \in Item
  BY <1>1, LenProperties, ElementOfSeq
<1>3. \A x \in Item : x.at \in 1 .. MaxItems
  BY DEF Item
<1> QED
  BY <1>1, <1>2, <1>3 DEF Now

\* The response a collection works from is one of the past.
LEMMA ResponseFacts ==
  ASSUME TypeInv, NEW r \in Collections, job[r].pc = "fetch"
  PROVE  /\ AsOf(job[r]) \in 0 .. Now
         /\ job[r].next \in Requests
         /\ Response(job[r]) \subseteq 1 .. Now
<1>1. kind \in Kinds /\ Now \in Nat
  BY FeedFacts DEF TypeInv, TypeOK
<1>2. job[r].next \in 1 .. Last
  <2>1. job[r].next \in 1 .. Last + 1 /\ job[r].next <= Last
    BY DEF TypeInv, TypeOK, JobStates, Coherent
  <2> QED
    BY <1>1, <2>1, LastFacts
<1>3. job[r].next \in Requests
  BY <1>1, <1>2, LastFacts
<1>4. AsOf(job[r]) \in 0 .. Now
  <2>1. cached[job[r].next] \in Times \cup {Uncached}
    BY <1>3 DEF TypeInv, TypeOK
  <2>2. cached[job[r].next] # Uncached => cached[job[r].next] <= Now
    BY <1>3 DEF TypeInv, CachePast
  <2> QED
    BY <1>1, <2>1, <2>2, CollectionAssumption DEF AsOf, Times
<1>5. Response(job[r]) \subseteq 1 .. AsOf(job[r])
  BY <1>1, ShownFacts DEF Response
<1> QED
  BY <1>1, <1>3, <1>4, <1>5

\* A walk takes at most its allowance of what is above the watermark, and
\* leaves something only if that is spent, or a response in another order showed
\* an item below the watermark first.
LEMMA WalkFacts ==
  ASSUME NEW fresh, ItemSet(fresh), NEW n \in Nat \ {0}, NEW behind,
         NEW w \in Walks(fresh, behind, n)
  PROVE  /\ w.got \subseteq fresh
         /\ Cardinality(w.got) \in 0 .. n
         /\ w.first \in w.got \cup {0}
         /\ w.got # {} => w.first # 0
         /\ w.got # fresh => Cardinality(w.got) = n \/ (kind \in Unordered /\ behind)
<1>0. PICK m \in Nat : fresh \subseteq 1 .. m
  BY DEF ItemSet
<1>1. CASE kind \in Unordered
  <2>1. /\ w.got \subseteq fresh /\ Cardinality(w.got) <= n
        /\ Cardinality(w.got) < n /\ w.got # fresh => behind
        /\ IF w.got = {} THEN w.first = 0 ELSE w.first \in w.got
    BY <1>1 DEF Walks, AnyOrder
  <2>2. Cardinality(w.got) \in Nat /\ \A x \in w.got : x # 0
    <3>1. w.got \subseteq 1 .. m
      BY <1>0, <2>1
    <3> QED
      BY <3>1, ItemSets
  <2> QED
    BY <1>1, <2>1, <2>2
<1>2. CASE kind \notin Unordered
  <2>1. w.got = Latest(fresh, n) /\ w.first = IF fresh = {} THEN 0 ELSE Newest(fresh)
    BY <1>2 DEF Walks, NewestFirst
  <2>2. /\ Latest(fresh, n) \subseteq fresh
        /\ Cardinality(Latest(fresh, n)) \in 0 .. n
        /\ Cardinality(Latest(fresh, n)) < n => Latest(fresh, n) = fresh
        /\ n > 0 /\ fresh # {} => Newest(fresh) \in Latest(fresh, n)
    BY <1>0, LatestFacts
  <2>3. fresh # {} => w.first \in w.got /\ w.first # 0
    <3>1. fresh # {} => Newest(fresh) \in fresh
      BY <1>0, NewestIsLast
    <3>2. \A x \in fresh : x # 0
      BY <1>0
    <3> QED
      BY <2>1, <2>2, <3>1, <3>2
  <2>4. fresh = {} => w.got = {} /\ w.first = 0
    BY <2>1, <2>2
  <2>5. w.got # fresh => Cardinality(w.got) = n
    BY <2>1, <2>2
  <2> QED
    BY <2>1, <2>2, <2>3, <2>4, <2>5
<1> QED
  BY <1>1, <1>2

LEMMA FreshFacts ==
  ASSUME NEW j, NEW shown
  PROVE  /\ Fresh(j, shown) \subseteq shown
         /\ kind # "appstore" => \A i \in Fresh(j, shown) : ~Below(i, j.from)
         /\ \A i \in shown \ Fresh(j, shown) : Below(i, j.from)
  BY DEF Fresh

-----------------------------------------------------------------------------
(* The types.                                                              *)

\* What a response and a walk make of a collection.
AfterWalk(j, whole, shown, w) ==
  LET spent == Cardinality(w.got) = Remaining(j) IN
  [j EXCEPT !.items = j.items \cup w.got, !.attempted = j.attempted + Cardinality(w.got),
            !.mark = Mark(j.mark, w.first), !.shown = j.shown \cup shown,
            !.reached = j.reached \/ spent, !.next = j.next + 1,
            !.pc = IF Ends(j, whole) \/ (kind = "appstore" /\ spent) THEN "persist" ELSE "fetch"]

\* The fields of it.
LEMMA AfterWalkFields ==
  ASSUME NEW j \in JobStates, NEW whole, NEW shown, NEW w
  PROVE  LET k == AfterWalk(j, whole, shown, w) IN
         /\ k.items = j.items \cup w.got /\ k.attempted = j.attempted + Cardinality(w.got)
         /\ k.mark = Mark(j.mark, w.first) /\ k.shown = j.shown \cup shown
         /\ k.reached = (j.reached \/ Cardinality(w.got) = Remaining(j))
         /\ k.next = j.next + 1 /\ k.from = j.from /\ k.error = j.error /\ k.kept = j.kept
         /\ k.pc \in {"fetch", "persist"}
         /\ k.pc = "fetch" => ~Ends(j, whole)
<1> DEFINE k == AfterWalk(j, whole, shown, w)
<1>1. j = [pc |-> j.pc, next |-> j.next, from |-> j.from, items |-> j.items,
           attempted |-> j.attempted, mark |-> j.mark, shown |-> j.shown,
           reached |-> j.reached, error |-> j.error, kept |-> j.kept]
  BY DEF JobStates
<1>2. DOMAIN j = {"pc", "next", "from", "items", "attempted", "mark", "shown", "reached", "error", "kept"}
  BY <1>1
<1>3. k.items = j.items \cup w.got /\ k.attempted = j.attempted + Cardinality(w.got)
  BY <1>2 DEF AfterWalk
<1>4. k.mark = Mark(j.mark, w.first) /\ k.shown = j.shown \cup shown
  BY <1>2 DEF AfterWalk
<1>5. k.reached = (j.reached \/ Cardinality(w.got) = Remaining(j))
  BY <1>2 DEF AfterWalk
<1>6. k.next = j.next + 1 /\ k.from = j.from /\ k.error = j.error /\ k.kept = j.kept
  BY <1>2 DEF AfterWalk
<1>7. k.pc \in {"fetch", "persist"} /\ (k.pc = "fetch" => ~Ends(j, whole))
  BY <1>2 DEF AfterWalk
<1> HIDE DEF k
<1> QED
  BY <1>3, <1>4, <1>5, <1>6, <1>7 DEF k

\* A fetch, as a walk over what was shown.
LEMMA FetchIsWalk ==
  ASSUME TypeInv, NEW r \in Collections, Fetch(r)
  PROVE  \E shown, w :
           /\ shown \subseteq 1 .. Now
           /\ w.got \subseteq Fresh(job[r], shown)
           /\ Cardinality(w.got) \in 0 .. Remaining(job[r])
           /\ w.first \in w.got \cup {0}
           /\ w.got # {} => w.first # 0
           /\ w.got # Fresh(job[r], shown) =>
                Cardinality(w.got) = Remaining(job[r]) \/ (kind \in Ranked /\ Fresh(job[r], shown) # shown)
           /\ job' = [job EXCEPT ![r] = AfterWalk(job[r], Response(job[r]), shown, w)]
<1> DEFINE j == job[r]
           whole == Response(j)
           behind(shown) == Fresh(j, shown) # shown
<1>1. PICK shown \in Readable(whole) : \E w \in Walks(Fresh(j, shown), behind(shown), Remaining(j)) :
         job' = [job EXCEPT ![r] = AfterWalk(j, whole, shown, w)]
  BY DEF Fetch, AfterWalk
<1>2. PICK w \in Walks(Fresh(j, shown), behind(shown), Remaining(j)) :
         job' = [job EXCEPT ![r] = AfterWalk(j, whole, shown, w)]
  BY <1>1
<1>3. shown \subseteq 1 .. Now
  <2>1. whole \subseteq 1 .. Now
    BY ResponseFacts DEF Fetch
  <2> QED
    BY <1>1, <2>1 DEF Readable
<1>4. Fresh(j, shown) \subseteq 1 .. Now
  BY <1>3, FreshFacts
<1>5. Now \in Nat /\ Remaining(j) \in Nat \ {0}
  <2>1. j.attempted \in 0 .. Quota /\ Remaining(j) > 0
    BY DEF Fetch, TypeInv, TypeOK, JobStates
  <2> QED
    BY <2>1, FeedFacts, CollectionAssumption DEF TypeInv, Remaining
<1> HIDE DEF j, whole, behind
<1>6. /\ w.got \subseteq Fresh(j, shown)
      /\ Cardinality(w.got) \in 0 .. Remaining(j)
      /\ w.first \in w.got \cup {0}
      /\ w.got # {} => w.first # 0
      /\ w.got # Fresh(j, shown) => Cardinality(w.got) = Remaining(j) \/ (kind \in Unordered /\ behind(shown))
  <2>1. ItemSet(Fresh(j, shown))
    BY <1>4, <1>5 DEF ItemSet
  <2> QED
    BY <1>5, <2>1, WalkFacts
\* A feed with an item below the watermark raises when the first is compared.
<1>7. kind = "rss" => ~behind(shown)
  <2> SUFFICES ASSUME kind = "rss", NEW i \in shown, Below(i, j.from) PROVE FALSE
    BY DEF behind, Fresh
  <2>1. j.from # 0 /\ shown = whole /\ shown # {}
    BY <1>1 DEF Below, Readable
  <2>2. Compared(j, whole) /\ kind \in Naive
    BY <2>1 DEF Compared, Naive
  <2> QED
    BY <2>2 DEF Fetch, j, whole
<1>8. kind \in Unordered /\ behind(shown) => kind \in Ranked
  BY <1>7 DEF Unordered
<1> QED
  BY <1>2, <1>3, <1>6, <1>8 DEF j, whole, behind

\* The collections other than r are as they were.
Others(r) == \A q \in Collections \ {r} : job'[q] = job[q] /\ stats'[q] = stats[q]

LEMMA JobTyped ==
  ASSUME NEW j \in JobStates
  PROVE  /\ j.next \in 1 .. Last + 1 /\ j.from \in Times /\ j.items \in SUBSET Items
         /\ j.attempted \in 0 .. Quota /\ j.mark \in Times /\ j.shown \in SUBSET Items
         /\ j.reached \in BOOLEAN /\ j.error \in BOOLEAN /\ j.kept \in Times
  BY DEF JobStates

LEMMA Nested == \A m, n \in Nat : m <= n => (1 .. m) \subseteq 1 .. n
<1> SUFFICES ASSUME NEW m \in Nat, NEW n \in Nat, m <= n, NEW i \in 1 .. m PROVE i \in 1 .. n
  OBVIOUS
<1> QED
  OBVIOUS

\* A collection that nothing happened to stays coherent.
LEMMA CoherentFrame ==
  ASSUME NEW q \in Collections, Coherent(q), job[q] \in JobStates,
         job'[q] = job[q], kind' = kind, Now \in Nat,
         Now' \in Nat, Now' >= Now
  PROVE  Coherent(q)'
<1>1. Last' = Last
  BY DEF Last
<1>2. (1 .. Now) \subseteq 1 .. Now'
  BY Nested
<1>3. job[q].from <= Now => job[q].from <= Now'
  <2>1. job[q].from \in Nat
    BY JobTyped, CollectionAssumption DEF Times
  <2> QED
    BY <2>1
<1> QED
  BY <1>1, <1>2, <1>3 DEF Coherent

LEMMA AfterWalkTyped ==
  ASSUME NEW j \in JobStates, NEW whole, NEW shown \in SUBSET Items, NEW w, w.got \subseteq Items,
         j.next + 1 \in 1 .. Last + 1, j.attempted + Cardinality(w.got) \in 0 .. Quota,
         Mark(j.mark, w.first) \in Times
  PROVE  AfterWalk(j, whole, shown, w) \in JobStates
<1>1. j.items \cup w.got \in SUBSET Items /\ j.shown \cup shown \in SUBSET Items
  BY JobTyped
<1> HIDE DEF Items, Times
<1> QED
  BY <1>1 DEF AfterWalk, JobStates

LEMMA FetchTyped ==
  ASSUME TypeInv, NEW r \in Collections, Fetch(r)
  PROVE  /\ job' \in [Collections -> JobStates]
         /\ Coherent(r)'
<1> DEFINE j == job[r]
<1>1. PICK shown, w :
           /\ shown \subseteq 1 .. Now
           /\ w.got \subseteq Fresh(j, shown)
           /\ Cardinality(w.got) \in 0 .. Remaining(j)
           /\ w.first \in w.got \cup {0}
           /\ w.got # {} => w.first # 0
           /\ job' = [job EXCEPT ![r] = AfterWalk(j, Response(j), shown, w)]
  BY FetchIsWalk
<1>2. j \in JobStates /\ job \in [Collections -> JobStates] /\ Coherent(r)
  BY DEF TypeInv, TypeOK
<1>3. w.got \subseteq shown /\ Now \in 0 .. MaxItems /\ MaxItems \in Nat
  BY <1>1, FreshFacts, FeedFacts, CollectionAssumption DEF TypeInv
<1>4. shown \in SUBSET Items /\ w.got \subseteq Items
  <2>1. (1 .. Now) \subseteq Items
    BY <1>3, Nested DEF Items
  <2> QED
    BY <1>1, <1>3, <2>1
<1>5. j.pc = "fetch" /\ job'[r] = AfterWalk(j, Response(j), shown, w)
  BY <1>1, <1>2 DEF Fetch
<1>6. j.next \in 1 .. Last /\ Last \in Nat
  <2>1. kind \in Kinds
    BY DEF TypeInv, TypeOK
  <2> QED
    BY <1>2, <1>5, <2>1, LastFacts, JobTyped DEF Coherent
<1>7. j.attempted + Cardinality(w.got) \in 0 .. Quota
  BY <1>1, <1>2, JobTyped, CollectionAssumption DEF Remaining
<1>8. /\ Mark(j.mark, w.first) \in j.items \cup w.got \cup {0}
      /\ j.items \cup w.got # {} => Mark(j.mark, w.first) # 0
  <2>1. j.mark \in j.items \cup {0} /\ (j.items # {} => j.mark # 0)
    BY <1>2 DEF Coherent
  <2> QED
    BY <1>1, <2>1 DEF Mark
<1>9. Mark(j.mark, w.first) \in Times
  BY <1>2, <1>3, <1>4, <1>8, JobTyped DEF Times, Items
<1>10. AfterWalk(j, Response(j), shown, w) \in JobStates
  BY <1>2, <1>4, <1>6, <1>7, <1>9, AfterWalkTyped
<1>11. job' \in [Collections -> JobStates]
  BY <1>1, <1>2, <1>10
<1>12. Coherent(r)'
  <2> DEFINE k == AfterWalk(j, Response(j), shown, w)
  <2>1. /\ k.items = j.items \cup w.got /\ k.attempted = j.attempted + Cardinality(w.got)
        /\ k.mark = Mark(j.mark, w.first) /\ k.shown = j.shown \cup shown
        /\ k.next = j.next + 1 /\ k.from = j.from /\ k.error = j.error /\ k.kept = j.kept
        /\ k.pc \in {"fetch", "persist"}
        /\ k.pc = "fetch" => ~Ends(j, Response(j))
    BY <1>2, AfterWalkFields
  <2>2. Last' = Last /\ Now' = Now
    BY DEF Fetch, Last, Now
  <2>3. j.items \subseteq j.shown /\ j.shown \subseteq 1 .. Now /\ j.from <= Now /\ ~j.error /\ j.kept = 0
    BY <1>2, <1>5 DEF Coherent
  <2>4. k.pc = "fetch" => k.next <= Last
    BY <1>6, <2>1 DEF Ends
  <2>5. k.items \subseteq k.shown /\ k.shown \subseteq 1 .. Now
    BY <1>1, <1>3, <2>1, <2>3
  <2> HIDE DEF k
  <2>6. /\ k.pc # "new" /\ k.items \subseteq k.shown /\ k.shown \subseteq 1 .. Now /\ k.from <= Now
        /\ k.mark \in k.items \cup {0} /\ (k.items # {} => k.mark # 0)
        /\ k.pc = "fetch" => k.next <= Last /\ ~k.error
        /\ k.kept = 0
    BY <1>8, <2>1, <2>3, <2>4, <2>5
  <2>7. job'[r] = k
    BY <1>5 DEF k
  <2> QED
    BY <2>2, <2>6, <2>7 DEF Coherent
<1> QED
  BY <1>11, <1>12

\* What a step of one collection has to keep.
LEMMA TypeInvIntro ==
  ASSUME TypeInv, NEW r \in Collections, UNCHANGED <<kind, feed>>,
         job' \in [Collections -> JobStates], \A q \in Collections \ {r} : job'[q] = job[q],
         Coherent(r)',
         stats' \in [Collections -> Stats \cup {NoStats}],
         docs' \in SUBSET (1 .. Now), cursor' \in docs' \cup {0},
         cached' \in [Requests -> Times \cup {Uncached}], CachePast',
         failures' \in 0 .. MaxFailures, crashes' \in 0 .. MaxCrashes
  PROVE  TypeInv'
<1>1. Now' = Now /\ Now \in Nat /\ Last' = Last
  BY FeedFacts DEF TypeInv, Now, Last
<1>2. JobStates' = JobStates
  BY <1>1 DEF JobStates
<1>3. \A q \in Collections : Coherent(q)'
  <2> SUFFICES ASSUME NEW q \in Collections, q # r PROVE Coherent(q)'
    OBVIOUS
  <2>1. Coherent(q) /\ job[q] \in JobStates /\ job'[q] = job[q]
    BY DEF TypeInv, TypeOK
  <2> QED
    BY <1>1, <2>1, CoherentFrame
<1>4. FeedOrdered'
  BY <1>1 DEF TypeInv, FeedOrdered
<1>5. TypeOK'
  BY <1>1, <1>2 DEF TypeInv, TypeOK
<1> QED
  BY <1>3, <1>4, <1>5 DEF TypeInv

\* A spent failure is within its bound.
LEMMA FailTyped ==
  ASSUME TypeOK, Fail
  PROVE  failures' \in 0 .. MaxFailures
  BY CollectionAssumption DEF TypeOK, Fail

LEMMA NewJobTyped ==
  ASSUME TypeInv
  PROVE  /\ NewJob \in JobStates
         /\ \A m \in 0 .. Now : \A b \in BOOLEAN :
              /\ [NewJob EXCEPT !.pc = "fetch", !.from = m] \in JobStates
              /\ [NewJob EXCEPT !.pc = "stats", !.from = m, !.error = b] \in JobStates
<1>1. 1 \in 1 .. Last + 1 /\ 0 \in Times /\ \A m \in 0 .. Now : m \in Times
  BY LastFacts, FeedFacts, CollectionAssumption DEF TypeInv, TypeOK, Times
<1>2. 0 \in 0 .. Quota /\ {} \in SUBSET Items
  BY CollectionAssumption
<1> HIDE DEF Items, Times
<1> QED
  BY <1>1, <1>2 DEF NewJob, JobStates

LEMMA BeginTyped ==
  ASSUME TypeInv, NEW r \in Collections, Begin(r)
  PROVE  TypeInv'
<1>1. cursor \in 0 .. Now
  BY FeedFacts DEF TypeInv, TypeOK
<1>2. [NewJob EXCEPT !.pc = "fetch", !.from = cursor] \in JobStates
  BY <1>1, NewJobTyped
<1>3. /\ job' \in [Collections -> JobStates] /\ \A q \in Collections \ {r} : job'[q] = job[q]
      /\ job'[r] = [NewJob EXCEPT !.pc = "fetch", !.from = cursor]
  BY <1>2 DEF Begin, TypeInv, TypeOK
<1>4. Coherent(r)'
  <2>1. Now' = Now /\ Last' = Last /\ Last \in Nat \ {0} /\ Now \in Nat
    BY LastFacts, FeedFacts DEF Begin, Now, Last, TypeInv, TypeOK
  <2> QED
    BY <1>1, <1>3, <2>1 DEF Coherent, NewJob
<1>5. CachePast'
  BY DEF Begin, TypeInv, CachePast, Now
<1> QED
  BY <1>3, <1>4, <1>5, TypeInvIntro DEF Begin, TypeInv, TypeOK

LEMMA PlanFailsTyped ==
  ASSUME TypeInv, NEW r \in Collections, PlanFails(r)
  PROVE  TypeInv'
<1>1. cursor \in 0 .. Now
  BY FeedFacts DEF TypeInv, TypeOK
<1>2. [NewJob EXCEPT !.pc = "stats", !.from = cursor, !.error = TRUE] \in JobStates
  BY <1>1, NewJobTyped
<1>3. /\ job' \in [Collections -> JobStates] /\ \A q \in Collections \ {r} : job'[q] = job[q]
      /\ job'[r] = [NewJob EXCEPT !.pc = "stats", !.from = cursor, !.error = TRUE]
  BY <1>2 DEF PlanFails, TypeInv, TypeOK
<1>4. Coherent(r)'
  <2>1. Now' = Now /\ Last' = Last /\ Now \in Nat
    BY FeedFacts DEF PlanFails, Now, Last, TypeInv, TypeOK
  <2> QED
    BY <1>1, <1>3, <2>1 DEF Coherent, NewJob
<1>5. CachePast'
  BY DEF PlanFails, TypeInv, CachePast, Now
<1>6. failures' \in 0 .. MaxFailures
  BY FailTyped DEF PlanFails, TypeInv
<1> QED
  BY <1>3, <1>4, <1>5, <1>6, TypeInvIntro DEF PlanFails, TypeInv, TypeOK

LEMMA AllowanceSpentTyped ==
  ASSUME TypeInv, NEW r \in Collections, AllowanceSpent(r)
  PROVE  TypeInv'
<1> DEFINE k == [job[r] EXCEPT !.pc = "persist", !.reached = TRUE]
<1>1. job[r] \in JobStates /\ job \in [Collections -> JobStates] /\ Coherent(r)
  BY DEF TypeInv, TypeOK
<1>2. job' = [job EXCEPT ![r] = k]
  BY DEF AllowanceSpent
<1>3. /\ job' \in [Collections -> JobStates] /\ \A q \in Collections \ {r} : job'[q] = job[q]
      /\ job'[r] = k
  <2>1. k \in JobStates
    BY <1>1 DEF JobStates
  <2> HIDE DEF k
  <2> QED
    BY <1>1, <1>2, <2>1
<1>4. Coherent(r)'
  <2>1. Now' = Now /\ Last' = Last
    BY DEF AllowanceSpent, Now, Last
  <2>2. /\ k.pc = "persist" /\ k.items = job[r].items /\ k.shown = job[r].shown
        /\ k.from = job[r].from /\ k.mark = job[r].mark /\ k.kept = job[r].kept
    BY <1>1 DEF JobStates
  <2> HIDE DEF k
  <2> QED
    BY <1>1, <1>3, <2>1, <2>2 DEF Coherent, AllowanceSpent
<1>5. CachePast'
  BY DEF AllowanceSpent, TypeInv, CachePast, Now
<1> QED
  BY <1>3, <1>4, <1>5, TypeInvIntro DEF AllowanceSpent, TypeInv, TypeOK

\* A request fills the cache with the response it works from.
LEMMA CacheFilled ==
  ASSUME TypeInv, NEW r \in Collections, job[r].pc = "fetch", feed' = feed,
         cached' = cached \/ cached' = [cached EXCEPT ![job[r].next] = AsOf(job[r])]
  PROVE  cached' \in [Requests -> Times \cup {Uncached}] /\ CachePast'
<1>1. AsOf(job[r]) \in 0 .. Now /\ job[r].next \in Requests
  BY ResponseFacts
<1>2. AsOf(job[r]) \in Times /\ AsOf(job[r]) <= Now
  BY <1>1, FeedFacts, CollectionAssumption DEF TypeInv, Times
<1>3. cached \in [Requests -> Times \cup {Uncached}] /\ Now' = Now
  BY DEF TypeInv, TypeOK, Now
<1> QED
  BY <1>1, <1>2, <1>3 DEF TypeInv, CachePast

LEMMA FetchStepTyped ==
  ASSUME TypeInv, NEW r \in Collections, Fetch(r)
  PROVE  TypeInv'
<1>1. job' \in [Collections -> JobStates] /\ Coherent(r)'
  BY FetchTyped
<1>2. \A q \in Collections \ {r} : job'[q] = job[q]
  BY FetchIsWalk DEF TypeInv, TypeOK
<1>3. cached' \in [Requests -> Times \cup {Uncached}] /\ CachePast'
  BY CacheFilled DEF Fetch
<1> QED
  BY <1>1, <1>2, <1>3, TypeInvIntro DEF Fetch, TypeInv, TypeOK

LEMMA FetchFailsTyped ==
  ASSUME TypeInv, NEW r \in Collections, FetchFails(r)
  PROVE  TypeInv'
<1> DEFINE j == job[r]
           k == IF kind = "appstore"
                THEN [NewJob EXCEPT !.pc = "persist", !.next = j.next, !.from = j.from, !.error = TRUE]
                ELSE [j EXCEPT !.pc = "persist", !.error = TRUE]
<1>1. j \in JobStates /\ job \in [Collections -> JobStates] /\ Coherent(r) /\ j.pc = "fetch"
  BY DEF TypeInv, TypeOK, FetchFails
<1>2. job' = [job EXCEPT ![r] = k]
  BY DEF FetchFails
<1>3. /\ job' \in [Collections -> JobStates] /\ \A q \in Collections \ {r} : job'[q] = job[q]
      /\ job'[r] = k
  <2>1. k \in JobStates
    <3>1. NewJob \in JobStates
      BY NewJobTyped
    <3>2. CASE kind = "appstore"
      <4>1. j.next \in 1 .. Last + 1 /\ j.from \in Times
        BY <1>1, JobTyped
      <4>2. [NewJob EXCEPT !.pc = "persist", !.next = j.next, !.from = j.from, !.error = TRUE] \in JobStates
        <5> HIDE DEF j, Times, Items
        <5> QED
          BY <3>1, <4>1 DEF JobStates, NewJob
      <4> QED
        BY <3>2, <4>2
    <3>3. CASE kind # "appstore"
      <4>1. [j EXCEPT !.pc = "persist", !.error = TRUE] \in JobStates
        BY <1>1 DEF JobStates
      <4> QED
        BY <3>3, <4>1
    <3> QED
      BY <3>2, <3>3
  <2> HIDE DEF k
  <2> QED
    BY <1>1, <1>2, <2>1
<1>4. Coherent(r)'
  <2>1. Now' = Now /\ Last' = Last
    BY DEF FetchFails, Now, Last
  <2>2. /\ k.pc = "persist" /\ k.items \subseteq k.shown /\ k.shown \subseteq 1 .. Now /\ k.from <= Now
        /\ k.mark \in k.items \cup {0} /\ (k.items # {} => k.mark # 0) /\ k.kept = 0
    <3>1. /\ j.items \subseteq j.shown /\ j.shown \subseteq 1 .. Now /\ j.from <= Now
          /\ j.mark \in j.items \cup {0} /\ (j.items # {} => j.mark # 0) /\ j.kept = 0
      BY <1>1 DEF Coherent
    <3>2. CASE kind = "appstore"
      <4>1. k.pc = "persist" /\ k.items = {} /\ k.shown = {} /\ k.from = j.from /\ k.mark = 0 /\ k.kept = 0
        BY <3>2 DEF NewJob
      <4> HIDE DEF k
      <4> QED
        BY <3>1, <4>1
    <3>3. CASE kind # "appstore"
      <4>1. /\ k.pc = "persist" /\ k.items = j.items /\ k.shown = j.shown /\ k.from = j.from
            /\ k.mark = j.mark /\ k.kept = j.kept
        BY <1>1, <3>3 DEF JobStates
      <4> HIDE DEF k
      <4> QED
        BY <3>1, <4>1
    <3> QED
      BY <3>2, <3>3
  <2> HIDE DEF k
  <2> QED
    BY <1>3, <2>1, <2>2 DEF Coherent
<1>5. CachePast'
  BY DEF FetchFails, TypeInv, CachePast, Now
<1>6. failures' \in 0 .. MaxFailures
  BY FailTyped DEF FetchFails, TypeInv, TypeOK
<1> QED
  BY <1>3, <1>4, <1>5, <1>6, TypeInvIntro DEF FetchFails, TypeInv, TypeOK

\* Only the stage of a collection changes, and perhaps its error.
LEMMA StageTyped ==
  ASSUME TypeInv, NEW r \in Collections, UNCHANGED <<kind, feed>>,
         NEW pc \in {"persist", "stats", "done", "lost", "raised"}, NEW e \in BOOLEAN, NEW n \in Times,
         job' = [job EXCEPT ![r] = [job[r] EXCEPT !.pc = pc, !.error = e, !.kept = n]],
         pc = "persist" => n = 0, job[r].pc # "new"
  PROVE  /\ job' \in [Collections -> JobStates]
         /\ \A q \in Collections \ {r} : job'[q] = job[q]
         /\ Coherent(r)'
<1> DEFINE j == job[r]
           k == [j EXCEPT !.pc = pc, !.error = e, !.kept = n]
<1>1. j \in JobStates /\ job \in [Collections -> JobStates] /\ Coherent(r)
  BY DEF TypeInv, TypeOK
<1>2. k \in JobStates
  <2> HIDE DEF Times, Items
  <2> QED
    BY <1>1 DEF JobStates
<1>3. /\ k.pc = pc /\ k.items = j.items /\ k.shown = j.shown /\ k.from = j.from
      /\ k.mark = j.mark /\ k.kept = n
  BY <1>1 DEF JobStates
<1>4. /\ job' \in [Collections -> JobStates] /\ \A q \in Collections \ {r} : job'[q] = job[q]
      /\ job'[r] = k
  <2>1. job' = [job EXCEPT ![r] = k]
    OBVIOUS
  <2> HIDE DEF k
  <2> QED
    BY <1>1, <1>2, <2>1
<1>5. Now' = Now /\ Last' = Last
  BY DEF Now, Last
<1> HIDE DEF k
<1>6. Coherent(r)'
  BY <1>1, <1>3, <1>4, <1>5 DEF Coherent
<1> QED
  BY <1>4, <1>6

\* A record with fields set to what they are is itself.
LEMMA SameFields ==
  ASSUME NEW j \in JobStates, NEW p
  PROVE  /\ [j EXCEPT !.pc = p] = [j EXCEPT !.pc = p, !.error = j.error, !.kept = j.kept]
         /\ \A e : [j EXCEPT !.pc = p, !.error = e] = [j EXCEPT !.pc = p, !.error = e, !.kept = j.kept]
         /\ \A n : [j EXCEPT !.pc = p, !.kept = n] = [j EXCEPT !.pc = p, !.error = j.error, !.kept = n]
  BY DEF JobStates

LEMMA FetchRaisesTyped ==
  ASSUME TypeInv, NEW r \in Collections, FetchRaises(r)
  PROVE  TypeInv'
<1>1. job[r] \in JobStates /\ job[r].pc = "fetch" /\ job \in [Collections -> JobStates]
  BY DEF FetchRaises, TypeInv, TypeOK
<1>2. job' = [job EXCEPT ![r] = [job[r] EXCEPT !.pc = "raised", !.error = job[r].error, !.kept = job[r].kept]]
  BY <1>1, SameFields DEF FetchRaises
<1>3. /\ job' \in [Collections -> JobStates] /\ \A q \in Collections \ {r} : job'[q] = job[q]
      /\ Coherent(r)'
  BY <1>1, <1>2, JobTyped, StageTyped DEF FetchRaises
<1>4. cached' \in [Requests -> Times \cup {Uncached}] /\ CachePast'
  BY CacheFilled DEF FetchRaises
<1> QED
  BY <1>3, <1>4, TypeInvIntro DEF FetchRaises, TypeInv, TypeOK

\* What a collection keeps fits the clock.
LEMMA KeptTyped ==
  ASSUME TypeInv, NEW r \in Collections
  PROVE  Cardinality(job[r].items \ docs) \in Times
<1>1. Now \in 0 .. MaxItems /\ MaxItems \in Nat
  BY FeedFacts, CollectionAssumption DEF TypeInv
<1>2. job[r].items \ docs \subseteq 1 .. Now
  BY DEF TypeInv, Coherent
<1>3. IsFiniteSet(1 .. Now) /\ Cardinality(1 .. Now) = Now
  BY <1>1, FS_Interval
<1>4. Cardinality(job[r].items \ docs) <= Now /\ IsFiniteSet(job[r].items \ docs)
  BY <1>2, <1>3, FS_Subset
<1>5. Cardinality(job[r].items \ docs) \in Nat
  BY <1>4, FS_CardinalityType
<1> QED
  BY <1>1, <1>4, <1>5 DEF Times

LEMMA PersistTyped ==
  ASSUME TypeInv, NEW r \in Collections, Persist(r)
  PROVE  TypeInv'
<1> DEFINE n == Cardinality(job[r].items \ docs)
<1>1. job[r] \in JobStates /\ job[r].pc = "persist" /\ job \in [Collections -> JobStates] /\ Coherent(r)
  BY DEF Persist, TypeInv, TypeOK
<1>2. n \in Times
  BY KeptTyped
<1>3. job' = [job EXCEPT ![r] = [job[r] EXCEPT !.pc = "stats", !.error = job[r].error, !.kept = n]]
  BY <1>1, SameFields DEF Persist
<1> HIDE DEF n
<1>4. /\ job' \in [Collections -> JobStates] /\ \A q \in Collections \ {r} : job'[q] = job[q]
      /\ Coherent(r)'
  BY <1>1, <1>2, <1>3, JobTyped, StageTyped DEF Persist
<1>5. docs' \in SUBSET (1 .. Now)
  BY <1>1 DEF Persist, TypeInv, TypeOK, Coherent
<1>6. cursor' \in docs' \cup {0}
  BY <1>1 DEF Persist, TypeInv, TypeOK, Coherent
<1>7. CachePast'
  BY DEF Persist, TypeInv, CachePast, Now
<1> QED
  BY <1>4, <1>5, <1>6, <1>7, TypeInvIntro DEF Persist, TypeInv, TypeOK

LEMMA PersistFailsTyped ==
  ASSUME TypeInv, NEW r \in Collections, PersistFails(r)
  PROVE  TypeInv'
<1>1. job[r] \in JobStates /\ job[r].pc = "persist" /\ job \in [Collections -> JobStates]
  BY DEF PersistFails, TypeInv, TypeOK
<1>2. job' = [job EXCEPT ![r] = [job[r] EXCEPT !.pc = "stats", !.error = TRUE, !.kept = job[r].kept]]
  BY <1>1, SameFields DEF PersistFails
<1>3. /\ job' \in [Collections -> JobStates] /\ \A q \in Collections \ {r} : job'[q] = job[q]
      /\ Coherent(r)'
  BY <1>1, <1>2, JobTyped, StageTyped DEF PersistFails
<1>4. CachePast'
  BY DEF PersistFails, TypeInv, CachePast, Now
<1>5. failures' \in 0 .. MaxFailures
  BY FailTyped DEF PersistFails, TypeInv
<1> QED
  BY <1>3, <1>4, <1>5, TypeInvIntro DEF PersistFails, TypeInv, TypeOK

LEMMA WriteStatsTyped ==
  ASSUME TypeInv, NEW r \in Collections, WriteStats(r)
  PROVE  TypeInv'
<1>1. job[r] \in JobStates /\ job[r].pc = "stats" /\ job \in [Collections -> JobStates]
  BY DEF WriteStats, TypeInv, TypeOK
<1>2. job' = [job EXCEPT ![r] = [job[r] EXCEPT !.pc = "done", !.error = job[r].error, !.kept = job[r].kept]]
  BY <1>1, SameFields DEF WriteStats
<1>3. /\ job' \in [Collections -> JobStates] /\ \A q \in Collections \ {r} : job'[q] = job[q]
      /\ Coherent(r)'
  BY <1>1, <1>2, JobTyped, StageTyped DEF WriteStats
<1>4. CachePast'
  BY DEF WriteStats, TypeInv, CachePast, Now
<1>5. stats' \in [Collections -> Stats \cup {NoStats}]
  <2>1. [attempted |-> job[r].attempted, kept |-> job[r].kept, reached |-> job[r].reached,
         error |-> job[r].error] \in Stats
    BY <1>1, JobTyped DEF Stats
  <2> QED
    BY <2>1 DEF WriteStats, TypeInv, TypeOK
<1> QED
  BY <1>3, <1>4, <1>5, TypeInvIntro DEF WriteStats, TypeInv, TypeOK

LEMMA CrashTyped ==
  ASSUME TypeInv, NEW r \in Collections, Crash(r)
  PROVE  TypeInv'
<1>1. job[r] \in JobStates /\ job[r].pc # "new" /\ job \in [Collections -> JobStates]
  BY DEF Crash, TypeInv, TypeOK
<1>2. job' = [job EXCEPT ![r] = [job[r] EXCEPT !.pc = "lost", !.error = job[r].error, !.kept = job[r].kept]]
  BY <1>1, SameFields DEF Crash
<1>3. /\ job' \in [Collections -> JobStates] /\ \A q \in Collections \ {r} : job'[q] = job[q]
      /\ Coherent(r)'
  BY <1>1, <1>2, JobTyped, StageTyped DEF Crash
<1>4. CachePast'
  BY DEF Crash, TypeInv, CachePast, Now
<1>5. crashes' \in 0 .. MaxCrashes
  BY CollectionAssumption DEF Crash, TypeInv, TypeOK
<1> QED
  BY <1>3, <1>4, <1>5, TypeInvIntro DEF Crash, TypeInv, TypeOK

LEMMA CacheExpireTyped ==
  ASSUME TypeInv, NEW n \in Requests, CacheExpire(n)
  PROVE  TypeInv'
<1>1. Now' = Now /\ Last' = Last /\ job' = job /\ UNCHANGED <<kind, feed>>
  BY DEF CacheExpire, Now, Last
<1>2. TypeOK'
  BY <1>1 DEF CacheExpire, TypeInv, TypeOK, JobStates
<1>3. FeedOrdered' /\ CachePast'
  BY <1>1 DEF CacheExpire, TypeInv, TypeOK, FeedOrdered, CachePast
<1>4. \A r \in Collections : Coherent(r)'
  BY <1>1 DEF TypeInv, Coherent
<1> QED
  BY <1>2, <1>3, <1>4 DEF TypeInv

\* Publishing appends one item, with the latest timestamp.
LEMMA PublishFacts ==
  ASSUME TypeInv, Publish
  PROVE  /\ Now' = Now + 1 /\ Now' <= MaxItems
         /\ feed' \in Seq([queries : SUBSET Queries, at : 1 .. MaxItems])
         /\ \A i \in 1 .. Now : feed'[i] = feed[i]
         /\ feed'[Now'].at \in Nat /\ feed'[Now'].at <= Now'
         /\ \A i \in 1 .. Now : feed'[i].at <= feed'[Now'].at
<1> DEFINE Item == [queries : SUBSET Queries, at : 1 .. MaxItems]
           before == IF Now = 0 THEN 0 ELSE feed[Now].at
<1>1. PICK qs \in SUBSET Queries, step \in {0, 1} :
        before + step > 0 /\ feed' = Append(feed, [queries |-> qs, at |-> before + step])
  <2>1. {1} \in SUBSET Queries /\ (SUBSET Queries) \ {{}} \subseteq SUBSET Queries
    BY CollectionAssumption DEF Queries
  <2>2. (IF kind \in FanOut THEN (SUBSET Queries) \ {{}} ELSE {{1}}) \subseteq SUBSET Queries
    BY <2>1
  <2> QED
    BY <2>2 DEF Publish
<1>2. feed \in Seq(Item) /\ Len(feed) = Now /\ Now \in Nat /\ Now < MaxItems /\ MaxItems \in Nat
  BY FeedFacts, CollectionAssumption DEF TypeInv, TypeOK, Publish, Now
<1>3. before \in Nat /\ before <= Now /\ \A i \in 1 .. Now : feed[i].at <= before
  <2>1. CASE Now = 0
    BY <2>1
  <2>2. CASE Now # 0
    <3>1. Now \in 1 .. Now
      BY <1>2, <2>2
    <3>2. feed[Now].at \in Nat /\ feed[Now].at <= Now
      BY <3>1, FeedFacts DEF TypeInv, FeedOrdered
    <3>3. \A i \in 1 .. Now : feed[i].at <= feed[Now].at
      BY DEF TypeInv, FeedOrdered
    <3>4. before = feed[Now].at
      BY <2>2
    <3> QED
      BY <3>2, <3>3, <3>4
  <2> QED
    BY <2>1, <2>2
<1> DEFINE new == [queries |-> qs, at |-> before + step]
<1>4. before + step \in 1 .. MaxItems /\ before + step <= Now + 1 /\ before <= before + step
  <2> HIDE DEF before
  <2> QED
    BY <1>1, <1>2, <1>3
<1>5. new \in Item /\ new.at = before + step
  <2> HIDE DEF before
  <2> QED
    BY <1>4
<1> HIDE DEF new, Item, before
<1>6. /\ feed' \in Seq(Item) /\ Len(feed') = Len(feed) + 1
      /\ \A i \in 1 .. Len(feed) : feed'[i] = feed[i]
      /\ feed'[Len(feed) + 1] = new
  BY <1>1, <1>2, <1>5, AppendProperties DEF new
<1>7. Now' = Now + 1 /\ feed'[Now'] = new /\ \A i \in 1 .. Now : feed'[i] = feed[i]
  BY <1>2, <1>6 DEF Now
<1>8. new.at \in Nat /\ new.at <= Now'
  BY <1>4, <1>5, <1>7
<1>9. \A i \in 1 .. Now : feed'[i].at <= new.at
  <2> SUFFICES ASSUME NEW i \in 1 .. Now PROVE feed[i].at <= new.at
    BY <1>7
  <2>1. feed[i].at <= before /\ feed[i].at \in Nat
    BY <1>3, FeedFacts DEF TypeInv
  <2> QED
    BY <1>3, <1>4, <1>5, <2>1
<1>10. Now' <= MaxItems
  BY <1>2, <1>7
<1> QED
  BY <1>6, <1>7, <1>8, <1>9, <1>10 DEF Item

LEMMA PublishTyped ==
  ASSUME TypeInv, Publish
  PROVE  TypeInv'
<1>1. Now \in Nat /\ Now' = Now + 1 /\ Now' \in Nat /\ Now' >= Now /\ Now' <= MaxItems
  BY PublishFacts, FeedFacts DEF TypeInv
<1>2. /\ UNCHANGED <<kind, cached, docs, cursor, stats, job, failures, crashes>>
      /\ Last' = Last
  BY DEF Publish, Last
<1>3. (1 .. Now) \subseteq 1 .. Now'
  BY <1>1, Nested
<1>4. TypeOK'
  BY <1>1, <1>2, <1>3, PublishFacts DEF TypeInv, TypeOK, JobStates
<1>5. CachePast'
  <2> SUFFICES ASSUME NEW n \in Requests, cached[n] # Uncached PROVE cached[n] <= Now'
    BY <1>2 DEF CachePast
  <2>1. cached[n] <= Now /\ cached[n] \in Nat
    BY CollectionAssumption DEF TypeInv, TypeOK, CachePast, Times
  <2> QED
    BY <1>1, <2>1
<1>6. FeedOrdered'
  <2> SUFFICES ASSUME NEW i \in 1 .. Now' PROVE feed'[i].at <= i /\ feed'[i].at <= feed'[Now'].at
    BY DEF FeedOrdered
  <2>1. CASE i = Now'
    BY <2>1, PublishFacts
  <2>2. CASE i # Now'
    <3>1. i \in 1 .. Now
      BY <1>1, <2>2
    <3> QED
      BY <3>1, PublishFacts DEF TypeInv, FeedOrdered
  <2> QED
    BY <2>1, <2>2
<1>7. \A r \in Collections : Coherent(r)'
  <2> SUFFICES ASSUME NEW r \in Collections PROVE Coherent(r)'
    OBVIOUS
  <2>1. Coherent(r) /\ job[r] \in JobStates /\ job'[r] = job[r]
    BY <1>2 DEF TypeInv, TypeOK
  <2> QED
    BY <1>1, <1>2, <2>1, CoherentFrame
<1> QED
  BY <1>4, <1>5, <1>6, <1>7 DEF TypeInv

\* What collections hold fits the clock and the bounds.
LEMMA TypeInvariant == Spec => []TypeInv
<1>1. Init => TypeInv
  <2> SUFFICES ASSUME Init PROVE TypeInv
    OBVIOUS
  <2>1. Now = 0 /\ feed \in Seq([queries : SUBSET Queries, at : 1 .. MaxItems])
    BY EmptySeq DEF Init, Now
  <2>2. NewJob \in JobStates
    <3>1. 1 \in 1 .. Last + 1
      BY LastFacts DEF Init
    <3> QED
      BY <3>1, CollectionAssumption DEF NewJob, JobStates, Times
  <2>3. TypeOK
    BY <2>1, <2>2, CollectionAssumption DEF Init, TypeOK
  <2>4. \A r \in Collections : Coherent(r)
    BY <2>1, CollectionAssumption DEF Init, Coherent, NewJob
  <2> QED
    BY <2>1, <2>3, <2>4 DEF Init, TypeInv, FeedOrdered, CachePast
<1>2. TypeInv /\ [Next]_vars => TypeInv'
  <2> SUFFICES ASSUME TypeInv, [Next]_vars PROVE TypeInv'
    OBVIOUS
  <2>1. CASE UNCHANGED vars
    <3>1. UNCHANGED <<kind, feed, cached, docs, cursor, stats, job, failures, crashes>> /\ Now' = Now /\ Last' = Last
      BY <2>1 DEF vars, Now, Last
    <3>2. TypeOK'
      BY <3>1 DEF TypeInv, TypeOK, JobStates
    <3>3. FeedOrdered' /\ CachePast'
      BY <3>1 DEF TypeInv, FeedOrdered, CachePast
    <3>4. \A r \in Collections : Coherent(r)'
      BY <3>1 DEF TypeInv, Coherent
    <3> QED
      BY <3>2, <3>3, <3>4 DEF TypeInv
  <2>2. CASE Publish
    BY <2>2, PublishTyped
  <2>3. ASSUME NEW n \in Requests, CacheExpire(n) PROVE TypeInv'
    BY <2>3, CacheExpireTyped
  <2>4. ASSUME NEW r \in Collections,
               \/ Begin(r) \/ PlanFails(r)
               \/ AllowanceSpent(r) \/ Fetch(r) \/ FetchFails(r) \/ FetchRaises(r)
               \/ Persist(r) \/ PersistFails(r)
               \/ WriteStats(r) \/ Crash(r)
        PROVE  TypeInv'
    BY <2>4, BeginTyped, PlanFailsTyped, AllowanceSpentTyped, FetchStepTyped, FetchFailsTyped,
       FetchRaisesTyped, PersistTyped, PersistFailsTyped, WriteStatsTyped, CrashTyped
  <2> QED
    BY <2>1, <2>2, <2>3, <2>4 DEF Next
<1> QED
  BY <1>1, <1>2, PTL DEF Spec

\* Every variable keeps its type: among other things no collection attempts
\* more than the source's daily allowance, and the saved watermark is a
\* document.
THEOREM TypeCorrect == Spec => []TypeOK
<1>1. TypeInv => TypeOK
  BY DEF TypeInv
<1> QED
  BY <1>1, TypeInvariant, PTL

-----------------------------------------------------------------------------
(* What the ledger row of a collection says.                               *)

\* Nothing changes that an item is compared with.
SameFeed == kind' = kind /\ \A i \in 1 .. Now : feed'[i] = feed[i]

LEMMA StepFeed ==
  ASSUME TypeInv, [Next]_vars
  PROVE  SameFeed /\ Now \in Nat /\ Now' \in {Now, Now + 1} /\ (Now' = Now \/ Publish)
<1>1. Now \in Nat
  BY FeedFacts DEF TypeInv
<1>2. CASE Publish
  BY <1>1, <1>2, PublishFacts DEF SameFeed, Publish
<1>3. CASE ~Publish
  <2>1. kind' = kind /\ feed' = feed
    BY <1>3 DEF Next, vars, CacheExpire, Begin, PlanFails, AllowanceSpent, Fetch, FetchFails,
                FetchRaises, Persist, PersistFails, WriteStats, Crash
  <2> QED
    BY <1>1, <2>1 DEF SameFeed, Now
<1> QED
  BY <1>2, <1>3

\* The numbers in what a collection holds.
LEMMA JobNumbers ==
  ASSUME TypeInv, NEW r \in Collections
  PROVE  /\ job[r] \in JobStates
         /\ job[r].from \in 0 .. Now /\ job[r].mark \in 0 .. Now
         /\ \A i \in job[r].shown \cup job[r].items : i \in 1 .. Now
<1>1. job[r] \in JobStates /\ Coherent(r) /\ Now \in Nat
  BY FeedFacts DEF TypeInv, TypeOK
<1>2. job[r].from \in Nat
  BY <1>1, JobTyped, CollectionAssumption DEF Times
<1> QED
  BY <1>1, <1>2 DEF Coherent

\* A collection whose findings are as they were.
Findings(j) == <<j.items, j.mark, j.shown, j.from, j.reached, j.error>>

LEMMA BelowKept ==
  ASSUME TypeInv, SameFeed
  PROVE  \A i \in 1 .. Now, m \in 0 .. Now : (Below(i, m))' <=> Below(i, m)
  BY FeedFacts DEF TypeInv, SameFeed, Below

LEMMA BelowFromKept ==
  ASSUME TypeInv, SameFeed, NEW r \in Collections, job'[r].from = job[r].from
  PROVE  \A i \in 1 .. Now : (Below(i, job[r].from))' <=> Below(i, job[r].from)
<1>1. job[r].from \in 0 .. Now
  BY JobNumbers
<1> QED
  BY <1>1, FeedFacts DEF TypeInv, SameFeed, Below

LEMMA BelowMarkKept ==
  ASSUME TypeInv, SameFeed, NEW r \in Collections, job'[r].mark = job[r].mark
  PROVE  \A i \in 1 .. Now : (Below(i, job[r].mark))' <=> Below(i, job[r].mark)
<1>1. job[r].mark \in 0 .. Now
  BY JobNumbers
<1> QED
  BY <1>1, FeedFacts DEF TypeInv, SameFeed, Below

LEMMA FindingsStay ==
  ASSUME TypeInv, SameFeed, NEW r \in Collections, Walked(r), Newer(r),
         (Findings(job[r]))' = Findings(job[r])
  PROVE  Walked(r)' /\ Newer(r)'
<1>1. /\ job'[r].items = job[r].items /\ job'[r].shown = job[r].shown /\ job'[r].from = job[r].from
      /\ job'[r].reached = job[r].reached /\ job'[r].error = job[r].error
  BY DEF Findings
<1>2. \A i \in 1 .. Now : (Below(i, job[r].from))' <=> Below(i, job[r].from)
  BY <1>1, BelowFromKept
<1>3. \A i \in job[r].shown \cup job[r].items : i \in 1 .. Now
  BY JobNumbers
<1>4. kind' = kind
  BY DEF SameFeed
<1> HIDE DEF Below
<1>5. Walked(r)'
  BY <1>1, <1>2, <1>3, <1>4 DEF Walked
<1>6. Newer(r)'
  BY <1>1, <1>2, <1>3, <1>4 DEF Newer
<1> QED
  BY <1>5, <1>6

\* A fetch walks newest first, or leaves behind only what a ranked search put
\* behind a known item, or spends the allowance.
LEMMA FetchWalks ==
  ASSUME TypeInv, NEW r \in Collections, Walked(r), Newer(r), Fetch(r)
  PROVE  Walked(r)' /\ Newer(r)'
<1> DEFINE j == job[r]
<1>1. PICK shown, w :
           /\ shown \subseteq 1 .. Now
           /\ w.got \subseteq Fresh(j, shown)
           /\ w.got # Fresh(j, shown) =>
                Cardinality(w.got) = Remaining(j) \/ (kind \in Ranked /\ Fresh(j, shown) # shown)
           /\ job' = [job EXCEPT ![r] = AfterWalk(j, Response(j), shown, w)]
  BY FetchIsWalk
<1> DEFINE k == AfterWalk(j, Response(j), shown, w)
<1>2. j \in JobStates /\ job'[r] = k
  BY <1>1 DEF TypeInv, TypeOK
<1>3. /\ k.items = j.items \cup w.got /\ k.shown = j.shown \cup shown
      /\ k.reached = (j.reached \/ Cardinality(w.got) = Remaining(j))
      /\ k.from = j.from /\ k.error = j.error
  BY <1>2, AfterWalkFields
<1>4. /\ Fresh(j, shown) \subseteq shown
      /\ kind # "appstore" => \A i \in Fresh(j, shown) : ~Below(i, j.from)
      /\ \A i \in shown \ Fresh(j, shown) : Below(i, j.from)
  BY FreshFacts
<1>5. SameFeed /\ kind' = kind
  BY DEF Fetch, SameFeed
<1>6. \A i \in 1 .. Now : (Below(i, job[r].from))' <=> Below(i, j.from)
  BY <1>2, <1>3, <1>5, BelowFromKept
<1>7. \A i \in j.shown \cup j.items \cup shown \cup w.got : i \in 1 .. Now
  BY <1>1, <1>4, JobNumbers
<1> HIDE DEF k, Below
<1>8. Newer(r)'
  <2> SUFFICES ASSUME kind # "appstore", NEW i \in k.items PROVE ~(Below(i, job[r].from))'
    BY <1>2, <1>5 DEF Newer
  <2>1. ~Below(i, j.from)
    BY <1>1, <1>3, <1>4 DEF Newer
  <2> QED
    BY <1>3, <1>6, <1>7, <2>1
<1>9. Walked(r)'
  <2> SUFFICES ASSUME ~k.error, NEW i \in k.shown, ~(Below(i, job[r].from))', i \notin k.items, ~k.reached
               PROVE  kind \in Ranked /\ \E x \in k.shown : (Below(x, job[r].from))'
    BY <1>2, <1>5 DEF Walked
  <2>1. ~Below(i, j.from)
    BY <1>3, <1>6, <1>7
  <2>2. CASE i \in j.shown
    <3>1. kind \in Ranked /\ \E x \in j.shown : Below(x, j.from)
      BY <1>3, <2>1, <2>2 DEF Walked
    <3> QED
      BY <1>3, <1>6, <1>7, <3>1
  <2>3. CASE i \in shown
    <3>1. i \in Fresh(j, shown) /\ i \notin w.got
      BY <1>3, <1>4, <2>1, <2>3
    <3>2. kind \in Ranked /\ Fresh(j, shown) # shown
      BY <1>1, <1>3, <3>1
    <3>3. PICK x \in shown : x \notin Fresh(j, shown)
      BY <1>4, <3>2
    <3>4. Below(x, j.from)
      BY <1>4, <3>3
    <3> QED
      BY <1>3, <1>6, <1>7, <3>2, <3>4
  <2> QED
    BY <1>3, <2>2, <2>3
<1> QED
  BY <1>8, <1>9

Acts(r) ==
  \/ Begin(r) \/ PlanFails(r)
  \/ AllowanceSpent(r) \/ Fetch(r) \/ FetchFails(r) \/ FetchRaises(r)
  \/ Persist(r) \/ PersistFails(r)
  \/ WriteStats(r) \/ Crash(r)

\* A collection leaves the others alone and takes no document away.
LEMMA OthersStay ==
  ASSUME TypeInv, NEW r \in Collections, Acts(r)
  PROVE  Others(r) /\ docs \subseteq docs' /\ SameFeed /\ feed' = feed
<1>1. job \in [Collections -> JobStates] /\ stats \in [Collections -> Stats \cup {NoStats}]
  BY DEF TypeInv, TypeOK
<1>2. CASE Fetch(r)
  BY <1>1, <1>2, FetchIsWalk DEF Fetch, Others, SameFeed
<1>3. CASE ~Fetch(r)
  BY <1>1, <1>3 DEF Acts, Begin, PlanFails, AllowanceSpent, FetchFails, FetchRaises,
                    Persist, PersistFails, WriteStats, Crash, Others, SameFeed
<1> QED
  BY <1>2, <1>3

\* What each step makes of the findings of its collection.
LEMMA ActorFindings ==
  ASSUME TypeInv, NEW r \in Collections, Acts(r), Walked(r), Newer(r)
  PROVE  Walked(r)' /\ Newer(r)'
<1>1. job[r] \in JobStates /\ job \in [Collections -> JobStates] /\ SameFeed
  BY OthersStay DEF TypeInv, TypeOK
<1>2. CASE Fetch(r)
  BY <1>2, FetchWalks
<1>3. CASE Begin(r) \/ PlanFails(r)
  <2>1. job'[r].shown = {} /\ job'[r].items = {}
    BY <1>1, <1>3 DEF Begin, PlanFails, NewJob
  <2> QED
    BY <2>1 DEF Walked, Newer
<1>4. CASE AllowanceSpent(r)
  <2>1. /\ job'[r].items = job[r].items /\ job'[r].from = job[r].from /\ job'[r].reached
    BY <1>1, <1>4 DEF AllowanceSpent, JobStates
  <2>2. \A i \in 1 .. Now : (Below(i, job[r].from))' <=> Below(i, job[r].from)
    BY <1>1, <2>1, BelowFromKept
  <2>3. \A i \in job[r].items : i \in 1 .. Now
    BY JobNumbers
  <2>4. kind' = kind
    BY <1>1 DEF SameFeed
  <2> HIDE DEF Below
  <2>5. Newer(r)'
    BY <2>1, <2>2, <2>3, <2>4 DEF Newer
  <2> QED
    BY <2>1, <2>5 DEF Walked
<1>5. CASE FetchFails(r)
  <2>1. /\ job'[r].items \in {job[r].items, {}} /\ job'[r].from = job[r].from /\ job'[r].error
    BY <1>1, <1>5 DEF FetchFails, JobStates, NewJob
  <2>2. \A i \in 1 .. Now : (Below(i, job[r].from))' <=> Below(i, job[r].from)
    BY <1>1, <2>1, BelowFromKept
  <2>3. \A i \in job[r].items : i \in 1 .. Now
    BY JobNumbers
  <2>4. kind' = kind
    BY <1>1 DEF SameFeed
  <2> HIDE DEF Below
  <2>5. Newer(r)'
    BY <2>1, <2>2, <2>3, <2>4 DEF Newer
  <2> QED
    BY <2>1, <2>5 DEF Walked
<1>6. CASE PersistFails(r)
  <2>1. /\ job'[r].items = job[r].items /\ job'[r].from = job[r].from /\ job'[r].error
    BY <1>1, <1>6 DEF PersistFails, JobStates
  <2>2. \A i \in 1 .. Now : (Below(i, job[r].from))' <=> Below(i, job[r].from)
    BY <1>1, <2>1, BelowFromKept
  <2>3. \A i \in job[r].items : i \in 1 .. Now
    BY JobNumbers
  <2>4. kind' = kind
    BY <1>1 DEF SameFeed
  <2> HIDE DEF Below
  <2>5. Newer(r)'
    BY <2>1, <2>2, <2>3, <2>4 DEF Newer
  <2> QED
    BY <2>1, <2>5 DEF Walked
<1>7. CASE FetchRaises(r) \/ Persist(r) \/ WriteStats(r) \/ Crash(r)
  <2>1. (Findings(job[r]))' = Findings(job[r])
    <3>1. CASE FetchRaises(r)
      BY <1>1, <3>1 DEF FetchRaises, Findings, JobStates
    <3>2. CASE Persist(r)
      BY <1>1, <3>2 DEF Persist, Findings, JobStates
    <3>3. CASE WriteStats(r)
      BY <1>1, <3>3 DEF WriteStats, Findings, JobStates
    <3>4. CASE Crash(r)
      BY <1>1, <3>4 DEF Crash, Findings, JobStates
    <3> QED
      BY <1>7, <3>1, <3>2, <3>3, <3>4
  <2> QED
    BY <1>1, <2>1, FindingsStay
<1> QED
  BY <1>2, <1>3, <1>4, <1>5, <1>6, <1>7 DEF Acts

LEMMA ActorReports ==
  ASSUME TypeInv, NEW r \in Collections, Acts(r), Reported(r)
  PROVE  Reported(r)'
<1>1. /\ job[r] \in JobStates /\ job \in [Collections -> JobStates]
      /\ stats \in [Collections -> Stats \cup {NoStats}]
  BY DEF TypeInv, TypeOK
<1>2. CASE Fetch(r)
  <2>0. PICK shown, w : job' = [job EXCEPT ![r] = AfterWalk(job[r], Response(job[r]), shown, w)]
    BY <1>2, FetchIsWalk
  <2>1. job'[r].pc \in {"fetch", "persist"} /\ stats' = stats /\ job[r].pc = "fetch"
    <3>1. AfterWalk(job[r], Response(job[r]), shown, w).pc \in {"fetch", "persist"}
      BY <1>1, AfterWalkFields
    <3> QED
      BY <1>1, <1>2, <2>0, <3>1 DEF Fetch
  <2> QED
    BY <2>1 DEF Reported
<1>3. CASE Begin(r) \/ AllowanceSpent(r) \/ FetchFails(r) \/ FetchRaises(r) \/ Crash(r)
  <2>1. /\ job'[r].pc \in {"fetch", "persist", "raised", "lost"} /\ stats' = stats
        /\ job[r].pc # "done"
    <3>1. CASE Begin(r)
      BY <1>1, <3>1 DEF Begin, NewJob
    <3>2. CASE AllowanceSpent(r)
      BY <1>1, <3>2 DEF AllowanceSpent, JobStates
    <3>3. CASE FetchFails(r)
      BY <1>1, <3>3 DEF FetchFails, JobStates, NewJob
    <3>4. CASE FetchRaises(r)
      BY <1>1, <3>4 DEF FetchRaises, JobStates
    <3>5. CASE Crash(r)
      BY <1>1, <3>5 DEF Crash, JobStates
    <3> QED
      BY <1>3, <3>1, <3>2, <3>3, <3>4, <3>5
  <2> QED
    BY <2>1 DEF Reported
<1>4. CASE PlanFails(r) \/ PersistFails(r)
  <2>1. job'[r].pc = "stats" /\ job'[r].error /\ stats' = stats /\ job[r].pc # "done"
    <3>1. CASE PlanFails(r)
      BY <1>1, <3>1 DEF PlanFails, NewJob
    <3>2. CASE PersistFails(r)
      BY <1>1, <3>2 DEF PersistFails, JobStates
    <3> QED
      BY <1>4, <3>1, <3>2
  <2> QED
    BY <2>1 DEF Reported
<1>5. CASE Persist(r)
  <2>1. /\ job'[r].pc = "stats" /\ job'[r].items = job[r].items /\ docs' = docs \cup job[r].items
        /\ stats' = stats /\ job[r].pc # "done"
    BY <1>1, <1>5 DEF Persist, JobStates
  <2> QED
    BY <2>1 DEF Reported
<1>6. CASE WriteStats(r)
  <2>1. /\ job[r].pc = "stats" /\ job'[r].pc = "done" /\ docs' = docs
        /\ job'[r].items = job[r].items /\ job'[r].attempted = job[r].attempted
        /\ job'[r].kept = job[r].kept /\ job'[r].reached = job[r].reached /\ job'[r].error = job[r].error
    BY <1>1, <1>6 DEF WriteStats, JobStates
  <2>2. stats'[r] = [attempted |-> job[r].attempted, kept |-> job[r].kept, reached |-> job[r].reached,
                     error |-> job[r].error]
    BY <1>1, <1>6 DEF WriteStats
  <2> QED
    BY <2>1, <2>2 DEF Reported
<1> QED
  BY <1>2, <1>3, <1>4, <1>5, <1>6 DEF Acts

LEMMA HonestStep ==
  ASSUME TypeInv, Honest, [Next]_vars
  PROVE  Honest'
<1>1. CASE ~ \E r \in Collections : Acts(r)
  <2>1. job' = job /\ stats' = stats /\ docs' = docs
    BY <1>1 DEF Next, Acts, vars, Publish, CacheExpire
  <2>2. SameFeed
    BY StepFeed
  <2> SUFFICES ASSUME NEW r \in Collections PROVE Walked(r)' /\ Newer(r)' /\ Reported(r)'
    BY DEF Honest
  <2>3. Walked(r)' /\ Newer(r)'
    BY <2>1, <2>2, FindingsStay DEF Honest, Findings
  <2>4. Reported(r)'
    BY <2>1 DEF Honest, Reported
  <2> QED
    BY <2>3, <2>4
<1>2. ASSUME NEW r \in Collections, Acts(r) PROVE Honest'
  <2>1. Others(r) /\ docs \subseteq docs' /\ SameFeed
    BY <1>2, OthersStay
  <2>2. Walked(r)' /\ Newer(r)' /\ Reported(r)'
    BY <1>2, ActorFindings, ActorReports DEF Honest
  <2>3. ASSUME NEW q \in Collections \ {r} PROVE Walked(q)' /\ Newer(q)' /\ Reported(q)'
    <3>1. job'[q] = job[q] /\ stats'[q] = stats[q]
      BY <2>1 DEF Others
    <3>2. Walked(q)' /\ Newer(q)'
      BY <2>1, <3>1, FindingsStay DEF Honest, Findings
    <3>3. Reported(q)'
      BY <2>1, <3>1 DEF Honest, Reported
    <3> QED
      BY <3>2, <3>3
  <2> QED
    BY <2>2, <2>3 DEF Honest
<1> QED
  BY <1>1, <1>2

LEMMA HonestInvariant == Spec => []Honest
<1>1. Init => Honest
  BY DEF Init, Honest, Walked, Newer, Reported, NewJob
<1>2. TypeInv /\ Honest /\ [Next]_vars => Honest'
  BY HonestStep
<1> QED
  BY <1>1, <1>2, TypeInvariant, PTL DEF Spec

\* A row within its allowance and without an error is a measurement: every
\* item shown above the watermark is a document, if the source lists the
\* newest items first.
THEOREM CountsAreMeasured == Spec => []MeasurementIsComplete
<1>1. Honest => MeasurementIsComplete
  <2> SUFFICES ASSUME Honest, NEW r \in Collections, stats[r] # NoStats, ~stats[r].reached, ~stats[r].error,
                      kind \notin Ranked, NEW i \in job[r].shown
               PROVE  Below(i, job[r].from) \/ i \in docs
    BY DEF MeasurementIsComplete
  <2>1. Walked(r) /\ Reported(r)
    BY DEF Honest
  <2>2. job[r].pc = "done" /\ ~job[r].reached /\ ~job[r].error
    BY <2>1 DEF Reported
  <2>3. job[r].items \subseteq docs
    BY <2>1, <2>2 DEF Reported
  <2> QED
    BY <2>1, <2>2, <2>3 DEF Walked
<1> QED
  BY <1>1, HonestInvariant, PTL

-----------------------------------------------------------------------------
(* Every item that was skipped has its explanation.                        *)

Over == {"stats", "done", "lost"}

\* What a collection found stays as it is once it has persisted.
LEMMA OverStays ==
  ASSUME TypeInv, [Next]_vars, NEW q \in Collections, job[q].pc \in Over
  PROVE  (Findings(job[q]))' = Findings(job[q]) /\ job'[q].pc \in Over
<1>1. job[q] \in JobStates /\ job \in [Collections -> JobStates]
  BY DEF TypeInv, TypeOK
<1>2. CASE job'[q] = job[q]
  BY <1>2 DEF Findings
<1>3. CASE job'[q] # job[q]
  <2>1. Acts(q)
    <3>1. PICK r \in Collections : Acts(r)
      BY <1>3 DEF Next, Acts, vars, Publish, CacheExpire
    <3>2. Others(r)
      BY <3>1, OthersStay
    <3> QED
      BY <1>3, <3>1, <3>2 DEF Others
  <2>2. WriteStats(q) \/ Crash(q)
    BY <2>1 DEF Acts, Over, Begin, PlanFails, AllowanceSpent, Fetch, FetchFails, FetchRaises,
                Persist, PersistFails
  <2>3. CASE WriteStats(q)
    BY <1>1, <2>3 DEF WriteStats, Findings, JobStates, Over
  <2>4. CASE Crash(q)
    BY <1>1, <2>4 DEF Crash, Findings, JobStates, Over
  <2> QED
    BY <2>2, <2>3, <2>4
<1> QED
  BY <1>2, <1>3

\* So does what it explains.
LEMMA ExplanationsStay ==
  ASSUME TypeInv, Honest', [Next]_vars, NEW q \in Collections
  PROVE  /\ \A m : Moved(q, m) => Moved(q, m)'
         /\ \A i \in 1 .. Now : Explains(q, i) => Explains(q, i)'
<1>1. CASE job[q].pc \in Over
  <2>1. /\ job'[q].items = job[q].items /\ job'[q].mark = job[q].mark /\ job'[q].shown = job[q].shown
        /\ job'[q].from = job[q].from /\ job'[q].reached = job[q].reached /\ job'[q].error = job[q].error
        /\ job'[q].pc \in Over
    BY <1>1, OverStays DEF Findings
  <2>2. SameFeed /\ kind' = kind
    BY StepFeed DEF SameFeed
  <2>3. /\ \A i \in 1 .. Now : (Below(i, job[q].from))' <=> Below(i, job[q].from)
        /\ \A i \in 1 .. Now : (Below(i, job[q].mark))' <=> Below(i, job[q].mark)
    BY <2>1, <2>2, BelowFromKept, BelowMarkKept
  <2>4. job'[q].pc = "done" => stats'[q].reached = job'[q].reached
    <3>1. Reported(q)'
      BY DEF Honest
    <3> QED
      BY <3>1 DEF Reported
  <2>5. \A i \in job[q].shown : i \in 1 .. Now
    BY JobNumbers
  <2> HIDE DEF Below
  <2>6. \A m : Moved(q, m) => Moved(q, m)'
    BY <2>1 DEF Moved, Over
  <2>7. ASSUME NEW i \in 1 .. Now, Explains(q, i) PROVE Explains(q, i)'
    <3>1. Passed(q, i)'
      BY <2>1, <2>3, <2>7 DEF Explains, Passed, Over
    <3>2. \/ job[q].reached
          \/ i \notin job[q].shown
          \/ (kind \in Ranked /\ \E x \in job[q].shown : Below(x, job[q].from))
      BY <2>7 DEF Explains
    <3>3. CASE job[q].reached
      BY <2>1, <2>4, <3>1, <3>3 DEF Explains
    <3>4. CASE i \notin job[q].shown
      BY <2>1, <3>1, <3>4 DEF Explains
    <3>5. CASE kind \in Ranked /\ \E x \in job[q].shown : Below(x, job[q].from)
      BY <2>1, <2>2, <2>3, <2>5, <3>1, <3>5 DEF Explains
    <3> QED
      BY <3>2, <3>3, <3>4, <3>5
  <2> QED
    BY <2>6, <2>7
<1>2. CASE job[q].pc \notin Over
  BY <1>2 DEF Moved, Explains, Passed, Over
<1> QED
  BY <1>1, <1>2

\* Watermarks are items.
LEMMA WatermarkFacts ==
  ASSUME TypeInv, NEW m \in Watermarks
  PROVE  m \in 0 .. Now
<1>1. cursor \in 0 .. Now
  BY FeedFacts DEF TypeInv, TypeOK
<1>2. \A q \in Collections : job[q].from \in 0 .. Now
  BY JobNumbers
<1> QED
  BY <1>1, <1>2 DEF Watermarks

\* A watermark that is not new stays accounted for, but for the item that is
\* being published.
LEMMA OldWatermark ==
  ASSUME TypeInv, Honest', Accounted, [Next]_vars, docs \subseteq docs', NEW m \in Watermarks
  PROVE  /\ m # 0 => \E r \in Collections : Moved(r, m)'
         /\ \A i \in (1 .. Now) \ docs' : (Below(i, m))' => \E r \in Collections : Explains(r, i)'
<1>1. SameFeed /\ m \in 0 .. Now
  BY StepFeed, WatermarkFacts
<1>2. \A i \in 1 .. Now : (Below(i, m))' <=> Below(i, m)
  BY <1>1, BelowKept
<1> HIDE DEF Below
<1>3. m # 0 => \E r \in Collections : Moved(r, m)'
  <2>1. m # 0 => \E r \in Collections : Moved(r, m)
    BY DEF Accounted
  <2> QED
    BY <2>1, ExplanationsStay
<1>4. ASSUME NEW i \in (1 .. Now) \ docs', Below(i, m)
      PROVE  \E r \in Collections : Explains(r, i)'
  <2>1. PICK r \in Collections : Explains(r, i)
    BY <1>4 DEF Accounted
  <2> QED
    BY <1>4, <2>1, ExplanationsStay
<1> QED
  BY <1>2, <1>3, <1>4

\* An item published with the timestamp of a watermark is passed by the
\* collection that moved the watermark, which was not shown it.
LEMMA PublishedIsExplained ==
  ASSUME TypeInv, Honest, Accounted, Publish, NEW m \in Watermarks, (Below(Now, m))'
  PROVE  \E q \in Collections : (Explains(q, Now))'
<1>1. /\ Now \in Nat /\ Now' = Now + 1 /\ kind' = kind /\ job' = job /\ stats' = stats
      /\ \A i \in 1 .. Now : feed'[i] = feed[i] /\ feed[i].at \in Nat /\ feed[i].at <= feed'[Now'].at
      /\ feed'[Now'].at \in Nat
  BY PublishFacts, FeedFacts DEF TypeInv, Publish
<1>2. m \in 0 .. Now
  BY WatermarkFacts
<1>3. m \in 1 .. Now /\ kind # "appstore" /\ feed'[Now'].at <= feed[m].at
  BY <1>1, <1>2 DEF Below
<1>4. PICK q \in Collections : Moved(q, m)
  BY <1>3 DEF Accounted
<1>5. /\ job[q].pc \in Over /\ job[q].items # {} /\ ~job[q].error /\ job[q].mark = m
      /\ m \in job[q].items
  BY <1>4 DEF Moved, Over, TypeInv, Coherent
<1>6. job[q].from \in 0 .. Now /\ Now' \notin job[q].shown
  BY <1>1, JobNumbers
<1>7. ~Below(m, job[q].from)
  BY <1>3, <1>5 DEF Honest, Newer
<1>8. ~(Below(Now, job[q].from))'
  <2>1. CASE job[q].from = 0
    BY <1>1, <2>1 DEF Below
  <2>2. CASE job[q].from # 0
    <3>1. job[q].from \in 1 .. Now
      BY <1>6, <2>2
    <3>2. ~(feed[m].at <= feed[job[q].from].at)
      BY <1>3, <1>7, <2>2 DEF Below
    <3>3. ~(feed'[Now'].at <= feed'[job[q].from].at)
      BY <1>1, <1>3, <3>1, <3>2
    <3> QED
      BY <1>1, <1>3, <3>3 DEF Below
  <2> QED
    BY <2>1, <2>2
<1>9. (Below(Now, job[q].mark))'
  BY <1>1, <1>5 DEF Below
<1>10. (Passed(q, Now))'
  BY <1>1, <1>5, <1>8, <1>9 DEF Passed, Over
<1> QED
  BY <1>1, <1>6, <1>10 DEF Explains

\* The watermark of a transaction that lands is its collection's, which has a
\* reason for every item it leaves out.
LEMMA NewWatermark ==
  ASSUME TypeInv, Honest, Honest', Accounted, NEW r \in Collections, Persist(r),
         ~job[r].error, job[r].items # {}
  PROVE  /\ Moved(r, job[r].mark)'
         /\ \A i \in (1 .. Now) \ docs' : (Below(i, job[r].mark))' => \E q \in Collections : Explains(q, i)'
<1>1. job[r] \in JobStates /\ job \in [Collections -> JobStates] /\ job[r].pc = "persist"
  BY DEF TypeInv, TypeOK, Persist
<1>2. /\ job'[r].pc = "stats" /\ job'[r].items = job[r].items /\ job'[r].mark = job[r].mark
      /\ job'[r].shown = job[r].shown /\ job'[r].from = job[r].from
      /\ job'[r].reached = job[r].reached /\ job'[r].error = job[r].error
  BY <1>1 DEF Persist, JobStates
<1>3. [Next]_vars /\ Acts(r)
  BY DEF Next, Acts
<1>4. SameFeed /\ kind' = kind /\ docs' = docs \cup job[r].items
  BY <1>3, OthersStay DEF SameFeed, Persist
<1>5. Moved(r, job[r].mark)'
  BY <1>2 DEF Moved
<1>6. /\ \A i \in 1 .. Now : (Below(i, job[r].from))' <=> Below(i, job[r].from)
      /\ \A i \in 1 .. Now : (Below(i, job[r].mark))' <=> Below(i, job[r].mark)
  BY <1>2, <1>4, BelowFromKept, BelowMarkKept
<1>7. \A i \in job[r].shown : i \in 1 .. Now
  BY JobNumbers
<1> HIDE DEF Below
<1>8. ASSUME NEW i \in (1 .. Now) \ docs', (Below(i, job[r].mark))'
      PROVE  \E q \in Collections : Explains(q, i)'
  <2>1. CASE Below(i, job[r].from)
    <3>1. PICK q \in Collections : Explains(q, i)
      BY <1>4, <1>8, <2>1 DEF Accounted, Watermarks
    <3> QED
      BY <1>3, <1>8, <3>1, ExplanationsStay
  <2>2. CASE ~Below(i, job[r].from)
    <3>1. Passed(r, i)'
      BY <1>2, <1>6, <1>8, <2>2 DEF Passed
    <3>2. \/ job[r].reached \/ i \notin job[r].shown
          \/ kind \in Ranked /\ \E x \in job[r].shown : Below(x, job[r].from)
      BY <1>4, <1>8, <2>2 DEF Honest, Walked
    <3>3. CASE job[r].reached
      BY <1>2, <3>1, <3>3 DEF Explains
    <3>4. CASE i \notin job[r].shown
      BY <1>2, <3>1, <3>4 DEF Explains
    <3>5. CASE kind \in Ranked /\ \E x \in job[r].shown : Below(x, job[r].from)
      BY <1>2, <1>4, <1>6, <1>7, <3>1, <3>5 DEF Explains
    <3> QED
      BY <3>2, <3>3, <3>4, <3>5
  <2> QED
    BY <2>1, <2>2
<1> QED
  BY <1>5, <1>8, <1>2

\* The other steps leave no new watermark.
LEMMA WatermarksStay ==
  ASSUME TypeInv, [Next]_vars,
         ~ \E r \in Collections : Persist(r) /\ ~job[r].error /\ job[r].items # {}
  PROVE  Watermarks' \subseteq Watermarks
<1>1. job \in [Collections -> JobStates]
  BY DEF TypeInv, TypeOK
<1>2. CASE ~ \E r \in Collections : Acts(r)
  BY <1>2 DEF Next, Acts, vars, Publish, CacheExpire, Watermarks
<1>3. ASSUME NEW r \in Collections, Acts(r) PROVE Watermarks' \subseteq Watermarks
  <2>1. cursor' = cursor
    BY <1>3 DEF Acts, Begin, PlanFails, AllowanceSpent, Fetch, FetchFails, FetchRaises,
                Persist, PersistFails, WriteStats, Crash
  <2>2. job'[r].from \in {cursor, job[r].from}
    <3>1. CASE Begin(r) \/ PlanFails(r)
      BY <1>1, <3>1 DEF Begin, PlanFails, NewJob
    <3>2. CASE Fetch(r)
      <4>1. PICK shown, w : job' = [job EXCEPT ![r] = AfterWalk(job[r], Response(job[r]), shown, w)]
        BY <3>2, FetchIsWalk
      <4>2. AfterWalk(job[r], Response(job[r]), shown, w).from = job[r].from
        BY <1>1, AfterWalkFields
      <4> QED
        BY <1>1, <4>1, <4>2
    <3>3. CASE FetchFails(r)
      BY <1>1, <3>3 DEF FetchFails, JobStates, NewJob
    <3>4. CASE AllowanceSpent(r)
      BY <1>1, <3>4 DEF AllowanceSpent, JobStates
    <3>5. CASE FetchRaises(r)
      BY <1>1, <3>5 DEF FetchRaises, JobStates
    <3>6. CASE Persist(r)
      BY <1>1, <3>6 DEF Persist, JobStates
    <3>7. CASE PersistFails(r)
      BY <1>1, <3>7 DEF PersistFails, JobStates
    <3>8. CASE WriteStats(r) \/ Crash(r)
      BY <1>1, <3>8 DEF WriteStats, Crash, JobStates
    <3> QED
      BY <1>3, <3>1, <3>2, <3>3, <3>4, <3>5, <3>6, <3>7, <3>8 DEF Acts
  <2>3. \A q \in Collections \ {r} : job'[q].from = job[q].from
    BY <1>3, OthersStay DEF Others
  <2> QED
    BY <2>1, <2>2, <2>3 DEF Watermarks
<1> QED
  BY <1>2, <1>3

LEMMA AccountedStep ==
  ASSUME TypeInv, Honest, Honest', Accounted, [Next]_vars
  PROVE  Accounted'
<1>1. docs \subseteq docs'
  <2>1. CASE ~ \E r \in Collections : Acts(r)
    BY <2>1 DEF Next, Acts, vars, Publish, CacheExpire
  <2>2. CASE \E r \in Collections : Acts(r)
    BY <2>2, OthersStay
  <2> QED
    BY <2>1, <2>2
<1>2. Now \in Nat /\ (Now' = Now \/ (Publish /\ Now' = Now + 1))
  BY StepFeed
<1>3. ASSUME NEW m \in Watermarks', m \in Watermarks
      PROVE  /\ m # 0 => \E r \in Collections : Moved(r, m)'
             /\ \A i \in (1 .. Now') \ docs' : (Below(i, m))' => \E r \in Collections : Explains(r, i)'
  <2>1. /\ m # 0 => \E r \in Collections : Moved(r, m)'
        /\ \A i \in (1 .. Now) \ docs' : (Below(i, m))' => \E r \in Collections : Explains(r, i)'
    BY <1>1, <1>3, OldWatermark
  <2>2. ASSUME NEW i \in (1 .. Now') \ docs', (Below(i, m))', i \notin 1 .. Now
        PROVE  \E r \in Collections : Explains(r, i)'
    <3>1. Publish /\ i = Now'
      BY <1>2, <2>2
    <3>2. (Below(Now, m))'
      BY <2>2, <3>1
    <3>3. \E r \in Collections : (Explains(r, Now))'
      BY <1>3, <3>1, <3>2, PublishedIsExplained
    <3> QED
      BY <3>1, <3>3
  <2> QED
    BY <2>1, <2>2
<1>4. ASSUME NEW m \in Watermarks', m \notin Watermarks
      PROVE  /\ m # 0 => \E r \in Collections : Moved(r, m)'
             /\ \A i \in (1 .. Now') \ docs' : (Below(i, m))' => \E r \in Collections : Explains(r, i)'
  <2>1. PICK r \in Collections : Persist(r) /\ ~job[r].error /\ job[r].items # {}
    BY <1>4, WatermarksStay
  <2>2. job[r] \in JobStates /\ Acts(r) /\ job \in [Collections -> JobStates]
    BY <2>1 DEF Acts, TypeInv, TypeOK
  <2>3. m = job[r].mark /\ Now' = Now
    <3>1. \A q \in Collections : job'[q].from = job[q].from
      BY <2>1, <2>2, OthersStay DEF Others, Persist, JobStates
    <3>2. cursor' = job[r].mark
      BY <2>1 DEF Persist
    <3>3. feed' = feed
      BY <2>1 DEF Persist
    <3> QED
      BY <1>4, <3>1, <3>2, <3>3 DEF Watermarks, Now
  <2>4. /\ Moved(r, job[r].mark)'
        /\ \A i \in (1 .. Now) \ docs' : (Below(i, job[r].mark))' => \E q \in Collections : Explains(q, i)'
    BY <2>1, NewWatermark
  <2>5. job'[r].mark = job[r].mark
    BY <2>1, <2>2 DEF Persist, JobStates
  <2> QED
    BY <2>3, <2>4, <2>5
<1> QED
  BY <1>3, <1>4 DEF Accounted

\* An item at or below the saved watermark is a document, or a collection that
\* passed it has a reason.
THEOREM LossesAreExplained == Spec => []SkipsAreExplained
<1>1. Init => Accounted
  <2> SUFFICES ASSUME Init PROVE Accounted
    OBVIOUS
  <2>1. \A m \in Watermarks : m = 0
    BY DEF Init, Watermarks, NewJob
  <2> QED
    BY <2>1 DEF Accounted, Below
<1>2. TypeInv /\ Honest /\ Honest' /\ Accounted /\ [Next]_vars => Accounted'
  BY AccountedStep
<1>3. Accounted => SkipsAreExplained
  <2> SUFFICES ASSUME Accounted, NEW i \in {x \in 1 .. Now : Below(x, cursor)} \ docs
               PROVE  \E r \in Collections : Explains(r, i)
    BY DEF SkipsAreExplained, Explains
  <2> QED
    BY DEF Accounted, Watermarks
<1> QED
  BY <1>1, <1>2, <1>3, TypeInvariant, HonestInvariant, PTL DEF Spec

-----------------------------------------------------------------------------
(* Sums.                                                                   *)

Some(T) == CHOOSE x \in T : TRUE

\* g adds F up over the subsets of S, the way the folds do.
Adds(g, F, S) ==
  g = [T \in SUBSET S |-> IF T = {} THEN 0 ELSE F[CHOOSE x \in T : TRUE] + g[T \ {CHOOSE x \in T : TRUE}]]

LEMMA AddsFacts ==
  ASSUME NEW g, NEW F, NEW S, Adds(g, F, S)
  PROVE  /\ g[{}] = 0
         /\ \A T : T \subseteq S /\ T # {} => Some(T) \in T /\ g[T] = F[Some(T)] + g[T \ {Some(T)}]
<1>1. {} \in SUBSET S /\ \A T : T \subseteq S => T \in SUBSET S
  OBVIOUS
<1>2. \A T \in SUBSET S : g[T] = IF T = {} THEN 0 ELSE F[Some(T)] + g[T \ {Some(T)}]
  BY DEF Adds, Some
<1>3. \A T : T # {} => Some(T) \in T
  BY DEF Some
<1> QED
  BY <1>1, <1>2, <1>3

\* Two such functions agree where both are defined.
LEMMA AddsAgree ==
  ASSUME NEW g, NEW h, NEW F, NEW S, NEW R, Adds(g, F, S), Adds(h, F, R), IsFiniteSet(S)
  PROVE  \A T : T \subseteq S /\ T \subseteq R => g[T] = h[T]
<1> DEFINE B == {T \in SUBSET S : T \subseteq R /\ g[T] # h[T]}
<1> SUFFICES ASSUME B # {} PROVE FALSE
  OBVIOUS
<1>1. \A T \in B : T \subseteq S
  OBVIOUS
<1>2. PICK T \in B : \A U \in B : U \subseteq T => U = T
  <2> HIDE DEF B
  <2> QED
    BY <1>1, MinimalSet
<1>3. T # {}
  BY AddsFacts
<1>4. Some(T) \in T /\ g[T] = F[Some(T)] + g[T \ {Some(T)}] /\ h[T] = F[Some(T)] + h[T \ {Some(T)}]
  BY <1>3, AddsFacts
<1>5. g[T \ {Some(T)}] = h[T \ {Some(T)}]
  BY <1>2, <1>4
<1> QED
  BY <1>4, <1>5

\* There is one for every finite set.
LEMMA AddsExists ==
  ASSUME NEW F, NEW S, IsFiniteSet(S)
  PROVE  \E g : Adds(g, F, S)
<1> DEFINE B == {T \in SUBSET S : ~ \E g : Adds(g, F, T)}
<1> SUFFICES ASSUME B # {} PROVE FALSE
  OBVIOUS
<1>1. \A T \in B : T \subseteq S
  OBVIOUS
<1>2. PICK T \in B : \A U \in B : U \subseteq T => U = T
  <2> HIDE DEF B
  <2> QED
    BY <1>1, MinimalSet
<1> DEFINE part(U) == CHOOSE g : Adds(g, F, U)
           below(U) == IF U = {} THEN 0 ELSE F[Some(U)] + part(U \ {Some(U)})[U \ {Some(U)}]
           whole == [U \in SUBSET T |-> below(U)]
<1>3. \A U : U \subseteq T /\ U # T => Adds(part(U), F, U) /\ IsFiniteSet(U)
  <2> SUFFICES ASSUME NEW U, U \subseteq T, U # T PROVE Adds(part(U), F, U) /\ IsFiniteSet(U)
    OBVIOUS
  <2>1. \E g : Adds(g, F, U)
    BY <1>2
  <2>2. U \subseteq S
    BY <1>2
  <2> HIDE DEF Adds
  <2> QED
    BY <2>1, <2>2, FS_Subset
<1>4. \A U : U \subseteq T /\ U # {} => Some(U) \in U
  BY DEF Some
\* The parts agree with the whole on what is smaller than T.
<1>5. \A U : U \subseteq T /\ U # T => whole[U] = part(U)[U]
  <2> SUFFICES ASSUME NEW U, U \subseteq T, U # T PROVE whole[U] = part(U)[U]
    OBVIOUS
  <2>1. Adds(part(U), F, U)
    BY <1>3
  <2>2. whole[U] = below(U)
    OBVIOUS
  <2>3. CASE U = {}
    <3>1. part(U)[{}] = 0
      BY <2>1, AddsFacts
    <3> QED
      BY <2>2, <2>3, <3>1
  <2>4. CASE U # {}
    <3> DEFINE V == U \ {Some(U)}
    <3>1. Some(U) \in U /\ V \subseteq U /\ V \subseteq T /\ V # T
      BY <1>4, <2>4
    <3>2. part(U)[U] = F[Some(U)] + part(U)[V]
      BY <2>1, <2>4, AddsFacts
    <3>3. part(V)[V] = part(U)[V]
      <4>1. Adds(part(V), F, V) /\ IsFiniteSet(V)
        BY <1>3, <3>1
      <4> HIDE DEF V, part
      <4> QED
        BY <2>1, <3>1, <4>1, AddsAgree
    <3>4. below(U) = F[Some(U)] + part(V)[V]
      BY <2>4
    <3> HIDE DEF V, part, below, whole
    <3> QED
      BY <2>2, <3>2, <3>3, <3>4
  <2> QED
    BY <2>3, <2>4
<1>6. Adds(whole, F, T)
  <2>1. \A U \in SUBSET T : below(U) = IF U = {} THEN 0 ELSE F[Some(U)] + whole[U \ {Some(U)}]
    <3> SUFFICES ASSUME NEW U \in SUBSET T
                 PROVE  below(U) = IF U = {} THEN 0 ELSE F[Some(U)] + whole[U \ {Some(U)}]
      OBVIOUS
    <3>1. U # {} => U \ {Some(U)} \subseteq T /\ U \ {Some(U)} # T
      BY <1>4
    <3>2. U # {} => whole[U \ {Some(U)}] = part(U \ {Some(U)})[U \ {Some(U)}]
      BY <1>5, <3>1
    <3> HIDE DEF part, whole
    <3> QED
      BY <3>2
  <2>2. whole = [U \in SUBSET T |-> IF U = {} THEN 0 ELSE F[Some(U)] + whole[U \ {Some(U)}]]
    <3> HIDE DEF below
    <3> QED
      BY <2>1
  <2> HIDE DEF whole
  <2> QED
    BY <2>2 DEF Adds, Some
<1> QED
  BY <1>2, <1>6

\* The sum of numbers is a number, and it changes with one of them by as much
\* as that one does.
LEMMA SumChanges ==
  ASSUME NEW S, IsFiniteSet(S), NEW F \in [S -> Nat], NEW G \in [S -> Nat], NEW x \in S,
         \A y \in S \ {x} : G[y] = F[y]
  PROVE  /\ SumFunctionOnSet(F, S) \in Nat
         /\ SumFunctionOnSet(G, S) \in Nat
         /\ SumFunctionOnSet(G, S) + F[x] = SumFunctionOnSet(F, S) + G[x]
<1> DEFINE f == CHOOSE g : Adds(g, F, S)
           h == CHOOSE g : Adds(g, G, S)
<1>1. Adds(f, F, S) /\ Adds(h, G, S)
  <2>1. (\E g : Adds(g, F, S)) /\ (\E g : Adds(g, G, S))
    BY AddsExists
  <2> HIDE DEF Adds
  <2> QED
    BY <2>1
<1>2. SumFunctionOnSet(F, S) = f[S] /\ SumFunctionOnSet(G, S) = h[S]
  BY DEF SumFunctionOnSet, FoldFunctionOnSet, MapThenFoldSet, Adds
<1> HIDE DEF f, h
<1>3. /\ f[{}] = 0 /\ \A T : T \subseteq S /\ T # {} => Some(T) \in T /\ f[T] = F[Some(T)] + f[T \ {Some(T)}]
      /\ h[{}] = 0 /\ \A T : T \subseteq S /\ T # {} => Some(T) \in T /\ h[T] = G[Some(T)] + h[T \ {Some(T)}]
  BY <1>1, AddsFacts
<1>4. \A y \in S : F[y] \in Nat /\ G[y] \in Nat /\ (y # x => G[y] = F[y])
  OBVIOUS
<1> DEFINE Right(T) == /\ f[T] \in Nat /\ h[T] \in Nat
                       /\ IF x \in T THEN h[T] + F[x] = f[T] + G[x] ELSE h[T] = f[T]
           B == {T \in SUBSET S : ~Right(T)}
<1>5. B = {}
  <2> SUFFICES ASSUME B # {} PROVE FALSE
    OBVIOUS
  <2>1. \A T \in B : T \subseteq S
    OBVIOUS
  <2>2. PICK T \in B : \A U \in B : U \subseteq T => U = T
    <3> HIDE DEF B
    <3> QED
      BY <2>1, MinimalSet
  <2>3. T # {}
    <3>1. Right({})
      BY <1>3
    <3> HIDE DEF Right
    <3> QED
      BY <2>2, <3>1
  <2> DEFINE y == Some(T)
             U == T \ {y}
  <2>4. y \in T /\ y \in S /\ f[T] = F[y] + f[U] /\ h[T] = G[y] + h[U]
    BY <1>3, <2>1, <2>3
  <2>5. Right(U)
    <3>1. U \subseteq T /\ U # T /\ U \in SUBSET S
      BY <2>1, <2>4
    <3> HIDE DEF U, Right
    <3> QED
      BY <2>2, <3>1
  <2>6. (x \in T /\ y # x <=> x \in U) /\ (y = x => x \notin U)
    BY <2>4
  <2> HIDE DEF y, U
  <2>7. Right(T)
    <3>1. CASE y = x
      BY <1>4, <2>4, <2>5, <2>6, <3>1
    <3>2. CASE y # x
      BY <1>4, <2>4, <2>5, <2>6, <3>2
    <3> QED
      BY <3>1, <3>2
  <2> QED
    BY <2>7
<1>6. Right(S)
  BY <1>5
<1> HIDE DEF B
<1> QED
  BY <1>2, <1>6

\* The sum of zeros is zero.
LEMMA SumOfZeros ==
  ASSUME NEW S, IsFiniteSet(S), NEW F, \A x \in S : F[x] = 0
  PROVE  SumFunctionOnSet(F, S) = 0
<1> DEFINE f == CHOOSE g : Adds(g, F, S)
<1>1. Adds(f, F, S)
  <2>1. \E g : Adds(g, F, S)
    BY AddsExists
  <2> HIDE DEF Adds
  <2> QED
    BY <2>1
<1>2. SumFunctionOnSet(F, S) = f[S]
  BY DEF SumFunctionOnSet, FoldFunctionOnSet, MapThenFoldSet, Adds
<1> HIDE DEF f
<1>3. f[{}] = 0 /\ \A T : T \subseteq S /\ T # {} => Some(T) \in T /\ f[T] = F[Some(T)] + f[T \ {Some(T)}]
  BY <1>1, AddsFacts
<1> DEFINE B == {T \in SUBSET S : f[T] # 0}
<1>4. B = {}
  <2> SUFFICES ASSUME B # {} PROVE FALSE
    OBVIOUS
  <2>1. \A T \in B : T \subseteq S
    OBVIOUS
  <2>2. PICK T \in B : \A U \in B : U \subseteq T => U = T
    <3> HIDE DEF B
    <3> QED
      BY <2>1, MinimalSet
  <2>3. Some(T) \in T /\ f[T] = F[Some(T)] + f[T \ {Some(T)}]
    BY <1>3, <2>1
  <2>4. f[T \ {Some(T)}] = 0 /\ F[Some(T)] = 0
    BY <2>1, <2>2, <2>3
  <2> QED
    BY <2>3, <2>4
<1> QED
  BY <1>2, <1>4

\* The ledger's kept counts, added up.
KeptCounts == [r \in Collections |-> job[r].kept]

LEMMA KeptStep ==
  ASSUME TypeInv, KeptAddsUp, [Next]_vars
  PROVE  KeptAddsUp'
<1>1. job \in [Collections -> JobStates] /\ docs \subseteq 1 .. Now /\ Now \in Nat
  BY FeedFacts DEF TypeInv, TypeOK
<1>2. KeptCounts \in [Collections -> Nat]
  <2>1. \A r \in Collections : job[r].kept \in Nat
    BY <1>1, JobTyped, CollectionAssumption DEF Times
  <2> QED
    BY <2>1 DEF KeptCounts
<1>3. SumFunctionOnSet(KeptCounts, Collections) = Cardinality(docs)
  BY DEF KeptAddsUp, KeptCounts
<1>4. SUFFICES SumFunctionOnSet(KeptCounts', Collections) = Cardinality(docs')
  BY DEF KeptAddsUp, KeptCounts
<1>5. CASE \A r \in Collections : ~Persist(r)
  <2>1. docs' = docs
    BY <1>5 DEF Next, vars, Publish, CacheExpire, Begin, PlanFails, AllowanceSpent, Fetch, FetchFails,
                FetchRaises, PersistFails, WriteStats, Crash
  <2>2. \A r \in Collections : job'[r].kept = job[r].kept
    <3>1. CASE ~ \E r \in Collections : Acts(r)
      BY <3>1 DEF Next, Acts, vars, Publish, CacheExpire
    <3>2. ASSUME NEW r \in Collections, Acts(r) PROVE \A q \in Collections : job'[q].kept = job[q].kept
      <4>1. \A q \in Collections \ {r} : job'[q] = job[q]
        BY <3>2, OthersStay DEF Others
      <4>2. job'[r].kept = job[r].kept
        <5>1. Coherent(r)
          BY DEF TypeInv
        <5>2. CASE Begin(r) \/ PlanFails(r)
          <6>1. job[r] = NewJob
            BY <5>1, <5>2 DEF Begin, PlanFails, Coherent
          <6>2. job'[r].kept = 0
            BY <1>1, <5>2 DEF Begin, PlanFails, NewJob
          <6> QED
            BY <6>1, <6>2 DEF NewJob
        <5>3. CASE Fetch(r)
          <6>1. PICK shown, w : job' = [job EXCEPT ![r] = AfterWalk(job[r], Response(job[r]), shown, w)]
            BY <5>3, FetchIsWalk
          <6>2. AfterWalk(job[r], Response(job[r]), shown, w).kept = job[r].kept
            BY <1>1, AfterWalkFields
          <6> QED
            BY <1>1, <6>1, <6>2
        <5>4. CASE FetchFails(r)
          BY <1>1, <5>1, <5>4 DEF FetchFails, JobStates, NewJob, Coherent
        <5>5. CASE AllowanceSpent(r)
          BY <1>1, <5>5 DEF AllowanceSpent, JobStates
        <5>6. CASE FetchRaises(r)
          BY <1>1, <5>6 DEF FetchRaises, JobStates
        <5>7. CASE PersistFails(r)
          BY <1>1, <5>7 DEF PersistFails, JobStates
        <5>8. CASE WriteStats(r)
          BY <1>1, <5>8 DEF WriteStats, JobStates
        <5>9. CASE Crash(r)
          BY <1>1, <5>9 DEF Crash, JobStates
        <5> QED
          BY <1>5, <3>2, <5>2, <5>3, <5>4, <5>5, <5>6, <5>7, <5>8, <5>9 DEF Acts
      <4> QED
        BY <4>1, <4>2
    <3> QED
      BY <3>1, <3>2
  <2>3. KeptCounts' = KeptCounts
    BY <2>2 DEF KeptCounts
  <2> QED
    BY <1>3, <2>1, <2>3
<1>6. ASSUME NEW r \in Collections, Persist(r)
      PROVE  SumFunctionOnSet(KeptCounts', Collections) = Cardinality(docs')
  <2> DEFINE fresh == job[r].items \ docs
  <2>1. job'[r].kept = Cardinality(fresh) /\ \A q \in Collections \ {r} : job'[q] = job[q]
    BY <1>1, <1>6 DEF Persist, JobStates
  <2>2. job[r].kept = 0 /\ docs' = docs \cup fresh
    BY <1>6 DEF Persist, TypeInv, Coherent
  <2>3. IsFiniteSet(docs) /\ IsFiniteSet(fresh) /\ Cardinality(docs) \in Nat /\ Cardinality(fresh) \in Nat
    <3>1. IsFiniteSet(1 .. Now)
      BY <1>1, FS_Interval
    <3>2. fresh \subseteq 1 .. Now
      BY JobNumbers
    <3> HIDE DEF fresh
    <3> QED
      BY <1>1, <3>1, <3>2, FS_Subset, FS_CardinalityType
  <2>4. KeptCounts' = [KeptCounts EXCEPT ![r] = Cardinality(fresh)] /\ KeptCounts[r] = 0
    BY <2>1, <2>2 DEF KeptCounts
  <2>5. Cardinality(docs \cup fresh) = Cardinality(docs) + Cardinality(fresh)
    <3>1. docs \cap fresh = {}
      OBVIOUS
    <3> HIDE DEF fresh
    <3>2. Cardinality(docs \cap fresh) = 0
      BY <3>1, FS_EmptySet
    <3>3. Cardinality(docs \cup fresh) = Cardinality(docs) + Cardinality(fresh) - Cardinality(docs \cap fresh)
      BY <2>3, FS_Union
    <3> QED
      BY <2>3, <3>2, <3>3
  <2> HIDE DEF fresh
  <2>6. PICK F, G : F = KeptCounts /\ G = KeptCounts'
    OBVIOUS
  <2>7. /\ SumFunctionOnSet(F, Collections) \in Nat /\ SumFunctionOnSet(G, Collections) \in Nat
        /\ SumFunctionOnSet(G, Collections) + F[r] = SumFunctionOnSet(F, Collections) + G[r]
    <3>1. F \in [Collections -> Nat] /\ G \in [Collections -> Nat] /\ \A q \in Collections \ {r} : G[q] = F[q]
      BY <1>2, <2>3, <2>4, <2>6
    <3>2. IsFiniteSet(Collections)
      BY CollectionAssumption
    <3> QED
      BY <3>1, <3>2, SumChanges
  <2>8. F[r] = 0 /\ G[r] = Cardinality(fresh)
    BY <1>2, <2>4, <2>6
  <2>9. SumFunctionOnSet(F, Collections) = Cardinality(docs)
    BY <1>3, <2>6
  <2>10. SumFunctionOnSet(G, Collections) = Cardinality(docs \cup fresh)
    <3>1. SumFunctionOnSet(G, Collections) + 0 = Cardinality(docs) + Cardinality(fresh)
      BY <2>7, <2>8, <2>9
    <3> QED
      BY <2>5, <2>7, <3>1
  <2> QED
    BY <2>2, <2>6, <2>10
<1> QED
  BY <1>5, <1>6

\* Overlapping collections that bring the same items count them once.
THEOREM CountedOnce == Spec => []KeptAddsUp
<1>1. Init => KeptAddsUp
  <2> SUFFICES ASSUME Init PROVE SumFunctionOnSet(KeptCounts, Collections) = Cardinality(docs)
    BY DEF KeptAddsUp, KeptCounts
  <2>1. \A r \in Collections : KeptCounts[r] = 0
    BY DEF Init, KeptCounts, NewJob
  <2>2. SumFunctionOnSet(KeptCounts, Collections) = 0
    <3> HIDE DEF KeptCounts
    <3> QED
      BY <2>1, SumOfZeros, CollectionAssumption
  <2> QED
    BY <2>2, FS_EmptySet DEF Init
<1>2. TypeInv /\ KeptAddsUp /\ [Next]_vars => KeptAddsUp'
  BY KeptStep
<1> QED
  BY <1>1, <1>2, TypeInvariant, PTL DEF Spec

\* No step of a source whose items carry a timezone ends in an exception that
\* collect_source does not catch.
Uninterrupted ==
  /\ kind \notin Naive /\ \A r \in Collections : job[r].pc # "raised"

LEMMA UninterruptedStep ==
  ASSUME TypeInv, Uninterrupted, [Next]_vars
  PROVE  Uninterrupted'
<1>1. job \in [Collections -> JobStates]
  BY DEF TypeInv, TypeOK
<1>2. kind' = kind
  BY DEF Next, vars, Publish, CacheExpire, Begin, PlanFails, AllowanceSpent, Fetch, FetchFails,
         FetchRaises, Persist, PersistFails, WriteStats, Crash
<1>3. CASE ~ \E r \in Collections : Acts(r)
  <2>1. job' = job
    BY <1>3 DEF Next, Acts, vars, Publish, CacheExpire
  <2> QED
    BY <1>2, <2>1 DEF Uninterrupted
<1>4. ASSUME NEW r \in Collections, Acts(r) PROVE \A q \in Collections : job'[q].pc # "raised"
  <2>1. \A q \in Collections \ {r} : job'[q] = job[q]
    BY <1>4, OthersStay DEF Others
  <2>2. job'[r].pc # "raised"
    <3>1. CASE Begin(r) \/ PlanFails(r)
      BY <1>1, <3>1 DEF Begin, PlanFails, NewJob
    <3>2. CASE Fetch(r)
      <4>1. PICK shown, w : job' = [job EXCEPT ![r] = AfterWalk(job[r], Response(job[r]), shown, w)]
        BY <3>2, FetchIsWalk
      <4>2. AfterWalk(job[r], Response(job[r]), shown, w).pc \in {"fetch", "persist"}
        BY <1>1, AfterWalkFields
      <4> QED
        BY <1>1, <4>1, <4>2
    <3>3. CASE FetchFails(r)
      BY <1>1, <3>3 DEF FetchFails, JobStates, NewJob
    <3>4. CASE FetchRaises(r)
      BY <3>4 DEF FetchRaises, Uninterrupted
    <3>5. CASE AllowanceSpent(r) \/ Persist(r) \/ PersistFails(r) \/ WriteStats(r) \/ Crash(r)
      BY <1>1, <3>5 DEF AllowanceSpent, Persist, PersistFails, WriteStats, Crash, JobStates
    <3> QED
      BY <1>4, <3>1, <3>2, <3>3, <3>4, <3>5 DEF Acts
  <2> QED
    BY <2>1, <2>2 DEF Uninterrupted
<1> QED
  BY <1>1, <1>2, <1>3, <1>4 DEF Uninterrupted

\* A collection of a source whose kind compares no naive timestamp is over
\* only with its ledger row, unless its worker died: the naive kinds, with
\* which the run collection_raises violates this, are the only exception.
THEOREM RowsAreWritten ==
  ASSUME Kinds \cap Naive = {}
  PROVE  Spec => []RowOnEveryOutcome
<1>1. Init => Uninterrupted
  <2> SUFFICES ASSUME Init PROVE Uninterrupted
    OBVIOUS
  <2>1. kind \notin Naive
    BY DEF Init
  <2>2. \A r \in Collections : job[r].pc # "raised"
    BY DEF Init, NewJob
  <2> QED
    BY <2>1, <2>2 DEF Uninterrupted
<1>2. TypeInv /\ Uninterrupted /\ [Next]_vars => Uninterrupted'
  BY UninterruptedStep
<1>3. TypeInv /\ Honest /\ Uninterrupted => RowOnEveryOutcome
  <2> SUFFICES ASSUME TypeInv, Honest, Uninterrupted, NEW r \in Collections, job[r].pc = "done"
               PROVE  stats[r] # NoStats
    BY DEF RowOnEveryOutcome, Uninterrupted
  <2>1. stats[r] = [attempted |-> job[r].attempted, kept |-> job[r].kept,
                    reached |-> job[r].reached, error |-> job[r].error]
    BY DEF Honest, Reported
  <2>2. job[r] \in JobStates
    BY DEF TypeInv, TypeOK
  <2>3. stats[r] \in Stats
    BY <2>1, <2>2, JobTyped DEF Stats
  <2> QED
    BY <2>3, NoStatsAssumption
<1> QED
  BY <1>1, <1>2, <1>3, TypeInvariant, HonestInvariant, PTL DEF Spec
==============================================================================
