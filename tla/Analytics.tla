------------------------------ MODULE Analytics ------------------------------
(***************************************************************************)
(* What follows a collection: the daily rollup of a bucket, trend          *)
(* detection, scoring and insight generation (tasks/analytics.py,          *)
(* tasks/insights.py) in the order tasks/dispatch.py runs them, the rollup *)
(* of every published date that an override's stage rerun ends with, and   *)
(* the collections, corrections and deletions that go on beside them.      *)
(*                                                                         *)
(* The figures of a metric row are functions of the documents it counts,   *)
(* so a row holds that set.  The detectors are statistics over real        *)
(* numbers and the insights are a language model's: which candidates       *)
(* survive and which completions are accepted is any choice.  Gate rows    *)
(* are not read by anything and are left out.                              *)
(***************************************************************************)
EXTENDS Naturals, FiniteSets, FiniteSetsExt

CONSTANTS
  Docs, Sources, Topics,
  None,             \* the null of a key: every source, every topic, no topic;
                    \* and no ledger row
  Rerun,            \* the worker of the stage rerun
  MaxDay,           \* bound: days 0 .. MaxDay
  Offset,           \* half days the monitor's timezone is ahead of UTC
  OverlapDays,      \* bound: histories longer than that have no rerun or backfill
  MaxLost,          \* bound: documents of collections that get no ledger row
  MaxMoves,         \* bound: annotations and their corrections
  VolumeFloor, MinCleanDays, CooldownDays,   \* TrendDetectionSettings
  MinRepresentatives,
  PeriodDays        \* period_end - period_start: dispatch.py passes 0

ASSUME AnalyticsAssumption ==
  /\ IsFiniteSet(Docs) /\ IsFiniteSet(Sources) /\ IsFiniteSet(Topics)
  /\ None \notin Sources \cup Topics \cup Nat
  /\ {MaxDay, OverlapDays} \subseteq Nat /\ {MaxMoves, MaxLost} \subseteq Nat /\ Offset \in {0, 1} /\ PeriodDays \in Nat
  /\ Rerun \notin 0 .. MaxDay /\ None \notin (0 .. MaxDay) \X {"scheduled", "backfill"}
  /\ {VolumeFloor, CooldownDays, MinRepresentatives} \subseteq Nat \ {0}
  /\ MinCleanDays \in Nat \ {0}

VARIABLES
  new,      \* topics with first_seen day 0; the others are older
  doc,      \* Document with its Enrichment and Assignment
  run,      \* status of the IngestionRun of a date and kind
  ledger,   \* FetchStats.kept by run and source
  metric,   \* DailyMetric rows by bucket
  event,    \* TrendEvent rows
  score,    \* TrendScore rows
  skip,     \* GenerationSkip rows
  insight,  \* Insight rows: opportunities, and the digest under None
  job,      \* the pipeline of each date, and the rerun
  lastDay,  \* auxiliary: how many days this history has
  today,
  moves,    \* auxiliary: annotations so far
  late      \* auxiliary: days detected after a later one had been read

vars == <<new, doc, run, ledger, metric, event, score, skip, insight, job, lastDay, today, moves, late>>

Day == 0 .. MaxDay
Slot == 0 .. 2 * MaxDay   \* half days
UtcDay(s) == s \div 2
\* bucket_for: the calendar day in the monitor's timezone.
BucketOf(s) == (s + Offset) \div 2

RunKinds == {"scheduled", "backfill"}
RunIds == Day \X RunKinds
Statuses == {"none", "open", "complete", "partial", "failed"}
Keys == (Sources \cup {None}) \X (Topics \cup {None})
EventKinds == {"emergence", "burst", "growth"}
Workers == Day \cup {Rerun}

\* run: auxiliary, the run whose ledger row counts the document, or will; None
\* if no row ever does.
DocRows == [state : {"absent", "stored", "relevant"}, slot : Slot,
            topic : Topics \cup {None}, source : Sources,
            run : RunIds \cup {None}]
\* measured: auxiliary, the row's documents that the sample's ledger counts.
MetricRows == [docs : SUBSET Docs, sample : Nat, measured : SUBSET Docs]
Events == [topic : Topics, day : Day, kind : EventKinds, evidence : SUBSET Docs]
Scores == [topic : Topics, day : Day, withheld : BOOLEAN]
SkipReasons == {"day_untrustworthy", "evidence_too_thin", "no_change_detected", "generation_failed"}
Skips == [topic : Topics, day : Day, reason : SkipReasons]

Stages == {"idle", "rollup", "rows", "write", "detect", "events", "score",
           "insights", "done", "failed"}
NoSample == [kept |-> [s \in Sources |-> 0], of |-> {}]
JobRows == [stage : Stages, todo : SUBSET Day, bucket : Day,
            sample : [kept : [Sources -> Nat],
                      of : SUBSET (RunIds \X Sources)],  \* auxiliary: its ledger rows
            events : SUBSET Events]

\* A partial function on Keys with values in S.
IsRowsOf(f, S) == DOMAIN f \subseteq Keys /\ \A k \in DOMAIN f : f[k] \in S

TypeOK ==
  /\ new \subseteq Topics
  /\ doc \in [Docs -> DocRows]
  /\ run \in [RunIds -> Statuses]
  /\ ledger \in [RunIds -> [Sources -> Nat \cup {None}]]
  /\ \A b \in Day : IsRowsOf(metric[b], MetricRows)
  /\ event \subseteq Events /\ score \subseteq Scores /\ skip \subseteq Skips
  /\ insight \subseteq (Topics \cup {None}) \X Day
  /\ \A w \in Workers : /\ [f \in DOMAIN job[w] \ {"rows"} |-> job[w][f]] \in JobRows
                        /\ IsRowsOf(job[w].rows, MetricRows)
  /\ {today, lastDay} \subseteq Day /\ moves \in 0 .. MaxMoves /\ late \subseteq Day
  \* the unique keys of the tables
  /\ \A e, f \in event : e.topic = f.topic /\ e.day = f.day /\ e.kind = f.kind => e = f
  /\ \A x, y \in score : x.topic = y.topic /\ x.day = y.day => x = y
  \* every event points to something
  /\ \A e \in event : e.evidence # {}

NoRows == [k \in {} |-> k]
Idle == [stage |-> "idle", todo |-> {}, bucket |-> 0, sample |-> NoSample, rows |-> NoRows, events |-> {}]

Init ==
  /\ new \in SUBSET Topics
  /\ \E s \in Sources : doc = [d \in Docs |->
       [state |-> "absent", slot |-> 0, topic |-> None, source |-> s,
        run |-> None]]
  /\ run = [r \in RunIds |-> "none"]
  /\ ledger = [r \in RunIds |-> [s \in Sources |-> None]]
  /\ metric = [b \in Day |-> NoRows]
  /\ event = {} /\ score = {} /\ skip = {} /\ insight = {}
  /\ job = [w \in Workers |-> Idle]
  /\ lastDay \in OverlapDays .. MaxDay /\ today = 0 /\ moves = 0 /\ late = {}

-----------------------------------------------------------------------------
(* Collections, as far as the rollup sees them.                            *)
analytics == <<new, lastDay, metric, event, score, skip, insight, job, late>>

Exists(d) == doc[d].state # "absent"

\* RunService.start.  The scheduled run is today's, a backfill's of any day.
Open(r) ==
  /\ run[r] = "none"
  /\ IF r[2] = "scheduled" THEN r[1] = today ELSE r[1] <= today /\ lastDay <= OverlapDays
  /\ run' = [run EXCEPT ![r] = "open"]
  /\ UNCHANGED <<doc, ledger, today, moves, analytics>>

Lost == {d \in Docs : Exists(d) /\ doc[d].run = None}
Awaiting(r, s) == {d \in Docs : Exists(d) /\ doc[d].run = r /\ doc[d].source = s}

\* A collection of the source commits its new documents, with whatever
\* publication time they have.  A run may be dispatched again, after a crash
\* or beside the first one: if its row of the source is there already, that of
\* this collection will be refused.
Persist(r, s) ==
  /\ run[r] # "none"
  /\ \E D \in (SUBSET {d \in Docs : doc[d].state = "absent"}) \ {{}} :
       /\ ledger[r][s] # None => Cardinality(Lost \cup D) <= MaxLost
       /\ \E slot \in [D -> {h \in Slot : UtcDay(h) <= today /\ BucketOf(h) <= lastDay}] :
            doc' = [d \in Docs |-> IF d \in D
                      THEN [state |-> "stored", slot |-> slot[d], topic |-> None, source |-> s,
                            run |-> IF ledger[r][s] = None THEN r ELSE None]
                      ELSE doc[d]]
  /\ UNCHANGED <<run, ledger, today, moves, analytics>>

\* The ledger row is a transaction of its own, and the first one of a source
\* in a run is the only one.  It counts the documents D its own collection
\* stored, none if there were none.  Nothing counts those that others have
\* stored for the run: a collection that died before its row, or one that will
\* be refused it.
WriteRow(r, s) ==
  /\ run[r] = "open" /\ ledger[r][s] = None
  /\ \E D \in SUBSET Awaiting(r, s) :
       LET lost == Awaiting(r, s) \ D IN
       /\ Cardinality(Lost \cup lost) <= MaxLost
       /\ ledger' = [ledger EXCEPT ![r][s] = Cardinality(D)]
       /\ doc' = [d \in Docs |-> IF d \in lost THEN [doc[d] EXCEPT !.run = None] ELSE doc[d]]
  /\ UNCHANGED <<run, today, moves, analytics>>

\* The verdict, once every source has its row, a disabled one that of nothing,
\* which withholds it as no row does: FAILED if nothing was kept, and else
\* Runs' business.
Finalise(r) ==
  /\ run[r] = "open" /\ \A s \in Sources : ledger[r][s] # None
  /\ \E status \in IF \A s \in Sources : ledger[r][s] = 0 THEN {"failed"}
                   ELSE {"complete", "partial", "failed"} :
       run' = [run EXCEPT ![r] = status]
  /\ UNCHANGED <<doc, ledger, today, moves, analytics>>

\* Enrichment and assignment, whatever later moves the assignment, and a
\* rerun of the relevance stage that changes its mind.
Annotate(d) ==
  /\ Exists(d) /\ moves < MaxMoves
  /\ \E w \in Workers : job[w].stage # "idle"
  /\ moves' = moves + 1
  /\ \/ \E t \in Topics \cup {None} : doc' = [doc EXCEPT ![d].state = "relevant", ![d].topic = t]
     \/ doc[d].state = "relevant" /\ doc' = [doc EXCEPT ![d].state = "stored", ![d].topic = None]
  /\ UNCHANGED <<run, ledger, today, analytics>>

NextDay ==
  /\ today < lastDay
  /\ today' = today + 1
  /\ UNCHANGED <<doc, run, ledger, moves, analytics>>

-----------------------------------------------------------------------------
(* The rollup of one bucket after the other.                               *)
inputs == <<new, doc, run, ledger, lastDay, today, moves>>
results == <<event, score, skip, insight>>
Become(w, j) == job' = [job EXCEPT ![w] = j]

Published(b) == {d \in Docs : Exists(d) /\ BucketOf(doc[d].slot) = b}

\* The next bucket of w, or what comes after its rollup.
NextBucket(w, todo) ==
  IF todo # {} THEN [Idle EXCEPT !.stage = "rollup", !.todo = todo]
  ELSE IF w = Rerun THEN [Idle EXCEPT !.stage = "done"]
  ELSE [Idle EXCEPT !.stage = "detect", !.bucket = w]

StartPipeline(day) ==
  /\ job[day] = Idle /\ run[<<day, "scheduled">>] \in {"complete", "partial"}
  /\ Become(day, NextBucket(day, {day}))
  /\ UNCHANGED <<inputs, metric, results, late>>

\* Every date with a document, which all have theirs among the modelled days.
StartRerun ==
  /\ job[Rerun] = Idle /\ lastDay <= OverlapDays
  /\ Become(Rerun, NextBucket(Rerun, {b \in Day : Published(b) # {}}))
  /\ UNCHANGED <<inputs, metric, results, late>>

\* Mutant: the scheduled run only.
LedgerOfSchedule(b, s) == {r \in {<<b, "scheduled">>} : ledger[r][s] # None}

\* Every row of the source in a run of the date, whatever the run's status.
LedgerOf(b, s) == {r \in {b} \X RunKinds : ledger[r][s] # None}
SampleOf(b) ==
  [kept |-> [s \in Sources |-> MapThenSumSet(LAMBDA r : ledger[r][s], LedgerOf(b, s))],
   of |-> {x \in ({b} \X RunKinds) \X Sources : ledger[x[1]][x[2]] # None}]

\* LedgerMissing and SampleZero: documents in a bucket without a sample.
Unsupported(b) == {s \in Sources : /\ \E d \in Published(b) : doc[d].source = s
                                   /\ SampleOf(b).kept[s] = 0}

LoadContext(w, b) ==
  /\ job[w].stage = "rollup" /\ b \in job[w].todo
  /\ Become(w, IF Unsupported(b) # {}
               THEN NextBucket(w, job[w].todo \ {b})
               ELSE [job[w] EXCEPT !.stage = "rows", !.todo = @ \ {b},
                                   !.bucket = b, !.sample = SampleOf(b)])
  /\ UNCHANGED <<inputs, metric, results, late>>

Present(sample) == {s \in Sources : sample.kept[s] > 0}

Row(D, sample, sources) ==
  [docs |-> D, sample |-> MapThenSumSet(LAMBDA s : sample.kept[s], sources),
   measured |-> {d \in D : <<doc[d].run, doc[d].source>> \in sample.of}]

\* The rows of f, and those of g under other keys.
Over(f, g) == [k \in DOMAIN f \cup DOMAIN g |-> IF k \in DOMAIN f THEN f[k] ELSE g[k]]

\* The four breakdowns of the bucket's documents.  A document without a topic
\* is grouped under <<source, None>>, the key of its source's total, which is
\* written after it and so replaces it.
RowsOf(D, sample) ==
  LET present == Present(sample)
      Of(s, t) == {d \in D : doc[d].source = s /\ doc[d].topic = t}
      Source(s) == {d \in D : doc[d].source = s}
      Topic(t) == {d \in D : doc[d].topic = t /\ doc[d].source \in present}
      pairs == {k \in present \X (Topics \cup {None}) : Of(k[1], k[2]) # {}}
      byPair == [k \in pairs |-> Row(Of(k[1], k[2]), sample, {k[1]})]
      bySource == [k \in {s \in present : Source(s) # {}} \X {None} |->
                     Row(Source(k[1]), sample, {k[1]})]
      byTopic == [k \in {None} \X {t \in Topics : Topic(t) # {}} |->
                    Row(Topic(k[2]), sample, present)]
      monitor == [k \in IF present = {} THEN {} ELSE {<<None, None>>} |->
                    Row(UNION {Source(s) : s \in present}, sample, present)]
  IN Over(monitor, Over(byTopic, Over(bySource, byPair)))

\* The grouping reads the documents again, some time after the context.
LoadRows(w) ==
  /\ job[w].stage = "rows"
  /\ Become(w, [job[w] EXCEPT !.stage = "write",
       !.rows = RowsOf({d \in Published(job[w].bucket) : doc[d].state = "relevant"}, job[w].sample)])
  /\ UNCHANGED <<inputs, metric, results, late>>

\* Mutant: the other keys stay.
WriteWithoutPrune(w) ==
  /\ job[w].stage = "write"
  /\ metric' = [metric EXCEPT ![job[w].bucket] = Over(job[w].rows, @)]
  /\ Become(w, NextBucket(w, job[w].todo))
  /\ UNCHANGED <<inputs, results, late>>

\* Upsert, prune of the other keys, commit.  Every rollup with a sample
\* updates the monitor's row, last, and holds its lock until it commits: two
\* of them write one after the other.  (With documents in the bucket there is
\* a sample; a bucket that lost its last one meanwhile would be emptied.)
Write(w) ==
  /\ job[w].stage = "write"
  /\ metric' = [metric EXCEPT ![job[w].bucket] = job[w].rows]
  /\ Become(w, NextBucket(w, job[w].todo))
  /\ UNCHANGED <<inputs, results, late>>

\* Two of them may also wait for each other's rows: one is aborted.
Deadlock(w) ==
  /\ job[w].stage = "write"
  /\ \E v \in Workers \ {w} : job[v].stage = "write" /\ job[v].bucket = job[w].bucket
  /\ Become(w, NextBucket(w, job[w].todo))
  /\ UNCHANGED <<inputs, metric, results, late>>

-----------------------------------------------------------------------------
(* Detection, scores and insights of one day, in that order.               *)
TopicRow(t, b) == metric[b][<<None, t>>]
Counted(t, b) == <<None, t>> \in DOMAIN metric[b]

StatusesOf(b) == {run[<<b, k>>] : k \in RunKinds} \ {"none"}

\* The baseline's days: those with a row, without the truncated ones, which
\* are any, and the PARTIAL ones.  Of the two runs of a day that was also
\* backfilled dict() keeps either.  An older topic has enough of them.
Clean(t, b) == {h \in 0 .. b - 1 : Counted(t, h) /\ StatusesOf(h) # {"partial"}}
Baseline(t, b) == t \in new => Cardinality(Clean(t, b)) >= MinCleanDays

\* volume_floor
LoudEnough(t, b) == Counted(t, b) /\ Cardinality(TopicRow(t, b).docs) >= VolumeFloor

\* A topic emerges on the day it was first seen.
Emerging(t, b) == t \in new /\ b = 0

\* The tests that may come out positive: emergence without a baseline, the
\* others against one.
Tested(t, b) ==
  IF ~LoudEnough(t, b) THEN {}
  ELSE IF Baseline(t, b) THEN {"burst", "growth"}
  ELSE IF Emerging(t, b) THEN {"emergence"} ELSE {}

\* Mutant: one day too short.
CoolingTooShort(t, kind, b) ==
  \E e \in event : e.topic = t /\ e.kind = kind /\ e.day < b /\ b - e.day < CooldownDays - 1

\* last_event_dates: for each kind the latest of the earlier dates.
Cooling(t, kind, b) ==
  LET dates == {e.day : e \in {f \in event : /\ f.topic = t /\ f.kind = kind
                                             /\ f.day < b /\ f.day + 4 * CooldownDays >= b}}
  IN dates # {} /\ b - (CHOOSE x \in dates : \A y \in dates : y <= x) < CooldownDays

\* The evidence window is made of UTC days, whatever the monitor's timezone.
EvidenceFor(t, kind, b) ==
  {d \in Docs : /\ doc[d].state = "relevant" /\ doc[d].topic = t
                /\ IF kind = "growth" THEN UtcDay(doc[d].slot) \in b - 6 .. b
                                      ELSE UtcDay(doc[d].slot) = b}

\* Mutant: an event without evidence is written.
DetectUnfounded(day) ==
  /\ job[day].stage = "detect"
  /\ \E found \in [Topics -> SUBSET EventKinds] :
       /\ \A t \in Topics : found[t] \subseteq Tested(t, day)
       /\ Become(day, [Idle EXCEPT !.stage = "events", !.bucket = day,
            !.events = UNION {{[topic |-> t, day |-> day, kind |-> k, evidence |-> EvidenceFor(t, k, day)]
                               : k \in {l \in found[t] : ~Cooling(t, l, day)}} : t \in Topics}])
  /\ UNCHANGED <<inputs, metric, results, late>>

\* A candidate without evidence raises and ends the day's pipeline.
Detect(day) ==
  /\ job[day].stage = "detect"
  /\ \E found \in [Topics -> SUBSET EventKinds] :
       /\ \A t \in Topics : found[t] \subseteq Tested(t, day)
       /\ LET kept == UNION {{<<t, k>> : k \in {l \in found[t] : ~Cooling(t, l, day)}} : t \in Topics} IN
            Become(day, IF \E x \in kept : EvidenceFor(x[1], x[2], day) = {}
                        THEN [Idle EXCEPT !.stage = "failed"]
                        ELSE [Idle EXCEPT !.stage = "events", !.bucket = day,
                                !.events = {[topic |-> x[1], day |-> day, kind |-> x[2],
                                             evidence |-> EvidenceFor(x[1], x[2], day)] : x \in kept}])
  /\ UNCHANGED <<inputs, metric, results, late>>

\* upsert_event: one row per topic, day and kind.
WriteEvents(day) ==
  LET fresh == job[day].events
      Replaced(e) == \E f \in fresh : f.topic = e.topic /\ f.kind = e.kind /\ f.day = e.day
  IN /\ job[day].stage = "events"
     /\ event' = {e \in event : ~Replaced(e)} \cup fresh
     /\ late' = IF \E later \in Day : later > day /\ job[later].stage \in {"events", "score", "insights", "done", "failed"}
                THEN late \cup {day} ELSE late
     /\ Become(day, [Idle EXCEPT !.stage = "score", !.bucket = day])
     /\ UNCHANGED <<inputs, metric, score, skip, insight>>

\* One score per topic with a row; withheld when a run of the day is PARTIAL.
Score(day) ==
  LET scored == {t \in Topics : Counted(t, day)} IN
  /\ job[day].stage = "score"
  /\ score' = {x \in score : x.day # day \/ x.topic \notin scored} \cup
              {[topic |-> t, day |-> day, withheld |-> "partial" \in StatusesOf(day)] : t \in scored}
  /\ Become(day, [Idle EXCEPT !.stage = "insights", !.bucket = day])
  /\ UNCHANGED <<inputs, metric, event, skip, insight, late>>

Representatives(t, days) ==
  {d \in Docs : doc[d].state = "relevant" /\ doc[d].topic = t /\ UtcDay(doc[d].slot) \in days}

\* evidence_is_thin
Thin(D) == Cardinality(D) < MinRepresentatives

DayIsTrustworthy(days) == \A b \in days \cap Day : "partial" \notin StatusesOf(b)
HasGatedChange(t, days) == \E x \in score : x.topic = t /\ x.day \in days /\ ~x.withheld

\* What generate_insights makes of one topic; days: the half-open period.
Outcomes(t, days) ==
  IF ~DayIsTrustworthy(days) THEN {"day_untrustworthy"}
  ELSE IF Thin(Representatives(t, days)) THEN {"evidence_too_thin"}
  ELSE IF ~HasGatedChange(t, days) THEN {"no_change_detected"}
  ELSE {"generation_failed", "written"}

\* The digest sums up what was written, if the model can.
Digests(written) == IF written = {} THEN {{}} ELSE {{}, {None}}

Insights(day) ==
  LET days == day .. day + PeriodDays - 1 IN
  /\ job[day].stage = "insights"
  /\ \E outcome \in [Topics -> SkipReasons \cup {"written"}] :
       /\ \A t \in Topics : outcome[t] \in Outcomes(t, days)
       /\ skip' = skip \cup {[topic |-> t, day |-> day, reason |-> outcome[t]] :
                             t \in {u \in Topics : outcome[u] # "written"}}
       /\ LET written == {t \in Topics : outcome[t] = "written"} IN
          \E digest \in Digests(written) :
            insight' = insight \cup ((written \cup digest) \X {day})
  /\ Become(day, [Idle EXCEPT !.stage = "done"])
  /\ UNCHANGED <<inputs, metric, event, score, late>>

-----------------------------------------------------------------------------
Next ==
  \/ NextDay \/ StartRerun
  \/ \E r \in RunIds : \/ Open(r) \/ Finalise(r)
                        \/ \E s \in Sources : Persist(r, s) \/ WriteRow(r, s)
  \/ \E d \in Docs : Annotate(d)
  \/ \E w \in Workers : LoadRows(w) \/ Write(w) \/ Deadlock(w)
                        \/ \E b \in Day : LoadContext(w, b)
  \/ \E day \in Day : StartPipeline(day) \/ Detect(day) \/ WriteEvents(day)
                      \/ Score(day) \/ Insights(day)

Spec == Init /\ [][Next]_vars

-----------------------------------------------------------------------------
(* Properties.                                                             *)

\* The rows of a bucket are those of one computation, also after two rollups
\* of it overlapped: the monitor's row counts what the sources' rows count,
\* a source's row all of that source's topics, a topic's row that topic in
\* every source, over one sample.
\* (group.py:43-139, repositories/metrics.py:95-127)
BreakdownsAgree ==
  \A b \in Day :
    LET rows == metric[b]
        Count(k) == IF k \in DOMAIN rows THEN rows[k].docs ELSE {}
    IN DOMAIN rows # {} =>
       /\ <<None, None>> \in DOMAIN rows
       /\ Count(<<None, None>>) = UNION {Count(<<s, None>>) : s \in Sources}
       /\ \A s \in Sources, t \in Topics : Count(<<s, t>>) \subseteq Count(<<s, None>>)
       /\ \A t \in Topics : /\ Count(<<None, t>>) = UNION {Count(<<s, t>>) : s \in Sources}
                            /\ Counted(t, b) => TopicRow(t, b).sample = rows[<<None, None>>].sample

\* A share is of a sample that holds what it counts: the documents of a row
\* that the ledger counted for that date when the sample was read are no more
\* than the sample, with two runs of a date, and documents that come between
\* the sample and the count.  The others have no place in any sample: another
\* date's run stored them, or their collection died before its ledger row or
\* was refused it.
\* (pipeline/analytics/normalization.py:85-159, rollup.py:56-81)
CountWithinSample ==
  \A b \in Day : \A k \in DOMAIN metric[b] :
    Cardinality(metric[b][k].measured) <= metric[b][k].sample

\* Two events of one kind for one topic are a cooldown apart, unless the
\* earlier day was detected after the later one had been read: cooldown looks
\* back from the day, not from now.  (gates.py:100-109, analytics.py:293-304)
CooldownHolds ==
  \A e, f \in event :
    (e.topic = f.topic /\ e.kind = f.kind /\ e.day < f.day /\ f.day - e.day < CooldownDays)
      => e.day \in late

\* A topic is passed over for thin evidence only when that day brought fewer
\* documents of it than an insight needs.  (pipeline/insights/gating.py:65-70)
ThinMeansThin ==
  [][\A x \in skip' \ skip : x.reason = "evidence_too_thin" =>
       Cardinality(Representatives(x.topic, {x.day})) < MinRepresentatives]_vars
=============================================================================
