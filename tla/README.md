# Formal models of mlsc

mlsc watches what people write about a product or a theme. Every day it collects
documents for each *monitor* from its sources, enriches them, assigns them to
topics, rolls them up, looks for trends, writes insights and notifies. This
directory holds TLA+ models of the parts of it where concurrency, failure and
retries decide whether it is right, the TLC runs that check them, and TLAPS
proofs of all their safety properties. Paths below are relative to `src/mlsc/`.

## 1. The system

Processes: the FastAPI application, Celery Beat, Celery workers. Shared state:
Postgres (all rows named below), Redis (run locks, response cache, breakers,
token buckets, the Celery broker). Every service opens a session per step, so a
step is a transaction and everything else may happen between two steps.

| Component | State | Operations | Hard behaviour | What makes it right |
|---|---|---|---|---|
| Run lifecycle: `application/runs.py`, `core/locks.py`, `tasks/dispatch.py` | `IngestionRun.status`, `FetchStats` (the ledger), Redis lock, queue | `start`, `dispatch_run`, `collect_one_source`, `finalise`, downstream pipeline | concurrent starts, stale reads, lock TTL, early acknowledgement, crashes, unique keys that raise | one dispatch at a time; verdict = its ledger; verdict final; downstream once; PENDING ends |
| Source collection and adapters: `tasks/ingest.py`, `sources/` | documents, `last_published_at`, `FetchStats`, response cache | `collect_source`, six adapters' walks | one watermark for a fan-out, quota cuts, equal timestamps, unordered listings, overlapping collections, two transactions | nothing skipped without a reason; counts add up; a row on every outcome |
| Fetch guardrails: `core/fetch/` | breaker, bucket and cache keys in Redis | `get`: check, lookup, acquire, send, record | several commands per step, clocks read early | an open breaker stands for its failures; the budget is shared; every call ends |
| Overrides and backfill: `application/overrides.py`, `tasks/overrides.py`, `application/backfill.py` | `OverrideJob`, `BackfillJob`, backfill runs | `submit`, `run_override`, window walk | check-then-insert, uncaught errors, crashes | a report covers its window; jobs end |
| Alert deliveries: `tasks/alerts.py` | `Delivery` | `evaluate_alerts`, `deliver_pending` | overlapping sweeps, one commit for many sends, lost answers | outcomes earned, attempts limited, deliveries end |
| Topics: `tasks/topics.py`, `application/topics.py`, `pipeline/topics/` | `Topic`, `Assignment`, lineage | assign, discover, sweep, refit, merge, reassign, pin | a user's decisions beside daily, weekly and monthly passes, LLM waits inside transactions | manual choices survive; merges lead to a topic; nothing is counted twice |
| Retention: `tasks/retention.py` | documents | `enforce_retention` | deletes what a pass has read | no row of a document that is gone |
| Enrichment: `tasks/enrich.py` | `Enrichment` | enrich what has no row | model inference | - |
| Daily metrics: `tasks/analytics.py`, `repositories/metrics.py`, `pipeline/analytics/` | `DailyMetric` | `rollup_day`, stage rerun | sample and documents from different moments, upsert and prune | a bucket is one computation; counts fit the sample |
| Trends: `tasks/analytics.py`, `repositories/trends.py` | `TrendEvent`, `TrendScore`, gates | `detect_day`, `score_day` | days detected out of order | cooldown holds, events have evidence |
| Insights: `tasks/insights.py`, `pipeline/insights/` | `Insight`, `GenerationSkip` | `generate_insights` | half-open periods, LLM failures | a skip says the true reason |
| Monitors and schedule: `application/monitors.py`, `beat.py`, `application/sources.py` | `Monitor`, `ScheduleRegistration`, Beat's entries, `MonitorSource` | create, update, attach, enable, project | concurrent updates at READ COMMITTED, projection per tick | registered exactly when active |
| Themes: `application/themes.py`, `tasks/themes.py` | seed, candidates, `ThemeJob`, `DiscoveryOutcome` | generate, review, discover, accept, reject | check-then-insert, LLM wait between read and write, two transactions | only reviewed queries are searched; reviews stand; jobs end |
| Source health: `tasks/maintenance.py`, `application/health.py` | `SourceHealth`, alerts | evaluate after a run | history without order | silence is noticed |
| Evaluation, API, read views, settings, migrations | label sets | - | - | see section 8 |

Interactions. Beat's `run_monitor` and the API's trigger both call `start`, which
takes the Redis lock and enqueues `dispatch_run`. The worker calls
`collect_source` per source, `finalise`, then health and the downstream
pipeline: enrichment, topic assignment, rollup, detection, scores, alerts (whose
deliveries Beat's sweep sends) and insights. The adapters reach their hosts
through `FetchClient`. Overrides reach `collect_source` through a backfill,
beside the daily run and with the same watermark, and rerun stages. An accepted
theme candidate becomes a source of the monitor.

`PROJECT.json` lists the hazards of this code at their lines, with the
properties that cover them.

## 2. Modules

| Module | Content |
|---|---|
| `RunVerdict` | outcomes of one source and the classification at the head of `finalise` |
| `RunLedger` | abstract: the ledger of a run only gains rows, verdicts are classifications of rows in it |
| `Runs` | the run lifecycle of one monitor in detail; implements `RunLedger` |
| `Collection` | overlapping collections of one source of any of the six kinds |
| `Fetch` | the calls of `FetchClient.get` for one host |
| `Overrides` | override requests from the API to the end of their job |
| `Alerts` | creation and delivery of alerts |
| `Topics` | the topic registry of one monitor, with enrichment and retention |
| `Analytics` | rollup, trends and insights, with the collections and reruns beside them |
| `Monitors` | a monitor, its registration, Beat's entry and its sources |
| `Themes` | theme jobs, queries and candidates; extends `Monitors` |
| `RunsProofs`, `CollectionProofs`, `FetchProofs`, `OverridesProofs`, `AlertsProofs`, `TopicsProofs`, `AnalyticsProofs`, `ThemesProofs` | theorems |
| `MCRuns`, `MCCollection`, `MCTopics`, `MCAnalytics`, `MCThemes` | symmetry sets and values for TLC; the other modules are run as they are |

Operators marked "Mutant" in a module are broken forms of the definition after
them. Each is named in `PROJECT.json` with the property that finds it.

### Runs

`call[c]` is a caller inside `start`, `job[w]` a worker inside `dispatch_run`,
`queue` the `mlsc.dispatch_run` messages, `run`, `ledger` and `lock` the shared
rows and keys by day. The actions follow the awaits:

* `StartRead` (the session's reads, with the early return for a final run),
  `StartInsert` (a losing insert meets `uq_ingestion_runs_identity`),
  `StartAcquire` (`SET NX EX`), `StartEnqueue`.
* `Take` acknowledges the message and reads the enabled sources; `Collect` is one
  `collect_one_source`, in any order because the query has no ORDER BY, and
  `CollectRaises` one that raises without a row, which nothing in `dispatch_run`
  catches; `Finalise`, `ReadToken`, `Release` are the three awaits of `finalise`;
  `AfterRun` is one stage after it (health always, the others unless the verdict
  is FAILED, insights only with a configured LLM).
* `LockExpire`, `CallerCrash`, `WorkerCrash`, `ToggleSource`, `ToggleMonitor`,
  `NextDay` are what happens around them.

The documents a source returns are abstracted to whether `kept` is above zero,
which is all that the classification looks at. `lease` in `job` is auxiliary:
the code drops the token that `acquire` returned. FAILED_VALIDATION and
FAILED_TRANSPORT are one value; RUNNING is never written by this code.

### Collection

`job[r]` is one call of `collect_source`; items are numbered in the order of
their publication, and `feed[i]` has the queries that match item i and its
timestamp, which may equal its predecessor's. `Begin` reads the watermark,
`Fetch` is one request of the fan-out with the adapter's walk of what it shows,
`Persist` the transaction of documents and watermark, `WriteStats` the ledger
row's own; each has its failure, and `Crash` strikes between any two. The
response cache keeps a response until `CacheExpire`.

The kinds differ in what the code does: Discourse, News and Hacker News make one
request per query, the App Store numbered pages, RSS and Play one walk.
Discourse and News ask for no order, and a feed's is its publisher's, so an item
below the watermark may end their walk anywhere (`Unordered`, `AnyOrder`); the
others are newest-first. The App Store's cursor
is an id, the others compare timestamps. News drops articles without a text
(`Readable`); those are left out of `shown`, the auxiliary record of what the
responses showed. RSS, News and Play carry naive timestamps, and comparing one
with the saved watermark raises (`FetchRaises`). External assumptions: Play's
continuation tokens pin a walk to its first response, and the reviews at the
App Store's cursor are not deleted.

### Fetch

`worker[w]` is a call of `get` on its way through the breaker's check, the cache,
the throttle, the transport and the breaker's record; each action is one Redis
command or one attempt. Clocks are durations that `Tick` counts: what is left of
a cooldown, the age of the bucket's `updated_at`, the age (`lag`) of the clock
reading a take works with. The unit is the time in which one token refills.
`Check` and `Reset` are the GET and the DELETE of `check`, `RecordFailure` and
`Trip` the INCR and the SET of `record_failure`; `ReadTokens`, `ReadUpdated`,
`WriteTokens`, `WriteUpdated` the four commands of `_take_token`. `ideal` is the
bucket that would exist without races, `streak` and `cooling` the failures and
the cooldown as a caller of the breaker would count them, `slipped` and `races`
tell which steps of other calls came between two commands: all auxiliary.
Tokens are whole; jitter and backoff only delay a step; a Redis error of breaker
or throttle, which ends the call by raising, is not modelled; the webhook
sender's single attempt through the same parts is in `Alerts`.

### Overrides

`proc[r]` is a request on its way through `submit`, the queue and `run_override`.
`Check` and `Insert` are apart, because nothing locks between them.
`BackfillCheck` to `BackfillEnd` are `BackfillService` as `_run_backfill_window`
drives it; `owner[d]` is the job whose backfill run of date d exists. `Faults` are
the parts of a rerun and a purge that can raise, `Caught` those with a try around
them: what the others raise, and a backfill that meets another one, leaves
`run_override` and leads to "dead".

### Alerts

`sweep[s].rows` are a session's copies of the deliveries it read, `Mark` changes
the copy, `Commit` flushes the columns that changed of all of them (`Flushed`).
An attempt is `Succeed`, `Fail` (after a POST) or `Refuse` (the breaker is open
and there is no POST; the row counts it all the same). Autoflush sends marks to Postgres before
the next rule is read, so a second sweep can wait for the first one's row locks;
the model lets it run on, which adds interleavings and removes none of the
commits' outcomes. `tries` (attempts, refusals included) and `received` are
auxiliary.

### Topics

Every pass and every correction is one transaction that reads, waits (clustering,
embeddings, an LLM label) and writes: a begin action and a commit action of
`call[c]`, with any other commit in between, or `Abort`. `PassCommit` is refused
by `uq_assignments_document_id` and the foreign key, `RefitCommit` updates by
document id alone, and `Column` is what the session flushes: a column is written
when it differs from what was read. Similarities and clusters are any choice;
`Docs` are followed documents among others, so pool and window sizes are any.
The weekly task runs the dormancy sweep after its discovery in one try block,
which is why the sweep needs a discovery that ended. Retention removes expired
documents with their assignments. Renaming, split proposals, labels and
centroids are left out. (`TopicService` has no route yet; its tests call it.)

### Analytics

A collection is two transactions: `Persist` commits documents and `WriteRow`,
later, the ledger row with what its own collection kept. One that dies in between,
or meets the unique key of a second dispatch's row, leaves documents that no row
counts (`Lost`). A disabled source is a row of nothing. A metric row holds the set
of documents it counts, since its figures are functions of that set. `LoadContext`
(ledger, sources and sample of a bucket), `LoadRows` (the grouping, later) and
`Write` (upsert, prune, commit) are a rollup; the daily pipeline and a stage rerun
run them beside each other. Two rollups of a bucket serialise on the monitor's
row, which both update last, or deadlock on others (`Deadlock`). `Detect`,
`WriteEvents`, `Score`, `Insights` follow for the pipeline's day. Detectors and
completions are any choice among what the gates admit (the LLM cache is an
accepted completion like any other); truncated ledger rows and quotas only shrink
the baseline; gate rows, shares, sentiment and ratings are left out, and so are
retention's deletes (they are in `Topics`). Documents lie in half days, so that a
timezone shifts buckets against UTC days. `late` exempts days detected after a
later one.

### Monitors and Themes

`Load`, `LoadRegistration`, `Write` are `update`: the entity's two queries, and
the flush. A SQLAlchemy session writes the columns it changed and keeps what it
had loaded in its identity map, also when `upsert_active` selects the row again
(`Flushed`, `Upserted`). `raced` marks the updates that could not see each
other: a registration came or went between load and write, one was inserted from
a monitor row that had changed, or the two loads are from different moments.
`RegistrationFollows` (`application/monitors.py:1-7`) holds up to those.

`Themes` adds the jobs: `Submit` and `CreatePending` are apart, as in `_submit`;
`TakeGeneration`, `WriteQueries` are query generation around the LLM, `Raise` what
ends it or a search with an exception; `TakeDiscovery`, `Search`, `Insert`,
`SearchEnds`, `RecordOutcome` a discovery pass; `Accept` and `MarkAccepted` the
two transactions of an acceptance, which looks at no state of the candidate.
EVERY_SURFACE_EMPTY is recorded also when surfaces failed or every result was
known to be rejected. Edits of the description do not reach the seed and
`build_theme_relevance_context` is not modelled.

## 3. Runs of TLC

| Run | Shows | States |
|---|---|---|
| `runs_safety` | type, exclusion, verdict = ledger, downstream once, verdict final, refinement of `RunLedger` | 1.5M |
| `runs_liveness` | a PENDING run gets its verdict by itself; through a crash, a cut call and a stuck lock if it is asked for again | 303k |
| `runs_stranded` | violation: a run whose dispatch died after a ledger row is never finalised | |
| `collection` | skips are explained, `kept` is a measurement when it says so, counts add up, for all six kinds | 9.9M |
| `collection_raises` | violation: naive timestamps against a saved watermark end a collection without its row | |
| `fetch` | an open breaker stands for its failures and its cooldown, the shared budget is kept, calls end | 430k |
| `overrides` | a backfill's report covers its window, jobs end unless contested or raised where nothing is caught | 22k |
| `alerts` | outcomes earned, attempts limited, terminal states kept, deliveries end | 261k |
| `topics` | documents counted once, merges lead on, merged topics stay empty, a user's decisions stand | 1.2M |
| `analytics` | rows of a bucket agree, counts fit the sample, cooldowns hold | 3.7M |
| `insights_daily` | violation: the daily pipeline's empty period makes all evidence thin | |
| `themes` | registration follows status, Beat follows the registration, only reviewed queries, reviews stand, acceptance is whole, jobs end | 512k |

A violation run checks what a docstring promises and the code does not do;
`findings` in `PROJECT.json` quotes it. `insights_daily` passes the period that
`dispatch_run` passes, which is empty; `analytics` gives the gates a period of one
day, so that its branches behind thin evidence run as well, and states no property
of them.

Other disagreements met on the way, which no run states:

* `finalise` releases the lock with whatever token is in it
  (`application/runs.py:179`), where `core/locks.py:1-5` has only the owner
  release; after an expiry it frees another dispatch's lock. `ExclusiveDispatch`
  therefore holds while no collection outlasts the TTL.
* `tasks/overrides.py:3-5` says that "each branch writes `outcome` on every path,
  including failure". The relevance context (`:108`), the query for the affected
  dates (`:125-129`), the purge (`:222`) and a backfill of a date that has a
  backfill run (`:175`, `:196`) raise out of `run_override` and leave the job
  RUNNING. Two jobs of a kind can be in flight (`application/overrides.py:101`,
  against its own `:3-5`).
* A run whose collection raised without a row stays PENDING (`collection_raises`
  shows the step, `CollectRaises` is its effect in `Runs`), and Beat does not ask
  for it again that day (`tasks/scheduled.py:58-79`).
* An open breaker uses up the attempts of a delivery: it can be ABANDONED without
  a single POST (`core/fetch/webhook.py:37-42`, `tasks/alerts.py:85`).
* Documents whose collection died before its ledger row, or was refused it, are
  counted by no row; the rollup counts them against a sample without them.
* A target that is a URL for the schema and not for the HTTP client raises
  `httpx.InvalidURL` out of every sweep (`tasks/alerts.py:84`,
  `schemas/alerts.py:18`).
* A DELIVERED row becomes FAILED when sweeps overlap
  (`repositories/alert_rules.py:70-73` calls DELIVERED terminal).
* Racing takes can cost more than the one token of `core/fetch/throttle.py:90-92`
  when a worker waits long between two commands (seen with a capacity of three
  and a stall of two); `host_budget_capacity` admits values below one
  (`config.py:213`), with which `acquire` never returns. `Fetch` assumes one or more.
* `reassign` says that no automated pass reassigns a manual assignment
  (`application/topics.py:110-111`); a refit that read before does.
* A query generation that began before a review overwrites it
  (`tasks/themes.py:66`), and `accept` looks at no state, so that a rejected
  candidate can be accepted.
* `application/monitors.py:1-7` (registered exactly when active) holds only
  without certain overlapping updates.

Bounds and why they are enough:

* Runs: two callers, two workers, two sources. A race over the lock takes two
  callers, a duplicate dispatch two workers, PARTIAL two sources. One crash, one
  cut call and one expiry under a live dispatch give each kind of loss and their
  combinations; two tokens let a lock be taken over. `MaxDay` is the last day
  whose run is asked for and `LastDay` the last one lived through: `runs_liveness`
  has a day after the run's, so that the end of a day is reached with work in
  flight, one crash and one cut call, and neither edits nor overruns, which the
  properties except.
* Collection: two collections, two queries or pages, three items, a quota and a
  page of two, one failure, one crash. An item can be cut by the quota, by the
  page and by the other query's listing, share its timestamp with its
  predecessor, and either collection can overtake the other.
* Fetch: two workers, four requests, a threshold and a cooldown of two, a bucket
  of two tokens, one retry, one stall, one race, one crash. The breaker trips,
  cools and closes within the four requests, while the other worker is between
  any two commands; the bucket runs empty and refills.
* Overrides: two requests over two dates, one crash: contested and uncontested
  windows, repeated dates.
* Alerts: three deliveries (one mistyped), two sweeps, one overlap, one crash.
  Attempts go past the limit of three by what an overlap and a crash each lose.
* Topics: two documents, two topics (of which any were there before), three
  calls, three days, with dormancy and retention after one. Three transactions
  are what a decision overtaken twice needs, a ring needs two merges, and within
  three days a topic falls silent and a document expires.
* Analytics: two documents, two sources, one topic, two days, a timezone half a
  day from UTC, no overlap of the daily windows, two corrections. A bucket has
  every kind of row, two computations of it differ by source, by document and by
  sample, and a cooldown of two spans both days. One document may be lost to the
  ledger (`MaxLost`), beside one that is counted. Documents fall into days of the
  history, and a run with no enabled source, which is never opened, is left out.
* Themes: two clients, three requests, two jobs, one crash, two queries, one
  entity; edits of the status, the cron and the timezone, which is every field
  that the registration depends on.

`CHECK_DEADLOCK FALSE` everywhere: the counters of the environment run out and
the day's work is done, so the models stop where the system would wait for the
next day or the next request.

## 4. Fairness

* `Runs`: weak fairness of each caller's steps (a request in flight goes on), of
  the dispatch steps (a task runs on) and of `LockExpire` (Redis's TTL), strong
  fairness of `Serve(d)`: the broker's list is taken from its end, so that a
  message is not kept waiting by later ones. Nobody has to call `start`: Beat's
  cron asks once a day and `run_monitor` has no retry. `RecoversWhenAsked` and
  `EveryRunIsFinalised` have it as a hypothesis (`AskedAgain`) that somebody keeps
  asking. Crashes, edits, exceptions and the end of the day are never forced.
* `Overrides`: a request past the check goes on and so does its job; nobody is
  forced to submit.
* `Alerts`: Beat starts a sweep every 900 s (`beat.py:32-36`), and sends have
  timeouts, so sweeps go on.
* `Fetch`: time passes, and a call that began takes its next step (every await of
  it has a timeout). Nobody is forced to fetch.
* `Themes`: Beat ticks, a client's request in hand goes on, a job that a worker
  has or may take goes on.

`Topics`, `Analytics` and `Collection` state safety only.

Liveness properties name what the code has no remedy for: a collection that raised
(`PendingBecomesFinal`), a ledger row orphaned by a crash (`RecoversWhenAsked`), a
crashed job, one that shares a date with another or that raised outside a try
(`JobsEnd` of `Overrides`), a target that does not parse
(`DeliveriesEnd`), any crash once a theme job has been submitted (`JobsEnd` of
`Themes`: nothing takes up its row again), updates that could not see each other
(`BeatCatchesUp`).

## 5. Proofs

Every invariant, action property and refinement that a passing run checks is also
a theorem, listed in `PROJECT.json`. A theorem holds for every value of the
constants that its module's assumption admits: every number of callers, workers,
collections, documents, topics, days, failures and crashes. An invariant that TLC
checks is mostly not inductive; what each proof adds to it is the point of it.
Where that was much, TLC checked the inductive invariant on the run's instance
before it was proved. Check a proof with `tlapm RunsProofs.tla`.

### Runs

For every set of sources, callers, workers and tokens, from `TokenAssumption` (a
free lock is no token) and `BoundsAssumption` (the bounds are naturals,
`MaxDay` at most `LastDay`).

* `TypeCorrect`: `TypeOK` is inductive.
* `Refinement`: `Runs` implements `RunLedger`. Two invariants are needed:
  `RunExists` (nobody works on a run without a row) and `OutcomesRecorded` (a
  job's outcomes are rows of the ledger or skips; it is inductive because rows
  never change). `StartInsert` maps to `Open`, `Collect` to `Record`, `Finalise`
  to `Conclude`, everything else to a stutter.
* `Exclusion`: the invariant `LeaseIsLock` says that each live dispatch's lease is
  in the lock, and `LeasesDiffer` that no two have the same. Both are needed
  together: a release by token is harmless only because the token read back is the
  releaser's own as long as no expiry hit a live dispatch.
* `VerdictCorrect` and `VerdictStable`: `SourcesCovered` (a dispatch has every
  enabled source either still to do or in its outcomes; a job that raised is gone)
  makes what `finalise` classifies equal to the ledger; `VerdictSettled` adds that
  a final run has a row for every enabled source, so that a second dispatch cannot
  reach `finalise` with anything else.
* `PostStagesOnce`: no row of the ledger is the outcome of two dispatches
  (`RowsOwned`, the unique key's doing). A dispatch that concluded has the row of
  every enabled source, of which there is one, so that no other dispatch of the
  day concludes (`ConcludedAlone`). `StagesInOrder` says what it has still before
  it.

### Collection

For every set of source kinds, every finite set of collections, any numbers of
queries, pages and items, any quota and page (`CollectionAssumption`; and
`NoStatsAssumption`: no row is a row). All theorems rest on `TypeInv`: timestamps
follow the order of publication (`FeedOrdered`), the cache is of the past
(`CachePast`), and a collection holds what was shown, its new cursor among it
(`Coherent`). `FetchIsWalk` reduces one request of any kind of source to one walk.

* `TypeCorrect`: the saved watermark is a document, and the whole fan-out stays
  under the one quota.
* `CountsAreMeasured`: `Walked` says of every collection, also before its row,
  that what it did not take was known, ranked behind a known item, or beyond its
  allowance; `Reported` that its row says so and its items are documents.
* `LossesAreExplained`: `Accounted` claims the property not only of the saved
  cursor but of every watermark that a collection in flight has read, since any of
  them may be written back to the cursor, and says who moved each of them.
* `CountedOnce`: `kept` is a difference of sets at the moment of its transaction,
  so a step adds to both sides the same. What `SumFunctionOnSet` does when one
  value changes is proved by a minimal counterexample: the induction theorems of
  the library take an operator, which the provers cannot instantiate, but
  `WFMin` for the proper subsets of a finite set they can (lemma `MinimalSet`).
* `RowsAreWritten`: a source of a kind outside `Naive` gets its row unless its
  worker dies. The hypothesis is the border of the violation that
  `collection_raises` shows.

### Fetch

For every finite set of workers and every number of retries, requests, stalls,
races and crashes, with a threshold, a cooldown and a capacity of at least one
(`FetchAssumption`).

* `TypeCorrect` needs `AttemptLeft`: a call that sends has a try left, which
  bounds its counter.
* `BreakerIsSound`: `CountIsStreak` says that Redis's count is at most the
  failures since the host last answered, and that a worker on its way to the SET
  has counted up to the threshold; `slipped` is the exception of both.
* `HostStaysPaced`: `Paced` splits by who is in the middle of a take. With nobody
  or one worker there, the bucket never holds more than `ideal` and the races so
  far account for (`Quiet`, `Alone`, the latter with one case for each command of
  a take). Once takes overlap, a race has paid for a full bucket (`Full`), except
  when they overlap on an empty bucket or on its last token: there `ideal` is one
  or two short already, and so little is left that the takes cannot add to it
  (`Empty`, `LastToken`).

### Overrides and Alerts

For every set of requests, every number of days and of crashes
(`OverridesAssumption`: at least one day, and `NoOne` is no request); for every set
of deliveries, mistyped targets and sweeps and every bound (`AlertsAssumption`;
`MaxTries` is at least the limit of three, or the bound itself would keep a
delivery from being abandoned).

* `OverridesProofs!TypeCorrect`: `TypeOK` needs `ProcFacts` beside it, since what
  a step writes has its type only if the request is where its branch belongs.
* `BackfillCoversWindow`: the invariant `DatesOwned` says that a job in the
  window's loop owns the dates behind it, and after the loop the whole window; it
  survives the other requests because an owned date never changes hands (lemma
  `Frame`), which is the unique key's doing.
* `AlertsProofs!TypeCorrect` needs `SweepRows`: the rows a sweep has yet to try
  are due and have an attempt left, although the table may have moved on.
* `OutcomesEarned`: ABANDONED takes three attempts, each a POST or a refusal by the
  open breaker; that it takes three POSTs is not true of the code. The property
  speaks of the table, but a commit overwrites the table with a session's copies,
  so `RowsEarned` claims the same of every copy.
* `TerminalStays`: `SweepAlone` says that without an overlap at most one sweep
  runs and what it read is still due in the table.
* `TriesLimited`: the count of the table may fall, when a sweep that read early
  commits late. `StartedAt` therefore dates the sweeps that hold a delivery back to
  the count `b` from which the first of them began: none of them writes back less
  than `b + 1`, and each after the first has cost an overlap.

### Topics

For every finite set of documents, every set of topics and calls, any thresholds
and any number of days (`TopicsAssumption`). All use the invariant `Inv`: what a
call has read (`Reads`) is still so when it commits, or a commit that it did not
see has put the topic in `raced`. The lemma `OthersRead` shows it for the calls
that stand still, from three facts about any step (`TopicSteps`, `RowSteps`,
`CallSteps`); the acting call has one lemma per action.

* `MergedTopicsStayEmpty` is a conjunct of `Inv`: a refit takes its targets from
  the assignments there are, so that the property is needed for itself.
* `MergesLeadOn`: the lemma `MergeTargets` says that a topic that becomes merged in
  a step leads to one that is not, or is raced. A ring after the step therefore was
  one before it.
* `UsersDecide`: a refit whose row is still there has read a row that was not
  manual (`RefitReads`); rows are told apart by the call that inserted them, which
  is settled and inserts no other.
* `DocumentsCountOnce`: `CountInv` adds that a document that was given to a topic
  keeps a row until it is deleted (`GivenAway`), so that a pass gives away other
  documents than those counted, and that the count a pass has read is not above
  what its topic had been given (`ReadCountsAreGiven`).
* `RegistryIsTyped`: the bound on a topic's count is `CountInv`'s; the foreign keys
  need `Keyed`, that a call's targets have their rows or get them in the same
  transaction.

### Analytics

For every finite set of documents, sources and topics, any number of days and of
corrections and any thresholds of the gates (`AnalyticsAssumption`), with any
overlap of the daily windows. The inductive invariant `Inv` has four parts:

* `TypeInv`: types and unique keys (`TypeCorrect`).
* `Agreed` (`RowsAreOfOneComputation`): the rows of every bucket and of every job
  that is about to write agree. The lemma `RowsOfFacts` shows it of one grouping,
  whatever documents it loads; a write replaces a bucket whole, because what the
  upsert does not overwrite the prune takes.
* `Sampled` (`SharesAreOfTheirSample`): `LedgerTrue` says that a ledger row of a run
  and a source is the number of the documents it counts, no matter how many more
  collections the run had. A row never changes, so a sample stays the sum of rows
  that are still there, and what is counted later is among their documents or is
  not `measured`. Again a minimal counterexample gives the sum. What no row counts
  is in no sample and not `measured` either: that a bucket's count is below its
  sample without this restriction is false of the code.
* `Cooled` (`EventsKeepTheirDistance`): a day with events lies behind its
  detection, and the events a job is about to write are a cooldown away from those
  written, but for late days: between its read and its write other days' events may
  be written.

### Monitors and Themes

For every set of clients, schedules, edits, queries and entities and every number
of requests, jobs and crashes (`MonitorsAssumption`: `None` is no value of a
column). The first four rest on `TypeInvariant`, a type without the bounds that
keep TLC's instance finite.

* `RejectionStays` needs the types only.
* `OnlyReviewedQueries`: `QueriesReviewed` claims of the seed what the property
  claims of a job, since a job reads the seed.
* `AcceptanceHolds`: `Attached` adds that an acceptance that has still to mark its
  candidate has attached its source.
* `ScheduleFollows`: `ScheduleInv` adds that whatever an update has loaded is of
  one moment in which the registration followed the monitor (`LoadedTogether`); a
  write based on it keeps both together unless it is raced.
* `TypeCorrect`: the bounds. `Bounded` counts the registrations inserted so far and
  the updates under way against the calls made, `Recorded` says which jobs are far
  enough to have their outcome.

## 6. Only model-checked

* The liveness properties `PendingBecomesFinal`, `RecoversWhenAsked`, `CallsEnd`, `JobsEnd` (of
  `Overrides` and of `Themes`), `DeliveriesEnd` and `BeatCatchesUp`: fairness is
  stated with ENABLED, for which the prover has no rules.
* The three violations. What TLC shows there is that a property fails; for
  `collection_raises` section 5 has the theorem about the kinds for which it holds.

## 7. Plan

1. Steps towards the liveness properties that need no fairness: that a state that
   must be left can only be left in the right direction.
2. A composition of `Collection` with the dispatch of `Runs`, so that the
   watermark and the verdict are seen together.
3. The purge token of `Overrides`, with a retention that counts again.
4. Source health, if its history gets an order to state a property of.

## 8. Not modelled

* Source health (`tasks/maintenance.py`, `application/health.py`): a median over
  one source's ledger rows, written by one task per run; `Runs` has the stage as
  one step. Its history has no order (`tasks/maintenance.py:40`), so which rows
  count is any choice.
* Evaluation and labels: offline, sequential, real-valued.
* The API's validation, schemas and read views: no state of their own. The routes
  that change state are the clients' actions in the modules of what they call.
* Migrations, sessions, settings: tables and constraints appear as variables and
  guards of the modules that use them.
* Model inference, clustering, the detectors, prompts, the LLM router and its
  cache: any outcome that the code around them admits.
* Enrichment beyond whether a document is relevant; sentiment, ratings, shares.
* Of topics: renaming, split proposals, labels, centroids. Of trends: the gate
  rows. Of themes: `build_theme_relevance_context`. Of overrides: the purge token,
  and `recompute_affected`, which nothing in `src/` calls.
* Redis errors of breaker and throttle, which end the call by raising.
* `tasks/dispatch.py:46`: that the stages after `finalise` run to the end. The code
  has no step that would take them up again, so there is nothing to state.
