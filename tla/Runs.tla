-------------------------------- MODULE Runs --------------------------------
(***************************************************************************)
(* The run lifecycle of one monitor: RunService.start as called by Beat's  *)
(* run_monitor task and by the API, the Redis run lock, the Celery queue,  *)
(* and the workers that execute dispatch_run, from the first source to the *)
(* last stage after finalisation                                           *)
(* (mlsc/application/runs.py, core/locks.py, tasks/dispatch.py,            *)
(* tasks/scheduled.py).                                                    *)
(*                                                                         *)
(* Each action is one step between two awaits that reach Postgres, Redis   *)
(* or the broker; everything may interleave between actions.               *)
(***************************************************************************)
EXTENDS Naturals, Sequences, RunVerdict

CONSTANTS
  Sources,      \* the monitor's configured sources
  Callers,      \* concurrent callers of RunService.start
  Workers,      \* Celery worker processes
  MaxDay,       \* bound: the days whose run is asked for
  LastDay,      \* bound: the days the model lives through
  Tokens,       \* the uuid4 values a lock acquisition draws from
  NoToken,      \* a free lock
  MaxToggles,   \* bound: edits of the monitor or of a source
  MaxCrashes,   \* bound: dispatches that die with their worker
  MaxAborts,    \* bound: calls of start cut short
  MaxOverruns   \* bound: lock expiries while the dispatch is still alive

ASSUME TokenAssumption == NoToken \notin Tokens

ASSUME BoundsAssumption ==
  /\ MaxDay \in Nat \ {0}
  /\ LastDay \in Nat /\ LastDay >= MaxDay
  /\ MaxToggles \in Nat
  /\ MaxCrashes \in Nat
  /\ MaxAborts \in Nat
  /\ MaxOverruns \in Nat

VARIABLES
  today,     \* date.today(), the same for every process
  active,    \* Monitor.status is ACTIVE
  enabled,   \* the sources with MonitorSource.enabled
  run,       \* IngestionRun.status by run_date ("none": no row)
  ledger,    \* FetchStats by run and source
  done,      \* done[d][k]: times post-stage k ran for run d
  lock,      \* the Redis lock of a run: the token held or NoToken
  queue,     \* dispatch_run messages; any worker takes any of them
  call,      \* state of each caller of start
  job,       \* state of each worker
  budget     \* what has been spent of the bounds above, and what raised

vars == <<today, active, enabled, run, ledger, done, lock, queue, call,
          job, budget>>
store == <<run, ledger, done>>
env == <<today, active, enabled, budget>>

Days == 1 .. MaxDay
LockValues == Tokens \cup {NoToken}

\* What dispatch_run does after finalise, in order; each is its own set of
\* transactions and any of them can raise.
PostStages == <<"health", "enrich", "rollup", "detect", "score", "alerts",
                "insights">>

\* A caller between two steps of start.
IdleCall == [pc |-> "idle", day |-> 1, lease |-> NoToken]
CallStates == [pc : {"idle", "insert", "acquire", "enqueue"}, day : Days,
               lease : LockValues]

\* A worker.  todo/out: sources still to collect and outcomes so far; seen:
\* the token finalise read back from the lock; stage: index in PostStages.
\* lease is auxiliary: the token under which the dispatch was enqueued, which
\* the code drops when start returns.
IdleJob == [pc |-> "idle", day |-> 1, lease |-> NoToken, todo |-> {},
            out |-> [s \in Sources |-> NoRow], seen |-> NoToken, stage |-> 0]
JobStates == [pc : {"idle", "collect", "token", "release", "after"},
              day : Days, lease : LockValues, todo : SUBSET Sources,
              out : [Sources -> Outcomes], seen : LockValues,
              stage : 0 .. Len(PostStages) - 1]

\* raised is auxiliary: the days a collection of which raised.
Budgets == [toggles : Nat, crashes : Nat, aborts : Nat, overruns : Nat,
            raised : SUBSET Days]

TypeOK ==
  /\ today \in 1 .. LastDay
  /\ active \in BOOLEAN
  /\ enabled \in SUBSET Sources
  /\ run \in [Days -> RunStatuses]
  /\ ledger \in [Days -> [Sources -> LedgerRows \cup {NoRow}]]
  /\ done \in [Days -> [1 .. Len(PostStages) -> Nat]]
  /\ lock \in [Days -> LockValues]
  /\ queue \in SUBSET [day : Days, lease : LockValues]
  /\ call \in [Callers -> CallStates]
  /\ job \in [Workers -> JobStates]
  /\ budget \in Budgets

Init ==
  /\ today = 1
  /\ active = TRUE
  /\ enabled \in SUBSET Sources
  /\ run = [d \in Days |-> "none"]
  /\ ledger = [d \in Days |-> [s \in Sources |-> NoRow]]
  /\ done = [d \in Days |-> [k \in 1 .. Len(PostStages) |-> 0]]
  /\ lock = [d \in Days |-> NoToken]
  /\ queue = {}
  /\ call = [c \in Callers |-> IdleCall]
  /\ job = [w \in Workers |-> IdleJob]
  /\ budget = [toggles |-> 0, crashes |-> 0, aborts |-> 0, overruns |-> 0,
                raised |-> {}]

-----------------------------------------------------------------------------
(* RunService.start *)

\* Mutant: a start that only ever opens a run, and leaves a pending one be.
StartReadOnce(c) ==
  /\ call[c].pc = "idle"
  /\ today \in Days
  /\ active
  /\ enabled # {}
  /\ run[today] = "none"
  /\ call' = [call EXCEPT ![c] = [pc |-> "insert", day |-> today, lease |-> NoToken]]
  /\ UNCHANGED <<store, lock, queue, job, env>>

\* The session's reads: the monitor must be ACTIVE and have an enabled
\* source (else MonitorNotRunnable, NoSourcesConfigured), and a run that is
\* already final is returned as it is.  None of those changes state.
StartRead(c) ==
  /\ call[c].pc = "idle"
  /\ today \in Days
  /\ active
  /\ enabled # {}
  /\ run[today] \notin FinalStatuses
  /\ call' = [call EXCEPT ![c] =
       [pc |-> IF run[today] = "none" THEN "insert" ELSE "acquire",
        day |-> today, lease |-> NoToken]]
  /\ UNCHANGED <<store, lock, queue, job, env>>

\* The insert of a PENDING run.  uq_ingestion_runs_identity lets one caller
\* win; the other's commit raises and the call ends.
StartInsert(c) ==
  LET d == call[c].day IN
  /\ call[c].pc = "insert"
  /\ \/ /\ run[d] = "none"
        /\ run' = [run EXCEPT ![d] = "pending"]
        /\ call' = [call EXCEPT ![c] = [@ EXCEPT !.pc = "acquire"]]
     \/ /\ run[d] # "none"
        /\ call' = [call EXCEPT ![c] = IdleCall]
        /\ UNCHANGED run
  /\ UNCHANGED <<ledger, done, lock, queue, job, env>>

\* A token that is nowhere in use; uuid4 never repeats one at all.
Fresh(t) ==
  /\ t \in Tokens
  /\ \A d \in Days : lock[d] # t
  /\ \A c \in Callers : call[c].lease # t
  /\ \A m \in queue : m.lease # t
  /\ \A w \in Workers : t \notin {job[w].lease, job[w].seen}

\* Mutant: SET without NX.
StartAcquireUnchecked(c) ==
  /\ call[c].pc = "acquire"
  /\ \E t \in Tokens :
       /\ Fresh(t)
       /\ lock' = [lock EXCEPT ![call[c].day] = t]
       /\ call' = [call EXCEPT ![c] = [@ EXCEPT !.pc = "enqueue", !.lease = t]]
  /\ UNCHANGED <<store, queue, job, env>>

\* SET NX EX; a held lock is RunAlreadyActive.  The run is not read again.
StartAcquire(c) ==
  LET d == call[c].day IN
  /\ call[c].pc = "acquire"
  /\ \/ /\ lock[d] = NoToken
        /\ \E t \in Tokens :
             /\ Fresh(t)
             /\ lock' = [lock EXCEPT ![d] = t]
             /\ call' = [call EXCEPT ![c] =
                           [@ EXCEPT !.pc = "enqueue", !.lease = t]]
     \/ /\ lock[d] # NoToken
        /\ call' = [call EXCEPT ![c] = IdleCall]
        /\ UNCHANGED lock
  /\ UNCHANGED <<store, queue, job, env>>

\* dispatch_run.send_task, after which start returns the run id.
StartEnqueue(c) ==
  /\ call[c].pc = "enqueue"
  /\ queue' = queue \cup {[day |-> call[c].day, lease |-> call[c].lease]}
  /\ call' = [call EXCEPT ![c] = IdleCall]
  /\ UNCHANGED <<store, lock, job, env>>

-----------------------------------------------------------------------------
(* dispatch_run, in a worker *)

\* The worker acknowledges the message as it takes it (Celery's default) and
\* reads the enabled sources, in no particular order.
Take(w) ==
  /\ job[w].pc = "idle"
  /\ \E m \in queue :
       /\ queue' = queue \ {m}
       /\ job' = [job EXCEPT ![w] =
            [IdleJob EXCEPT !.pc = "collect", !.day = m.day,
                            !.lease = m.lease, !.todo = enabled]]
  /\ UNCHANGED <<store, lock, call, env>>

\* The job after source s contributed outcome o to it.
Collected(j, s, o) ==
  [j EXCEPT !.todo = @ \ {s}, !.out = [@ EXCEPT ![s] = o]]

\* Mutant: a skipped source gets a ledger row like the others.
CollectLogsSkips(w, s) ==
  /\ job[w].pc = "collect"
  /\ s \in job[w].todo
  /\ ledger[job[w].day][s] = NoRow
  /\ \E row \in IF s \in enabled THEN LedgerRows ELSE {Skipped} :
       /\ ledger' = [ledger EXCEPT ![job[w].day][s] = row]
       /\ job' = [job EXCEPT ![w] = Collected(@, s, row)]
  /\ UNCHANGED <<run, done, lock, queue, call, env>>

\* Mutant: the ledger row is inserted ON CONFLICT DO NOTHING.
CollectKeepsOldRow(w, s) ==
  /\ job[w].pc = "collect"
  /\ s \in job[w].todo \cap enabled
  /\ \E row \in LedgerRows :
       /\ ledger' = [ledger EXCEPT ![job[w].day][s] = IF @ = NoRow THEN row ELSE @]
       /\ job' = [job EXCEPT ![w] = Collected(@, s, row)]
  /\ UNCHANGED <<run, done, lock, queue, call, env>>

\* Mutant: the ledger row is inserted ON CONFLICT DO UPDATE.
CollectReplacesRow(w, s) ==
  /\ job[w].pc = "collect"
  /\ s \in job[w].todo \cap enabled
  /\ \E row \in LedgerRows :
       /\ ledger' = [ledger EXCEPT ![job[w].day][s] = row]
       /\ job' = [job EXCEPT ![w] = Collected(@, s, row)]
  /\ UNCHANGED <<run, done, lock, queue, call, env>>

\* collect_one_source.  A source switched off since is skipped without a
\* row.  Otherwise the outcome is written to the ledger, whose unique key on
\* (run, source) makes a second row for the same source raise out of the
\* whole dispatch, which catches only SourceDisabled.
Collect(w, s) ==
  LET d == job[w].day IN
  /\ job[w].pc = "collect"
  /\ s \in job[w].todo
  /\ \/ /\ s \notin enabled
        /\ job' = [job EXCEPT ![w] = Collected(@, s, Skipped)]
        /\ UNCHANGED ledger
     \/ /\ s \in enabled
        /\ ledger[d][s] = NoRow
        /\ \E row \in LedgerRows :
             /\ ledger' = [ledger EXCEPT ![d][s] = row]
             /\ job' = [job EXCEPT ![w] = Collected(@, s, row)]
     \/ /\ s \in enabled
        /\ ledger[d][s] # NoRow
        /\ job' = [job EXCEPT ![w] = IdleJob]
        /\ UNCHANGED ledger
  /\ UNCHANGED <<run, done, lock, queue, call, env>>

\* collect_source raises before it wrote a row: a timestamp without a timezone
\* against the saved watermark, or anything else that is not an adapter's
\* error.  Nothing in collect_one_source or dispatch_run catches it, so the
\* dispatch ends like one that died.
CollectRaises(w, s) ==
  /\ job[w].pc = "collect"
  /\ s \in job[w].todo \cap enabled
  /\ job' = [job EXCEPT ![w] = IdleJob]
  /\ budget' = [budget EXCEPT !.raised = @ \cup {job[w].day}]
  /\ UNCHANGED <<store, lock, queue, call, today, active, enabled>>

\* Mutant: finalisation is conditional on success, the reading the docstring
\* of finalise rules out.
FinaliseSucceeded(w) ==
  /\ job[w].pc = "collect"
  /\ job[w].todo = {}
  /\ Verdict(job[w].out) # "failed"
  /\ run' = [run EXCEPT ![job[w].day] = Verdict(job[w].out)]
  /\ job' = [job EXCEPT ![w] = [@ EXCEPT !.pc = "token"]]
  /\ UNCHANGED <<ledger, done, lock, queue, call, env>>

\* finalise's transaction: status, stage_status and finished_at, whatever
\* the run's status was.
Finalise(w) ==
  /\ job[w].pc = "collect"
  /\ job[w].todo = {}
  /\ run' = [run EXCEPT ![job[w].day] = Verdict(job[w].out)]
  /\ job' = [job EXCEPT ![w] = [@ EXCEPT !.pc = "token"]]
  /\ UNCHANGED <<ledger, done, lock, queue, call, env>>

\* The worker is done with the lock and goes on to what follows the run.
Finished(j) ==
  [j EXCEPT !.pc = "after", !.lease = NoToken, !.seen = NoToken]

\* finalise then asks the lock for its current token ...
ReadToken(w) ==
  LET held == lock[job[w].day] IN
  /\ job[w].pc = "token"
  /\ job' = [job EXCEPT ![w] = IF held = NoToken THEN Finished(@)
                               ELSE [@ EXCEPT !.pc = "release", !.seen = held]]
  /\ UNCHANGED <<store, lock, queue, call, env>>

\* ... and releases with the token it was just told.  LockLost is ignored.
Release(w) ==
  LET d == job[w].day IN
  /\ job[w].pc = "release"
  /\ lock' = [lock EXCEPT ![d] = IF @ = job[w].seen THEN NoToken ELSE @]
  /\ job' = [job EXCEPT ![w] = Finished(@)]
  /\ UNCHANGED <<store, queue, call, env>>

\* evaluate_source_health, then the downstream pipeline unless the verdict
\* just given is FAILED; without a configured LLM the insights are left out.
\* A stage that raises ends the task, as a crash does: WorkerCrash stands for
\* both.
AfterRun(w) ==
  LET k == job[w].stage + 1
      last == IF Verdict(job[w].out) = "failed" THEN {1}
              ELSE {Len(PostStages) - 1, Len(PostStages)}
  IN
  /\ job[w].pc = "after"
  /\ done' = [done EXCEPT ![job[w].day][k] = @ + 1]
  /\ \E n \in last :
       job' = [job EXCEPT ![w] = IF k >= n THEN IdleJob ELSE [@ EXCEPT !.stage = k]]
  /\ UNCHANGED <<run, ledger, lock, queue, call, env>>

-----------------------------------------------------------------------------
(* What happens around them *)

\* The leases of the dispatches of day d that are still to finish: being
\* enqueued, queued, or in a worker that has not released yet.
Live(d) ==
  {call[c].lease : c \in {k \in Callers : call[k].pc = "enqueue" /\ call[k].day = d}}
  \cup {m.lease : m \in {k \in queue : k.day = d}}
  \cup {job[w].lease : w \in {k \in Workers :
          job[k].pc \in {"collect", "token", "release"} /\ job[k].day = d}}

\* The 900 s TTL.  An expiry under a live dispatch is counted: it means that
\* collection outlasted the TTL.
LockExpire(d) ==
  /\ lock[d] # NoToken
  /\ lock' = [lock EXCEPT ![d] = NoToken]
  /\ \/ /\ lock[d] \notin Live(d)
        /\ UNCHANGED budget
     \/ /\ lock[d] \in Live(d)
        /\ budget.overruns < MaxOverruns
        /\ budget' = [budget EXCEPT !.overruns = @ + 1]
  /\ UNCHANGED <<store, queue, call, job, today, active, enabled>>

CallerCrash(c) ==
  /\ call[c].pc # "idle"
  /\ call' = [call EXCEPT ![c] = IdleCall]
  /\ budget.aborts < MaxAborts
  /\ budget' = [budget EXCEPT !.aborts = @ + 1]
  /\ UNCHANGED <<store, lock, queue, job, today, active, enabled>>

\* The message is already acknowledged, so the job is gone.
WorkerCrash(w) ==
  /\ job[w].pc # "idle"
  /\ job' = [job EXCEPT ![w] = IdleJob]
  /\ budget.crashes < MaxCrashes
  /\ budget' = [budget EXCEPT !.crashes = @ + 1]
  /\ UNCHANGED <<store, lock, queue, call, today, active, enabled>>

\* Edits through the API while runs are in flight.
Edit ==
  /\ budget.toggles < MaxToggles
  /\ budget' = [budget EXCEPT !.toggles = @ + 1]
  /\ UNCHANGED <<store, lock, queue, call, job, today>>

ToggleSource(s) ==
  /\ enabled' = IF s \in enabled THEN enabled \ {s} ELSE enabled \cup {s}
  /\ Edit
  /\ UNCHANGED active

ToggleMonitor ==
  /\ active' = ~active
  /\ Edit
  /\ UNCHANGED enabled

NextDay ==
  /\ today < LastDay
  /\ today' = today + 1
  /\ UNCHANGED <<active, enabled, store, lock, queue, call, job, budget>>

-----------------------------------------------------------------------------
StartStep(c) == StartInsert(c) \/ StartAcquire(c) \/ StartEnqueue(c)

DispatchStep(w) ==
  \/ \E s \in Sources : Collect(w, s) \/ CollectRaises(w, s)
  \/ Finalise(w)
  \/ ReadToken(w)
  \/ Release(w)
  \/ AfterRun(w)

Next ==
  \/ \E c \in Callers : StartRead(c) \/ StartStep(c) \/ CallerCrash(c)
  \/ \E w \in Workers : Take(w) \/ DispatchStep(w) \/ WorkerCrash(w)
  \/ \E d \in Days : LockExpire(d)
  \/ \E s \in Sources : ToggleSource(s)
  \/ ToggleMonitor
  \/ NextDay

Spec == Init /\ [][Next]_vars

\* Some worker takes a message of day d.
Serve(d) == \E w \in Workers : Take(w) /\ \E m \in queue \ queue' : m.day = d

\* A call that began goes on unless it is cut short, a task that started keeps
\* running unless its worker dies, Celery's queue is a list taken from its end,
\* so later messages do not keep an earlier one waiting for ever, and Redis
\* expires keys.  Nobody has to call start: the cron asks for a day once and
\* run_monitor has no retry.
Fairness ==
  /\ \A c \in Callers : WF_vars(StartStep(c))
  /\ \A w \in Workers : WF_vars(DispatchStep(w))
  /\ \A d \in Days : SF_vars(Serve(d))
  /\ \A d \in Days : WF_vars(LockExpire(d))

FairSpec == Spec /\ Fairness

-----------------------------------------------------------------------------
(* Properties *)

\* Every dispatch that is still to finish holds the lock of its run, so no
\* two collect for one run at once, unless collection outlasted the 900 s
\* TTL: neither a crash, a stale start nor a finalise that releases whatever
\* token it finds can break this.
ExclusiveDispatch ==
  budget.overruns = 0 => \A d \in Days : Live(d) \subseteq {lock[d]}

\* As long as the monitor's sources are not edited, a final status is the
\* classification of the ledger rows that the run page shows next to it,
\* whatever overlapped, expired, crashed or was started twice.
VerdictMatchesLedger ==
  budget.toggles = 0 =>
    \A d \in Days : run[d] \in FinalStatuses => run[d] = Verdict(ledger[d])

\* ... and no later dispatch of the same run revises it: finalise overwrites
\* unconditionally, and only the ledger's unique key keeps a second dispatch
\* from getting there.
FinalIsFinal ==
  [][budget.toggles = 0 =>
       \A d \in Days : run[d] \in FinalStatuses => run'[d] = run[d]]_vars

\* ... so no stage after finalisation runs twice for a day: evaluate_alerts
\* inserts deliveries without a uniqueness check and would notify again.
PostRunOnce ==
  budget.toggles = 0 =>
    \A d \in Days : \A k \in 1 .. Len(PostStages) : done[d][k] <= 1

\* Ledger rows are only ever added, and every verdict given is that of rows
\* in the ledger and skipped sources, also across edits of the sources.
Ledger == INSTANCE RunLedger WITH Sources <- Sources, MaxDay <- MaxDay, run <- run, ledger <- ledger
ImplementsLedger == Ledger!Spec

\* A ledger row whose dispatch died before it could finalise: no worker has
\* the row among its outcomes, and the next dispatch dies on its unique key.
Orphaned(d) ==
  \E s \in Sources :
    /\ ledger[d][s] # NoRow
    /\ \A w \in Workers : job[w].pc = "collect" /\ job[w].day = d
                            => job[w].out[s] # ledger[d][s]

\* A run that was opened gets its verdict by itself, whoever else asks for it
\* meanwhile and however its sources are edited: one dispatch of it reaches
\* finalise, unless a collection raised or something died, was cut short or
\* outlasted the lock.
PendingBecomesFinal ==
  \A d \in Days :
    (run[d] = "pending") ~>
      \/ run[d] \in FinalStatuses
      \/ d \in budget.raised
      \/ budget.crashes + budget.aborts + budget.overruns > 0

\* Somebody keeps asking for the day's run: the operator, through the API.
AskedAgain == \A c \in Callers : WF_vars(StartRead(c))

\* If the run is asked for again, lost calls, stuck locks and crashed workers
\* delay the verdict and do not prevent it as long as the day lasts, unless a
\* dispatch died after it wrote a row, a collection raised or the monitor was
\* edited.
RecoversWhenAsked ==
  AskedAgain =>
    \A d \in Days :
      (run[d] = "pending") ~>
        \/ run[d] \in FinalStatuses
        \/ Orphaned(d)
        \/ d \in budget.raised
        \/ today # d
        \/ budget.toggles > 0

\* What finalise's docstring promises: "finalisation is not conditional on
\* success, because a run without a final status is worse than a failed one"
\* (application/runs.py:146-148).  A crash after the first ledger row, or two
\* overlapping dispatches, leave a run that no later dispatch can finalise,
\* though no collection raised and the run is asked for again.
EveryRunIsFinalised ==
  AskedAgain =>
    \A d \in Days :
      (run[d] = "pending") ~>
        \/ run[d] \in FinalStatuses
        \/ d \in budget.raised
        \/ today # d
        \/ budget.toggles > 0
=============================================================================
