----------------------------- MODULE Overrides ------------------------------
(***************************************************************************)
(* Operator-initiated repairs of one monitor: OverrideService.submit as    *)
(* called by the API (mlsc/application/overrides.py), the Celery task      *)
(* run_override (tasks/overrides.py) and the backfill it drives            *)
(* (application/backfill.py).                                              *)
(*                                                                         *)
(* A request is followed from the API through the queue to the worker that *)
(* runs its job; every step between two transactions may interleave with   *)
(* those of the other requests.                                            *)
(***************************************************************************)
EXTENDS Naturals

CONSTANTS
  Requests,    \* calls of submit, and the jobs they insert
  MaxDay,      \* bound: the dates a window can cover are 1..MaxDay
  MaxCrashes,  \* bound: requests or jobs that die with their process
  NoOne        \* a date without a backfill run

ASSUME OverridesAssumption ==
  /\ MaxDay \in Nat \ {0}
  /\ MaxCrashes \in Nat
  /\ NoOne \notin Requests

VARIABLES
  job,       \* OverrideJob by request; status "none": no row
  backfill,  \* BackfillJob.status by the override job that submitted it
  owner,     \* owner[d]: the job whose backfill inserted the
             \* IngestionRun(is_backfill) of date d
  proc,      \* where the request, and then its worker, is
  crashes    \* spent of MaxCrashes

vars == <<job, backfill, owner, proc, crashes>>

Days == 1 .. MaxDay
Kinds == {"stage_rerun", "backfill_window", "retention_purge"}
InFlight == {"pending", "running"}
Ended == {"complete", "partial", "failed"}

\* What collect_one_source came to over the sources of one date.
DateResults == {"collected", "failed"}

Jobs == [status : {"none"} \cup InFlight \cup Ended, kind : Kinds, lo : Days, hi : Days]
NoJob == [status |-> "none", kind |-> "stage_rerun", lo |-> 1, hi |-> 1]

\* The parts of a stage rerun and of a purge that can raise.  Only enrichment
\* and the recompute have a try around them.
Faults == {"context", "enrich", "dates", "rollup", "purge"}
Caught == {"enrich", "rollup"}

\* date: the next date of the window; results: the outcomes so far; verdict:
\* what the branch returned to run_override; fault: the part that raised.
Procs == [pc : {"idle", "insert", "dispatch", "queued", "work", "open", "start",
                "date", "collect", "finish", "done", "dead"},
          date : 1 .. MaxDay + 1, results : SUBSET DateResults,
          verdict : {"none"} \cup Ended, fault : {"none"} \cup Faults]
Idle == [pc |-> "idle", date |-> 1, results |-> {}, verdict |-> "none",
         fault |-> "none"]

Window(r) == job[r].lo .. job[r].hi

TypeOK ==
  /\ job \in [Requests -> Jobs]
  /\ backfill \in [Requests -> {"none", "pending", "running", "complete", "failed"}]
  /\ owner \in [Days -> Requests \cup {NoOne}]
  /\ proc \in [Requests -> Procs]
  /\ crashes \in 0 .. MaxCrashes
  \* only a backfill override has a BackfillJob
  /\ \A r \in Requests : backfill[r] # "none" => job[r].kind = "backfill_window"

Init ==
  /\ job = [r \in Requests |-> NoJob]
  /\ backfill = [r \in Requests |-> "none"]
  /\ owner = [d \in Days |-> NoOne]
  /\ proc = [r \in Requests |-> Idle]
  /\ crashes = 0

Goto(r, pc) == proc' = [proc EXCEPT ![r].pc = pc]

-----------------------------------------------------------------------------
(* OverrideService.submit *)

\* The query for a job of the same kind in flight.  One is OverrideOverlaps,
\* two raise out of scalar_one_or_none; neither changes state.  The window
\* has been validated: ordered, and not in the future.
Check(r) ==
  /\ proc[r].pc = "idle"
  /\ \E kind \in Kinds, lo \in Days, hi \in Days :
       /\ lo <= hi
       /\ kind # "backfill_window" => lo = 1 /\ hi = 1
       /\ \A s \in Requests : job[s].status \in InFlight => job[s].kind # kind
       /\ job' = [job EXCEPT ![r] = [status |-> "none", kind |-> kind,
                                     lo |-> lo, hi |-> hi]]
  /\ Goto(r, "insert")
  /\ UNCHANGED <<backfill, owner, crashes>>

\* No constraint backs the query: two requests can both have seen nothing.
Insert(r) ==
  /\ proc[r].pc = "insert"
  /\ job' = [job EXCEPT ![r].status = "pending"]
  /\ Goto(r, "dispatch")
  /\ UNCHANGED <<backfill, owner, crashes>>

Dispatch(r) ==
  /\ proc[r].pc = "dispatch"
  /\ Goto(r, "queued")
  /\ UNCHANGED <<job, backfill, owner, crashes>>

-----------------------------------------------------------------------------
(* run_override *)

Take(r) ==
  /\ proc[r].pc = "queued"
  /\ job' = [job EXCEPT ![r].status = "running"]
  /\ Goto(r, "work")
  /\ UNCHANGED <<backfill, owner, crashes>>

Return(r, verdict) == proc' = [proc EXCEPT ![r].pc = "finish", ![r].verdict = verdict]

\* Mutant: the try around the recompute is missing.
RaiseFromRollup(r, fault) ==
  proc' = [proc EXCEPT ![r].fault = fault,
                       ![r].pc = IF fault = "enrich" THEN "finish" ELSE "dead",
                       ![r].verdict = IF fault = "enrich" THEN "failed" ELSE @]

\* What a part raises is the job's outcome if it is caught, and otherwise
\* leaves run_override before the job's status is written.
Raise(r, fault) ==
  proc' = [proc EXCEPT ![r].fault = fault,
                       ![r].pc = IF fault \in Caught THEN "finish" ELSE "dead",
                       ![r].verdict = IF fault \in Caught THEN "failed" ELSE @]

\* The relevance context of a theme's monitor, enrichment, the query for the
\* affected dates and the recompute, whose own failed buckets are FAILED too.
StageRerun(r) ==
  /\ proc[r].pc = "work"
  /\ job[r].kind = "stage_rerun"
  /\ \/ \E verdict \in {"complete", "failed"} : Return(r, verdict)
     \/ \E fault \in Faults \ {"purge"} : Raise(r, fault)
  /\ UNCHANGED <<job, backfill, owner, crashes>>

RetentionPurge(r) ==
  /\ proc[r].pc = "work"
  /\ job[r].kind = "retention_purge"
  /\ Return(r, "complete") \/ Raise(r, "purge")
  /\ UNCHANGED <<job, backfill, owner, crashes>>

\* Mutant: every kind falls through to the backfill.
BackfillCheckAnyKind(r) ==
  /\ proc[r].pc = "work"
  /\ Goto(r, "open")
  /\ UNCHANGED <<job, backfill, owner, crashes>>

\* BackfillService.submit's query: an overlapping backfill in flight raises
\* out of run_override, which does not catch it.
BackfillCheck(r) ==
  /\ proc[r].pc = "work"
  /\ job[r].kind = "backfill_window"
  /\ Goto(r, IF \E s \in Requests : /\ backfill[s] \in {"pending", "running"}
                                    /\ Window(s) \cap Window(r) # {}
             THEN "dead" ELSE "open")
  /\ UNCHANGED <<job, backfill, owner, crashes>>

BackfillOpen(r) ==
  /\ proc[r].pc = "open"
  /\ backfill' = [backfill EXCEPT ![r] = "pending"]
  /\ Goto(r, "start")
  /\ UNCHANGED <<job, owner, crashes>>

BackfillStart(r) ==
  /\ proc[r].pc = "start"
  /\ backfill' = [backfill EXCEPT ![r] = "running"]
  /\ proc' = [proc EXCEPT ![r].pc = "date", ![r].date = job[r].lo]
  /\ UNCHANGED <<job, owner, crashes>>

\* Mutant: a date that has a backfill run already is passed over.
BackfillDateSkips(r) ==
  LET d == proc[r].date IN
  /\ proc[r].pc = "date"
  /\ d \in Window(r)
  /\ IF owner[d] = NoOne
     THEN owner' = [owner EXCEPT ![d] = r] /\ Goto(r, "collect")
     ELSE UNCHANGED owner /\ proc' = [proc EXCEPT ![r].date = @ + 1]
  /\ UNCHANGED <<job, backfill, crashes>>

\* The insert of the date's run.  uq_ingestion_runs_identity covers backfill
\* runs too, so a date backfilled before raises out of the job.
BackfillDate(r) ==
  LET d == proc[r].date IN
  /\ proc[r].pc = "date"
  /\ d \in Window(r)
  /\ \/ /\ owner[d] = NoOne
        /\ owner' = [owner EXCEPT ![d] = r]
        /\ Goto(r, "collect")
     \/ /\ owner[d] # NoOne
        /\ Goto(r, "dead")
        /\ UNCHANGED owner
  /\ UNCHANGED <<job, backfill, crashes>>

\* Every source of the date has its outcome: collect_one_date turns what
\* collect_one_source raises into FAILED_TRANSPORT.  A date can have neither
\* result: no source enabled, or all skipped.
CollectDate(r) ==
  /\ proc[r].pc = "collect"
  /\ \E res \in SUBSET DateResults :
       proc' = [proc EXCEPT ![r].pc = "date", ![r].date = @ + 1,
                            ![r].results = @ \cup res]
  /\ UNCHANGED <<job, backfill, owner, crashes>>

\* The status _run_backfill_window derives from the outcomes.
BackfillVerdict(results) ==
  IF "collected" \notin results THEN "failed"
  ELSE IF "failed" \in results THEN "partial"
  ELSE "complete"

\* BackfillService.run ends.  any_failed needs a database error while a date's
\* run and source are read back.
BackfillEnd(r) ==
  /\ proc[r].pc = "date"
  /\ proc[r].date \notin Window(r)
  /\ \E status \in {"complete", "failed"} :
       backfill' = [backfill EXCEPT ![r] = status]
  /\ Return(r, BackfillVerdict(proc[r].results))
  /\ UNCHANGED <<job, owner, crashes>>

Finish(r) ==
  /\ proc[r].pc = "finish"
  /\ job' = [job EXCEPT ![r].status = proc[r].verdict]
  /\ Goto(r, "done")
  /\ UNCHANGED <<backfill, owner, crashes>>

\* The API process or the worker dies, or a query of run_override or of the
\* backfill itself raises; the message is already acknowledged.
Crash(r) ==
  /\ proc[r].pc \notin {"idle", "queued", "done", "dead"}
  /\ crashes < MaxCrashes
  /\ crashes' = crashes + 1
  /\ Goto(r, "dead")
  /\ UNCHANGED <<job, backfill, owner>>

-----------------------------------------------------------------------------
Step(r) ==
  \/ Insert(r) \/ Dispatch(r) \/ Take(r)
  \/ StageRerun(r) \/ RetentionPurge(r)
  \/ BackfillCheck(r) \/ BackfillOpen(r) \/ BackfillStart(r)
  \/ BackfillDate(r) \/ CollectDate(r) \/ BackfillEnd(r)
  \/ Finish(r)

Next == \E r \in Requests : Check(r) \/ Step(r) \/ Crash(r)

Spec == Init /\ [][Next]_vars

\* A request that got past the check goes on, and so does its job.
FairSpec == Spec /\ \A r \in Requests : WF_vars(Step(r))

-----------------------------------------------------------------------------
(* Properties *)

IsBackfill(r) == job[r].kind = "backfill_window"

\* A backfill that reports COMPLETE or PARTIAL collected every date of its
\* window itself, however many backfills the unguarded submit let through;
\* COMPLETE further means that no source failed on any of them.
ReportCoversWindow ==
  \A r \in Requests :
    IsBackfill(r) /\ job[r].status \in {"complete", "partial"} =>
      /\ \A d \in Window(r) : owner[d] = r
      /\ "collected" \in proc[r].results
      /\ job[r].status = "complete" <=> "failed" \notin proc[r].results

\* Another backfill override wants, or has taken, a date of r's window.
Contested(r) ==
  /\ IsBackfill(r)
  /\ \E s \in Requests \ {r} : IsBackfill(s) /\ Window(s) \cap Window(r) # {}

\* A job that was inserted comes to an end: what enrichment, the recompute or
\* the collection of a date raise is its outcome.  Left RUNNING are a job whose
\* process died, a backfill that met another one, and, against "each branch
\* writes outcome on every path, including failure" (tasks/overrides.py:3), one
\* whose context, date query or purge raised.
JobsEnd ==
  \A r \in Requests :
    (job[r].status \in InFlight) ~>
      \/ job[r].status \in Ended
      \/ crashes > 0
      \/ Contested(r)
      \/ proc[r].fault \in {"context", "dates", "purge"}
=============================================================================
