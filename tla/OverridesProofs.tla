--------------------------- MODULE OverridesProofs ---------------------------
(***************************************************************************)
(* Proofs about Overrides for every set of requests, every number of days  *)
(* and of crashes.                                                         *)
(***************************************************************************)
EXTENDS Overrides, TLAPS

Backfills == {"open", "start", "date", "collect"}

\* Where a request is determines what it can have written so far: a backfill
\* job exists only past the insert, and only for the backfill kind.
ProcFacts ==
  \A r \in Requests :
    /\ job[r].lo <= job[r].hi
    /\ proc[r].pc \in Backfills => IsBackfill(r)
    /\ proc[r].pc \in {"idle", "insert", "dispatch", "queued"} => backfill[r] = "none"
    /\ backfill[r] # "none" => IsBackfill(r)
    /\ proc[r].pc \in {"date", "collect"} => proc[r].date <= job[r].hi + 1
    /\ proc[r].pc = "collect" => proc[r].date \in Window(r)

TypeInv == TypeOK /\ ProcFacts

LEMMA DayFacts ==
  /\ 1 \in Days
  /\ Days \subseteq 1 .. MaxDay + 1
  /\ \A d \in Days : d + 1 \in 1 .. MaxDay + 1
  BY OverridesAssumption DEF Days

\* What a part raises ends the branch with its verdict, or the task.
LEMMA RaiseTypes ==
  ASSUME NEW r \in Requests, proc \in [Requests -> Procs], NEW fault \in Faults,
         Raise(r, fault)
  PROVE  /\ proc' \in [Requests -> Procs]
         /\ \A q \in Requests \ {r} : proc'[q] = proc[q]
         /\ proc'[r].pc \in {"finish", "dead"}
<1>1. proc[r] \in Procs /\ "finish" # "dead"
  OBVIOUS
<1>2. /\ [proc[r] EXCEPT !.fault = fault, !.pc = "finish", !.verdict = "failed"] \in Procs
      /\ [proc[r] EXCEPT !.fault = fault, !.pc = "dead"] \in Procs
  BY <1>1 DEF Procs, Ended
<1>3. \/ proc' = [proc EXCEPT ![r] = [@ EXCEPT !.fault = fault, !.pc = "finish", !.verdict = "failed"]]
      \/ proc' = [proc EXCEPT ![r] = [@ EXCEPT !.fault = fault, !.pc = "dead"]]
  BY <1>1 DEF Raise, Procs
<1>4. /\ [proc[r] EXCEPT !.fault = fault, !.pc = "finish", !.verdict = "failed"].pc = "finish"
      /\ [proc[r] EXCEPT !.fault = fault, !.pc = "dead"].pc = "dead"
  BY <1>1 DEF Procs
<1> QED
  BY <1>2, <1>3, <1>4

LEMMA InitialTypes == NoJob \in Jobs /\ Idle \in Procs
  BY DayFacts DEF NoJob, Jobs, Kinds, Idle, Procs, Ended, Faults

\* Every variable keeps its type, and a request's place its meaning.
LEMMA TypeInvariant == Spec => []TypeInv
<1>1. Init => TypeInv
  BY InitialTypes, OverridesAssumption
     DEF Init, TypeInv, TypeOK, ProcFacts, Idle, Backfills, NoJob
<1>2. TypeInv /\ [Next]_vars => TypeInv'
  <2> SUFFICES ASSUME TypeInv, [Next]_vars PROVE TypeInv'
    OBVIOUS
  <2>t. /\ job \in [Requests -> Jobs]
        /\ proc \in [Requests -> Procs]
        /\ \A r \in Requests : job[r].lo \in Days /\ job[r].hi \in Days /\ job[r].hi \in Nat
    BY OverridesAssumption DEF TypeInv, TypeOK, Jobs, Days
  <2> USE DEF TypeInv
  <2>1. ASSUME NEW r \in Requests, Check(r) PROVE TypeInv'
    <3>1. PICK kind \in Kinds, lo \in Days, hi \in Days :
            /\ lo <= hi
            /\ job' = [job EXCEPT ![r] = [status |-> "none", kind |-> kind,
                                          lo |-> lo, hi |-> hi]]
      BY <2>1 DEF Check
    <3>2. job' \in [Requests -> Jobs]
      BY <2>t, <3>1 DEF Jobs
    <3>3. proc' = [proc EXCEPT ![r].pc = "insert"] /\ proc[r].pc = "idle"
      BY <2>1 DEF Check, Goto
    <3>4. proc' \in [Requests -> Procs]
      BY <2>t, <3>3 DEF Procs
    <3>5. UNCHANGED <<backfill, owner, crashes>>
      BY <2>1 DEF Check
    <3>6. ProcFacts'
      BY <2>t, <3>1, <3>3, <3>5 DEF ProcFacts, IsBackfill, Window, Backfills
    <3> QED
      BY <3>2, <3>4, <3>5, <3>6 DEF TypeOK, ProcFacts, IsBackfill
  \* Only Check sets a job's kind and window.
  <2>2. ASSUME NEW r \in Requests, Step(r) \/ Crash(r)
        PROVE  /\ job' \in [Requests -> Jobs]
               /\ \A q \in Requests : /\ job'[q].kind = job[q].kind
                                      /\ job'[q].lo = job[q].lo
                                      /\ job'[q].hi = job[q].hi
    <3>1. CASE job' = job
      BY <2>t, <3>1
    <3>2. ASSUME NEW status \in {"none"} \cup InFlight \cup Ended,
                 job' = [job EXCEPT ![r].status = status]
          PROVE  /\ job' \in [Requests -> Jobs]
                 /\ \A q \in Requests : /\ job'[q].kind = job[q].kind
                                        /\ job'[q].lo = job[q].lo
                                        /\ job'[q].hi = job[q].hi
      BY <2>t, <3>2 DEF Jobs
    <3>3. CASE Insert(r) \/ Take(r)
      BY <3>2, <3>3 DEF Insert, Take, InFlight
    <3>4. CASE Finish(r)
      <4>1. proc[r].verdict \in {"none"} \cup InFlight \cup Ended
        BY <2>t DEF Procs
      <4> QED
        BY <3>2, <3>4, <4>1 DEF Finish
    <3> QED
      BY <2>2, <3>1, <3>3, <3>4 DEF Step, Dispatch, StageRerun, RetentionPurge,
         BackfillCheck, BackfillOpen, BackfillStart, BackfillDate, CollectDate,
         BackfillEnd, Crash
  <2>3. ASSUME NEW r \in Requests, Step(r) \/ Crash(r),
               proc' \in [Requests -> Procs],
               \A q \in Requests \ {r} : proc'[q] = proc[q],
               proc'[r].pc \notin {"idle", "insert"},
               proc'[r].pc \in Backfills => IsBackfill(r),
               proc'[r].pc \in {"date", "collect"} => proc'[r].date <= job[r].hi + 1,
               proc'[r].pc = "collect" => proc'[r].date \in Window(r),
               backfill' \in [Requests -> {"none", "pending", "running", "complete", "failed"}],
               \A q \in Requests \ {r} : backfill'[q] = backfill[q],
               proc'[r].pc \in {"dispatch", "queued"} => backfill'[r] = "none",
               backfill'[r] # "none" => IsBackfill(r),
               owner' \in [Days -> Requests \cup {NoOne}],
               crashes' \in 0 .. MaxCrashes
        PROVE  TypeInv'
    <3>1. ProcFacts'
      BY <2>t, <2>2, <2>3 DEF ProcFacts, IsBackfill, Window
    <3> QED
      BY <2>2, <2>3, <3>1 DEF TypeOK, ProcFacts, IsBackfill
  <2>4. ASSUME NEW r \in Requests, Insert(r) PROVE TypeInv'
    <3>1. Step(r) \/ Crash(r)
      BY <2>4 DEF Step
    <3>2. /\ proc' \in [Requests -> Procs]
          /\ \A q \in Requests \ {r} : proc'[q] = proc[q]
          /\ proc'[r].pc = "dispatch"
      BY <2>t, <2>4, DayFacts DEF Insert, Goto, Procs
    <3>3. /\ backfill' \in [Requests -> {"none", "pending", "running", "complete", "failed"}]
          /\ \A q \in Requests \ {r} : backfill'[q] = backfill[q]
          /\ owner' \in [Days -> Requests \cup {NoOne}]
          /\ crashes' \in 0 .. MaxCrashes
      BY <2>4, OverridesAssumption DEF Insert, TypeOK
    <3>4. /\ proc'[r].pc \in Backfills => IsBackfill(r)
          /\ proc'[r].pc \in {"dispatch", "queued"} => backfill'[r] = "none"
          /\ backfill'[r] # "none" => IsBackfill(r)
      BY <2>t, <2>4, <3>2 DEF Insert, ProcFacts, TypeOK, Backfills, IsBackfill
    <3> QED
      BY <2>3, <3>1, <3>2, <3>3, <3>4
  <2>5. ASSUME NEW r \in Requests, Dispatch(r) PROVE TypeInv'
    <3>1. Step(r) \/ Crash(r)
      BY <2>5 DEF Step
    <3>2. /\ proc' \in [Requests -> Procs]
          /\ \A q \in Requests \ {r} : proc'[q] = proc[q]
          /\ proc'[r].pc = "queued"
      BY <2>t, <2>5, DayFacts DEF Dispatch, Goto, Procs
    <3>3. /\ backfill' \in [Requests -> {"none", "pending", "running", "complete", "failed"}]
          /\ \A q \in Requests \ {r} : backfill'[q] = backfill[q]
          /\ owner' \in [Days -> Requests \cup {NoOne}]
          /\ crashes' \in 0 .. MaxCrashes
      BY <2>5, OverridesAssumption DEF Dispatch, TypeOK
    <3>4. /\ proc'[r].pc \in Backfills => IsBackfill(r)
          /\ proc'[r].pc \in {"dispatch", "queued"} => backfill'[r] = "none"
          /\ backfill'[r] # "none" => IsBackfill(r)
      BY <2>t, <2>5, <3>2 DEF Dispatch, ProcFacts, TypeOK, Backfills, IsBackfill
    <3> QED
      BY <2>3, <3>1, <3>2, <3>3, <3>4
  <2>6. ASSUME NEW r \in Requests, Take(r) PROVE TypeInv'
    <3>1. Step(r) \/ Crash(r)
      BY <2>6 DEF Step
    <3>2. /\ proc' \in [Requests -> Procs]
          /\ \A q \in Requests \ {r} : proc'[q] = proc[q]
          /\ proc'[r].pc = "work"
      BY <2>t, <2>6, DayFacts DEF Take, Goto, Procs
    <3>3. /\ backfill' \in [Requests -> {"none", "pending", "running", "complete", "failed"}]
          /\ \A q \in Requests \ {r} : backfill'[q] = backfill[q]
          /\ owner' \in [Days -> Requests \cup {NoOne}]
          /\ crashes' \in 0 .. MaxCrashes
      BY <2>6, OverridesAssumption DEF Take, TypeOK
    <3>4. /\ proc'[r].pc \in Backfills => IsBackfill(r)
          /\ proc'[r].pc \in {"dispatch", "queued"} => backfill'[r] = "none"
          /\ backfill'[r] # "none" => IsBackfill(r)
      BY <2>t, <2>6, <3>2 DEF Take, ProcFacts, TypeOK, Backfills, IsBackfill
    <3> QED
      BY <2>3, <3>1, <3>2, <3>3, <3>4
  <2>7. ASSUME NEW r \in Requests, StageRerun(r) PROVE TypeInv'
    <3>1. Step(r) \/ Crash(r)
      BY <2>7 DEF Step
    <3>2. /\ proc' \in [Requests -> Procs]
          /\ \A q \in Requests \ {r} : proc'[q] = proc[q]
          /\ proc'[r].pc \in {"finish", "dead"}
      <4>1. ASSUME NEW verdict \in {"complete", "failed"}, Return(r, verdict)
            PROVE  /\ proc' \in [Requests -> Procs]
                   /\ \A q \in Requests \ {r} : proc'[q] = proc[q]
                   /\ proc'[r].pc \in {"finish", "dead"}
        BY <2>t, <4>1 DEF Return, Procs, Ended
      <4> QED
        BY <2>7, <2>t, <4>1, RaiseTypes DEF StageRerun
    <3>3. /\ backfill' \in [Requests -> {"none", "pending", "running", "complete", "failed"}]
          /\ \A q \in Requests \ {r} : backfill'[q] = backfill[q]
          /\ owner' \in [Days -> Requests \cup {NoOne}]
          /\ crashes' \in 0 .. MaxCrashes
      BY <2>7, OverridesAssumption DEF StageRerun, TypeOK
    <3>4. /\ proc'[r].pc \in Backfills => IsBackfill(r)
          /\ proc'[r].pc \in {"dispatch", "queued"} => backfill'[r] = "none"
          /\ backfill'[r] # "none" => IsBackfill(r)
      BY <2>t, <2>7, <3>2 DEF StageRerun, ProcFacts, TypeOK, Backfills, IsBackfill
    <3> QED
      BY <2>3, <3>1, <3>2, <3>3, <3>4
  <2>8. ASSUME NEW r \in Requests, RetentionPurge(r) PROVE TypeInv'
    <3>1. Step(r) \/ Crash(r)
      BY <2>8 DEF Step
    <3>2. /\ proc' \in [Requests -> Procs]
          /\ \A q \in Requests \ {r} : proc'[q] = proc[q]
          /\ proc'[r].pc \in {"finish", "dead"}
      <4>1. CASE Return(r, "complete")
        BY <2>t, <4>1 DEF Return, Procs, Ended
      <4>2. CASE Raise(r, "purge")
        BY <2>t, <4>2, RaiseTypes DEF Faults
      <4> QED
        BY <2>8, <4>1, <4>2 DEF RetentionPurge
    <3>3. /\ backfill' \in [Requests -> {"none", "pending", "running", "complete", "failed"}]
          /\ \A q \in Requests \ {r} : backfill'[q] = backfill[q]
          /\ owner' \in [Days -> Requests \cup {NoOne}]
          /\ crashes' \in 0 .. MaxCrashes
      BY <2>8, OverridesAssumption DEF RetentionPurge, TypeOK
    <3>4. /\ proc'[r].pc \in Backfills => IsBackfill(r)
          /\ proc'[r].pc \in {"dispatch", "queued"} => backfill'[r] = "none"
          /\ backfill'[r] # "none" => IsBackfill(r)
      BY <2>t, <2>8, <3>2 DEF RetentionPurge, ProcFacts, TypeOK, Backfills, IsBackfill
    <3> QED
      BY <2>3, <3>1, <3>2, <3>3, <3>4
  <2>9. ASSUME NEW r \in Requests, BackfillCheck(r) PROVE TypeInv'
    <3>1. Step(r) \/ Crash(r)
      BY <2>9 DEF Step
    <3>2. /\ proc' \in [Requests -> Procs]
          /\ \A q \in Requests \ {r} : proc'[q] = proc[q]
          /\ proc'[r].pc \in {"dead", "open"}
      BY <2>t, <2>9, DayFacts DEF BackfillCheck, Goto, Procs
    <3>3. /\ backfill' \in [Requests -> {"none", "pending", "running", "complete", "failed"}]
          /\ \A q \in Requests \ {r} : backfill'[q] = backfill[q]
          /\ owner' \in [Days -> Requests \cup {NoOne}]
          /\ crashes' \in 0 .. MaxCrashes
      BY <2>9, OverridesAssumption DEF BackfillCheck, TypeOK
    <3>4. /\ proc'[r].pc \in Backfills => IsBackfill(r)
          /\ proc'[r].pc \in {"dispatch", "queued"} => backfill'[r] = "none"
          /\ backfill'[r] # "none" => IsBackfill(r)
      BY <2>t, <2>9, <3>2 DEF BackfillCheck, ProcFacts, TypeOK, Backfills, IsBackfill
    <3> QED
      BY <2>3, <3>1, <3>2, <3>3, <3>4
  <2>10. ASSUME NEW r \in Requests, BackfillOpen(r) PROVE TypeInv'
    <3>1. Step(r) \/ Crash(r)
      BY <2>10 DEF Step
    <3>2. /\ proc' \in [Requests -> Procs]
          /\ \A q \in Requests \ {r} : proc'[q] = proc[q]
          /\ proc'[r].pc = "start"
      BY <2>t, <2>10, DayFacts DEF BackfillOpen, Goto, Procs
    <3>3. /\ backfill' \in [Requests -> {"none", "pending", "running", "complete", "failed"}]
          /\ \A q \in Requests \ {r} : backfill'[q] = backfill[q]
          /\ owner' \in [Days -> Requests \cup {NoOne}]
          /\ crashes' \in 0 .. MaxCrashes
      BY <2>10, OverridesAssumption DEF BackfillOpen, TypeOK
    <3>4. /\ proc'[r].pc \in Backfills => IsBackfill(r)
          /\ proc'[r].pc \in {"dispatch", "queued"} => backfill'[r] = "none"
          /\ backfill'[r] # "none" => IsBackfill(r)
      BY <2>t, <2>10, <3>2 DEF BackfillOpen, ProcFacts, TypeOK, Backfills, IsBackfill
    <3> QED
      BY <2>3, <3>1, <3>2, <3>3, <3>4
  <2>11. ASSUME NEW r \in Requests, BackfillStart(r) PROVE TypeInv'
    <3>1. Step(r) \/ Crash(r)
      BY <2>11 DEF Step
    <3>2. /\ proc' \in [Requests -> Procs]
          /\ \A q \in Requests \ {r} : proc'[q] = proc[q]
          /\ proc'[r].pc = "date" /\ proc'[r].date <= job[r].hi + 1
      <4>1. proc' = [proc EXCEPT ![r].pc = "date", ![r].date = job[r].lo]
        BY <2>11 DEF BackfillStart
      <4>2. job[r].lo \in 1 .. MaxDay + 1
        BY <2>t, DayFacts
      <4>3. job[r].lo <= job[r].hi + 1
        <5>1. job[r].lo \in Nat /\ job[r].hi \in Nat /\ job[r].lo <= job[r].hi
          BY <2>t DEF ProcFacts, Days
        <5> QED
          BY <5>1
      <4>4. /\ proc' \in [Requests -> Procs]
            /\ \A q \in Requests \ {r} : proc'[q] = proc[q]
            /\ proc'[r].pc = "date"
            /\ proc'[r].date = job[r].lo
        BY <2>t, <4>1, <4>2 DEF Procs
      <4> QED
        BY <4>3, <4>4
    <3>3. /\ backfill' \in [Requests -> {"none", "pending", "running", "complete", "failed"}]
          /\ \A q \in Requests \ {r} : backfill'[q] = backfill[q]
          /\ owner' \in [Days -> Requests \cup {NoOne}]
          /\ crashes' \in 0 .. MaxCrashes
      BY <2>11, OverridesAssumption DEF BackfillStart, TypeOK
    <3>4. /\ proc'[r].pc \in Backfills => IsBackfill(r)
          /\ proc'[r].pc \in {"dispatch", "queued"} => backfill'[r] = "none"
          /\ backfill'[r] # "none" => IsBackfill(r)
      BY <2>t, <2>11, <3>2 DEF BackfillStart, ProcFacts, TypeOK, Backfills, IsBackfill
    <3> QED
      BY <2>3, <3>1, <3>2, <3>3, <3>4
  <2>12. ASSUME NEW r \in Requests, BackfillDate(r) PROVE TypeInv'
    <3>1. Step(r) \/ Crash(r)
      BY <2>12 DEF Step
    <3>2. /\ proc' \in [Requests -> Procs]
          /\ \A q \in Requests \ {r} : proc'[q] = proc[q]
          /\ \/ proc'[r].pc = "dead"
             \/ proc'[r].pc = "collect" /\ proc'[r].date \in Window(r)
                /\ proc'[r].date <= job[r].hi + 1
      <4>1. /\ proc[r].date \in Window(r)
            /\ proc[r].date <= job[r].hi + 1
        BY <2>t, <2>12 DEF BackfillDate, Window, Days
      <4>2. CASE Goto(r, "collect")
        BY <2>t, <4>1, <4>2 DEF Goto, Procs
      <4>3. CASE Goto(r, "dead")
        BY <2>t, <4>3 DEF Goto, Procs
      <4> QED
        BY <2>12, <4>2, <4>3 DEF BackfillDate
    <3>3. /\ backfill' \in [Requests -> {"none", "pending", "running", "complete", "failed"}]
          /\ \A q \in Requests \ {r} : backfill'[q] = backfill[q]
          /\ owner' \in [Days -> Requests \cup {NoOne}]
          /\ crashes' \in 0 .. MaxCrashes
      BY <2>12, OverridesAssumption DEF BackfillDate, TypeOK
    <3>4. /\ proc'[r].pc \in Backfills => IsBackfill(r)
          /\ proc'[r].pc \in {"dispatch", "queued"} => backfill'[r] = "none"
          /\ backfill'[r] # "none" => IsBackfill(r)
      BY <2>t, <2>12, <3>2 DEF BackfillDate, ProcFacts, TypeOK, Backfills, IsBackfill
    <3> QED
      BY <2>3, <3>1, <3>2, <3>3, <3>4
  <2>13. ASSUME NEW r \in Requests, CollectDate(r) PROVE TypeInv'
    <3>1. Step(r) \/ Crash(r)
      BY <2>13 DEF Step
    <3>2. /\ proc' \in [Requests -> Procs]
          /\ \A q \in Requests \ {r} : proc'[q] = proc[q]
          /\ proc'[r].pc = "date" /\ proc'[r].date <= job[r].hi + 1
      BY <2>t, <2>13, DayFacts DEF CollectDate, Goto, Procs, Window, Days
    <3>3. /\ backfill' \in [Requests -> {"none", "pending", "running", "complete", "failed"}]
          /\ \A q \in Requests \ {r} : backfill'[q] = backfill[q]
          /\ owner' \in [Days -> Requests \cup {NoOne}]
          /\ crashes' \in 0 .. MaxCrashes
      BY <2>13, OverridesAssumption DEF CollectDate, TypeOK
    <3>4. /\ proc'[r].pc \in Backfills => IsBackfill(r)
          /\ proc'[r].pc \in {"dispatch", "queued"} => backfill'[r] = "none"
          /\ backfill'[r] # "none" => IsBackfill(r)
      BY <2>t, <2>13, <3>2 DEF CollectDate, ProcFacts, TypeOK, Backfills, IsBackfill
    <3> QED
      BY <2>3, <3>1, <3>2, <3>3, <3>4
  <2>14. ASSUME NEW r \in Requests, BackfillEnd(r) PROVE TypeInv'
    <3>1. Step(r) \/ Crash(r)
      BY <2>14 DEF Step
    <3>2. /\ proc' \in [Requests -> Procs]
          /\ \A q \in Requests \ {r} : proc'[q] = proc[q]
          /\ proc'[r].pc = "finish"
      <4>1. proc' = [proc EXCEPT ![r].pc = "finish",
                                 ![r].verdict = BackfillVerdict(proc[r].results)]
        BY <2>14 DEF BackfillEnd, Return
      <4>2. BackfillVerdict(proc[r].results) \in Ended
        BY DEF BackfillVerdict, Ended
      <4> QED
        BY <2>t, <4>1, <4>2 DEF Procs
    <3>3. /\ backfill' \in [Requests -> {"none", "pending", "running", "complete", "failed"}]
          /\ \A q \in Requests \ {r} : backfill'[q] = backfill[q]
          /\ owner' \in [Days -> Requests \cup {NoOne}]
          /\ crashes' \in 0 .. MaxCrashes
      BY <2>14, OverridesAssumption DEF BackfillEnd, TypeOK
    <3>4. /\ proc'[r].pc \in Backfills => IsBackfill(r)
          /\ proc'[r].pc \in {"dispatch", "queued"} => backfill'[r] = "none"
          /\ backfill'[r] # "none" => IsBackfill(r)
      BY <2>t, <2>14, <3>2 DEF BackfillEnd, ProcFacts, TypeOK, Backfills, IsBackfill
    <3> QED
      BY <2>3, <3>1, <3>2, <3>3, <3>4
  <2>15. ASSUME NEW r \in Requests, Finish(r) PROVE TypeInv'
    <3>1. Step(r) \/ Crash(r)
      BY <2>15 DEF Step
    <3>2. /\ proc' \in [Requests -> Procs]
          /\ \A q \in Requests \ {r} : proc'[q] = proc[q]
          /\ proc'[r].pc = "done"
      BY <2>t, <2>15, DayFacts DEF Finish, Goto, Procs
    <3>3. /\ backfill' \in [Requests -> {"none", "pending", "running", "complete", "failed"}]
          /\ \A q \in Requests \ {r} : backfill'[q] = backfill[q]
          /\ owner' \in [Days -> Requests \cup {NoOne}]
          /\ crashes' \in 0 .. MaxCrashes
      BY <2>15, OverridesAssumption DEF Finish, TypeOK
    <3>4. /\ proc'[r].pc \in Backfills => IsBackfill(r)
          /\ proc'[r].pc \in {"dispatch", "queued"} => backfill'[r] = "none"
          /\ backfill'[r] # "none" => IsBackfill(r)
      BY <2>t, <2>15, <3>2 DEF Finish, ProcFacts, TypeOK, Backfills, IsBackfill
    <3> QED
      BY <2>3, <3>1, <3>2, <3>3, <3>4
  <2>16. ASSUME NEW r \in Requests, Crash(r) PROVE TypeInv'
    <3>1. Step(r) \/ Crash(r)
      BY <2>16 DEF Step
    <3>2. /\ proc' \in [Requests -> Procs]
          /\ \A q \in Requests \ {r} : proc'[q] = proc[q]
          /\ proc'[r].pc = "dead"
      BY <2>t, <2>16, DayFacts DEF Crash, Goto, Procs
    <3>3. /\ backfill' \in [Requests -> {"none", "pending", "running", "complete", "failed"}]
          /\ \A q \in Requests \ {r} : backfill'[q] = backfill[q]
          /\ owner' \in [Days -> Requests \cup {NoOne}]
          /\ crashes' \in 0 .. MaxCrashes
      BY <2>16, OverridesAssumption DEF Crash, TypeOK
    <3>4. /\ proc'[r].pc \in Backfills => IsBackfill(r)
          /\ proc'[r].pc \in {"dispatch", "queued"} => backfill'[r] = "none"
          /\ backfill'[r] # "none" => IsBackfill(r)
      BY <2>t, <2>16, <3>2 DEF Crash, ProcFacts, TypeOK, Backfills, IsBackfill
    <3> QED
      BY <2>3, <3>1, <3>2, <3>3, <3>4
  <2>17. CASE UNCHANGED vars
    BY <2>17 DEF vars, TypeOK, ProcFacts, IsBackfill, Window
  <2> QED
    BY <2>1, <2>4, <2>5, <2>6, <2>7, <2>8, <2>9, <2>10, <2>11, <2>12, <2>13,
       <2>14, <2>15, <2>16, <2>17 DEF Next, Step
<1> QED
  BY <1>1, <1>2, PTL DEF Spec

\* Every variable keeps its type.
THEOREM TypeCorrect == Spec => []TypeOK
  BY TypeInvariant, PTL DEF TypeInv

-----------------------------------------------------------------------------
\* What a job past its start owns: the dates behind the one it is at, that one
\* while it is collected, the whole window once the loop is over.  A status
\* that ends a job is the verdict its branch returned.
Owned(r) ==
  /\ proc[r].pc \in {"date", "collect"} =>
       /\ job[r].lo <= proc[r].date
       /\ \A d \in Window(r) : d < proc[r].date => owner[d] = r
  /\ proc[r].pc = "collect" => owner[proc[r].date] = r
  /\ proc[r].pc \in {"finish", "done"} /\ IsBackfill(r) =>
       /\ proc[r].verdict = BackfillVerdict(proc[r].results)
       /\ \A d \in Window(r) : owner[d] = r
  /\ job[r].status \in Ended => proc[r].pc = "done" /\ job[r].status = proc[r].verdict

DatesOwned == \A r \in Requests : Owned(r)

\* What the verdict says of the outcomes.
LEMMA VerdictMeaning ==
  ASSUME NEW results
  PROVE  /\ BackfillVerdict(results) \in {"complete", "partial"} => "collected" \in results
         /\ BackfillVerdict(results) = "complete" => "failed" \notin results
         /\ BackfillVerdict(results) = "partial" => "failed" \in results
  BY DEF BackfillVerdict

LEMMA DatesOwnedSuffices == TypeInv /\ DatesOwned => ReportCoversWindow
<1> SUFFICES ASSUME TypeInv, DatesOwned, NEW r \in Requests, IsBackfill(r),
                    job[r].status \in {"complete", "partial"}
             PROVE  /\ \A d \in Window(r) : owner[d] = r
                    /\ "collected" \in proc[r].results
                    /\ job[r].status = "complete" <=> "failed" \notin proc[r].results
  BY DEF ReportCoversWindow
<1>1. /\ job[r].status = BackfillVerdict(proc[r].results)
      /\ \A d \in Window(r) : owner[d] = r
  BY DEF DatesOwned, Owned, Ended
<1> QED
  BY <1>1, VerdictMeaning

\* What a step of r leaves alone: the other requests, its own job's kind and
\* window, and every date that is owned.
LEMMA Frame ==
  ASSUME TypeInv, NEW r \in Requests, Step(r) \/ Crash(r)
  PROVE  /\ \A q \in Requests \ {r} : proc'[q] = proc[q] /\ job'[q] = job[q]
         /\ job'[r].kind = job[r].kind /\ job'[r].lo = job[r].lo /\ job'[r].hi = job[r].hi
         /\ \A d \in Days, q \in Requests : owner[d] = q => owner'[d] = q
<1>t. /\ job \in [Requests -> Jobs]
      /\ proc \in [Requests -> Procs]
      /\ owner \in [Days -> Requests \cup {NoOne}]
  BY DEF TypeInv, TypeOK
<1>1. \A q \in Requests \ {r} : proc'[q] = proc[q]
  BY <1>t DEF Step, Insert, Dispatch, Take, StageRerun, RetentionPurge, BackfillCheck,
              BackfillOpen, BackfillStart, BackfillDate, CollectDate, BackfillEnd, Finish,
              Crash, Goto, Return, Raise
<1>2. \/ UNCHANGED job
      \/ \E status : job' = [job EXCEPT ![r].status = status]
  BY DEF Step, Insert, Dispatch, Take, StageRerun, RetentionPurge, BackfillCheck,
         BackfillOpen, BackfillStart, BackfillDate, CollectDate, BackfillEnd, Finish, Crash
<1>3. /\ \A q \in Requests \ {r} : job'[q] = job[q]
      /\ job'[r].kind = job[r].kind /\ job'[r].lo = job[r].lo /\ job'[r].hi = job[r].hi
  BY <1>t, <1>2 DEF Jobs
<1>4. \/ UNCHANGED owner
      \/ \E d \in Days : owner[d] = NoOne /\ owner' = [owner EXCEPT ![d] = r]
  <2>1. CASE BackfillDate(r)
    <3>1. Window(r) \subseteq Days
      <4>1. job[r].lo \in 1 .. MaxDay /\ job[r].hi \in 1 .. MaxDay
        BY <1>t DEF Jobs, Days
      <4> QED
        BY <4>1, OverridesAssumption DEF Window, Days
    <3> QED
      BY <2>1, <3>1 DEF BackfillDate
  <2>2. CASE ~BackfillDate(r)
    BY <2>2 DEF Step, Insert, Dispatch, Take, StageRerun, RetentionPurge, BackfillCheck,
           BackfillOpen, BackfillStart, CollectDate, BackfillEnd, Finish, Crash
  <2> QED
    BY <2>1, <2>2
<1>5. \A d \in Days, q \in Requests : owner[d] = q => owner'[d] = q
  BY <1>t, <1>4, OverridesAssumption
<1> QED
  BY <1>1, <1>3, <1>5

LEMMA OwnedInvariant == Spec => []DatesOwned
<1>1. Init => DatesOwned
  <2> SUFFICES ASSUME Init, NEW r \in Requests PROVE Owned(r)
    BY DEF DatesOwned
  <2>1. proc[r].pc = "idle" /\ job[r].status = "none"
    BY DEF Init, Idle, NoJob
  <2> QED
    BY <2>1 DEF Owned, Ended
<1>2. TypeInv /\ DatesOwned /\ [Next]_vars => DatesOwned'
  <2> SUFFICES ASSUME TypeInv, DatesOwned, [Next]_vars PROVE DatesOwned'
    OBVIOUS
  <2>t. /\ job \in [Requests -> Jobs]
        /\ proc \in [Requests -> Procs]
        /\ owner \in [Days -> Requests \cup {NoOne}]
        /\ \A r \in Requests : job[r].lo \in Nat /\ job[r].hi \in Nat
        /\ \A r \in Requests : proc[r].date \in Nat
        /\ \A r \in Requests : Window(r) \subseteq Days
    <3>1. /\ job \in [Requests -> Jobs]
          /\ proc \in [Requests -> Procs]
          /\ owner \in [Days -> Requests \cup {NoOne}]
      BY DEF TypeInv, TypeOK
    <3>2. \A r \in Requests : job[r].lo \in 1 .. MaxDay /\ job[r].hi \in 1 .. MaxDay
      BY <3>1 DEF Jobs, Days
    <3>3. \A r \in Requests : proc[r].date \in Nat
      BY <3>1, OverridesAssumption DEF Procs
    <3>4. \A r \in Requests : Window(r) \subseteq Days
      BY <3>2, OverridesAssumption DEF Window, Days
    <3> QED
      BY <3>1, <3>2, <3>3, <3>4
  <2>1. ASSUME NEW r \in Requests, Check(r) PROVE DatesOwned'
    <3>1. /\ \A q \in Requests \ {r} : proc'[q] = proc[q] /\ job'[q] = job[q]
          /\ proc'[r].pc = "insert"
          /\ job'[r].status = "none"
          /\ owner' = owner
      BY <2>1, <2>t DEF Check, Goto, Jobs, Procs
    <3> QED
      BY <3>1 DEF DatesOwned, Owned, Window, IsBackfill, Ended
  \* A step of r keeps what the others own.
  <2>2. ASSUME NEW r \in Requests, Step(r) \/ Crash(r), Owned(r)' PROVE DatesOwned'
    <3>1. ASSUME NEW q \in Requests \ {r} PROVE Owned(q)'
      <4>1. /\ proc'[q] = proc[q] /\ job'[q] = job[q]
            /\ \A d \in Days : owner[d] = q => owner'[d] = q
        BY <2>2, Frame
      <4>2. Owned(q) /\ Window(q) \subseteq Days
        BY <2>t DEF DatesOwned
      <4>3. proc[q].pc = "collect" => proc[q].date \in Window(q)
        BY DEF TypeInv, ProcFacts
      <4> QED
        BY <4>1, <4>2, <4>3 DEF Owned, Window, IsBackfill
    <3> QED
      BY <2>2, <3>1 DEF DatesOwned
  \* Until the loop starts nothing is owed; when a process dies, nothing more.
  <2>3. ASSUME NEW r \in Requests,
               Step(r) \/ Crash(r),
               job'[r].status \notin Ended,
               \/ proc'[r].pc \notin {"date", "collect", "finish", "done"}
               \/ proc'[r].pc = "finish" /\ ~IsBackfill(r)
        PROVE  DatesOwned'
    <3>1. Owned(r)'
      BY <2>3, Frame DEF Owned, IsBackfill
    <3> QED
      BY <2>2, <2>3, <3>1
  <2>4. ASSUME NEW r \in Requests,
               Insert(r) \/ Dispatch(r) \/ Take(r) \/ StageRerun(r) \/ RetentionPurge(r)
                 \/ BackfillCheck(r) \/ BackfillOpen(r) \/ Crash(r)
        PROVE  DatesOwned'
    <3>1. Step(r) \/ Crash(r)
      BY <2>4 DEF Step
    <3>2. proc[r].pc # "done" /\ job[r].status \notin Ended
      BY <2>4 DEF DatesOwned, Owned, Insert, Dispatch, Take, StageRerun, RetentionPurge,
                  BackfillCheck, BackfillOpen, Crash
    <3>3. job'[r].status \notin Ended
      BY <2>4, <2>t, <3>2 DEF Insert, Dispatch, Take, StageRerun, RetentionPurge,
                  BackfillCheck, BackfillOpen, Crash, Ended, Jobs
    <3>4. \/ proc'[r].pc \in {"dispatch", "queued", "work", "open", "start", "dead"}
          \/ proc'[r].pc = "finish" /\ ~IsBackfill(r)
      <4>1. CASE StageRerun(r) \/ RetentionPurge(r)
        <5>1. ~IsBackfill(r)
          BY <4>1 DEF StageRerun, RetentionPurge, IsBackfill
        <5>2. proc'[r].pc \in {"finish", "dead"}
          <6>1. \/ \E verdict \in {"complete", "failed"} : Return(r, verdict)
                \/ \E fault \in Faults : Raise(r, fault)
            BY <4>1 DEF StageRerun, RetentionPurge, Faults
          <6>2. ASSUME NEW verdict, Return(r, verdict) PROVE proc'[r].pc = "finish"
            BY <6>2, <2>t DEF Return, Procs
          <6>3. ASSUME NEW fault, Raise(r, fault) PROVE proc'[r].pc \in {"finish", "dead"}
            BY <6>3, <2>t DEF Raise, Procs
          <6> QED
            BY <6>1, <6>2, <6>3
        <5> QED
          BY <5>1, <5>2
      <4>2. CASE ~(StageRerun(r) \/ RetentionPurge(r))
        BY <2>4, <4>2, <2>t DEF Insert, Dispatch, Take, BackfillCheck, BackfillOpen,
                                Crash, Goto, Procs
      <4> QED
        BY <4>1, <4>2
    <3> QED
      BY <2>3, <3>1, <3>3, <3>4
  <2>5. ASSUME NEW r \in Requests, BackfillStart(r) PROVE DatesOwned'
    <3>1. /\ Step(r) /\ owner' = owner /\ job' = job
          /\ proc'[r].pc = "date" /\ proc'[r].date = job[r].lo
          /\ job[r].status \notin Ended
      BY <2>5, <2>t DEF Step, BackfillStart, Procs, DatesOwned, Owned
    <3>2. Owned(r)'
      BY <3>1, <2>t DEF Owned, Window
    <3> QED
      BY <2>2, <3>1, <3>2
  <2>6. ASSUME NEW r \in Requests, BackfillDate(r) PROVE DatesOwned'
    <3>1. /\ Step(r) /\ job' = job /\ job[r].status \notin Ended
          /\ proc[r].pc = "date" /\ proc[r].date \in Days
      BY <2>6, <2>t DEF Step, BackfillDate, DatesOwned, Owned
    <3>2. CASE /\ owner' = [owner EXCEPT ![proc[r].date] = r]
               /\ Goto(r, "collect")
      <4>1. /\ proc'[r].pc = "collect" /\ proc'[r].date = proc[r].date
            /\ owner'[proc[r].date] = r
        BY <3>1, <3>2, <2>t DEF Goto, Procs
      <4>2. \A d \in Days : owner[d] = r => owner'[d] = r
        BY <3>1, Frame
      <4>3. Owned(r)'
        BY <3>1, <4>1, <4>2, <2>t DEF DatesOwned, Owned, Window
      <4> QED
        BY <2>2, <3>1, <4>3
    <3>3. CASE Goto(r, "dead")
      <4>1. proc'[r].pc = "dead"
        BY <3>3, <2>t DEF Goto, Procs
      <4> QED
        BY <2>3, <3>1, <4>1
    <3> QED
      BY <2>6, <3>2, <3>3 DEF BackfillDate
  <2>7. ASSUME NEW r \in Requests, CollectDate(r) PROVE DatesOwned'
    <3>1. /\ Step(r) /\ owner' = owner /\ job' = job /\ job[r].status \notin Ended
          /\ proc[r].pc = "collect"
          /\ proc'[r].pc = "date" /\ proc'[r].date = proc[r].date + 1
      <4>1. PICK res \in SUBSET DateResults :
              proc' = [proc EXCEPT ![r].pc = "date", ![r].date = @ + 1,
                                   ![r].results = @ \cup res]
        BY <2>7 DEF CollectDate
      <4>2. Step(r) /\ owner' = owner /\ job' = job /\ proc[r].pc = "collect"
        BY <2>7 DEF Step, CollectDate
      <4>3. job[r].status \notin Ended
        BY <4>2 DEF DatesOwned, Owned
      <4> QED
        BY <2>t, <4>1, <4>2, <4>3 DEF Procs
    <3>2. /\ job[r].lo <= proc[r].date + 1
          /\ \A d \in Window(r) : d < proc[r].date + 1 => owner[d] = r
      <4>1. /\ job[r].lo <= proc[r].date
            /\ \A d \in Window(r) : d < proc[r].date => owner[d] = r
            /\ owner[proc[r].date] = r
        BY <3>1 DEF DatesOwned, Owned
      <4>2. Window(r) \subseteq Nat
        BY <2>t DEF Days
      <4> QED
        BY <4>1, <4>2, <2>t
    <3>3. Owned(r)'
      BY <3>1, <3>2 DEF Owned, Window
    <3> QED
      BY <2>2, <3>1, <3>3
  \* The loop is over at the first date behind the window.
  <2>8. ASSUME NEW r \in Requests, BackfillEnd(r) PROVE DatesOwned'
    <3>1. /\ Step(r) /\ owner' = owner /\ job' = job /\ job[r].status \notin Ended
          /\ proc[r].pc = "date" /\ proc[r].date \notin Window(r)
          /\ proc' = [proc EXCEPT ![r].pc = "finish",
                                  ![r].verdict = BackfillVerdict(proc[r].results)]
      BY <2>8, <2>t DEF Step, BackfillEnd, Return, DatesOwned, Owned
    <3>2. /\ proc'[r].pc = "finish"
          /\ proc'[r].verdict = BackfillVerdict(proc[r].results)
          /\ proc'[r].results = proc[r].results
      BY <3>1, <2>t DEF Procs
    <3>3. \A d \in Window(r) : owner[d] = r
      <4>1. /\ job[r].lo <= proc[r].date
            /\ \A d \in Window(r) : d < proc[r].date => owner[d] = r
        BY <3>1 DEF DatesOwned, Owned
      <4>2. proc[r].date > job[r].hi
        BY <3>1, <4>1, <2>t DEF Window
      <4> QED
        BY <4>1, <4>2, <2>t DEF Window
    <3>4. Owned(r)'
      BY <3>1, <3>2, <3>3 DEF Owned, Window
    <3> QED
      BY <2>2, <3>1, <3>4
  <2>9. ASSUME NEW r \in Requests, Finish(r) PROVE DatesOwned'
    <3>1. /\ Step(r) /\ owner' = owner /\ proc[r].pc = "finish"
          /\ proc'[r] = [proc[r] EXCEPT !.pc = "done"]
          /\ job'[r] = [job[r] EXCEPT !.status = proc[r].verdict]
      BY <2>9, <2>t DEF Step, Finish, Goto
    <3>2. /\ proc'[r].pc = "done" /\ proc'[r].verdict = proc[r].verdict
          /\ proc'[r].results = proc[r].results
          /\ job'[r].status = proc[r].verdict
          /\ job'[r].kind = job[r].kind /\ job'[r].lo = job[r].lo /\ job'[r].hi = job[r].hi
      BY <3>1, <2>t DEF Procs, Jobs
    <3>3. Owned(r)'
      BY <3>1, <3>2 DEF DatesOwned, Owned, Window, IsBackfill
    <3> QED
      BY <2>2, <3>1, <3>3
  <2>10. CASE UNCHANGED vars
    BY <2>10 DEF vars, DatesOwned, Owned, Window, IsBackfill
  <2> QED
    BY <2>1, <2>4, <2>5, <2>6, <2>7, <2>8, <2>9, <2>10 DEF Next, Step
<1> QED
  BY <1>1, <1>2, TypeInvariant, PTL DEF Spec

\* A backfill that reports COMPLETE or PARTIAL inserted the run of every date
\* of its window itself, whatever the other requests do and whoever crashes.
THEOREM BackfillCoversWindow == Spec => []ReportCoversWindow
  BY TypeInvariant, OwnedInvariant, DatesOwnedSuffices, PTL
=============================================================================
