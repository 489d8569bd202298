----------------------------- MODULE RunsProofs -----------------------------
(***************************************************************************)
(* Proofs about Runs for every set of sources, callers, workers and tokens *)
(* and every bound.                                                        *)
(***************************************************************************)
EXTENDS Runs, TLAPS

\* A dispatch that ends with its worker or with what a collection raised.
Dies(w) == WorkerCrash(w) \/ \E s \in Sources : CollectRaises(w, s)

LEMMA SevenStages ==
  /\ Len(PostStages) = 7
  /\ 1 .. Len(PostStages) = 1 .. 7
  /\ 0 .. Len(PostStages) - 1 = 0 .. 6
  BY DEF PostStages

LEMMA OutcomeFacts ==
  /\ NoRow \in Outcomes
  /\ Skipped \in Outcomes
  /\ LedgerRows \subseteq Outcomes
  /\ NoRow \notin LedgerRows
  /\ Skipped # NoRow
  /\ Skipped \notin LedgerRows
  BY DEF NoRow, Skipped, Outcomes, LedgerRows, Results

LEMMA VerdictIsFinal == ASSUME NEW out PROVE Verdict(out) \in FinalStatuses
  BY DEF Verdict, Classify, FinalStatuses

LEMMA IdleTypes == IdleCall \in CallStates /\ IdleJob \in JobStates
  BY BoundsAssumption, OutcomeFacts, SevenStages
     DEF IdleCall, CallStates, IdleJob, JobStates, Days, LockValues

LEMMA CallUpdate ==
  ASSUME NEW k \in CallStates, NEW t \in LockValues
  PROVE  /\ [k EXCEPT !.pc = "acquire"] \in CallStates
         /\ [k EXCEPT !.pc = "enqueue", !.lease = t] \in CallStates
  BY DEF CallStates

LEMMA JobUpdate ==
  ASSUME NEW j \in JobStates, NEW t \in LockValues, NEW s \in Sources,
         NEW o \in Outcomes, NEW i \in 0 .. Len(PostStages) - 1
  PROVE  /\ Collected(j, s, o) \in JobStates
         /\ Finished(j) \in JobStates
         /\ [j EXCEPT !.pc = "token"] \in JobStates
         /\ [j EXCEPT !.pc = "release", !.seen = t] \in JobStates
         /\ [j EXCEPT !.stage = i] \in JobStates
<1>1. Collected(j, s, o) \in JobStates
  <2>1. [j.out EXCEPT ![s] = o] \in [Sources -> Outcomes]
    BY DEF JobStates
  <2> QED
    BY <2>1 DEF Collected, JobStates
<1>2. Finished(j) \in JobStates
  BY DEF Finished, JobStates, LockValues
<1> QED
  BY <1>1, <1>2 DEF JobStates

LEMMA BudgetUpdate ==
  ASSUME NEW b \in Budgets
  PROVE  /\ [b EXCEPT !.toggles = @ + 1] \in Budgets
         /\ [b EXCEPT !.crashes = @ + 1] \in Budgets
         /\ [b EXCEPT !.aborts = @ + 1] \in Budgets
         /\ [b EXCEPT !.overruns = @ + 1] \in Budgets
         /\ \A d \in Days : [b EXCEPT !.raised = @ \cup {d}] \in Budgets
  BY DEF Budgets

LEMMA TakenJob ==
  ASSUME NEW d \in Days, NEW t \in LockValues, NEW S \in SUBSET Sources
  PROVE  [IdleJob EXCEPT !.pc = "collect", !.day = d, !.lease = t, !.todo = S]
           \in JobStates
  BY IdleTypes DEF JobStates

\* Every variable keeps its type.
THEOREM TypeCorrect == Spec => []TypeOK
<1>1. Init => TypeOK
  BY BoundsAssumption, IdleTypes, SevenStages, OutcomeFacts
     DEF Init, TypeOK, Days, LockValues, RunStatuses, Budgets
<1>2. TypeOK /\ [Next]_vars => TypeOK'
  <2> SUFFICES ASSUME TypeOK, [Next]_vars PROVE TypeOK'
    OBVIOUS
  <2> USE DEF TypeOK, store, env
  <2>1. ASSUME NEW c \in Callers, StartRead(c) PROVE TypeOK'
    BY <2>1 DEF StartRead, CallStates, LockValues
  <2>2. ASSUME NEW c \in Callers, StartInsert(c) PROVE TypeOK'
    <3>1. call[c] \in CallStates /\ NoToken \in LockValues
      BY DEF LockValues
    <3>2. call' \in [Callers -> CallStates]
      BY <2>2, <3>1, IdleTypes, CallUpdate DEF StartInsert
    <3>3. run' \in [Days -> RunStatuses]
      BY <2>2 DEF StartInsert, RunStatuses
    <3> QED
      BY <2>2, <3>2, <3>3 DEF StartInsert
  <2>3. ASSUME NEW c \in Callers, StartAcquire(c) PROVE TypeOK'
    <3>1. call[c] \in CallStates /\ call[c].day \in Days
      BY DEF CallStates
    <3>2. CASE lock[call[c].day] # NoToken /\ call' = [call EXCEPT ![c] = IdleCall]
      BY <2>3, <3>2, IdleTypes DEF StartAcquire
    <3>3. ASSUME NEW t \in Tokens, lock' = [lock EXCEPT ![call[c].day] = t],
                 call' = [call EXCEPT ![c] = [@ EXCEPT !.pc = "enqueue", !.lease = t]]
          PROVE TypeOK'
      <4>1. t \in LockValues
        BY DEF LockValues
      <4>2. call' \in [Callers -> CallStates] /\ lock' \in [Days -> LockValues]
        BY <3>1, <3>3, <4>1, CallUpdate
      <4> QED
        BY <2>3, <4>2 DEF StartAcquire
    <3> QED
      BY <2>3, <3>2, <3>3 DEF StartAcquire
  <2>4. ASSUME NEW c \in Callers, StartEnqueue(c) PROVE TypeOK'
    BY <2>4, IdleTypes DEF StartEnqueue, CallStates
  <2>5. ASSUME NEW c \in Callers, CallerCrash(c) PROVE TypeOK'
    BY <2>5, IdleTypes, BudgetUpdate DEF CallerCrash
  <2>6. ASSUME NEW w \in Workers, Take(w) PROVE TypeOK'
    <3>1. PICK m \in queue :
             job' = [job EXCEPT ![w] = [IdleJob EXCEPT !.pc = "collect",
                       !.day = m.day, !.lease = m.lease, !.todo = enabled]]
             /\ queue' = queue \ {m}
      BY <2>6 DEF Take
    <3>2. m.day \in Days /\ m.lease \in LockValues
      OBVIOUS
    <3>3. job' \in [Workers -> JobStates]
      BY <3>1, <3>2, TakenJob
    <3> QED
      BY <2>6, <3>1, <3>3 DEF Take
  <2>7. ASSUME NEW w \in Workers, NEW s \in Sources, Collect(w, s) PROVE TypeOK'
    <3>1. job[w] \in JobStates /\ job[w].day \in Days
      BY DEF JobStates
    <3>2. \A o \in Outcomes : Collected(job[w], s, o) \in JobStates
      <4>1. NoToken \in LockValues /\ 0 \in 0 .. Len(PostStages) - 1
        BY SevenStages DEF LockValues
      <4> QED
        BY <3>1, <4>1, JobUpdate
    <3>3. CASE job' = [job EXCEPT ![w] = Collected(@, s, Skipped)] /\ UNCHANGED ledger
      BY <2>7, <3>2, <3>3, OutcomeFacts DEF Collect
    <3>4. ASSUME NEW row \in LedgerRows,
                 ledger' = [ledger EXCEPT ![job[w].day][s] = row],
                 job' = [job EXCEPT ![w] = Collected(@, s, row)]
          PROVE TypeOK'
      <4>1. job' \in [Workers -> JobStates]
        BY <3>2, <3>4, OutcomeFacts
      <4>2. ledger' \in [Days -> [Sources -> LedgerRows \cup {NoRow}]]
        BY <3>1, <3>4
      <4> QED
        BY <2>7, <4>1, <4>2 DEF Collect
    <3>5. CASE job' = [job EXCEPT ![w] = IdleJob] /\ UNCHANGED ledger
      BY <2>7, <3>5, IdleTypes DEF Collect
    <3> QED
      BY <2>7, <3>3, <3>4, <3>5 DEF Collect
  <2>8. ASSUME NEW w \in Workers, Finalise(w) PROVE TypeOK'
    <3>1. job' \in [Workers -> JobStates]
      <4>1. [job[w] EXCEPT !.pc = "token"] \in JobStates
        BY DEF JobStates
      <4> QED
        BY <2>8, <4>1 DEF Finalise
    <3>2. run' \in [Days -> RunStatuses]
      BY <2>8, VerdictIsFinal DEF Finalise, RunStatuses
    <3> QED
      BY <2>8, <3>1, <3>2 DEF Finalise
  <2>9. ASSUME NEW w \in Workers, ReadToken(w) PROVE TypeOK'
    <3>1. job[w] \in JobStates /\ lock[job[w].day] \in LockValues
      BY DEF JobStates
    <3>2. job' \in [Workers -> JobStates]
      <4>1. Finished(job[w]) \in JobStates
        BY <3>1 DEF Finished, JobStates, LockValues
      <4>2. [job[w] EXCEPT !.pc = "release", !.seen = lock[job[w].day]] \in JobStates
        BY <3>1 DEF JobStates
      <4> QED
        BY <2>9, <4>1, <4>2 DEF ReadToken
    <3> QED
      BY <2>9, <3>2 DEF ReadToken
  <2>10. ASSUME NEW w \in Workers, Release(w) PROVE TypeOK'
    <3>1. job[w] \in JobStates /\ job[w].day \in Days
      BY DEF JobStates
    <3>2. Finished(job[w]) \in JobStates
      BY <3>1 DEF Finished, JobStates, LockValues
    <3>3. lock' \in [Days -> LockValues]
      BY <2>10, <3>1 DEF Release, LockValues
    <3> QED
      BY <2>10, <3>2, <3>3 DEF Release
  <2>11. ASSUME NEW w \in Workers, AfterRun(w) PROVE TypeOK'
    <3>1. job[w] \in JobStates /\ job[w].day \in Days
      BY DEF JobStates
    <3> DEFINE k == job[w].stage + 1
    <3>2. job' \in [Workers -> JobStates]
      <4> DEFINE last == IF Verdict(job[w].out) = "failed" THEN {1}
                         ELSE {Len(PostStages) - 1, Len(PostStages)}
                 next(n) == [job EXCEPT ![w] = IF k >= n THEN IdleJob
                                               ELSE [@ EXCEPT !.stage = k]]
      <4>1. PICK n \in 1 .. 7 : job' = next(n)
        <5>1. \E n \in last : job' = next(n)
          BY <2>11 DEF AfterRun
        <5>2. last \subseteq 1 .. 7
          BY SevenStages
        <5> QED
          BY <5>1, <5>2
      <4>2. CASE k >= n
        BY <4>1, <4>2, IdleTypes
      <4>3. CASE ~(k >= n)
        <5>1. k \in 0 .. 6
          BY <3>1, <4>3, SevenStages DEF JobStates
        <5>2. [job[w] EXCEPT !.stage = k] \in JobStates
          BY <3>1, <5>1, SevenStages DEF JobStates
        <5> QED
          BY <4>1, <4>3, <5>2
      <4> QED
        BY <4>2, <4>3
    <3>3. done' \in [Days -> [1 .. Len(PostStages) -> Nat]]
      BY <2>11, <3>1, SevenStages DEF AfterRun, JobStates
    <3> QED
      BY <2>11, <3>2, <3>3 DEF AfterRun
  <2>12. ASSUME NEW w \in Workers, Dies(w) PROVE TypeOK'
    <3>1. CASE WorkerCrash(w)
      BY <3>1, IdleTypes, BudgetUpdate DEF WorkerCrash
    <3>2. ASSUME NEW s \in Sources, CollectRaises(w, s) PROVE TypeOK'
      <4>1. job[w].day \in Days
        BY DEF JobStates
      <4>2. budget' \in Budgets
        BY <3>2, <4>1, BudgetUpdate DEF CollectRaises
      <4> QED
        BY <3>2, <4>2, IdleTypes DEF CollectRaises
    <3> QED
      BY <2>12, <3>1, <3>2 DEF Dies
  <2>13. ASSUME NEW d \in Days, LockExpire(d) PROVE TypeOK'
    BY <2>13, BudgetUpdate DEF LockExpire, LockValues
  <2>14. ASSUME NEW s \in Sources, ToggleSource(s) PROVE TypeOK'
    BY <2>14, BudgetUpdate DEF ToggleSource, Edit
  <2>15. CASE ToggleMonitor
    BY <2>15, BudgetUpdate DEF ToggleMonitor, Edit
  <2>16. CASE NextDay
    BY <2>16, BoundsAssumption DEF NextDay, Days
  <2>17. CASE UNCHANGED vars
    BY <2>17 DEF vars
  <2> QED
    BY <2>1, <2>2, <2>3, <2>4, <2>5, <2>6, <2>7, <2>8, <2>9, <2>10, <2>11,
       <2>12, <2>13, <2>14, <2>15, <2>16, <2>17
    DEF Next, StartStep, DispatchStep, Dies
<1> QED
  BY <1>1, <1>2, PTL DEF Spec

-----------------------------------------------------------------------------
(* The refinement: what a worker holds is in the ledger. *)

\* A run exists from the insert on, for everyone who works on it.
RunExists ==
  /\ \A c \in Callers : call[c].pc \in {"acquire", "enqueue"} => run[call[c].day] # "none"
  /\ \A m \in queue : run[m.day] # "none"
  /\ \A w \in Workers : job[w].pc # "idle" => run[job[w].day] # "none"

\* A worker's outcomes are ledger rows of its run, or skipped sources.
OutcomesRecorded ==
  \A w \in Workers : \A s \in Sources :
    job[w].out[s] \in {NoRow, Skipped, ledger[job[w].day][s]}

\* Nothing deletes a run, and nobody works on a run that does not exist.
LEMMA RunsExist == Spec => []RunExists
<1>1. Init => RunExists
  BY DEF Init, RunExists, IdleCall, IdleJob
<1>2. TypeOK /\ RunExists /\ [Next]_vars => RunExists'
  <2> SUFFICES ASSUME TypeOK, RunExists, [Next]_vars PROVE RunExists'
    OBVIOUS
  <2> USE DEF TypeOK, RunExists, store, env
  <2>1. ASSUME NEW c \in Callers, StartRead(c) PROVE RunExists'
    BY <2>1 DEF StartRead
  <2>2. ASSUME NEW c \in Callers, StartInsert(c) PROVE RunExists'
    <3>1. call[c] \in CallStates /\ call[c].day \in Days
      BY DEF CallStates
    <3>2. CASE run' = [run EXCEPT ![call[c].day] = "pending"]
               /\ call' = [call EXCEPT ![c] = [@ EXCEPT !.pc = "acquire"]]
      <4>1. \A d \in Days : run[d] # "none" => run'[d] # "none"
        BY <3>1, <3>2
      <4>2. \A k \in Callers : call'[k].day = call[k].day /\ call[k].day \in Days
        BY <3>1, <3>2 DEF CallStates
      <4>3. run'[call[c].day] # "none"
        BY <3>1, <3>2
      <4>4. \A k \in Callers : k # c => call'[k] = call[k]
        BY <3>2
      <4>5. \A m \in queue : m.day \in Days
        OBVIOUS
      <4>6. \A w \in Workers : job[w].day \in Days
        BY DEF JobStates
      <4> QED
        BY <2>2, <4>1, <4>2, <4>3, <4>4, <4>5, <4>6 DEF StartInsert
    <3>3. CASE call' = [call EXCEPT ![c] = IdleCall] /\ UNCHANGED run
      BY <2>2, <3>3 DEF StartInsert, IdleCall
    <3> QED
      BY <2>2, <3>2, <3>3 DEF StartInsert
  <2>3. ASSUME NEW c \in Callers, StartAcquire(c) PROVE RunExists'
    <3>1. CASE call' = [call EXCEPT ![c] = IdleCall]
      BY <2>3, <3>1 DEF StartAcquire, IdleCall
    <3>2. ASSUME NEW t \in Tokens,
                 call' = [call EXCEPT ![c] = [@ EXCEPT !.pc = "enqueue", !.lease = t]]
          PROVE RunExists'
      <4>1. call'[c].day = call[c].day
        BY <3>2 DEF CallStates
      <4> QED
        BY <2>3, <3>2, <4>1 DEF StartAcquire
    <3> QED
      BY <2>3, <3>1, <3>2 DEF StartAcquire
  <2>4. ASSUME NEW c \in Callers, StartEnqueue(c) PROVE RunExists'
    BY <2>4 DEF StartEnqueue, IdleCall
  <2>5. ASSUME NEW c \in Callers, CallerCrash(c) PROVE RunExists'
    BY <2>5 DEF CallerCrash, IdleCall
  <2>6. ASSUME NEW w \in Workers, Take(w) PROVE RunExists'
    <3>1. PICK m \in queue :
             job' = [job EXCEPT ![w] = [IdleJob EXCEPT !.pc = "collect",
                       !.day = m.day, !.lease = m.lease, !.todo = enabled]]
             /\ queue' = queue \ {m}
      BY <2>6 DEF Take
    <3>2. job'[w].day = m.day
      BY <3>1, IdleTypes DEF JobStates
    <3> QED
      BY <2>6, <3>1, <3>2 DEF Take
  <2>7. ASSUME NEW w \in Workers, NEW s \in Sources, Collect(w, s) PROVE RunExists'
    <3>1. \A o : Collected(job[w], s, o).day = job[w].day
      BY DEF Collected, JobStates
    <3>2. job'[w].pc # "idle" => job'[w].day = job[w].day
      <4>1. CASE job' = [job EXCEPT ![w] = IdleJob]
        BY <4>1 DEF IdleJob
      <4>2. ASSUME NEW o, job' = [job EXCEPT ![w] = Collected(@, s, o)]
            PROVE  job'[w].day = job[w].day
        BY <3>1, <4>2
      <4> QED
        BY <2>7, <4>1, <4>2 DEF Collect
    <3> QED
      BY <2>7, <3>2 DEF Collect
  <2>8. ASSUME NEW w \in Workers, Finalise(w) PROVE RunExists'
    <3>1. job'[w].day = job[w].day
      BY <2>8 DEF Finalise, JobStates
    <3>2. \A d \in Days : run[d] # "none" => run'[d] # "none"
      BY <2>8, VerdictIsFinal DEF Finalise, FinalStatuses
    <3>3. /\ \A c \in Callers : call[c].day \in Days
          /\ \A m \in queue : m.day \in Days
          /\ \A v \in Workers : job[v].day \in Days
      BY DEF CallStates, JobStates
    <3> QED
      BY <2>8, <3>1, <3>2, <3>3 DEF Finalise
  <2>9. ASSUME NEW w \in Workers, ReadToken(w) PROVE RunExists'
    <3>1. job'[w].day = job[w].day
      BY <2>9 DEF ReadToken, Finished, JobStates
    <3> QED
      BY <2>9, <3>1 DEF ReadToken
  <2>10. ASSUME NEW w \in Workers, Release(w) PROVE RunExists'
    <3>1. job'[w].day = job[w].day
      BY <2>10 DEF Release, Finished, JobStates
    <3> QED
      BY <2>10, <3>1 DEF Release
  <2>11. ASSUME NEW w \in Workers, AfterRun(w) PROVE RunExists'
    <3>1. job'[w].pc # "idle" => job'[w].day = job[w].day
      BY <2>11 DEF AfterRun, IdleJob, JobStates
    <3> QED
      BY <2>11, <3>1 DEF AfterRun
  <2>12. ASSUME NEW w \in Workers, Dies(w) PROVE RunExists'
    BY <2>12 DEF Dies, WorkerCrash, CollectRaises, IdleJob
  <2>13. ASSUME \/ \E d \in Days : LockExpire(d)
                \/ \E s \in Sources : ToggleSource(s)
                \/ ToggleMonitor \/ NextDay \/ UNCHANGED vars
         PROVE RunExists'
    BY <2>13 DEF LockExpire, ToggleSource, ToggleMonitor, Edit, NextDay, vars
  <2> QED
    BY <2>1, <2>2, <2>3, <2>4, <2>5, <2>6, <2>7, <2>8, <2>9, <2>10, <2>11,
       <2>12, <2>13
    DEF Next, StartStep, DispatchStep, Dies
<1> QED
  BY <1>1, <1>2, TypeCorrect, PTL DEF Spec

\* A ledger row, once written, is never changed, and a job that records an
\* outcome other than a skip has written it to the ledger.
LEMMA OutcomesAreRecorded == Spec => []OutcomesRecorded
<1>1. Init => OutcomesRecorded
  BY DEF Init, OutcomesRecorded, IdleJob
<1>2. TypeOK /\ OutcomesRecorded /\ [Next]_vars => OutcomesRecorded'
  <2> SUFFICES ASSUME TypeOK, OutcomesRecorded, [Next]_vars
               PROVE  OutcomesRecorded'
    OBVIOUS
  <2> USE DEF TypeOK, OutcomesRecorded, store, env
  \* A worker that starts over has no outcomes.
  <2>1. ASSUME NEW w \in Workers, NEW s \in Sources,
               job'[w].out = IdleJob.out
        PROVE  job'[w].out[s] = NoRow
    BY <2>1 DEF IdleJob
  <2>2. ASSUME NEW w \in Workers, Take(w) PROVE OutcomesRecorded'
    <3>1. job'[w].out = IdleJob.out /\ \A v \in Workers : v # w => job'[v] = job[v]
      BY <2>2, IdleTypes DEF Take, JobStates
    <3> QED
      BY <2>1, <2>2, <3>1 DEF Take
  <2>3. ASSUME NEW w \in Workers, NEW s \in Sources, Collect(w, s)
        PROVE  OutcomesRecorded'
    <3>1. /\ job[w] \in JobStates /\ job[w].day \in Days
          /\ job[w].out \in [Sources -> Outcomes]
      BY DEF JobStates
    <3>2. ASSUME NEW o, job' = [job EXCEPT ![w] = Collected(@, s, o)]
          PROVE  /\ job'[w].day = job[w].day
                 /\ job'[w].out = [job[w].out EXCEPT ![s] = o]
                 /\ \A v \in Workers : v # w => job'[v] = job[v]
      BY <3>1, <3>2 DEF Collected, JobStates
    <3>3. CASE job' = [job EXCEPT ![w] = Collected(@, s, Skipped)] /\ UNCHANGED ledger
      <4>1. job'[w].out = [job[w].out EXCEPT ![s] = Skipped]
        BY <3>2, <3>3
      <4>2. \A r \in Sources : job'[w].out[r] \in {job[w].out[r], Skipped}
        BY <3>1, <4>1
      <4> QED
        BY <3>2, <3>3, <4>2
    <3>4. ASSUME NEW row \in LedgerRows, ledger[job[w].day][s] = NoRow,
                 ledger' = [ledger EXCEPT ![job[w].day][s] = row],
                 job' = [job EXCEPT ![w] = Collected(@, s, row)]
          PROVE OutcomesRecorded'
      <4>1. \A d \in Days, r \in Sources :
              ledger[d][r] # NoRow => ledger'[d][r] = ledger[d][r]
        BY <3>1, <3>4
      <4>2. ledger'[job[w].day][s] = row
        BY <3>1, <3>4
      <4>3. job'[w].out[s] = row
            /\ \A r \in Sources : r # s => job'[w].out[r] = job[w].out[r]
        <5>1. job'[w].out = [job[w].out EXCEPT ![s] = row]
          BY <3>2, <3>4
        <5> QED
          BY <3>1, <5>1
      <4>4. \A v \in Workers : job[v].day \in Days
        BY DEF JobStates
      <4>5. ASSUME NEW v \in Workers, NEW r \in Sources
            PROVE  job'[v].out[r] \in {NoRow, Skipped, ledger'[job'[v].day][r]}
        <5>1. CASE v = w /\ r = s
          BY <3>2, <3>4, <4>2, <4>3, <5>1
        <5>2. CASE v # w \/ r # s
          <6>1. job'[v].out[r] = job[v].out[r] /\ job'[v].day = job[v].day
            BY <3>2, <3>4, <4>3, <5>2
          <6> QED
            BY <4>1, <4>4, <6>1
        <5> QED
          BY <5>1, <5>2
      <4> QED
        BY <4>5
    <3>5. CASE job' = [job EXCEPT ![w] = IdleJob] /\ UNCHANGED ledger
      BY <2>1, <3>5
    <3> QED
      BY <2>3, <3>3, <3>4, <3>5 DEF Collect
  \* The steps that leave the ledger, and every job's day and outcomes, or
  \* return a worker to idle.
  <2>4. ASSUME NEW w \in Workers,
               Finalise(w) \/ ReadToken(w) \/ Release(w) \/ AfterRun(w) \/ Dies(w)
        PROVE  OutcomesRecorded'
    <3>1. /\ UNCHANGED ledger
          /\ \A v \in Workers : v # w => job'[v] = job[v]
      BY <2>4 DEF Finalise, ReadToken, Release, AfterRun, Dies, WorkerCrash, CollectRaises
    <3>2. \/ job'[w] = IdleJob
          \/ job'[w].day = job[w].day /\ job'[w].out = job[w].out
      <4>2. CASE Finalise(w)
        BY <4>2 DEF Finalise, JobStates
      <4>3. CASE ReadToken(w)
        BY <4>3 DEF ReadToken, Finished, JobStates
      <4>4. CASE Release(w)
        BY <4>4 DEF Release, Finished, JobStates
      <4>5. CASE AfterRun(w)
        BY <4>5 DEF AfterRun, JobStates
      <4>6. CASE Dies(w)
        BY <4>6 DEF Dies, WorkerCrash, CollectRaises
      <4> QED
        BY <2>4, <4>2, <4>3, <4>4, <4>5, <4>6
    <3>3. CASE job'[w] = IdleJob
      BY <2>1, <3>1, <3>3
    <3>4. CASE job'[w].day = job[w].day /\ job'[w].out = job[w].out
      <4>1. \A v \in Workers : job'[v].day = job[v].day /\ job'[v].out = job[v].out
        BY <3>1, <3>4
      <4> QED
        BY <3>1, <4>1
    <3> QED
      BY <3>2, <3>3, <3>4
  <2>5. ASSUME \/ \E c \in Callers : StartRead(c) \/ StartStep(c) \/ CallerCrash(c)
               \/ \E d \in Days : LockExpire(d)
               \/ \E s \in Sources : ToggleSource(s)
               \/ ToggleMonitor \/ NextDay \/ UNCHANGED vars
        PROVE OutcomesRecorded'
    BY <2>5 DEF StartRead, StartStep, StartInsert, StartAcquire, StartEnqueue,
      CallerCrash, LockExpire, ToggleSource, ToggleMonitor, Edit, NextDay, vars
  <2> QED
    BY <2>2, <2>3, <2>4, <2>5 DEF Next, DispatchStep, Dies
<1> QED
  BY <1>1, <1>2, TypeCorrect, PTL DEF Spec

\* The instance's copies of RunVerdict's operators are the same operators.
LEMMA SameVerdicts ==
  /\ Ledger!NoRow = NoRow
  /\ Ledger!Skipped = Skipped
  /\ Ledger!Days = Days
  /\ \A out : Ledger!Verdict(out) = Verdict(out)
  BY DEF Ledger!NoRow, NoRow, Ledger!Skipped, Skipped, Ledger!Days, Days,
    Ledger!Verdict, Verdict, Ledger!Visited, Visited, Ledger!Classify, Classify

LEMMA LedgerSteps ==
  ASSUME NEW d \in Days
  PROVE  /\ Ledger!Open(d) => Ledger!Next
         /\ \A s \in Sources, row \in LedgerRows : Ledger!Record(d, s, row) => Ledger!Next
         /\ \A out \in [Sources -> Outcomes] : Ledger!Conclude(d, out) => Ledger!Next
  BY Zenon DEF Ledger!Next, Ledger!Days, Days, Ledger!LedgerRows, LedgerRows,
     Ledger!Outcomes, Outcomes, Ledger!Results, Results

\* Runs implements RunLedger: the insert opens a run, a collection that
\* writes its row records it, finalise concludes, and every other step, the
\* crashes and expiries included, leaves the runs and ledgers alone.
THEOREM Refinement == Spec => ImplementsLedger
<1>1. Init => Ledger!Init
  BY SameVerdicts DEF Init, Ledger!Init
<1>2. TypeOK /\ RunExists /\ OutcomesRecorded /\ [Next]_vars
        => [Ledger!Next]_(Ledger!vars)
  <2> SUFFICES ASSUME TypeOK, RunExists, OutcomesRecorded, [Next]_vars
               PROVE  Ledger!Next \/ UNCHANGED <<run, ledger>>
    BY DEF Ledger!vars
  <2> USE DEF TypeOK, RunExists, OutcomesRecorded, store, env
  <2>2. ASSUME NEW c \in Callers, StartInsert(c)
        PROVE  Ledger!Next \/ UNCHANGED <<run, ledger>>
    <3>1. call[c].day \in Days
      BY DEF CallStates
    <3>2. Ledger!Open(call[c].day) \/ UNCHANGED <<run, ledger>>
      BY <2>2 DEF StartInsert, Ledger!Open
    <3> QED
      BY <3>1, <3>2, LedgerSteps
  <2>3. ASSUME NEW w \in Workers, NEW s \in Sources, Collect(w, s)
        PROVE  Ledger!Next \/ UNCHANGED <<run, ledger>>
    <3>1. job[w].day \in Days /\ run[job[w].day] # "none"
      BY <2>3 DEF JobStates, Collect
    <3>2. CASE UNCHANGED ledger
      BY <2>3, <3>2 DEF Collect
    <3>3. ASSUME NEW row \in LedgerRows, ledger[job[w].day][s] = NoRow,
                 ledger' = [ledger EXCEPT ![job[w].day][s] = row]
          PROVE  Ledger!Next
      <4>1. Ledger!Record(job[w].day, s, row)
        BY <2>3, <3>1, <3>3, SameVerdicts DEF Ledger!Record, Collect
      <4> QED
        BY <3>1, <4>1, LedgerSteps
    <3> QED
      BY <2>3, <3>2, <3>3 DEF Collect
  <2>4. ASSUME NEW w \in Workers, Finalise(w) PROVE Ledger!Next
    <3>1. /\ job[w].day \in Days /\ run[job[w].day] # "none"
          /\ job[w].out \in [Sources -> Outcomes]
      BY <2>4 DEF JobStates, Finalise
    <3>2. Ledger!Conclude(job[w].day, job[w].out)
      BY <2>4, <3>1, SameVerdicts DEF Finalise, Ledger!Conclude
    <3> QED
      BY <3>1, <3>2, LedgerSteps
  <2>5. ASSUME \/ \E c \in Callers : StartRead(c) \/ StartAcquire(c)
                                     \/ StartEnqueue(c) \/ CallerCrash(c)
               \/ \E w \in Workers : Take(w) \/ ReadToken(w) \/ Release(w)
                                     \/ AfterRun(w) \/ Dies(w)
               \/ \E d \in Days : LockExpire(d)
               \/ \E s \in Sources : ToggleSource(s)
               \/ ToggleMonitor \/ NextDay \/ UNCHANGED vars
        PROVE UNCHANGED <<run, ledger>>
    BY <2>5 DEF StartRead, StartAcquire, StartEnqueue, CallerCrash, Take,
      ReadToken, Release, AfterRun, Dies, WorkerCrash, CollectRaises, LockExpire, ToggleSource,
      ToggleMonitor, Edit, NextDay, vars
  <2> QED
    BY <2>2, <2>3, <2>4, <2>5 DEF Next, StartStep, DispatchStep, Dies
<1> QED
  BY <1>1, <1>2, TypeCorrect, RunsExist, OutcomesAreRecorded, PTL
     DEF Spec, ImplementsLedger, Ledger!Spec

(* Exclusion: leases of live dispatches. *)
LiveCall(c) == call[c].pc = "enqueue"
LiveJob(w) == job[w].pc \in {"collect", "token", "release"}

\* No two live dispatches have the same lease.
LeasesDiffer ==
  /\ \A c \in Callers : LiveCall(c) =>
       /\ call[c].lease # NoToken
       /\ \A k \in Callers : LiveCall(k) /\ k # c => call[k].lease # call[c].lease
       /\ \A m \in queue : m.lease # call[c].lease
       /\ \A w \in Workers : LiveJob(w) => job[w].lease # call[c].lease
  /\ \A m \in queue :
       /\ m.lease # NoToken
       /\ \A n \in queue : n # m => n.lease # m.lease
       /\ \A w \in Workers : LiveJob(w) => job[w].lease # m.lease
  /\ \A w \in Workers : LiveJob(w) =>
       /\ job[w].lease # NoToken
       /\ \A v \in Workers : LiveJob(v) /\ v # w => job[v].lease # job[w].lease

\* Without an overrun, the lock of a run is held under the lease of each of
\* its live dispatches (so there is at most one).
LeaseIsLock ==
  budget.overruns = 0 =>
    /\ \A c \in Callers : LiveCall(c) => lock[call[c].day] = call[c].lease
    /\ \A m \in queue : lock[m.day] = m.lease
    /\ \A w \in Workers : LiveJob(w) => lock[job[w].day] = job[w].lease

\* What a step does that makes no dispatch live and changes no lease.
NoneGoesLive ==
  /\ \A c \in Callers : LiveCall(c)' =>
       LiveCall(c) /\ call'[c].lease = call[c].lease /\ call'[c].day = call[c].day
  /\ queue' \subseteq queue
  /\ \A w \in Workers : LiveJob(w)' =>
       LiveJob(w) /\ job'[w].lease = job[w].lease /\ job'[w].day = job[w].day

LEMMA QuietStep ==
  ASSUME LeasesDiffer, LeaseIsLock, NoneGoesLive
  PROVE  /\ LeasesDiffer'
         /\ lock' = lock /\ budget'.overruns = budget.overruns => LeaseIsLock'
<1> USE DEF NoneGoesLive
<1>1. LeasesDiffer'
  BY DEF LeasesDiffer
<1>2. lock' = lock /\ budget'.overruns = budget.overruns => LeaseIsLock'
  BY DEF LeaseIsLock
<1> QED
  BY <1>1, <1>2

\* Each lease is held by one live dispatch, and is the token in its run's lock.
LEMMA LeasesHeld == Spec => [](LeasesDiffer /\ LeaseIsLock)
<1>1. Init => LeasesDiffer /\ LeaseIsLock
  BY DEF Init, LeasesDiffer, LeaseIsLock, LiveCall, LiveJob, IdleCall, IdleJob
<1>2. TypeOK /\ LeasesDiffer /\ LeaseIsLock /\ [Next]_vars
        => LeasesDiffer' /\ LeaseIsLock'
  <2> SUFFICES ASSUME TypeOK, LeasesDiffer, LeaseIsLock, [Next]_vars
               PROVE  LeasesDiffer' /\ LeaseIsLock'
    OBVIOUS
  <2> USE DEF store, env
  <2>1. ASSUME NEW c \in Callers,
               call' = [call EXCEPT ![c] = IdleCall],
               UNCHANGED <<queue, job>>
        PROVE  NoneGoesLive
    BY <2>1 DEF NoneGoesLive, LiveCall, LiveJob, IdleCall, TypeOK
  <2>2. ASSUME NEW w \in Workers, UNCHANGED <<call, queue>>, NEW j,
               job' = [job EXCEPT ![w] = j],
               \/ j.pc \notin {"collect", "token", "release"}
               \/ LiveJob(w) /\ j.lease = job[w].lease /\ j.day = job[w].day
        PROVE  NoneGoesLive
    BY <2>2 DEF NoneGoesLive, LiveCall, LiveJob, TypeOK
  <2>3. ASSUME UNCHANGED <<call, queue, job>> PROVE NoneGoesLive
    BY <2>3 DEF NoneGoesLive, LiveCall, LiveJob
  \* Steps that start nothing and leave the lock alone.
  <2>4. ASSUME NEW c \in Callers, StartRead(c) PROVE LeasesDiffer' /\ LeaseIsLock'
    <3>1. /\ call'[c].pc \in {"insert", "acquire"}
          /\ \A k \in Callers : k # c => call'[k] = call[k]
          /\ UNCHANGED <<lock, queue, job, budget>>
      BY <2>4 DEF StartRead, TypeOK
    <3>2. NoneGoesLive
      BY <3>1 DEF NoneGoesLive, LiveCall, LiveJob
    <3> QED
      BY <3>1, <3>2, QuietStep
  <2>5. ASSUME NEW c \in Callers, StartInsert(c) PROVE LeasesDiffer' /\ LeaseIsLock'
    <3>1. /\ call'[c].pc # "enqueue"
          /\ \A k \in Callers : k # c => call'[k] = call[k]
          /\ UNCHANGED <<lock, queue, job, budget>>
      BY <2>5 DEF StartInsert, TypeOK, CallStates, IdleCall
    <3>2. NoneGoesLive
      BY <3>1 DEF NoneGoesLive, LiveCall, LiveJob
    <3> QED
      BY <3>1, <3>2, QuietStep
  <2>6. ASSUME NEW c \in Callers, CallerCrash(c) PROVE LeasesDiffer' /\ LeaseIsLock'
    <3>1. NoneGoesLive
      BY <2>1, <2>6 DEF CallerCrash
    <3>2. lock' = lock /\ budget'.overruns = budget.overruns
      BY <2>6 DEF CallerCrash, TypeOK, Budgets
    <3> QED
      BY <3>1, <3>2, QuietStep
  <2>7. ASSUME NEW w \in Workers, NEW s \in Sources, Collect(w, s)
        PROVE  LeasesDiffer' /\ LeaseIsLock'
    <3>1. LiveJob(w) /\ job[w] \in JobStates
      BY <2>7 DEF Collect, LiveJob, TypeOK
    <3>2. \A o : /\ Collected(job[w], s, o).lease = job[w].lease
                 /\ Collected(job[w], s, o).day = job[w].day
      BY <3>1 DEF Collected, JobStates
    <3>3. IdleJob.pc = "idle"
      BY DEF IdleJob
    <3>4. \E j : /\ job' = [job EXCEPT ![w] = j]
                 /\ \/ j.pc = "idle"
                    \/ j.lease = job[w].lease /\ j.day = job[w].day
      <4>1. CASE job' = [job EXCEPT ![w] = IdleJob]
        BY <3>3, <4>1
      <4>2. ASSUME NEW o, job' = [job EXCEPT ![w] = Collected(@, s, o)]
            PROVE  \E j : /\ job' = [job EXCEPT ![w] = j]
                          /\ j.lease = job[w].lease /\ j.day = job[w].day
        BY <3>2, <4>2
      <4> QED
        BY <2>7, <4>1, <4>2 DEF Collect
    <3>5. NoneGoesLive
      BY <2>2, <2>7, <3>1, <3>4 DEF Collect
    <3>6. UNCHANGED <<lock, budget>>
      BY <2>7 DEF Collect
    <3> QED
      BY <3>5, <3>6, QuietStep
  <2>8. ASSUME NEW w \in Workers, Finalise(w) PROVE LeasesDiffer' /\ LeaseIsLock'
    <3>1. LiveJob(w) /\ job[w] \in JobStates
      BY <2>8 DEF Finalise, LiveJob, TypeOK
    <3>2. /\ [job[w] EXCEPT !.pc = "token"].lease = job[w].lease
          /\ [job[w] EXCEPT !.pc = "token"].day = job[w].day
      BY <3>1 DEF JobStates
    <3>3. NoneGoesLive
      BY <2>2, <2>8, <3>1, <3>2 DEF Finalise
    <3> QED
      BY <2>8, <3>3, QuietStep DEF Finalise
  <2>9. ASSUME NEW w \in Workers, ReadToken(w) PROVE LeasesDiffer' /\ LeaseIsLock'
    <3> DEFINE held == lock[job[w].day]
               rel  == [job[w] EXCEPT !.pc = "release", !.seen = held]
    <3>1. LiveJob(w) /\ job[w] \in JobStates
      BY <2>9 DEF ReadToken, LiveJob, TypeOK
    <3>2. Finished(job[w]).pc = "after"
      BY <3>1 DEF JobStates, Finished
    <3>3. rel.lease = job[w].lease /\ rel.day = job[w].day
      BY <3>1 DEF JobStates
    <3>4. job' = [job EXCEPT ![w] = Finished(job[w])] \/ job' = [job EXCEPT ![w] = rel]
      BY <2>9 DEF ReadToken
    <3>5. UNCHANGED <<lock, budget, call, queue>>
      BY <2>9 DEF ReadToken
    <3> HIDE DEF rel
    <3>6. NoneGoesLive
      BY <2>2, <3>1, <3>2, <3>3, <3>4, <3>5
    <3> QED
      BY <3>5, <3>6, QuietStep
  <2>10. ASSUME NEW w \in Workers, AfterRun(w) PROVE LeasesDiffer' /\ LeaseIsLock'
    <3>1. job'[w].pc \in {"after", "idle"} /\ \A v \in Workers : v # w => job'[v] = job[v]
      BY <2>10 DEF AfterRun, TypeOK, JobStates, IdleJob
    <3>2. UNCHANGED <<lock, budget, call, queue>>
      BY <2>10 DEF AfterRun
    <3>3. NoneGoesLive
      BY <3>1, <3>2 DEF NoneGoesLive, LiveCall, LiveJob
    <3> QED
      BY <3>2, <3>3, QuietStep
  <2>11. ASSUME NEW w \in Workers, Dies(w) PROVE LeasesDiffer' /\ LeaseIsLock'
    <3>1. IdleJob.pc = "idle"
      BY DEF IdleJob
    <3>2. NoneGoesLive
      BY <2>2, <2>11, <3>1 DEF Dies, WorkerCrash, CollectRaises
    <3>3. lock' = lock /\ budget'.overruns = budget.overruns
      BY <2>11 DEF Dies, WorkerCrash, CollectRaises, TypeOK, Budgets
    <3> QED
      BY <3>2, <3>3, QuietStep
  <2>12. ASSUME (\E s \in Sources : ToggleSource(s)) \/ ToggleMonitor \/ NextDay
                \/ UNCHANGED vars
         PROVE  LeasesDiffer' /\ LeaseIsLock'
    <3>1. NoneGoesLive
      BY <2>3, <2>12 DEF ToggleSource, ToggleMonitor, Edit, NextDay, vars
    <3>2. lock' = lock /\ budget'.overruns = budget.overruns
      BY <2>12 DEF ToggleSource, ToggleMonitor, Edit, NextDay, vars, TypeOK, Budgets
    <3> QED
      BY <3>1, <3>2, QuietStep
  \* The steps that make a dispatch live, hand it on, or change the lock.
  <2>13. ASSUME NEW c \in Callers, StartAcquire(c) PROVE LeasesDiffer' /\ LeaseIsLock'
    <3> DEFINE d == call[c].day
    <3>1. call[c].pc = "acquire" /\ d \in Days /\ UNCHANGED <<queue, job, budget>>
      BY <2>13 DEF StartAcquire, TypeOK, CallStates
    <3>2. CASE call' = [call EXCEPT ![c] = IdleCall] /\ UNCHANGED lock
      BY <2>1, <3>1, <3>2, QuietStep
    <3>3. ASSUME NEW t \in Tokens, Fresh(t), lock[d] = NoToken,
                 lock' = [lock EXCEPT ![d] = t],
                 call' = [call EXCEPT ![c] = [@ EXCEPT !.pc = "enqueue", !.lease = t]]
          PROVE  LeasesDiffer' /\ LeaseIsLock'
      <4>1. /\ call'[c].lease = t /\ call'[c].day = d
            /\ \A k \in Callers : k # c => call'[k] = call[k]
        BY <3>3 DEF TypeOK, CallStates
      <4>2. t # NoToken
        BY TokenAssumption
      <4>3. /\ \A k \in Callers : call[k].lease # t
            /\ \A m \in queue : m.lease # t
            /\ \A w \in Workers : job[w].lease # t
        BY <3>3 DEF Fresh
      <4>4. LeasesDiffer'
        BY <3>1, <4>1, <4>2, <4>3 DEF LeasesDiffer, LiveCall, LiveJob
      <4>5. lock'[d] = t /\ \A e \in Days : lock[e] # NoToken => lock'[e] = lock[e]
        BY <3>1, <3>3 DEF TypeOK
      <4>6. /\ \A k \in Callers : call[k].day \in Days
            /\ \A m \in queue : m.day \in Days
            /\ \A w \in Workers : job[w].day \in Days
        BY DEF TypeOK, CallStates, JobStates
      <4>7. LeaseIsLock'
        BY <3>1, <4>1, <4>5, <4>6 DEF LeaseIsLock, LeasesDiffer, LiveCall, LiveJob
      <4> QED
        BY <4>4, <4>7
    <3> QED
      BY <2>13, <3>2, <3>3 DEF StartAcquire
  <2>14. ASSUME NEW c \in Callers, StartEnqueue(c) PROVE LeasesDiffer' /\ LeaseIsLock'
    <3> DEFINE m == [day |-> call[c].day, lease |-> call[c].lease]
    <3>1. /\ LiveCall(c) /\ queue' = queue \cup {m}
          /\ call'[c].pc = "idle" /\ \A k \in Callers : k # c => call'[k] = call[k]
          /\ UNCHANGED <<lock, job, budget>>
      BY <2>14 DEF StartEnqueue, LiveCall, TypeOK, IdleCall
    <3>2. m.lease = call[c].lease /\ m.day = call[c].day
      OBVIOUS
    <3> HIDE DEF m
    <3>3. LeasesDiffer'
      <4>1. \A k \in Callers : LiveCall(k)' => k # c /\ LiveCall(k) /\ call'[k] = call[k]
        BY <3>1 DEF LiveCall
      <4>2. \A w \in Workers : LiveJob(w)' => LiveJob(w) /\ job'[w] = job[w]
        BY <3>1 DEF LiveJob
      <4>3. \A n \in queue' : n \in queue \/ n = m
        BY <3>1
      <4> QED
        BY <3>1, <3>2, <4>1, <4>2, <4>3 DEF LeasesDiffer
    <3>4. LeaseIsLock'
      BY <3>1, <3>2 DEF LeaseIsLock, LiveCall, LiveJob
    <3> QED
      BY <3>3, <3>4
  <2>15. ASSUME NEW w \in Workers, Take(w) PROVE LeasesDiffer' /\ LeaseIsLock'
    <3>1. PICK m \in queue :
             job' = [job EXCEPT ![w] = [IdleJob EXCEPT !.pc = "collect",
                       !.day = m.day, !.lease = m.lease, !.todo = enabled]]
             /\ queue' = queue \ {m}
      BY <2>15 DEF Take
    <3>2. /\ job'[w].lease = m.lease /\ job'[w].day = m.day
          /\ \A v \in Workers : v # w => job'[v] = job[v]
      BY <3>1, IdleTypes DEF TypeOK, JobStates
    <3>3. UNCHANGED <<call, lock, budget>>
      BY <2>15 DEF Take
    <3>4. LeasesDiffer'
      BY <3>1, <3>2, <3>3 DEF LeasesDiffer, LiveCall, LiveJob
    <3>5. LeaseIsLock'
      BY <3>1, <3>2, <3>3 DEF LeaseIsLock, LiveCall, LiveJob
    <3> QED
      BY <3>4, <3>5
  <2>16. ASSUME NEW w \in Workers, Release(w) PROVE LeasesDiffer' /\ LeaseIsLock'
    <3> DEFINE d == job[w].day
    <3>1. /\ LiveJob(w) /\ job[w] \in JobStates /\ d \in Days
          /\ UNCHANGED <<queue, call, budget>>
          /\ job' = [job EXCEPT ![w] = Finished(job[w])]
          /\ \A e \in Days : e # d => lock'[e] = lock[e]
      BY <2>16 DEF Release, LiveJob, TypeOK, JobStates
    <3>2. Finished(job[w]).pc = "after"
      BY <3>1 DEF Finished, JobStates
    <3>3. NoneGoesLive /\ ~LiveJob(w)'
      BY <2>2, <3>1, <3>2 DEF LiveJob, TypeOK
    <3>4. LeasesDiffer'
      BY <3>3, QuietStep
    <3>5. LeaseIsLock'
      <4>1. /\ \A k \in Callers : call[k].day \in Days
            /\ \A m \in queue : m.day \in Days
            /\ \A v \in Workers : job[v].day \in Days
        BY DEF TypeOK, CallStates, JobStates
      <4>2. budget.overruns = 0 => lock[d] = job[w].lease
        BY <3>1 DEF LeaseIsLock
      <4>3. ASSUME budget.overruns = 0, NEW k \in Callers, LiveCall(k)'
            PROVE  lock'[call'[k].day] = call'[k].lease
        BY <3>1, <4>1, <4>2, <4>3 DEF LeaseIsLock, LeasesDiffer, LiveCall
      <4>4. ASSUME budget.overruns = 0, NEW m \in queue'
            PROVE  lock'[m.day] = m.lease
        BY <3>1, <4>1, <4>2, <4>4 DEF LeaseIsLock, LeasesDiffer
      <4>5. ASSUME budget.overruns = 0, NEW v \in Workers, LiveJob(v)'
            PROVE  lock'[job'[v].day] = job'[v].lease
        BY <3>1, <3>3, <4>1, <4>2, <4>5 DEF LeaseIsLock, LeasesDiffer, NoneGoesLive
      <4> QED
        BY <3>1, <4>3, <4>4, <4>5 DEF LeaseIsLock
    <3> QED
      BY <3>4, <3>5
  <2>17. ASSUME NEW d \in Days, LockExpire(d) PROVE LeasesDiffer' /\ LeaseIsLock'
    <3>1. UNCHANGED <<queue, call, job>> /\ lock' = [lock EXCEPT ![d] = NoToken]
      BY <2>17 DEF LockExpire
    <3>2. LeasesDiffer'
      BY <2>3, <3>1, QuietStep
    <3>3. CASE lock[d] \notin Live(d) /\ UNCHANGED budget
      <4>1. /\ \A k \in Callers : LiveCall(k) /\ call[k].day = d => call[k].lease \in Live(d)
            /\ \A m \in queue : m.day = d => m.lease \in Live(d)
            /\ \A v \in Workers : LiveJob(v) /\ job[v].day = d => job[v].lease \in Live(d)
        BY DEF Live, LiveCall, LiveJob
      <4>2. \A e \in Days : e # d => lock'[e] = lock[e]
        BY <3>1
      <4>3. /\ \A k \in Callers : call[k].day \in Days
            /\ \A m \in queue : m.day \in Days
            /\ \A v \in Workers : job[v].day \in Days
        BY DEF TypeOK, CallStates, JobStates
      <4> QED
        BY <3>1, <3>2, <3>3, <4>1, <4>2, <4>3 DEF LeaseIsLock, LiveCall, LiveJob
    <3>4. CASE budget' = [budget EXCEPT !.overruns = @ + 1]
      <4>1. budget'.overruns # 0
        BY <3>4 DEF TypeOK, Budgets
      <4> QED
        BY <3>2, <4>1 DEF LeaseIsLock
    <3> QED
      BY <2>17, <3>3, <3>4 DEF LockExpire
  <2> QED
    BY <2>4, <2>5, <2>6, <2>7, <2>8, <2>9, <2>10, <2>11, <2>12, <2>13, <2>14,
       <2>15, <2>16, <2>17
    DEF Next, StartStep, DispatchStep, Dies
<1> QED
  BY <1>1, <1>2, TypeCorrect, PTL DEF Spec

\* No two dispatches of one run are in flight at once while no collection
\* outlasts the lock's TTL, whatever crashes, expires or starts late.
THEOREM Exclusion == Spec => []ExclusiveDispatch
<1>1. LeasesDiffer /\ LeaseIsLock => ExclusiveDispatch
  BY DEF LeaseIsLock, ExclusiveDispatch, Live, LiveCall, LiveJob
<1> QED
  BY <1>1, LeasesHeld, PTL

-----------------------------------------------------------------------------

(* Verdicts, while the sources are as they were at the start. *)
EditFree == budget.toggles = 0

\* A dispatch's sources are the enabled ones, those with an outcome and those
\* to come; nothing is skipped, and other sources have no ledger row.
SourcesCovered ==
  EditFree =>
    /\ queue # {} => enabled # {}
    /\ \A c \in Callers : call[c].pc # "idle" => enabled # {}
    /\ \A w \in Workers : job[w].pc # "idle" =>
         /\ enabled # {}
         /\ enabled = job[w].todo \cup {s \in Sources : job[w].out[s] # NoRow}
         /\ \A s \in Sources : job[w].out[s] # Skipped
    /\ \A d \in Days : \A s \in Sources \ enabled : ledger[d][s] = NoRow

\* A run with a verdict has a row for every enabled source, so that the next
\* dispatch dies on its first source, and the verdict is that of the rows.
VerdictSettled ==
  EditFree =>
    \A d \in Days : run[d] \in FinalStatuses =>
      /\ \A s \in enabled : ledger[d][s] # NoRow
      /\ run[d] = Verdict(ledger[d])

\* Without an edit, the step leaves the enabled sources as they are.
LEMMA NoEdit ==
  TypeOK /\ [Next]_vars /\ EditFree' => EditFree /\ enabled' = enabled
<1> SUFFICES ASSUME TypeOK, [Next]_vars, EditFree' PROVE EditFree /\ enabled' = enabled
  OBVIOUS
<1>1. budget \in Budgets /\ (Edit => budget'.toggles = budget.toggles + 1)
  BY DEF Edit, TypeOK, Budgets
<1>2. ~Edit
  BY <1>1 DEF EditFree, Budgets
<1>3. ASSUME UNCHANGED enabled, budget'.toggles = budget.toggles
      PROVE  EditFree /\ enabled' = enabled
  BY <1>3 DEF EditFree
<1> USE DEF store, env
<1>4. ASSUME NEW c \in Callers, StartRead(c) \/ StartStep(c)
      PROVE  UNCHANGED <<enabled, budget>>
  BY <1>4 DEF StartRead, StartStep, StartInsert, StartAcquire, StartEnqueue
<1>5. ASSUME NEW w \in Workers, Take(w) \/ DispatchStep(w), ~Dies(w)
      PROVE  UNCHANGED <<enabled, budget>>
  BY <1>5 DEF Take, DispatchStep, Collect, Finalise, ReadToken, Release, AfterRun, Dies
<1>6. ASSUME \/ \E c \in Callers : CallerCrash(c)
             \/ \E w \in Workers : Dies(w)
             \/ \E d \in Days : LockExpire(d)
      PROVE  UNCHANGED enabled /\ budget'.toggles = budget.toggles
  BY <1>6 DEF CallerCrash, Dies, WorkerCrash, CollectRaises, LockExpire, TypeOK, Budgets
<1>7. CASE NextDay \/ UNCHANGED vars
  BY <1>3, <1>7 DEF NextDay, vars
<1>8. ~(\E s \in Sources : ToggleSource(s)) /\ ~ToggleMonitor
  BY <1>2 DEF ToggleSource, ToggleMonitor
<1> QED
  BY <1>3, <1>4, <1>5, <1>6, <1>7, <1>8 DEF Next, Dies

LEMMA SourcesAreCovered == Spec => []SourcesCovered
<1>1. Init => SourcesCovered
  BY DEF Init, SourcesCovered, IdleCall, IdleJob
<1>2. TypeOK /\ SourcesCovered /\ [Next]_vars => SourcesCovered'
  <2> SUFFICES ASSUME TypeOK, SourcesCovered, [Next]_vars, EditFree'
               PROVE  SourcesCovered'
    BY DEF SourcesCovered
  <2>0. EditFree /\ enabled' = enabled
    BY NoEdit
  <2> USE <2>0 DEF store, env, SourcesCovered
  <2>1. ASSUME NEW c \in Callers, StartRead(c) PROVE SourcesCovered'
    BY <2>1 DEF StartRead
  <2>2. ASSUME NEW c \in Callers, StartStep(c) \/ CallerCrash(c) PROVE SourcesCovered'
    <3>1. UNCHANGED <<ledger, job>> /\ call[c].pc # "idle"
      BY <2>2 DEF StartStep, StartInsert, StartAcquire, StartEnqueue, CallerCrash
    <3>2. \A k \in Callers : k # c => call'[k] = call[k]
      BY <2>2 DEF StartStep, StartInsert, StartAcquire, StartEnqueue, CallerCrash, TypeOK
    <3> QED
      BY <3>1, <3>2
  <2>3. ASSUME NEW w \in Workers, Take(w) PROVE SourcesCovered'
    <3>1. PICK m \in queue :
             job' = [job EXCEPT ![w] = [IdleJob EXCEPT !.pc = "collect",
                       !.day = m.day, !.lease = m.lease, !.todo = enabled]]
             /\ queue' = queue \ {m}
      BY <2>3 DEF Take
    <3>2. /\ job'[w].todo = enabled /\ \A s \in Sources : job'[w].out[s] = NoRow
          /\ \A v \in Workers : v # w => job'[v] = job[v]
      BY <3>1 DEF TypeOK, IdleJob
    <3>3. UNCHANGED <<call, ledger>> /\ queue # {}
      BY <2>3 DEF Take
    <3> QED
      BY <3>1, <3>2, <3>3, OutcomeFacts
  <2>4. ASSUME NEW w \in Workers, NEW s \in Sources, Collect(w, s)
        PROVE  SourcesCovered'
    <3>1. /\ job[w] \in JobStates /\ job[w].day \in Days /\ job[w].todo \subseteq Sources
          /\ job[w].out \in [Sources -> Outcomes]
      BY DEF TypeOK, JobStates
    <3>2. s \in enabled /\ job[w].pc = "collect" /\ UNCHANGED <<call, queue>>
      BY <2>4 DEF Collect
    <3>3. CASE job' = [job EXCEPT ![w] = IdleJob] /\ UNCHANGED ledger
      BY <3>2, <3>3 DEF IdleJob, TypeOK
    <3>4. ASSUME NEW row \in LedgerRows,
                 ledger' = [ledger EXCEPT ![job[w].day][s] = row],
                 job' = [job EXCEPT ![w] = Collected(@, s, row)]
          PROVE  SourcesCovered'
      <4>1. /\ job'[w].todo = job[w].todo \ {s}
            /\ job'[w].out = [job[w].out EXCEPT ![s] = row]
            /\ \A v \in Workers : v # w => job'[v] = job[v]
        BY <3>1, <3>4 DEF TypeOK, Collected, JobStates
      <4>2. job'[w].out[s] = row
            /\ \A r \in Sources : r # s => job'[w].out[r] = job[w].out[r]
        BY <3>1, <4>1
      <4>3. row # NoRow /\ row # Skipped
        BY OutcomeFacts
      <4>4. enabled = job'[w].todo \cup {r \in Sources : job'[w].out[r] # NoRow}
        <5>1. enabled = job[w].todo \cup {r \in Sources : job[w].out[r] # NoRow}
          BY <3>2
        <5> QED
          BY <3>2, <4>1, <4>2, <4>3, <5>1
      <4>5. \A r \in Sources : job'[w].out[r] # Skipped
        BY <3>2, <4>2, <4>3
      <4>6. \A d \in Days : \A r \in Sources \ enabled : ledger'[d][r] = NoRow
        BY <3>1, <3>2, <3>4 DEF TypeOK
      <4>7. ASSUME NEW v \in Workers, job'[v].pc # "idle"
            PROVE  /\ enabled = job'[v].todo \cup {r \in Sources : job'[v].out[r] # NoRow}
                   /\ \A r \in Sources : job'[v].out[r] # Skipped
        <5>1. CASE v = w
          BY <4>4, <4>5, <5>1
        <5>2. CASE v # w
          <6>1. job'[v] = job[v]
            BY <4>1, <5>2
          <6> QED
            BY <4>7, <6>1
        <5> QED
          BY <5>1, <5>2
      <4> QED
        BY <3>2, <4>6, <4>7
    <3> QED
      BY <2>4, <3>2, <3>3, <3>4 DEF Collect
  \* The other worker steps keep the job's sources, or end it.
  <2>5. ASSUME NEW w \in Workers,
               Finalise(w) \/ ReadToken(w) \/ Release(w) \/ AfterRun(w) \/ Dies(w)
        PROVE  SourcesCovered'
    <3>1. /\ UNCHANGED <<ledger, call, queue>>
          /\ job[w].pc # "idle" /\ job[w] \in JobStates
          /\ \A v \in Workers : v # w => job'[v] = job[v]
      BY <2>5 DEF Finalise, ReadToken, Release, AfterRun, Dies, WorkerCrash, CollectRaises, TypeOK
    <3>2. \/ job'[w].pc = "idle"
          \/ job'[w].todo = job[w].todo /\ job'[w].out = job[w].out
      <4>1. CASE Finalise(w)
        BY <3>1, <4>1 DEF Finalise, JobStates, TypeOK
      <4>2. CASE ReadToken(w)
        BY <3>1, <4>2 DEF ReadToken, Finished, JobStates, TypeOK
      <4>3. CASE Release(w)
        BY <3>1, <4>3 DEF Release, Finished, JobStates, TypeOK
      <4>4. CASE AfterRun(w)
        BY <3>1, <4>4 DEF AfterRun, IdleJob, JobStates, TypeOK
      <4>5. CASE Dies(w)
        BY <4>5 DEF Dies, WorkerCrash, CollectRaises, IdleJob, TypeOK
      <4> QED
        BY <2>5, <4>1, <4>2, <4>3, <4>4, <4>5
    <3> QED
      BY <3>1, <3>2
  <2>6. ASSUME \/ \E d \in Days : LockExpire(d)
               \/ \E s \in Sources : ToggleSource(s)
               \/ ToggleMonitor \/ NextDay \/ UNCHANGED vars
        PROVE SourcesCovered'
    BY <2>6 DEF LockExpire, ToggleSource, ToggleMonitor, Edit, NextDay, vars
  <2> QED
    BY <2>1, <2>2, <2>3, <2>4, <2>5, <2>6 DEF Next, DispatchStep, Dies
<1> QED
  BY <1>1, <1>2, TypeCorrect, PTL DEF Spec

\* What finalise classifies is exactly the run's ledger: an enabled source's
\* outcome is its row, and the others have neither.
LEMMA ConcludesLedger ==
  ASSUME TypeOK, OutcomesRecorded, SourcesCovered, EditFree,
         NEW w \in Workers, Finalise(w)
  PROVE  /\ job[w].out = ledger[job[w].day]
         /\ \A s \in enabled : ledger[job[w].day][s] # NoRow
<1> DEFINE d == job[w].day
<1>1. /\ d \in Days /\ job[w].out \in [Sources -> Outcomes] /\ enabled \subseteq Sources
      /\ ledger[d] \in [Sources -> LedgerRows \cup {NoRow}]
  BY DEF TypeOK, JobStates
<1>2. enabled = {s \in Sources : job[w].out[s] # NoRow}
  BY DEF Finalise, SourcesCovered
<1>3. \A s \in Sources : job[w].out[s] # Skipped
  BY DEF Finalise, SourcesCovered
<1>4. \A s \in Sources \ enabled : ledger[d][s] = NoRow
  BY <1>1 DEF SourcesCovered
<1>5. \A s \in Sources : job[w].out[s] \in {NoRow, Skipped, ledger[d][s]}
  BY DEF OutcomesRecorded
<1>6. \A s \in Sources : job[w].out[s] = ledger[d][s]
  BY <1>2, <1>3, <1>4, <1>5
<1> QED
  BY <1>1, <1>2, <1>6

LEMMA VerdictIsSettled == Spec => []VerdictSettled
<1>1. Init => VerdictSettled
  BY DEF Init, VerdictSettled, FinalStatuses
<1>2. TypeOK /\ OutcomesRecorded /\ SourcesCovered /\ VerdictSettled /\ [Next]_vars
        => VerdictSettled'
  <2> SUFFICES ASSUME TypeOK, OutcomesRecorded, SourcesCovered, VerdictSettled,
                      [Next]_vars, EditFree'
               PROVE  VerdictSettled'
    BY DEF VerdictSettled
  <2>0. EditFree /\ enabled' = enabled
    BY NoEdit
  <2> USE <2>0 DEF store, env
  <2>1. ASSUME NEW c \in Callers, StartInsert(c) PROVE VerdictSettled'
    <3>1. UNCHANGED ledger /\ \A d \in Days : run'[d] \in {run[d], "pending"}
      BY <2>1 DEF StartInsert, TypeOK, CallStates
    <3> QED
      BY <3>1 DEF VerdictSettled, FinalStatuses
  <2>2. ASSUME NEW w \in Workers, NEW s \in Sources, Collect(w, s)
        PROVE  VerdictSettled'
    <3>1. CASE UNCHANGED ledger
      BY <2>2, <3>1 DEF Collect, VerdictSettled
    <3>2. ASSUME NEW row \in LedgerRows, s \in enabled,
                 ledger[job[w].day][s] = NoRow,
                 ledger' = [ledger EXCEPT ![job[w].day][s] = row]
          PROVE VerdictSettled'
      <4>1. UNCHANGED run
        BY <2>2 DEF Collect
      <4>2. run[job[w].day] \notin FinalStatuses
        BY <3>2 DEF VerdictSettled, TypeOK, JobStates
      <4>3. \A d \in Days : d # job[w].day => ledger'[d] = ledger[d]
        BY <3>2 DEF TypeOK
      <4> QED
        BY <4>1, <4>2, <4>3 DEF VerdictSettled
    <3> QED
      BY <2>2, <3>1, <3>2 DEF Collect
  <2>3. ASSUME NEW w \in Workers, Finalise(w) PROVE VerdictSettled'
    <3>1. /\ job[w].out = ledger[job[w].day] /\ UNCHANGED ledger
          /\ \A s \in enabled : ledger[job[w].day][s] # NoRow
      BY <2>3, ConcludesLedger DEF Finalise
    <3>2. run'[job[w].day] = Verdict(ledger[job[w].day])
      BY <2>3, <3>1 DEF Finalise, TypeOK, JobStates
    <3>3. \A d \in Days : d # job[w].day => run'[d] = run[d]
      BY <2>3 DEF Finalise, TypeOK
    <3> QED
      BY <3>1, <3>2, <3>3 DEF VerdictSettled
  <2>4. ASSUME \/ \E c \in Callers : StartRead(c) \/ StartAcquire(c)
                                     \/ StartEnqueue(c) \/ CallerCrash(c)
               \/ \E w \in Workers : Take(w) \/ ReadToken(w) \/ Release(w)
                                     \/ AfterRun(w) \/ Dies(w)
               \/ \E d \in Days : LockExpire(d)
               \/ \E s \in Sources : ToggleSource(s)
               \/ ToggleMonitor \/ NextDay \/ UNCHANGED vars
        PROVE VerdictSettled'
    <3>1. UNCHANGED <<run, ledger>>
      BY <2>4 DEF StartRead, StartAcquire, StartEnqueue, CallerCrash, Take,
        ReadToken, Release, AfterRun, Dies, WorkerCrash, CollectRaises, LockExpire, ToggleSource,
        ToggleMonitor, Edit, NextDay, vars
    <3> QED
      BY <3>1 DEF VerdictSettled
  <2> QED
    BY <2>1, <2>2, <2>3, <2>4 DEF Next, StartStep, DispatchStep, Dies
<1> QED
  BY <1>1, <1>2, TypeCorrect, OutcomesAreRecorded, SourcesAreCovered, PTL DEF Spec

\* A final status is the classification of the run's ledger rows, whatever
\* overlapped, expired, crashed or was started twice, while nobody edits.
THEOREM VerdictCorrect == Spec => []VerdictMatchesLedger
<1>1. VerdictSettled => VerdictMatchesLedger
  BY DEF VerdictSettled, VerdictMatchesLedger, EditFree
<1> QED
  BY <1>1, VerdictIsSettled, PTL

\* A verdict is never revised: a second dispatch dies on the ledger's unique
\* key, and one that reaches finalise finds what the first one found.
THEOREM VerdictStable == Spec => FinalIsFinal
<1> DEFINE Kept == budget.toggles = 0 =>
                     \A d \in Days : run[d] \in FinalStatuses => run'[d] = run[d]
<1>1. TypeOK /\ OutcomesRecorded /\ SourcesCovered /\ VerdictSettled /\ [Next]_vars
        => Kept
  <2> SUFFICES ASSUME TypeOK, OutcomesRecorded, SourcesCovered, VerdictSettled,
                      [Next]_vars, EditFree
               PROVE  \A d \in Days : run[d] \in FinalStatuses => run'[d] = run[d]
    BY DEF EditFree
  <2> USE DEF store, env
  <2>1. ASSUME NEW c \in Callers, StartInsert(c), NEW d \in Days, run[d] \in FinalStatuses
        PROVE  run'[d] = run[d]
    BY <2>1 DEF StartInsert, TypeOK, FinalStatuses
  <2>2. ASSUME NEW w \in Workers, Finalise(w), NEW d \in Days, run[d] \in FinalStatuses
        PROVE  run'[d] = run[d]
    <3>1. CASE d = job[w].day
      <4>1. run'[d] = Verdict(ledger[d])
        BY <2>2, <3>1, ConcludesLedger DEF Finalise, TypeOK
      <4>2. run[d] = Verdict(ledger[d])
        BY <2>2 DEF VerdictSettled
      <4> QED
        BY <4>1, <4>2
    <3>2. CASE d # job[w].day
      BY <2>2, <3>2 DEF Finalise, TypeOK
    <3> QED
      BY <3>1, <3>2
  <2>3. ASSUME \/ \E c \in Callers : StartRead(c) \/ StartAcquire(c)
                                     \/ StartEnqueue(c) \/ CallerCrash(c)
               \/ \E w \in Workers : Take(w) \/ ReadToken(w) \/ Release(w)
                                     \/ AfterRun(w) \/ Dies(w)
                                     \/ \E s \in Sources : Collect(w, s)
               \/ \E d \in Days : LockExpire(d)
               \/ \E s \in Sources : ToggleSource(s)
               \/ ToggleMonitor \/ NextDay \/ UNCHANGED vars
        PROVE UNCHANGED run
    BY <2>3 DEF StartRead, StartAcquire, StartEnqueue, CallerCrash, Take,
      ReadToken, Release, AfterRun, Dies, WorkerCrash, CollectRaises, Collect, LockExpire,
      ToggleSource, ToggleMonitor, Edit, NextDay, vars
  <2> QED
    BY <2>1, <2>2, <2>3 DEF Next, StartStep, DispatchStep, Dies
<1> QED
  BY <1>1, TypeCorrect, OutcomesAreRecorded, SourcesAreCovered, VerdictIsSettled,
     PTL DEF Spec, FinalIsFinal

-----------------------------------------------------------------------------
(* What follows a verdict. *)
Concluded(w) == job[w].pc \in {"token", "release", "after"}

\* Some stage has run for day d.
Ran(d) == \E k \in 1 .. Len(PostStages) : done[d][k] # 0

\* No ledger row is the outcome of two dispatches; a dispatch that concluded
\* had read every source.
RowsOwned ==
  EditFree =>
    /\ \A v, w \in Workers :
         v # w /\ job[v].pc # "idle" /\ job[w].pc # "idle" /\ job[v].day = job[w].day
           => \A s \in Sources : job[v].out[s] = NoRow \/ job[w].out[s] = NoRow
    /\ \A w \in Workers : Concluded(w) => job[w].todo = {}

\* The stages of a day run in order, and once they have begun no dispatch of
\* the day that is still collecting has any row of its own, or can get one.
StagesInOrder ==
  EditFree =>
    /\ \A d \in Days : \A k \in 1 .. Len(PostStages) : done[d][k] <= 1
    /\ \A d \in Days : Ran(d) => \A s \in enabled : ledger[d][s] # NoRow
    /\ \A w \in Workers : job[w].pc = "collect" /\ Ran(job[w].day) =>
         \A s \in Sources : job[w].out[s] = NoRow
    /\ \A w \in Workers : Concluded(w) =>
         \A k \in 1 .. Len(PostStages) : k > job[w].stage => done[job[w].day][k] = 0
    /\ \A w \in Workers : job[w].pc \in {"collect", "token", "release"} => job[w].stage = 0

\* A row a dispatch wrote was not in the ledger before.
LEMMA RowsAreOwned == Spec => []RowsOwned
<1>1. Init => RowsOwned
  BY DEF Init, RowsOwned, Concluded, IdleJob
<1>2. TypeOK /\ OutcomesRecorded /\ SourcesCovered /\ RowsOwned /\ [Next]_vars => RowsOwned'
  <2> SUFFICES ASSUME TypeOK, OutcomesRecorded, SourcesCovered, RowsOwned,
                      [Next]_vars, EditFree'
               PROVE  RowsOwned'
    BY DEF RowsOwned
  <2>0. EditFree /\ enabled' = enabled
    BY NoEdit
  <2> USE <2>0 DEF store, env, RowsOwned
  <2>1. ASSUME NEW w \in Workers, Take(w) PROVE RowsOwned'
    <3>1. /\ \A v \in Workers : v # w => job'[v] = job[v]
          /\ job'[w].pc = "collect" /\ \A s \in Sources : job'[w].out[s] = NoRow
      BY <2>1 DEF Take, TypeOK, IdleJob
    <3> QED
      BY <3>1 DEF Concluded
  <2>2. ASSUME NEW w \in Workers, NEW s \in Sources, Collect(w, s) PROVE RowsOwned'
    <3>1. /\ job[w] \in JobStates /\ job[w].day \in Days
          /\ job[w].out \in [Sources -> Outcomes] /\ s \in enabled
          /\ job[w].pc = "collect"
      BY <2>2 DEF Collect, TypeOK, JobStates, SourcesCovered
    <3>2. CASE job' = [job EXCEPT ![w] = IdleJob]
      BY <3>2 DEF IdleJob, TypeOK, Concluded
    <3>3. ASSUME NEW row \in LedgerRows, ledger[job[w].day][s] = NoRow,
                 job' = [job EXCEPT ![w] = Collected(@, s, row)]
          PROVE  RowsOwned'
      <4>1. /\ job'[w].pc = "collect" /\ job'[w].day = job[w].day
            /\ job'[w].out = [job[w].out EXCEPT ![s] = row]
            /\ \A v \in Workers : v # w => job'[v] = job[v]
        BY <3>1, <3>3 DEF TypeOK, Collected, JobStates
      <4>2. \A r \in Sources : r # s => job'[w].out[r] = job[w].out[r]
        BY <3>1, <4>1
      <4>3. \A v \in Workers : job[v].pc # "idle" /\ job[v].day = job[w].day
              => job[v].out[s] = NoRow
        BY <3>3 DEF OutcomesRecorded, SourcesCovered
      <4>4. ASSUME NEW v \in Workers, v # w, job[v].pc # "idle", job[v].day = job[w].day,
                   NEW r \in Sources
            PROVE  job[v].out[r] = NoRow \/ job'[w].out[r] = NoRow
        BY <3>1, <4>2, <4>3, <4>4
      <4> QED
        BY <3>1, <4>1, <4>4 DEF Concluded
    <3> QED
      BY <2>2, <3>1, <3>2, <3>3 DEF Collect
  <2>3. ASSUME NEW w \in Workers,
               Finalise(w) \/ ReadToken(w) \/ Release(w) \/ AfterRun(w) \/ Dies(w)
        PROVE  RowsOwned'
    <3>1. /\ job[w].pc # "idle" /\ job[w] \in JobStates
          /\ \A v \in Workers : v # w => job'[v] = job[v]
      BY <2>3 DEF Finalise, ReadToken, Release, AfterRun, Dies, WorkerCrash, CollectRaises, TypeOK
    <3>2. \/ job'[w].pc = "idle"
          \/ /\ job'[w].day = job[w].day /\ job'[w].out = job[w].out
             /\ job'[w].todo = {}
      <4>1. CASE Finalise(w)
        BY <3>1, <4>1 DEF Finalise, JobStates, TypeOK
      <4>2. CASE ReadToken(w)
        BY <3>1, <4>2 DEF ReadToken, Finished, JobStates, TypeOK, Concluded
      <4>3. CASE Release(w)
        BY <3>1, <4>3 DEF Release, Finished, JobStates, TypeOK, Concluded
      <4>4. CASE AfterRun(w)
        <5>1. job[w].todo = {} /\ IdleJob.pc = "idle"
          BY <4>4 DEF AfterRun, Concluded, IdleJob
        <5>2. \A i : /\ [job[w] EXCEPT !.stage = i].day = job[w].day
                     /\ [job[w] EXCEPT !.stage = i].out = job[w].out
                     /\ [job[w] EXCEPT !.stage = i].todo = job[w].todo
          BY <3>1 DEF JobStates
        <5>3. \/ job'[w] = IdleJob
              \/ job'[w] = [job[w] EXCEPT !.stage = job[w].stage + 1]
          BY <4>4 DEF AfterRun, TypeOK
        <5> QED
          BY <5>1, <5>2, <5>3
      <4>5. CASE Dies(w)
        BY <4>5 DEF Dies, WorkerCrash, CollectRaises, IdleJob, TypeOK
      <4> QED
        BY <2>3, <4>1, <4>2, <4>3, <4>4, <4>5
    <3> QED
      BY <3>1, <3>2 DEF Concluded
  <2>4. ASSUME UNCHANGED job PROVE RowsOwned'
    BY <2>4 DEF Concluded
  <2>5. ASSUME \/ \E c \in Callers : StartRead(c) \/ StartStep(c) \/ CallerCrash(c)
               \/ \E d \in Days : LockExpire(d)
               \/ \E s \in Sources : ToggleSource(s)
               \/ ToggleMonitor \/ NextDay \/ UNCHANGED vars
        PROVE  UNCHANGED job
    BY <2>5 DEF StartRead, StartStep, StartInsert, StartAcquire, StartEnqueue,
      CallerCrash, LockExpire, ToggleSource, ToggleMonitor, Edit, NextDay, vars
  <2> QED
    BY <2>1, <2>2, <2>3, <2>4, <2>5 DEF Next, DispatchStep, Dies
<1> QED
  BY <1>1, <1>2, TypeCorrect, OutcomesAreRecorded, SourcesAreCovered, PTL DEF Spec

\* A dispatch that concluded owns the row of every enabled source, so it is
\* the only one, and the others have no row.
LEMMA ConcludedAlone ==
  ASSUME TypeOK, OutcomesRecorded, SourcesCovered, RowsOwned, EditFree,
         NEW w \in Workers, Concluded(w)
  PROVE  /\ \A s \in enabled : ledger[job[w].day][s] # NoRow
         /\ \A v \in Workers : v # w /\ job[v].pc # "idle" /\ job[v].day = job[w].day =>
              ~Concluded(v) /\ \A s \in Sources : job[v].out[s] = NoRow
<1>1. enabled # {} /\ enabled \subseteq Sources /\ \A s \in enabled : job[w].out[s] # NoRow
  BY DEF Concluded, SourcesCovered, RowsOwned, TypeOK
<1>2. \A s \in enabled : job[w].out[s] = ledger[job[w].day][s]
  BY <1>1 DEF OutcomesRecorded, SourcesCovered, Concluded
<1>3. ASSUME NEW v \in Workers, v # w, job[v].pc # "idle", job[v].day = job[w].day
      PROVE  ~Concluded(v) /\ \A s \in Sources : job[v].out[s] = NoRow
  <2>1. \A s \in enabled : job[v].out[s] = NoRow
    BY <1>1, <1>3 DEF RowsOwned, Concluded
  <2>2. \A s \in Sources : job[v].out[s] # NoRow => s \in enabled
    BY <1>3 DEF SourcesCovered
  <2>3. ~Concluded(v)
    BY <1>1, <1>3, <2>1 DEF RowsOwned, SourcesCovered
  <2> QED
    BY <2>1, <2>2, <2>3
<1> QED
  BY <1>1, <1>2, <1>3

\* The stages follow the one dispatch that concluded.
LEMMA StagesAreInOrder == Spec => []StagesInOrder
<1>1. Init => StagesInOrder
  BY SevenStages DEF Init, StagesInOrder, Concluded, Ran, IdleJob
<1>2. TypeOK /\ OutcomesRecorded /\ SourcesCovered /\ RowsOwned /\ StagesInOrder
        /\ [Next]_vars => StagesInOrder'
  <2> SUFFICES ASSUME TypeOK, OutcomesRecorded, SourcesCovered, RowsOwned,
                      StagesInOrder, [Next]_vars, EditFree'
               PROVE  StagesInOrder'
    BY DEF StagesInOrder
  <2>0. EditFree /\ enabled' = enabled
    BY NoEdit
  <2> USE <2>0 DEF store, env, StagesInOrder
  <2>1. ASSUME NEW w \in Workers, Take(w) PROVE StagesInOrder'
    <3>1. /\ \A v \in Workers : v # w => job'[v] = job[v]
          /\ job'[w].pc = "collect" /\ \A s \in Sources : job'[w].out[s] = NoRow
          /\ job'[w].stage = 0
      BY <2>1 DEF Take, TypeOK, IdleJob
    <3>2. UNCHANGED <<done, ledger>>
      BY <2>1 DEF Take
    <3> QED
      BY <3>1, <3>2 DEF Concluded, Ran
  <2>2. ASSUME NEW w \in Workers, NEW s \in Sources, Collect(w, s) PROVE StagesInOrder'
    <3>1. /\ job[w] \in JobStates /\ job[w].day \in Days
          /\ s \in enabled /\ job[w].pc = "collect" /\ UNCHANGED done
      BY <2>2 DEF Collect, TypeOK, JobStates, SourcesCovered
    <3>2. CASE job' = [job EXCEPT ![w] = IdleJob] /\ UNCHANGED ledger
      BY <3>1, <3>2 DEF IdleJob, TypeOK, Concluded, Ran
    <3>3. ASSUME NEW row \in LedgerRows, ledger[job[w].day][s] = NoRow,
                 ledger' = [ledger EXCEPT ![job[w].day][s] = row],
                 job' = [job EXCEPT ![w] = Collected(@, s, row)]
          PROVE  StagesInOrder'
      <4>1. /\ job'[w].pc = "collect" /\ job'[w].day = job[w].day /\ job'[w].stage = job[w].stage
            /\ \A v \in Workers : v # w => job'[v] = job[v]
        BY <3>1, <3>3 DEF TypeOK, Collected, JobStates
      <4>2. ~Ran(job[w].day)
        BY <3>1, <3>3
      <4>3. \A d \in Days : d # job[w].day => ledger'[d] = ledger[d]
        BY <3>3 DEF TypeOK
      <4> QED
        BY <3>1, <4>1, <4>2, <4>3 DEF Concluded, Ran
    <3> QED
      BY <2>2, <3>1, <3>2, <3>3 DEF Collect
  <2>3. ASSUME NEW w \in Workers, Finalise(w) PROVE StagesInOrder'
    <3>1. /\ job[w].pc = "collect" /\ job[w].todo = {} /\ job[w].day \in Days
          /\ job'[w].pc = "token" /\ job'[w].day = job[w].day /\ job'[w].stage = 0
          /\ \A v \in Workers : v # w => job'[v] = job[v]
          /\ UNCHANGED <<ledger, done>>
      BY <2>3 DEF Finalise, TypeOK, JobStates
    <3>2. ~Ran(job[w].day)
      BY <3>1 DEF SourcesCovered
    <3> QED
      BY <3>1, <3>2 DEF Concluded, Ran
  <2>4. ASSUME NEW w \in Workers, ReadToken(w) \/ Release(w) \/ Dies(w)
        PROVE  StagesInOrder'
    <3>1. /\ \A v \in Workers : v # w => job'[v] = job[v]
          /\ UNCHANGED <<ledger, done>>
      BY <2>4 DEF ReadToken, Release, Dies, WorkerCrash, CollectRaises, TypeOK
    <3>2. \/ job'[w].pc = "idle"
          \/ /\ Concluded(w) /\ job'[w].pc \in {"release", "after"}
             /\ job'[w].day = job[w].day /\ job'[w].stage = job[w].stage
      <4>1. CASE ReadToken(w)
        BY <4>1 DEF ReadToken, Finished, JobStates, TypeOK, Concluded
      <4>2. CASE Release(w)
        BY <4>2 DEF Release, Finished, JobStates, TypeOK, Concluded
      <4>3. CASE Dies(w)
        BY <4>3 DEF Dies, WorkerCrash, CollectRaises, IdleJob, TypeOK
      <4> QED
        BY <2>4, <4>1, <4>2, <4>3
    <3>3. job'[w].pc = "release" => job[w].stage = 0
      BY <2>4, <3>2 DEF Concluded, ReadToken, Release, Dies, WorkerCrash, CollectRaises, TypeOK, IdleJob
    <3> QED
      BY <3>1, <3>2, <3>3 DEF Concluded, Ran
  <2>5. ASSUME NEW w \in Workers, AfterRun(w) PROVE StagesInOrder'
    <3> DEFINE d == job[w].day
               k == job[w].stage + 1
    <3>1. /\ Concluded(w) /\ job[w].pc = "after" /\ d \in Days /\ k \in 1 .. 7
          /\ UNCHANGED ledger /\ job[w].stage \in 0 .. 6
      <4>1. job[w].day \in Days /\ job[w].stage \in 0 .. 6
        BY SevenStages DEF TypeOK, JobStates
      <4> QED
        BY <2>5, <4>1 DEF AfterRun, Concluded
    <3>2. done[d][k] = 0 /\ \A i \in 1 .. 7 : i > k => done[d][i] = 0
      <4>1. \A i \in 1 .. 7 : i > job[w].stage => done[d][i] = 0
        BY <3>1, SevenStages
      <4> QED
        BY <3>1, <4>1
    <3>3. /\ done'[d][k] = 1
          /\ \A i \in 1 .. 7 : i # k => done'[d][i] = done[d][i]
          /\ \A e \in Days : e # d => done'[e] = done[e]
      BY <2>5, <3>1, <3>2, SevenStages DEF AfterRun, TypeOK
    <3>4. /\ \A v \in Workers : v # w => job'[v] = job[v]
          /\ \/ job'[w].pc = "idle"
             \/ job'[w].pc = "after" /\ job'[w].stage = k /\ job'[w].day = d
      BY <2>5, <3>1 DEF AfterRun, TypeOK, JobStates, IdleJob
    <3>5. /\ \A s \in enabled : ledger[d][s] # NoRow
          /\ \A v \in Workers : v # w /\ job[v].pc # "idle" /\ job[v].day = d =>
               ~Concluded(v) /\ \A s \in Sources : job[v].out[s] = NoRow
      BY <3>1, ConcludedAlone
    <3> HIDE DEF d, k
    <3>6. \A e \in Days : \A i \in 1 .. 7 : done'[e][i] <= 1
      BY <3>1, <3>3, SevenStages
    <3>7. \A e \in Days : Ran(e)' => e = d \/ Ran(e)
      BY <3>3 DEF Ran
    <3>8. \A e \in Days : Ran(e)' => \A s \in enabled : ledger[e][s] # NoRow
      BY <3>5, <3>7
    <3>9. ASSUME NEW v \in Workers, (job[v].pc = "collect" /\ Ran(job[v].day))'
          PROVE  \A s \in Sources : job'[v].out[s] = NoRow
      <4>1. v # w /\ job'[v] = job[v] /\ job[v].day \in Days
        BY <3>4, <3>9 DEF TypeOK, JobStates
      <4>2. job[v].day = d \/ Ran(job[v].day)
        BY <3>3, <3>9, <4>1 DEF Ran
      <4> QED
        BY <3>5, <3>9, <4>1, <4>2
    <3>10. ASSUME NEW v \in Workers, Concluded(v)', NEW i \in 1 .. 7, i > job'[v].stage
           PROVE  done'[job'[v].day][i] = 0
      <4>1. CASE v = w
        BY <3>1, <3>2, <3>3, <3>4, <3>10, <4>1 DEF Concluded
      <4>2. CASE v # w
        <5>1. job'[v] = job[v] /\ Concluded(v) /\ job[v].day \in Days
          BY <3>4, <3>10, <4>2 DEF Concluded, TypeOK, JobStates
        <5>2. job[v].day # d
          BY <3>5, <4>2, <5>1 DEF Concluded
        <5> QED
          BY <3>3, <3>10, <5>1, <5>2, SevenStages
      <4> QED
        BY <4>1, <4>2
    <3>11. \A v \in Workers : job'[v].pc \in {"collect", "token", "release"} => job'[v].stage = 0
      BY <3>4
    <3>12. (\A v \in Workers : job[v].pc = "collect" /\ Ran(job[v].day) =>
              \A s \in Sources : job[v].out[s] = NoRow)'
      BY <3>9
    <3>13. (\A v \in Workers : Concluded(v) =>
              \A i \in 1 .. Len(PostStages) : i > job[v].stage => done[job[v].day][i] = 0)'
      BY <3>10, SevenStages
    <3>14. \A e \in Days : \A i \in 1 .. Len(PostStages) : done'[e][i] <= 1
      BY <3>6, SevenStages
    <3>15. (\A e \in Days : Ran(e) => \A s \in enabled : ledger[e][s] # NoRow)'
      BY <3>1, <3>8
    <3>16. (\A v \in Workers : job[v].pc \in {"collect", "token", "release"} => job[v].stage = 0)'
      BY <3>11
    <3>17. (\A e \in Days : \A i \in 1 .. Len(PostStages) : done[e][i] <= 1)'
      BY <3>14
    <3> QED
      BY <3>12, <3>13, <3>15, <3>16, <3>17
  <2>6. ASSUME UNCHANGED <<job, ledger, done>> PROVE StagesInOrder'
    BY <2>6 DEF Concluded, Ran
  <2>7. ASSUME \/ \E c \in Callers : StartRead(c) \/ StartStep(c) \/ CallerCrash(c)
               \/ \E d \in Days : LockExpire(d)
               \/ \E s \in Sources : ToggleSource(s)
               \/ ToggleMonitor \/ NextDay \/ UNCHANGED vars
        PROVE  UNCHANGED <<job, ledger, done>>
    BY <2>7 DEF StartRead, StartStep, StartInsert, StartAcquire, StartEnqueue,
      CallerCrash, LockExpire, ToggleSource, ToggleMonitor, Edit, NextDay, vars
  <2> QED
    BY <2>1, <2>2, <2>3, <2>4, <2>5, <2>6, <2>7 DEF Next, DispatchStep, Dies
<1> QED
  BY <1>1, <1>2, TypeCorrect, OutcomesAreRecorded, SourcesAreCovered, RowsAreOwned,
     PTL DEF Spec

\* No stage after finalisation runs twice for a day, however many dispatches
\* of the day there were, while nobody edits.
THEOREM PostStagesOnce == Spec => []PostRunOnce
<1>1. StagesInOrder => PostRunOnce
  BY DEF StagesInOrder, PostRunOnce, EditFree
<1> QED
  BY <1>1, StagesAreInOrder, PTL
=============================================================================
