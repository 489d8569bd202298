----------------------------- MODULE AlertsProofs ----------------------------
(***************************************************************************)
(* Proofs about Alerts for every set of deliveries, mistyped targets and   *)
(* sweeps and every bound.                                                 *)
(***************************************************************************)
EXTENDS Alerts, FiniteSetTheorems, TLAPS

\* An attempt that is counted as a failure, with or without a POST.
Misses(s, d) == Fail(s, d) \/ Refuse(s, d)

\* The attempts counted on a row fit its state.
WellCounted(row) ==
  /\ row.state = "pending" => row.attempts = 0
  /\ row.state = "failed" => row.attempts \in 1 .. 2

\* The rows a sweep has read: well counted, due until they are tried and not
\* pending after that.  While the table says that nobody has tried d, no
\* sweep has counted more than its own attempt.
RowRead(s, d) ==
  /\ WellCounted(sweep[s].rows[d])
  /\ sweep[s].rows[d].state = "none" => sweep[s].rows[d] = NoRow
  /\ d \in sweep[s].todo => sweep[s].rows[d].state \in Due
  /\ d \notin sweep[s].todo => sweep[s].rows[d].state # "pending"
  /\ delivery[d].state \in {"none", "pending"} =>
       /\ sweep[s].rows[d].attempts <= 1
       /\ d \in sweep[s].todo => sweep[s].rows[d].attempts = 0

SweepRows == \A s \in Sweeps : \A d \in Deliveries : RowRead(s, d)

TypeInv == TypeOK /\ SweepRows

SweepStates == [running : BOOLEAN, todo : SUBSET Deliveries, rows : [Deliveries -> Rows]]

LEMMA NoRowType == NoRow \in Rows /\ Idle \in SweepStates /\ WellCounted(NoRow)
  BY DEF NoRow, Rows, MaxAttempts, Idle, SweepStates, WellCounted

\* A flush leaves a row nobody read alone, writes the attempts of the others
\* and their state, unless the table's is kept.
LEMMA FlushFacts ==
  ASSUME NEW row \in Rows, NEW stored \in Rows
  PROVE  /\ Flushed(row, stored) \in Rows
         /\ row = NoRow => Flushed(row, stored) = stored
         /\ row # NoRow => Flushed(row, stored).attempts = row.attempts
         /\ \/ Flushed(row, stored) = stored
            \/ Flushed(row, stored) = row
            \/ /\ Flushed(row, stored).state = stored.state
               /\ row.state = "failed" /\ row.attempts > 1
               /\ Flushed(row, stored).attempts = row.attempts
<1>1. CASE row = NoRow
  <2>1. row.state # "failed"
    BY <1>1 DEF NoRow
  <2>2. Flushed(row, stored) = stored
    BY <1>1, <2>1 DEF Flushed
  <2> QED
    BY <1>1, <2>2
<1>2. CASE row # NoRow /\ row.state = "failed" /\ row.attempts > 1
  <2>1. Flushed(row, stored) = [stored EXCEPT !.attempts = row.attempts]
    BY <1>2 DEF Flushed
  <2> QED
    BY <1>2, <2>1 DEF Rows
<1>3. CASE row # NoRow /\ ~(row.state = "failed" /\ row.attempts > 1)
  BY <1>3 DEF Flushed
<1> QED
  BY <1>1, <1>2, <1>3

\* What the commit of s makes of one row.
LEMMA CommitRow ==
  ASSUME TypeOK, NEW s \in Sweeps, Commit(s), NEW d \in Deliveries
  PROVE  /\ sweep[s].rows[d] \in Rows /\ delivery[d] \in Rows /\ delivery'[d] \in Rows
         /\ d \notin sweep[s].todo
         /\ sweep[s].rows[d] = NoRow => delivery'[d] = delivery[d]
         /\ sweep[s].rows[d] # NoRow => delivery'[d].attempts = sweep[s].rows[d].attempts
         /\ \/ delivery'[d] = delivery[d]
            \/ delivery'[d] = sweep[s].rows[d]
            \/ /\ delivery'[d].state = delivery[d].state
               /\ sweep[s].rows[d].state = "failed" /\ sweep[s].rows[d].attempts > 1
               /\ delivery'[d].attempts = sweep[s].rows[d].attempts
<1>1. sweep[s].rows[d] \in Rows /\ delivery[d] \in Rows
  BY DEF TypeOK
<1>2. delivery'[d] = Flushed(sweep[s].rows[d], delivery[d]) /\ d \notin sweep[s].todo
  BY DEF Commit
<1> QED
  BY <1>1, <1>2, FlushFacts

\* A row that is due has room for one more attempt, and what a failure makes
\* of it is well counted.
LEMMA DueRow ==
  ASSUME TypeInv, NEW s \in Sweeps, NEW d \in sweep[s].todo
  PROVE  /\ sweep[s].rows[d].attempts \in 0 .. 2
         /\ sweep[s].rows[d].attempts + 1 \in 1 .. MaxAttempts
         /\ AfterFailure(sweep[s].rows[d].attempts) \in {"failed", "abandoned"}
         /\ AfterFailure(sweep[s].rows[d].attempts) = "failed"
              => sweep[s].rows[d].attempts + 1 \in 1 .. 2
         /\ AfterFailure(sweep[s].rows[d].attempts) = "abandoned"
              => sweep[s].rows[d].attempts + 1 = MaxAttempts
<1>1. d \in Deliveries /\ sweep[s].rows[d].state \in Due /\ WellCounted(sweep[s].rows[d])
  BY DEF TypeInv, TypeOK, SweepRows, RowRead
<1>2. sweep[s].rows[d].attempts \in 0 .. 2
  BY <1>1 DEF WellCounted, Due
<1> QED
  BY <1>2 DEF AfterFailure, MaxAttempts

LEMMA TriedType ==
  ASSUME TypeOK, NEW d \in Deliveries, Tried(d)
  PROVE  tries' \in [Deliveries -> 0 .. MaxTries]
  BY AlertsAssumption DEF TypeOK, Tried

\* Every variable keeps its type, and the attempts counted fit the state.
LEMMA TypeInvariant == Spec => []TypeInv
<1>1. Init => TypeInv
  BY NoRowType, AlertsAssumption DEF Init, TypeInv, TypeOK, SweepRows, RowRead, SweepStates, Idle, NoRow
<1>2. TypeInv /\ [Next]_vars => TypeInv'
  <2> SUFFICES ASSUME TypeInv, [Next]_vars PROVE TypeInv'
    OBVIOUS
  <2> USE DEF TypeInv
  <2>1. CASE Evaluate
    <3>1. delivery' \in [Deliveries -> Rows]
          /\ \A d \in Deliveries : WellCounted(delivery'[d])
      <4>1. PICK new \in SUBSET Deliveries :
              delivery' = [d \in Deliveries |->
                IF d \in new THEN [state |-> "pending", attempts |-> 0] ELSE delivery[d]]
        BY <2>1 DEF Evaluate
      <4>2. [state |-> "pending", attempts |-> 0] \in Rows
        BY DEF Rows, Due, MaxAttempts
      <4> QED
        BY <4>1, <4>2 DEF TypeOK, WellCounted
    <3> QED
      BY <2>1, <3>1 DEF Evaluate, TypeOK, SweepRows, RowRead, WellCounted
  <2>2. ASSUME NEW s \in Sweeps, Start(s) PROVE TypeInv'
    <3>1. PICK due \in SUBSET Deliveries :
            /\ \A d \in due : delivery[d].state \in Due
            /\ sweep' = [sweep EXCEPT ![s] =
                 [running |-> TRUE, todo |-> due,
                  rows |-> [d \in Deliveries |-> IF d \in due THEN delivery[d] ELSE NoRow]]]
      BY <2>2 DEF Start, Sweep
    <3>2. sweep' \in [Sweeps -> SweepStates]
      BY <3>1, NoRowType DEF TypeOK, SweepStates
    <3>3. SweepRows'
      <4>1. \A t \in Sweeps \ {s} : sweep'[t] = sweep[t]
        BY <3>1 DEF TypeOK
      <4>2. delivery' = delivery
        BY <2>2 DEF Start, Sweep
      <4>3. ASSUME NEW d \in Deliveries PROVE RowRead(s, d)'
        <5>1. /\ sweep'[s].todo = due
              /\ sweep'[s].rows[d] = IF d \in due THEN delivery[d] ELSE NoRow
          BY <3>1 DEF TypeOK
        <5>2. WellCounted(delivery[d]) /\ delivery[d].state \in Due => delivery[d].state # "none"
          BY DEF TypeOK, WellCounted, Due
        <5> QED
          BY <3>1, <4>2, <5>1, <5>2, NoRowType DEF RowRead, WellCounted, NoRow, Due, TypeOK
      <4> QED
        BY <4>1, <4>2, <4>3 DEF SweepRows, RowRead
    <3>4. overlaps' \in 0 .. MaxOverlaps
      BY <2>2, AlertsAssumption DEF Start, Sweep, TypeOK
    <3> QED
      BY <2>2, <3>2, <3>3, <3>4 DEF Start, Sweep, TypeOK, SweepStates
  <2>3. ASSUME NEW s \in Sweeps, NEW d \in Deliveries, Succeed(s, d) PROVE TypeInv'
    <3>1. d \in sweep[s].todo /\ Mark(s, d, "delivered") /\ Tried(d)
      BY <2>3 DEF Succeed
    <3>2. /\ sweep' \in [Sweeps -> SweepStates]
          /\ sweep'[s].todo = sweep[s].todo \ {d}
          /\ sweep'[s].rows[d].state = "delivered"
          /\ \A e \in Deliveries \ {d} : sweep'[s].rows[e] = sweep[s].rows[e]
          /\ \A t \in Sweeps \ {s} : sweep'[t] = sweep[t]
      <4>1. sweep[s].rows[d].attempts + 1 \in 1 .. MaxAttempts
        BY <3>1, DueRow
      <4> DEFINE row == [state |-> "delivered", attempts |-> sweep[s].rows[d].attempts + 1]
      <4>2. row \in Rows
        BY <4>1 DEF Rows, Terminal, MaxAttempts
      <4> QED
        BY <3>1, <4>2 DEF Mark, TypeOK, SweepStates
    <3>3. SweepRows'
      <4>1. delivery' = delivery
        BY <2>3 DEF Succeed
      <4>2. RowRead(s, d)'
        <5>1. delivery[d].state \in {"none", "pending"} => sweep'[s].rows[d].attempts = 1
          BY <3>1, <3>2 DEF SweepRows, RowRead, Mark, TypeOK, SweepStates
        <5> QED
          BY <3>2, <4>1, <5>1 DEF RowRead, WellCounted
      <4> QED
        BY <3>2, <4>1, <4>2 DEF SweepRows, RowRead
    <3> QED
      BY <2>3, <3>1, <3>2, <3>3, TriedType DEF Succeed, TypeOK, SweepStates
  <2>4. ASSUME NEW s \in Sweeps, NEW d \in Deliveries, Misses(s, d) PROVE TypeInv'
    <3> DEFINE n == sweep[s].rows[d].attempts
    <3>1. d \in sweep[s].todo /\ Mark(s, d, AfterFailure(n)) /\ Tried(d)
      BY <2>4 DEF Misses, Fail, Refuse
    <3>2. /\ sweep' \in [Sweeps -> SweepStates]
          /\ sweep'[s].todo = sweep[s].todo \ {d}
          /\ sweep'[s].rows[d] = [state |-> AfterFailure(n), attempts |-> n + 1]
          /\ \A e \in Deliveries \ {d} : sweep'[s].rows[e] = sweep[s].rows[e]
          /\ \A t \in Sweeps \ {s} : sweep'[t] = sweep[t]
      <4>1. n + 1 \in 1 .. MaxAttempts /\ AfterFailure(n) \in {"failed", "abandoned"}
        BY <3>1, DueRow
      <4> DEFINE row == [state |-> AfterFailure(n), attempts |-> n + 1]
      <4>2. row \in Rows
        BY <4>1 DEF Rows, Due, Terminal, MaxAttempts
      <4> QED
        BY <3>1, <4>2 DEF Mark, TypeOK, SweepStates
    <3>3. WellCounted(sweep'[s].rows[d])
      BY <3>1, <3>2, DueRow DEF WellCounted
    <3>4. SweepRows'
      <4>1. delivery' = delivery
        BY <2>4 DEF Misses, Fail, Refuse
      <4>2. RowRead(s, d)'
        <5>1. delivery[d].state \in {"none", "pending"} => sweep'[s].rows[d].attempts = 1
          BY <3>1, <3>2 DEF SweepRows, RowRead
        <5>2. sweep'[s].rows[d].state \in {"failed", "abandoned"}
          BY <3>1, <3>2, DueRow
        <5> QED
          BY <3>2, <3>3, <4>1, <5>1, <5>2 DEF RowRead
      <4> QED
        BY <3>2, <4>1, <4>2 DEF SweepRows, RowRead
    <3> QED
      BY <2>4, <3>1, <3>2, <3>4, TriedType DEF Misses, Fail, Refuse, TypeOK, SweepStates
  <2>5. ASSUME NEW s \in Sweeps, Commit(s) PROVE TypeInv'
    <3>1. delivery' \in [Deliveries -> Rows]
          /\ \A d \in Deliveries : WellCounted(delivery'[d])
      <4>1. /\ delivery' = [d \in Deliveries |-> Flushed(sweep[s].rows[d], delivery[d])]
            /\ \A d \in Deliveries : delivery'[d] \in Rows
        BY <2>5, CommitRow DEF Commit
      <4>2. ASSUME NEW d \in Deliveries PROVE WellCounted(delivery'[d])
        <5>2. RowRead(s, d) /\ WellCounted(delivery[d])
          BY DEF SweepRows, TypeOK, WellCounted
        <5>3. CASE delivery'[d] = delivery[d] \/ delivery'[d] = sweep[s].rows[d]
          BY <5>2, <5>3 DEF RowRead
        <5>4. CASE /\ delivery'[d].state = delivery[d].state
                   /\ sweep[s].rows[d].state = "failed" /\ sweep[s].rows[d].attempts > 1
                   /\ delivery'[d].attempts = sweep[s].rows[d].attempts
          <6>1. sweep[s].rows[d].attempts \in 1 .. 2 /\ delivery[d].state # "pending"
            BY <5>2, <5>4 DEF RowRead, WellCounted
          <6> QED
            BY <5>4, <6>1 DEF WellCounted
        <5> QED
          BY <2>5, <5>3, <5>4, CommitRow
      <4> QED
        BY <4>1, <4>2
    <3>2. sweep' = [sweep EXCEPT ![s] = Idle]
      BY <2>5 DEF Commit
    <3>3. sweep' \in [Sweeps -> SweepStates] /\ SweepRows'
      <4>1. sweep' \in [Sweeps -> SweepStates]
        BY <3>2, NoRowType DEF TypeOK, SweepStates
      <4>2. \A d \in Deliveries : delivery'[d].state \in {"none", "pending"} =>
              delivery[d].state \in {"none", "pending"}
        <5> SUFFICES ASSUME NEW d \in Deliveries, delivery'[d].state \in {"none", "pending"}
                     PROVE  delivery[d].state \in {"none", "pending"}
          OBVIOUS
        <5>1. d \notin sweep[s].todo /\ RowRead(s, d)
          BY <2>5, CommitRow DEF SweepRows
        <5>2. sweep[s].rows[d].state # "pending"
          BY <5>1 DEF RowRead
        <5>3. sweep[s].rows[d].state = "none" => delivery'[d] = delivery[d]
          BY <2>5, <5>1, CommitRow DEF RowRead
        <5> QED
          BY <2>5, <5>2, <5>3, CommitRow
      <4>3. \A t \in Sweeps, d \in Deliveries : RowRead(t, d)'
        BY <3>2, <4>2, NoRowType DEF TypeOK, SweepRows, RowRead, Idle, NoRow
      <4> QED
        BY <4>1, <4>3 DEF SweepRows
    <3> QED
      BY <2>5, <3>1, <3>3 DEF Commit, TypeOK, SweepStates, WellCounted
  <2>6. ASSUME NEW s \in Sweeps,
               Crash(s) \/ \E d \in Deliveries : Raise(s, d)
        PROVE TypeInv'
    <3>1. sweep' = [sweep EXCEPT ![s] = Idle]
      BY <2>6 DEF Crash, Raise
    <3>2. sweep' \in [Sweeps -> SweepStates] /\ SweepRows'
      <4>1. delivery' = delivery
        BY <2>6 DEF Crash, Raise
      <4> QED
        BY <3>1, <4>1, NoRowType DEF TypeOK, SweepStates, SweepRows, RowRead, Idle, NoRow
    <3> QED
      BY <2>6, <3>2, AlertsAssumption DEF Crash, Raise, TypeOK, SweepStates
  <2>7. CASE UNCHANGED vars
    BY <2>7 DEF vars, TypeOK, SweepRows, RowRead, WellCounted
  <2> QED
    BY <2>1, <2>2, <2>3, <2>4, <2>5, <2>6, <2>7 DEF Next, SweepStep, Misses
<1> QED
  BY <1>1, <1>2, PTL DEF Spec

\* Every variable keeps its type.
THEOREM TypeCorrect == Spec => []TypeOK
  BY TypeInvariant, PTL DEF TypeInv

-----------------------------------------------------------------------------
(* Outcomes are earned *)

\* What a row of delivery d, stored or in a sweep, says about d is true: no
\* more attempts are counted than were made, a delivered one was received,
\* and an abandoned one was taken up three times.
Earned(d, row) ==
  /\ row.attempts <= tries[d]
  /\ row.state = "delivered" => d \in received
  /\ row.state = "abandoned" => tries[d] >= MaxAttempts

RowsEarned ==
  \A d \in Deliveries :
    /\ Earned(d, delivery[d])
    /\ \A s \in Sweeps : Earned(d, sweep[s].rows[d])

\* Counting one more attempt keeps pace with the attempts made.
LEMMA TriedCounts ==
  ASSUME TypeOK, NEW d \in Deliveries, NEW n \in 0 .. 2, n <= tries[d], Tried(d)
  PROVE  /\ n + 1 <= tries'[d]
         /\ \A e \in Deliveries : tries[e] <= tries'[e]
  BY AlertsAssumption DEF TypeOK, Tried

\* A delivery shown as delivered did reach its endpoint, and one shown as
\* abandoned was taken up three times, each time with a POST or a refusal of
\* the open breaker, however sweeps overlap, crash and overwrite each other.
THEOREM OutcomesEarned == Spec => []OutcomeWasEarned
<1>1. Init => RowsEarned
  BY DEF Init, RowsEarned, Earned, Idle, NoRow
<1>2. TypeInv /\ RowsEarned /\ [Next]_vars => RowsEarned'
  <2> SUFFICES ASSUME TypeInv, RowsEarned, [Next]_vars PROVE RowsEarned'
    OBVIOUS
  <2>t. /\ delivery \in [Deliveries -> Rows]
        /\ sweep \in [Sweeps -> SweepStates]
        /\ tries \in [Deliveries -> 0 .. MaxTries]
        /\ NoRow.attempts = 0 /\ NoRow.state = "none"
        /\ \A e \in Deliveries : 0 <= tries[e]
    BY AlertsAssumption DEF TypeInv, TypeOK, SweepStates, NoRow
  <2>1. CASE Evaluate
    <3>1. \A d \in Deliveries : Earned(d, delivery'[d])
      BY <2>1, <2>t DEF Evaluate, RowsEarned, Earned
    <3> QED
      BY <2>1, <3>1 DEF Evaluate, RowsEarned, Earned
  <2>2. ASSUME NEW s \in Sweeps, Start(s) PROVE RowsEarned'
    <3>1. \A d \in Deliveries, t \in Sweeps :
            sweep'[t].rows[d] \in {sweep[t].rows[d], delivery[d], NoRow}
      BY <2>2, <2>t DEF Start, Sweep, SweepStates
    <3> QED
      BY <2>2, <2>t, <3>1 DEF Start, Sweep, RowsEarned, Earned
  <2>3. ASSUME NEW s \in Sweeps, NEW d \in Deliveries, Succeed(s, d) \/ Misses(s, d)
        PROVE RowsEarned'
    <3> DEFINE n == sweep[s].rows[d].attempts
    <3>1. d \in sweep[s].todo /\ Tried(d) /\ received \subseteq received'
      BY <2>3 DEF Succeed, Misses, Fail, Refuse
    <3>2. n \in 0 .. 2 /\ n <= tries[d]
      BY <3>1, DueRow DEF RowsEarned, Earned
    <3>3. n + 1 <= tries'[d] /\ \A e \in Deliveries : tries[e] <= tries'[e]
      BY <3>1, <3>2, TriedCounts DEF TypeInv
    <3>4. Earned(d, sweep[s].rows[d])'
      <4>1. CASE Succeed(s, d)
        <5>1. sweep'[s].rows[d] = [state |-> "delivered", attempts |-> n + 1]
          BY <4>1, <2>t DEF Succeed, Mark, SweepStates
        <5>2. d \in received'
          BY <4>1 DEF Succeed
        <5> QED
          BY <5>1, <5>2, <3>3 DEF Earned
      <4>2. CASE Misses(s, d)
        <5>1. sweep'[s].rows[d] = [state |-> AfterFailure(n), attempts |-> n + 1]
          BY <4>2, <2>t DEF Misses, Fail, Refuse, Mark, SweepStates
        <5>2. AfterFailure(n) \in {"failed", "abandoned"}
              /\ (AfterFailure(n) = "abandoned" => n + 1 = MaxAttempts)
          BY <3>1, DueRow
        <5> QED
          BY <5>1, <5>2, <3>3 DEF Earned
      <4> QED
        BY <2>3, <4>1, <4>2
    <3>5. \A t \in Sweeps, e \in Deliveries :
            t # s \/ e # d => sweep'[t].rows[e] = sweep[t].rows[e]
      BY <2>3, <2>t DEF Succeed, Misses, Fail, Refuse, Mark, SweepStates
    <3>6. delivery' = delivery
      BY <2>3 DEF Succeed, Misses, Fail, Refuse
    <3>7. \A e \in Deliveries, row \in Rows : Earned(e, row) => Earned(e, row)'
      <4> SUFFICES ASSUME NEW e \in Deliveries, NEW row \in Rows, Earned(e, row)
                   PROVE  Earned(e, row)'
        OBVIOUS
      <4>1. row.attempts \in Nat /\ tries[e] \in Nat /\ MaxAttempts \in Nat
        BY <2>t, AlertsAssumption DEF Rows, MaxAttempts
      <4>2. tries'[e] \in Nat /\ tries[e] <= tries'[e]
        BY <3>1, <3>3, TriedType, AlertsAssumption DEF TypeInv
      <4>3. row.attempts <= tries'[e]
        BY <4>1, <4>2 DEF Earned
      <4>4. row.state = "abandoned" => tries'[e] >= MaxAttempts
        BY <4>1, <4>2 DEF Earned
      <4> QED
        BY <3>1, <4>3, <4>4 DEF Earned
    <3>8. \A e \in Deliveries : Earned(e, delivery[e])'
      BY <3>6, <3>7, <2>t DEF RowsEarned, Earned
    <3>9. \A e \in Deliveries, t \in Sweeps : sweep[t].rows[e] \in Rows
      BY <2>t DEF SweepStates
    <3>10. \A e \in Deliveries, t \in Sweeps : Earned(e, sweep[t].rows[e])'
      <4> SUFFICES ASSUME NEW e \in Deliveries, NEW t \in Sweeps
                   PROVE  Earned(e, sweep[t].rows[e])'
        OBVIOUS
      <4>1. CASE t = s /\ e = d
        BY <4>1, <3>4
      <4>2. CASE t # s \/ e # d
        <5>1. Earned(e, sweep[t].rows[e])
          BY DEF RowsEarned
        <5>2. sweep'[t].rows[e] = sweep[t].rows[e] /\ sweep[t].rows[e] \in Rows
          BY <4>2, <3>5, <3>9
        <5> QED
          BY <5>1, <5>2, <3>7 DEF Earned
      <4> QED
        BY <4>1, <4>2
    <3> QED
      BY <3>8, <3>10 DEF RowsEarned
  <2>4. ASSUME NEW s \in Sweeps, Commit(s) PROVE RowsEarned'
    <3>1. \A d \in Deliveries : Earned(d, delivery'[d])
      <4> SUFFICES ASSUME NEW d \in Deliveries PROVE Earned(d, delivery'[d])
        OBVIOUS
      <4>1. Earned(d, delivery[d]) /\ Earned(d, sweep[s].rows[d])
        BY DEF RowsEarned
      <4>2. CASE delivery'[d] \in {delivery[d], sweep[s].rows[d]}
        BY <4>1, <4>2
      <4>3. CASE /\ delivery'[d].state = delivery[d].state
                 /\ delivery'[d].attempts = sweep[s].rows[d].attempts
        BY <4>1, <4>3 DEF Earned
      <4> QED
        BY <2>4, <4>2, <4>3, CommitRow DEF TypeInv
    <3>2. \A d \in Deliveries, t \in Sweeps :
            sweep'[t].rows[d] \in {sweep[t].rows[d], NoRow}
      BY <2>4, <2>t DEF Commit, Idle
    <3> QED
      BY <2>4, <2>t, <3>1, <3>2 DEF Commit, RowsEarned, Earned
  <2>5. ASSUME NEW s \in Sweeps, Crash(s) \/ \E d \in Deliveries : Raise(s, d)
        PROVE RowsEarned'
    <3>1. \A d \in Deliveries, t \in Sweeps :
            sweep'[t].rows[d] \in {sweep[t].rows[d], NoRow}
      BY <2>5, <2>t DEF Crash, Raise, Idle
    <3> QED
      BY <2>5, <2>t, <3>1 DEF Crash, Raise, RowsEarned, Earned
  <2>6. CASE UNCHANGED vars
    BY <2>6 DEF vars, RowsEarned, Earned
  <2> QED
    BY <2>1, <2>2, <2>3, <2>4, <2>5, <2>6 DEF Next, SweepStep, Misses
<1>3. TypeInv /\ RowsEarned => OutcomeWasEarned
  BY AlertsAssumption DEF TypeInv, TypeOK, RowsEarned, Earned, OutcomeWasEarned
<1> QED
  BY <1>1, <1>2, <1>3, TypeInvariant, PTL DEF Spec

-----------------------------------------------------------------------------
(* Terminal states, as long as sweeps do not overlap *)

\* Without an overlap one sweep runs at a time, and the rows it has read are
\* still due in the table.
SweepAlone ==
  overlaps = 0 =>
    /\ \A s, t \in Sweeps : sweep[s].running /\ sweep[t].running => s = t
    /\ \A s \in Sweeps : sweep[s].running =>
         \A d \in Deliveries : sweep[s].rows[d] # NoRow => delivery[d].state \in Due

\* No sweep takes a delivery out of a terminal state while sweeps do not
\* overlap, wherever they crash.
THEOREM TerminalStays == Spec => TerminalIsTerminal
<1>1. Init => SweepAlone
  BY DEF Init, SweepAlone, Idle
<1>2. TypeInv /\ SweepAlone /\ [Next]_vars => SweepAlone'
  <2> SUFFICES ASSUME TypeInv, SweepAlone, [Next]_vars PROVE SweepAlone'
    OBVIOUS
  <2>t. sweep \in [Sweeps -> SweepStates] /\ overlaps \in Nat
    BY AlertsAssumption DEF TypeInv, TypeOK, SweepStates
  <2>1. CASE Evaluate
    <3>1. \A d \in Deliveries : delivery[d].state \in Due => delivery'[d] = delivery[d]
      BY <2>1 DEF Evaluate, TypeInv, TypeOK, Due
    <3> QED
      BY <2>1, <3>1 DEF Evaluate, SweepAlone
  <2>2. ASSUME NEW s \in Sweeps, Start(s) PROVE SweepAlone'
    <3>1. CASE overlaps' # 0
      BY <3>1 DEF SweepAlone
    <3>2. CASE ~Overlapping(s) /\ UNCHANGED overlaps
      <4>1. \A t \in Sweeps : sweep'[t].running => t = s
        BY <2>2, <3>2, <2>t DEF Start, Sweep, Overlapping
      <4>2. \A d \in Deliveries : sweep'[s].rows[d] # NoRow => delivery[d].state \in Due
        BY <2>2, <2>t DEF Start, Sweep
      <4>3. delivery' = delivery
        BY <2>2 DEF Start, Sweep
      <4> QED
        BY <4>1, <4>2, <4>3 DEF SweepAlone
    <3> QED
      BY <2>2, <2>t, <3>1, <3>2 DEF Start, Sweep
  <2>3. ASSUME NEW s \in Sweeps, NEW d \in Deliveries, Succeed(s, d) \/ Misses(s, d)
        PROVE SweepAlone'
    <3>1. d \in sweep[s].todo /\ UNCHANGED <<delivery, overlaps>>
      BY <2>3 DEF Succeed, Misses, Fail, Refuse
    <3>2. \A t \in Sweeps : sweep'[t].running = sweep[t].running
      <4>1. CASE Succeed(s, d)
        BY <4>1, <2>t DEF Succeed, Mark, SweepStates
      <4>2. CASE Misses(s, d)
        BY <4>2, <2>t DEF Misses, Fail, Refuse, Mark, SweepStates
      <4> QED
        BY <2>3, <4>1, <4>2
    <3>3. \A t \in Sweeps, e \in Deliveries :
            t # s \/ e # d => sweep'[t].rows[e] = sweep[t].rows[e]
      <4>1. CASE Succeed(s, d)
        BY <4>1, <2>t DEF Succeed, Mark, SweepStates
      <4>2. CASE Misses(s, d)
        BY <4>2, <2>t DEF Misses, Fail, Refuse, Mark, SweepStates
      <4> QED
        BY <2>3, <4>1, <4>2
    <3>4. sweep[s].rows[d] # NoRow
      BY <3>1 DEF TypeInv, SweepRows, RowRead, Due, NoRow
    <3>5. \A t \in Sweeps, e \in Deliveries :
            sweep'[t].rows[e] # NoRow => sweep[t].rows[e] # NoRow
      BY <3>3, <3>4
    <3> QED
      BY <3>1, <3>2, <3>5 DEF SweepAlone
  <2>4. ASSUME NEW s \in Sweeps,
               Commit(s) \/ Crash(s) \/ \E d \in Deliveries : Raise(s, d)
        PROVE SweepAlone'
    <3>2. \A t \in Sweeps \ {s} : sweep'[t] = sweep[t]
      BY <2>4, <2>t DEF Commit, Crash, Raise
    <3>3. ~sweep'[s].running
      BY <2>4, <2>t DEF Commit, Crash, Raise, Idle
    <3>4. overlaps' = overlaps
      BY <2>4 DEF Commit, Crash, Raise
    <3>5. CASE delivery' = delivery
      BY <3>2, <3>3, <3>4, <3>5 DEF SweepAlone
    <3>6. CASE Commit(s)
      <4>1. overlaps = 0 => \A t \in Sweeps : ~sweep'[t].running
        BY <3>6, <3>2, <3>3 DEF Commit, SweepAlone
      <4> QED
        BY <4>1, <3>4 DEF SweepAlone
    <3> QED
      BY <2>4, <3>5, <3>6 DEF Crash, Raise
  <2>5. CASE UNCHANGED vars
    BY <2>5 DEF vars, SweepAlone
  <2> QED
    BY <2>1, <2>2, <2>3, <2>4, <2>5 DEF Next, SweepStep, Misses
<1>3. TypeInv /\ SweepAlone /\ [Next]_vars =>
        (overlaps = 0 => \A d \in Deliveries :
           delivery[d].state \in Terminal => delivery'[d] = delivery[d])
  <2> SUFFICES ASSUME TypeInv, SweepAlone, [Next]_vars, overlaps = 0,
                      NEW d \in Deliveries, delivery[d].state \in Terminal
               PROVE  delivery'[d] = delivery[d]
    OBVIOUS
  <2>1. delivery[d].state \notin Due \cup {"none"}
    BY DEF Terminal, Due
  <2>2. CASE Evaluate
    BY <2>1, <2>2 DEF Evaluate
  <2>3. ASSUME NEW s \in Sweeps, Commit(s) PROVE delivery'[d] = delivery[d]
    <3>1. sweep[s].running
      BY <2>3 DEF Commit
    <3>2. sweep[s].rows[d] = NoRow
      BY <2>1, <3>1 DEF SweepAlone
    <3> QED
      BY <2>3, <3>2, CommitRow DEF TypeInv
  <2>4. CASE delivery' = delivery
    BY <2>4
  <2> QED
    BY <2>2, <2>3, <2>4
       DEF Next, SweepStep, Misses, Start, Sweep, Succeed, Misses, Fail, Refuse, Raise, Crash, vars
<1> QED
  BY <1>1, <1>2, <1>3, TypeInvariant, PTL DEF Spec, TerminalIsTerminal

-----------------------------------------------------------------------------
(* The limit on attempts *)
Held(s, d) == sweep[s].rows[d] # NoRow

\* The sweeps that have read delivery d and not tried it yet.
Waiting(d) == {s \in Sweeps : d \in sweep[s].todo}

\* b attempts were counted on d when the sweeps that hold it, one of which
\* found no other running, began.  None of them writes back less than b + 1,
\* and but for the first each has cost an overlap.  When the last is gone
\* either a commit has counted one attempt or a crash has been spent.
StartedAt(d, b) ==
  /\ b <= delivery[d].attempts
  /\ \A s \in Sweeps : Held(s, d) =>
       b + (IF d \in sweep[s].todo THEN 0 ELSE 1) <= sweep[s].rows[d].attempts
  /\ tries[d] + Cardinality(Waiting(d)) <= b + 1 + overlaps + crashes
  /\ \/ \E s \in Sweeps : Held(s, d)
     \/ b < delivery[d].attempts
     \/ tries[d] + Cardinality(Waiting(d)) <= b + overlaps + crashes

\* A sweep that does not run holds nothing, and what it does hold has a row
\* in the table.
SweepsHold ==
  /\ \A d \in Deliveries : delivery[d].state = "none" => delivery[d].attempts = 0
  /\ \A s \in Sweeps :
       /\ ~sweep[s].running => sweep[s].todo = {} /\ \A d \in Deliveries : ~Held(s, d)
       /\ \A d \in Deliveries : Held(s, d) => /\ sweep[s].rows[d].state # "none"
                                             /\ delivery[d].state # "none"

TriesCounted ==
  /\ SweepsHold
  /\ TargetsParse =>
       \A d \in Deliveries :
         IsFiniteSet(Waiting(d)) /\ \E b \in 0 .. MaxAttempts : StartedAt(d, b)

\* A step that leaves what is known of d alone may only spend more.
LEMMA StartedCarries ==
  ASSUME TypeOK, NEW d \in Deliveries, NEW b \in 0 .. MaxAttempts,
         IsFiniteSet(Waiting(d)), StartedAt(d, b),
         delivery'[d].attempts = delivery[d].attempts, tries'[d] = tries[d], Waiting(d)' = Waiting(d),
         \A s \in Sweeps : /\ sweep'[s].rows[d] = sweep[s].rows[d]
                           /\ d \in sweep'[s].todo <=> d \in sweep[s].todo,
         overlaps' \in Nat, crashes' \in Nat,
         overlaps' >= overlaps, crashes' >= crashes
  PROVE  StartedAt(d, b)'
<1>1. /\ tries[d] \in Nat /\ overlaps \in Nat /\ crashes \in Nat
      /\ Cardinality(Waiting(d)) \in Nat /\ b \in Nat
  BY FS_CardinalityType, AlertsAssumption DEF TypeOK, MaxAttempts
<1>2. \A s \in Sweeps : Held(s, d)' <=> Held(s, d)
  BY DEF Held
<1> DEFINE n == Cardinality(Waiting(d))
<1>3. Cardinality(Waiting(d))' = n
  OBVIOUS
<1>4. n \in Nat
  BY <1>1
<1>5. tries[d] + n <= b + 1 + overlaps + crashes
  BY DEF StartedAt
<1>6. tries'[d] + n <= b + 1 + overlaps' + crashes'
  <2> HIDE DEF n
  <2> QED
    BY <1>1, <1>4, <1>5
<1>7. \/ \E s \in Sweeps : Held(s, d)
      \/ b < delivery[d].attempts
      \/ tries'[d] + n <= b + overlaps' + crashes'
  <2>1. tries[d] + n <= b + overlaps + crashes => tries'[d] + n <= b + overlaps' + crashes'
    <3> HIDE DEF n
    <3> QED
      BY <1>1, <1>4
  <2> QED
    BY <2>1 DEF StartedAt
<1>8. \A s \in Sweeps : Held(s, d)' =>
        b + (IF d \in sweep'[s].todo THEN 0 ELSE 1) <= sweep'[s].rows[d].attempts
  BY <1>2 DEF StartedAt
<1> HIDE DEF n
<1> QED
  BY <1>2, <1>3, <1>6, <1>7, <1>8 DEF StartedAt

\* A sweep's mark replaces one row of its own, on which one more attempt is
\* then counted.
LEMMA MarkOne ==
  ASSUME TypeInv, NEW s \in Sweeps, NEW e \in Deliveries, Succeed(s, e) \/ Misses(s, e)
  PROVE  /\ e \in sweep[s].todo /\ Tried(e)
         /\ sweep'[s].todo = sweep[s].todo \ {e}
         /\ sweep'[s].running = sweep[s].running
         /\ sweep'[s].rows[e].attempts = sweep[s].rows[e].attempts + 1
         /\ sweep'[s].rows[e] # NoRow /\ sweep'[s].rows[e].state # "none"
         /\ \A d \in Deliveries \ {e} : sweep'[s].rows[d] = sweep[s].rows[d]
         /\ \A t \in Sweeps \ {s} : sweep'[t] = sweep[t]
         /\ UNCHANGED <<delivery, overlaps, crashes>>
<1>t. sweep \in [Sweeps -> SweepStates]
  BY DEF TypeInv, TypeOK, SweepStates
<1>1. PICK st \in {"delivered", "failed", "abandoned"} :
        Mark(s, e, st) /\ e \in sweep[s].todo /\ Tried(e)
        /\ UNCHANGED <<delivery, overlaps, crashes>>
  BY DEF Succeed, Misses, Fail, Refuse, AfterFailure
<1>2. sweep[s].rows[e].attempts \in 0 .. 2
  BY <1>1, DueRow
<1>3. sweep'[s].rows[e] = [state |-> st, attempts |-> sweep[s].rows[e].attempts + 1]
  BY <1>1, <1>t DEF Mark, SweepStates
<1>4. sweep'[s].rows[e] # NoRow /\ sweep'[s].rows[e].state # "none"
  BY <1>2, <1>3 DEF NoRow
<1>5. /\ sweep'[s].todo = sweep[s].todo \ {e}
      /\ sweep'[s].running = sweep[s].running
      /\ \A d \in Deliveries \ {e} : sweep'[s].rows[d] = sweep[s].rows[d]
      /\ \A t \in Sweeps \ {s} : sweep'[t] = sweep[t]
  BY <1>1, <1>t DEF Mark, SweepStates
<1> QED
  BY <1>1, <1>3, <1>4, <1>5

\* A delivery to be tried is held.
LEMMA WaitingHeld ==
  ASSUME TypeInv, NEW s \in Sweeps, NEW d \in sweep[s].todo
  PROVE  d \in Deliveries /\ Held(s, d)
  BY DEF TypeInv, TypeOK, SweepRows, RowRead, Held, NoRow, Due

\* What the sweeps hold stays in the table.
LEMMA SweepsKeepHold ==
  ASSUME TypeInv, SweepsHold, [Next]_vars
  PROVE  SweepsHold' /\ (TargetsParse' => TargetsParse)
<1>t. sweep \in [Sweeps -> SweepStates] /\ delivery \in [Deliveries -> Rows]
  BY DEF TypeInv, TypeOK, SweepStates
<1>0. "none" \notin Due
  BY DEF Due
<1> USE DEF Held
<1>1. CASE Evaluate
  <2>1. /\ \A d \in Deliveries : delivery[d].state # "none" => delivery'[d] = delivery[d]
        /\ \A d \in Deliveries : delivery'[d] = delivery[d] \/ delivery'[d].state = "pending"
        /\ sweep' = sweep
    BY <1>1 DEF Evaluate
  <2> QED
    BY <2>1, AlertsAssumption DEF SweepsHold, TargetsParse
<1>2. ASSUME NEW s \in Sweeps, Start(s) PROVE SweepsHold' /\ delivery' = delivery
  <2>1. PICK due \in SUBSET Deliveries :
          /\ \A d \in due : delivery[d].state \in Due
          /\ sweep' = [sweep EXCEPT ![s] =
               [running |-> TRUE, todo |-> due,
                rows |-> [d \in Deliveries |-> IF d \in due THEN delivery[d] ELSE NoRow]]]
    BY <1>2 DEF Start, Sweep
  <2>2. /\ sweep'[s].running /\ \A t \in Sweeps \ {s} : sweep'[t] = sweep[t]
        /\ \A d \in Deliveries : sweep'[s].rows[d] # NoRow =>
             sweep'[s].rows[d] = delivery[d] /\ delivery[d].state # "none"
    BY <1>t, <1>0, <2>1
  <2>3. delivery' = delivery
    BY <1>2 DEF Start, Sweep
  <2> QED
    BY <2>2, <2>3 DEF SweepsHold
<1>3. ASSUME NEW s \in Sweeps, NEW e \in Deliveries, Succeed(s, e) \/ Misses(s, e)
      PROVE  SweepsHold' /\ delivery' = delivery
  <2>1. Held(s, e) /\ sweep[s].running
    BY <1>3, MarkOne, WaitingHeld DEF SweepsHold
  <2> QED
    BY <1>3, <2>1, MarkOne DEF SweepsHold
<1>4. ASSUME NEW s \in Sweeps, sweep' = [sweep EXCEPT ![s] = Idle], delivery' = delivery
      PROVE  SweepsHold'
  <2>1. /\ sweep'[s] = Idle /\ \A t \in Sweeps \ {s} : sweep'[t] = sweep[t]
        /\ Idle.todo = {} /\ \A d \in Deliveries : Idle.rows[d] = NoRow
    BY <1>4, <1>t DEF Idle
  <2> QED
    BY <1>4, <2>1 DEF SweepsHold
<1>5. ASSUME NEW s \in Sweeps, Commit(s) PROVE SweepsHold' /\ (TargetsParse' => TargetsParse)
  <2>1. /\ sweep'[s] = Idle /\ \A t \in Sweeps \ {s} : sweep'[t] = sweep[t]
        /\ Idle.todo = {} /\ \A d \in Deliveries : Idle.rows[d] = NoRow
    BY <1>5, <1>t DEF Commit, Idle
  <2>2. \A d \in Deliveries :
          \/ delivery'[d] = delivery[d]
          \/ delivery[d].state # "none" /\ delivery'[d].state # "none"
    <3> SUFFICES ASSUME NEW d \in Deliveries, delivery'[d] # delivery[d]
                 PROVE  delivery[d].state # "none" /\ delivery'[d].state # "none"
      OBVIOUS
    <3>1. sweep[s].rows[d] # NoRow
      BY <1>5, CommitRow DEF TypeInv
    <3>2. sweep[s].rows[d].state # "none" /\ delivery[d].state # "none"
      BY <3>1 DEF SweepsHold
    <3> QED
      BY <1>5, <3>2, CommitRow DEF TypeInv
  <2> QED
    BY <2>1, <2>2, AlertsAssumption DEF SweepsHold, TargetsParse
<1>6. CASE UNCHANGED vars
  BY <1>6 DEF vars, SweepsHold, TargetsParse
<1>7. delivery' = delivery => (TargetsParse' => TargetsParse)
  BY DEF TargetsParse
<1>8. ASSUME NEW s \in Sweeps, Crash(s) \/ \E e \in Deliveries : Raise(s, e)
      PROVE  SweepsHold' /\ delivery' = delivery
  BY <1>4, <1>8 DEF Crash, Raise
<1> QED
  BY <1>1, <1>2, <1>3, <1>5, <1>6, <1>7, <1>8 DEF Next, SweepStep, Misses

\* A sweep that begins with d in hand: the first of a burst starts from what
\* is counted in the table, any other one is an overlap.
LEMMA BeginsWith ==
  ASSUME TypeInv, SweepsHold, NEW s \in Sweeps, Start(s),
         NEW d \in Deliveries, d \in sweep'[s].todo,
         IsFiniteSet(Waiting(d)), NEW b \in 0 .. MaxAttempts, StartedAt(d, b)
  PROVE  IsFiniteSet(Waiting(d)') /\ \E c \in 0 .. MaxAttempts : StartedAt(d, c)'
<1> DEFINE n == Cardinality(Waiting(d))
<1>t. sweep \in [Sweeps -> SweepStates] /\ delivery \in [Deliveries -> Rows]
  BY DEF TypeInv, TypeOK, SweepStates
<1>1. /\ sweep'[s].rows[d] = delivery[d] /\ delivery[d].state \in Due
      /\ \A t \in Sweeps \ {s} : sweep'[t] = sweep[t]
      /\ ~sweep[s].running
      /\ UNCHANGED <<delivery, tries, crashes>>
  BY <1>t DEF Start, Sweep
<1>2. s \notin Waiting(d) /\ Waiting(d)' = Waiting(d) \cup {s} /\ ~Held(s, d)
  BY <1>1 DEF Waiting, SweepsHold
<1>3. IsFiniteSet(Waiting(d)') /\ Cardinality(Waiting(d)') = n + 1
  BY <1>2, FS_AddElement
<1>4. Held(s, d)' /\ \A t \in Sweeps \ {s} : Held(t, d)' <=> Held(t, d)
  BY <1>1 DEF Held, NoRow, Due
<1>5. /\ tries[d] \in Nat /\ overlaps \in Nat /\ crashes \in Nat /\ n \in Nat
      /\ b \in Nat /\ delivery[d].attempts \in 0 .. MaxAttempts
  BY <1>t, FS_CardinalityType, AlertsAssumption DEF TypeInv, TypeOK, MaxAttempts, Rows
<1>6. tries[d] + n <= b + 1 + overlaps + crashes
  BY DEF StartedAt
<1>7. CASE ~Overlapping(s) /\ overlaps' = overlaps
  <2>1. \A t \in Sweeps : ~sweep[t].running
    BY <1>1, <1>7 DEF Overlapping
  <2>2. Waiting(d) = {} /\ \A t \in Sweeps : ~Held(t, d)
    BY <2>1 DEF SweepsHold, Waiting
  <2>3. n = 0
    BY <2>2, FS_EmptySet
  <2>4. tries[d] + n <= delivery[d].attempts + overlaps + crashes
    <3>1. b < delivery[d].attempts \/ tries[d] + n <= b + overlaps + crashes
      BY <2>2 DEF StartedAt
    <3>2. b <= delivery[d].attempts
      BY DEF StartedAt
    <3> HIDE DEF n
    <3> QED
      BY <1>5, <1>6, <3>1, <3>2 DEF MaxAttempts
  <2>c. PICK c \in 0 .. MaxAttempts : c = delivery[d].attempts
    BY <1>5
  <2>5. tries'[d] + Cardinality(Waiting(d)') <= c + 1 + overlaps' + crashes'
    <3> HIDE DEF n
    <3> QED
      BY <1>1, <1>3, <1>5, <1>7, <2>4, <2>c DEF MaxAttempts
  <2>6. \A t \in Sweeps : Held(t, d)' =>
          c + (IF d \in sweep'[t].todo THEN 0 ELSE 1) <= sweep'[t].rows[d].attempts
    BY <1>1, <1>4, <1>5, <2>2, <2>c DEF MaxAttempts
  <2>7. StartedAt(d, c)'
    BY <1>1, <1>4, <1>5, <2>5, <2>6, <2>c DEF StartedAt, MaxAttempts
  <2> QED
    BY <1>3, <2>7
<1>8. CASE overlaps' = overlaps + 1
  <2>1. tries'[d] + Cardinality(Waiting(d)') <= b + 1 + overlaps' + crashes'
    <3> HIDE DEF n
    <3> QED
      BY <1>1, <1>3, <1>5, <1>6, <1>8
  <2>2. b <= delivery[d].attempts
    BY DEF StartedAt
  <2>3. \A t \in Sweeps : Held(t, d)' =>
          b + (IF d \in sweep'[t].todo THEN 0 ELSE 1) <= sweep'[t].rows[d].attempts
    <3>1. \A t \in Sweeps \ {s} : Held(t, d) =>
          b + (IF d \in sweep[t].todo THEN 0 ELSE 1) <= sweep[t].rows[d].attempts
      BY DEF StartedAt
    <3> QED
      BY <1>1, <1>4, <1>5, <2>2, <3>1
  <2>4. StartedAt(d, b)'
    BY <1>1, <1>4, <2>1, <2>2, <2>3 DEF StartedAt
  <2> QED
    BY <1>3, <2>4
<1> QED
  BY <1>7, <1>8 DEF Start, Sweep

\* An attempt takes a sweep from those waiting to those that will count it.
LEMMA TriesOne ==
  ASSUME TypeInv, NEW s \in Sweeps, NEW d \in Deliveries, Succeed(s, d) \/ Misses(s, d),
         IsFiniteSet(Waiting(d)), NEW b \in 0 .. MaxAttempts, StartedAt(d, b)
  PROVE  IsFiniteSet(Waiting(d)') /\ StartedAt(d, b)'
<1> DEFINE n == Cardinality(Waiting(d))
<1>1. /\ d \in sweep[s].todo /\ Tried(d)
      /\ sweep'[s].todo = sweep[s].todo \ {d}
      /\ sweep'[s].rows[d].attempts = sweep[s].rows[d].attempts + 1
      /\ sweep'[s].rows[d] # NoRow
      /\ \A t \in Sweeps \ {s} : sweep'[t] = sweep[t]
      /\ UNCHANGED <<delivery, overlaps, crashes>>
  BY MarkOne
<1>2. s \in Waiting(d) /\ Waiting(d)' = Waiting(d) \ {s} /\ Held(s, d)
  BY <1>1, WaitingHeld DEF Waiting
<1>3. IsFiniteSet(Waiting(d)') /\ Cardinality(Waiting(d)') = n - 1
  BY <1>2, FS_RemoveElement
<1>4. \A t \in Sweeps : Held(t, d)' <=> Held(t, d)
  BY <1>1, <1>2 DEF Held
<1>5. /\ tries[d] \in Nat /\ overlaps \in Nat /\ crashes \in Nat /\ n \in Nat /\ b \in Nat
      /\ sweep[s].rows[d].attempts \in Nat
  BY FS_CardinalityType, AlertsAssumption, DueRow, <1>1 DEF TypeInv, TypeOK, MaxAttempts
<1>6. tries'[d] \in Nat /\ tries'[d] <= tries[d] + 1
  BY <1>1, AlertsAssumption DEF TypeInv, TypeOK, Tried
<1>7. tries'[d] + Cardinality(Waiting(d)') <= b + 1 + overlaps' + crashes'
  <2>1. tries[d] + n <= b + 1 + overlaps + crashes
    BY DEF StartedAt
  <2> HIDE DEF n
  <2> QED
    BY <1>1, <1>3, <1>5, <1>6, <2>1
<1>8. \A t \in Sweeps : Held(t, d)' =>
        b + (IF d \in sweep'[t].todo THEN 0 ELSE 1) <= sweep'[t].rows[d].attempts
  <2>1. b <= sweep[s].rows[d].attempts
    BY <1>1, <1>2, <1>5 DEF StartedAt
  <2>2. \A t \in Sweeps \ {s} : Held(t, d) =>
          b + (IF d \in sweep[t].todo THEN 0 ELSE 1) <= sweep[t].rows[d].attempts
    BY DEF StartedAt
  <2> QED
    BY <1>1, <1>4, <1>5, <2>1, <2>2
<1>9. b <= delivery'[d].attempts /\ \E t \in Sweeps : Held(t, d)'
  BY <1>1, <1>2, <1>4 DEF StartedAt
<1> QED
  BY <1>3, <1>7, <1>8, <1>9 DEF StartedAt

\* A commit counts one attempt more than b; a crash is spent itself.
LEMMA EndsWith ==
  ASSUME TypeInv, NEW s \in Sweeps, Commit(s) \/ Crash(s), NEW d \in Deliveries, Held(s, d),
         IsFiniteSet(Waiting(d)), NEW b \in 0 .. MaxAttempts, StartedAt(d, b)
  PROVE  IsFiniteSet(Waiting(d)') /\ StartedAt(d, b)'
<1> DEFINE n == Cardinality(Waiting(d))
           m == Cardinality(Waiting(d)')
<1>t. sweep \in [Sweeps -> SweepStates] /\ delivery \in [Deliveries -> Rows]
  BY DEF TypeInv, TypeOK, SweepStates
<1>1. /\ sweep'[s] = Idle /\ \A t \in Sweeps \ {s} : sweep'[t] = sweep[t]
      /\ Idle.todo = {} /\ Idle.rows[d] = NoRow
      /\ UNCHANGED <<tries, overlaps>>
  BY <1>t DEF Commit, Crash, Idle
<1>2. Waiting(d)' = Waiting(d) \ {s} /\ ~Held(s, d)'
      /\ \A t \in Sweeps \ {s} : Held(t, d)' <=> Held(t, d)
  BY <1>1 DEF Waiting, Held
<1>3. IsFiniteSet(Waiting(d)') /\ m \in Nat /\ n \in Nat /\ m <= n
  <2>1. IsFiniteSet(Waiting(d) \ {s}) /\ Cardinality(Waiting(d) \ {s}) \in {n, n - 1}
    BY FS_RemoveElement
  <2>2. n \in Nat /\ Cardinality(Waiting(d) \ {s}) \in Nat
    BY <2>1, FS_CardinalityType
  <2> QED
    BY <1>2, <2>1, <2>2
<1>5. /\ tries[d] \in Nat /\ overlaps \in Nat /\ crashes \in Nat /\ b \in Nat
      /\ sweep[s].rows[d].attempts \in Nat /\ delivery[d].attempts \in Nat
  BY <1>t, AlertsAssumption DEF TypeInv, TypeOK, MaxAttempts, SweepStates, Rows
<1>6. \A t \in Sweeps : Held(t, d)' =>
        b + (IF d \in sweep'[t].todo THEN 0 ELSE 1) <= sweep'[t].rows[d].attempts
  BY <1>1, <1>2 DEF StartedAt
<1>7. tries[d] + n <= b + 1 + overlaps + crashes
  BY DEF StartedAt
<1>8. CASE Commit(s)
  <2>1. /\ delivery'[d].attempts = sweep[s].rows[d].attempts
        /\ d \notin sweep[s].todo /\ crashes' = crashes
    BY <1>8, CommitRow DEF Commit, Held, TypeInv
  <2>2. b + 1 <= sweep[s].rows[d].attempts
    BY <2>1 DEF StartedAt
  <2>3. b < delivery'[d].attempts /\ b <= delivery'[d].attempts
    BY <1>5, <2>1, <2>2
  <2>4. tries'[d] + m <= b + 1 + overlaps' + crashes'
    <3> HIDE DEF n, m
    <3> QED
      BY <1>1, <1>3, <1>5, <1>7, <2>1
  <2> QED
    BY <1>3, <1>6, <2>3, <2>4 DEF StartedAt
<1>9. CASE Crash(s)
  <2>1. delivery' = delivery /\ crashes' = crashes + 1
    BY <1>9 DEF Crash
  <2>2. b <= delivery'[d].attempts
    BY <2>1 DEF StartedAt
  <2>3. /\ tries'[d] + m <= b + overlaps' + crashes'
        /\ tries'[d] + m <= b + 1 + overlaps' + crashes'
    <3> HIDE DEF n, m
    <3> QED
      BY <1>1, <1>3, <1>5, <1>7, <2>1
  <2> QED
    BY <1>3, <1>6, <2>2, <2>3 DEF StartedAt
<1> QED
  BY <1>8, <1>9

LEMMA TriesAreCounted == Spec => []TriesCounted
<1>1. Init => TriesCounted
  <2> SUFFICES ASSUME Init PROVE TriesCounted
    OBVIOUS
  <2>1. /\ \A s \in Sweeps : sweep[s].todo = {} /\ ~sweep[s].running
        /\ \A s \in Sweeps, d \in Deliveries : ~Held(s, d)
        /\ \A d \in Deliveries : tries[d] = 0 /\ delivery[d].attempts = 0
        /\ overlaps = 0 /\ crashes = 0
    BY DEF Init, Idle, NoRow, Held
  <2>2. SweepsHold
    BY <2>1 DEF SweepsHold
  <2>3. ASSUME NEW d \in Deliveries
        PROVE  IsFiniteSet(Waiting(d)) /\ StartedAt(d, 0)
    <3>1. Waiting(d) = {}
      BY <2>1 DEF Waiting
    <3>2. IsFiniteSet(Waiting(d)) /\ Cardinality(Waiting(d)) = 0
      BY <3>1, FS_EmptySet
    <3> QED
      BY <2>1, <3>2 DEF StartedAt
  <2>4. 0 \in 0 .. MaxAttempts
    BY DEF MaxAttempts
  <2> QED
    BY <2>2, <2>3, <2>4 DEF TriesCounted
<1>2. TypeInv /\ TypeInv' /\ TriesCounted /\ [Next]_vars => TriesCounted'
  <2> SUFFICES ASSUME TypeInv, TypeInv', TriesCounted, [Next]_vars PROVE TriesCounted'
    OBVIOUS
  <2>1. SweepsHold /\ SweepsHold' /\ (TargetsParse' => TargetsParse)
    BY SweepsKeepHold DEF TriesCounted
  <2> SUFFICES ASSUME TargetsParse', NEW d \in Deliveries
               PROVE  /\ IsFiniteSet(Waiting(d)')
                      /\ \E b \in 0 .. MaxAttempts : StartedAt(d, b)'
    BY <2>1 DEF TriesCounted
  <2>2. PICK b \in 0 .. MaxAttempts : StartedAt(d, b) /\ IsFiniteSet(Waiting(d))
    BY <2>1 DEF TriesCounted
  <2>t. /\ sweep \in [Sweeps -> SweepStates] /\ TypeOK
        /\ overlaps \in Nat /\ crashes \in Nat /\ overlaps' \in Nat /\ crashes' \in Nat
    BY AlertsAssumption DEF TypeInv, TypeOK, SweepStates
  \* d is not concerned
  <2>3. ASSUME delivery'[d].attempts = delivery[d].attempts, tries'[d] = tries[d],
               \A s \in Sweeps : /\ sweep'[s].rows[d] = sweep[s].rows[d]
                                 /\ d \in sweep'[s].todo <=> d \in sweep[s].todo,
               overlaps' >= overlaps, crashes' >= crashes
        PROVE  IsFiniteSet(Waiting(d)') /\ StartedAt(d, b)'
    <3>1. Waiting(d)' = Waiting(d)
      BY <2>3 DEF Waiting
    <3> QED
      BY <2>2, <2>3, <2>t, <3>1, StartedCarries
  <2>4. CASE Evaluate
    <3>1. delivery'[d].attempts = delivery[d].attempts
      BY <2>1, <2>4 DEF Evaluate, SweepsHold
    <3> QED
      BY <2>2, <2>3, <2>4, <2>t, <3>1 DEF Evaluate
  <2>5. ASSUME NEW s \in Sweeps, Start(s)
        PROVE  IsFiniteSet(Waiting(d)') /\ \E c \in 0 .. MaxAttempts : StartedAt(d, c)'
    <3>1. CASE d \in sweep'[s].todo
      BY <2>1, <2>2, <2>5, <3>1, BeginsWith
    <3>2. CASE d \notin sweep'[s].todo
      <4>1. /\ sweep'[s].rows[d] = NoRow
            /\ \A t \in Sweeps \ {s} : sweep'[t] = sweep[t]
            /\ ~sweep[s].running /\ UNCHANGED <<delivery, tries, crashes>>
            /\ overlaps' \in {overlaps, overlaps + 1}
        BY <2>5, <2>t, <3>2 DEF Start, Sweep
      <4>2. d \notin sweep[s].todo /\ sweep[s].rows[d] = NoRow
        BY <2>1, <4>1 DEF SweepsHold, Held
      <4> QED
        BY <2>2, <2>3, <2>t, <3>2, <4>1, <4>2
    <3> QED
      BY <3>1, <3>2
  <2>6. ASSUME NEW s \in Sweeps, NEW e \in Deliveries, Succeed(s, e) \/ Misses(s, e)
        PROVE  IsFiniteSet(Waiting(d)') /\ StartedAt(d, b)'
    <3>1. CASE e = d
      BY <2>2, <2>6, <3>1, TriesOne
    <3>2. CASE e # d
      <4>1. /\ Tried(e) /\ sweep'[s].todo = sweep[s].todo \ {e}
            /\ sweep'[s].rows[d] = sweep[s].rows[d]
            /\ \A t \in Sweeps \ {s} : sweep'[t] = sweep[t]
            /\ UNCHANGED <<delivery, overlaps, crashes>>
        BY <2>6, <3>2, MarkOne
      <4>2. tries'[d] = tries[d]
        BY <2>t, <3>2, <4>1 DEF Tried, TypeOK
      <4> QED
        BY <2>3, <2>t, <3>2, <4>1, <4>2
    <3> QED
      BY <3>1, <3>2
  <2>7. ASSUME NEW s \in Sweeps, NEW e \in Deliveries, Raise(s, e) PROVE FALSE
    <3>1. e \in Mistyped /\ Held(s, e)
      BY <2>7, WaitingHeld DEF Raise
    <3> QED
      BY <2>1, <3>1 DEF SweepsHold, TargetsParse
  <2>8. ASSUME NEW s \in Sweeps, Commit(s) \/ Crash(s)
        PROVE  IsFiniteSet(Waiting(d)') /\ StartedAt(d, b)'
    <3>1. CASE Held(s, d)
      BY <2>2, <2>8, <3>1, EndsWith
    <3>2. CASE ~Held(s, d)
      <4>1. /\ sweep'[s] = Idle /\ \A t \in Sweeps \ {s} : sweep'[t] = sweep[t]
            /\ Idle.todo = {} /\ Idle.rows[d] = NoRow
            /\ UNCHANGED <<tries, overlaps>> /\ crashes' \in {crashes, crashes + 1}
        BY <2>8, <2>t DEF Commit, Crash, Idle
      <4>2. delivery'[d] = delivery[d]
        BY <2>8, <2>t, <3>2, CommitRow DEF Crash, Held
      <4>3. d \notin sweep[s].todo /\ sweep[s].rows[d] = NoRow
        BY <3>2, WaitingHeld DEF Held
      <4> QED
        BY <2>3, <2>t, <4>1, <4>2, <4>3
    <3> QED
      BY <3>1, <3>2
  <2>9. CASE UNCHANGED vars
    BY <2>2, <2>3, <2>9, <2>t DEF vars
  <2> QED
    BY <2>2, <2>4, <2>5, <2>6, <2>7, <2>8, <2>9 DEF Next, SweepStep, Misses
<1> QED
  BY <1>1, <1>2, TypeInvariant, PTL DEF Spec

\* As long as every target parses, the limit of three attempts is exceeded
\* only by one for each crash and each overlapping sweep.
THEOREM TriesLimited == Spec => []TriesAreLimited
<1>1. TypeInv /\ TriesCounted => TriesAreLimited
  <2> SUFFICES ASSUME TypeInv, TriesCounted, TargetsParse, NEW d \in Deliveries
               PROVE  tries[d] <= MaxAttempts + overlaps + crashes
    BY DEF TriesAreLimited
  <2>1. PICK b \in 0 .. MaxAttempts : StartedAt(d, b) /\ IsFiniteSet(Waiting(d))
    BY DEF TriesCounted
  <2> DEFINE n == Cardinality(Waiting(d))
  <2>2. /\ tries[d] \in Nat /\ overlaps \in Nat /\ crashes \in Nat /\ n \in Nat /\ b \in Nat
        /\ delivery[d].attempts \in 0 .. 3
    BY <2>1, FS_CardinalityType, AlertsAssumption DEF TypeInv, TypeOK, MaxAttempts, Rows
  <2>3. b <= 2 \/ tries[d] + n <= b + overlaps + crashes
    <3>1. CASE \E s \in Sweeps : Held(s, d)
      <4>1. PICK s \in Sweeps : Held(s, d)
        BY <3>1
      <4>2. sweep[s].rows[d].attempts \in 0 .. 3
        BY DEF TypeInv, TypeOK, Rows, MaxAttempts
      <4>3. d \in sweep[s].todo => sweep[s].rows[d].attempts <= 2
        BY DueRow
      <4> QED
        BY <2>1, <2>2, <4>1, <4>2, <4>3 DEF StartedAt
    <3>2. CASE b < delivery[d].attempts
      BY <2>2, <3>2
    <3> QED
      BY <2>1, <3>1, <3>2 DEF StartedAt
  <2>4. tries[d] + n <= b + 1 + overlaps + crashes
    BY <2>1 DEF StartedAt
  <2> HIDE DEF n
  <2> QED
    BY <2>1, <2>2, <2>3, <2>4 DEF MaxAttempts
<1> QED
  BY <1>1, TypeInvariant, TriesAreCounted, PTL
=============================================================================
