---------------------------- MODULE FetchProofs ----------------------------
(***************************************************************************)
(* Proofs about Fetch for every set of workers, every threshold, cooldown, *)
(* capacity and number of retries, and every bound.                        *)
(***************************************************************************)
EXTENDS Fetch, FiniteSetTheorems, TLAPS

\* A call that sends has an attempt left.
AttemptLeft == \A w \in Workers : worker[w].pc = "send" => worker[w].tries <= MaxRetries

TypeInv == TypeOK /\ AttemptLeft

\* The calls' places and fields, one by one.
LEMMA NewCallType ==
  /\ NewCall \in Calls /\ Idle \in Calls /\ Dead \in Calls
  /\ [NewCall EXCEPT !.pc = "send"] \in Calls
  /\ [NewCall EXCEPT !.pc = "sleep", !.wait = 1] \in Calls
  /\ Idle.pc = "idle" /\ Dead.pc = "dead" /\ NewCall.pc = "check" /\ NewCall.tries = 0
<1>1. 0 \in 0 .. MaxRetries + 1 /\ 0 \in 0 .. MaxStall /\ 0 \in 0 .. Capacity
  BY FetchAssumption
<1> QED
  BY <1>1 DEF NewCall, Idle, Dead, Calls, Taking

\* A tick makes a call older and changes nothing else of it.
LEMMA OlderType ==
  ASSUME NEW call \in Calls, call.pc \in Taking => call.lag < MaxStall
  PROVE  /\ Older(call) \in Calls
         /\ Older(call).pc = call.pc /\ Older(call).tries = call.tries
<1>1. call.lag \in 0 .. MaxStall /\ call.wait \in {0, 1}
  BY DEF Calls
<1>2. (IF call.pc \in Taking THEN call.lag + 1 ELSE call.lag) \in 0 .. MaxStall
  BY <1>1, FetchAssumption
<1>3. AtLeast(call.wait - 1, 0) \in {0, 1}
  BY <1>1 DEF AtLeast
<1> QED
  BY <1>2, <1>3 DEF Older, Calls

\* After a failed attempt a call sends again only if an attempt is left.
LEMMA RetryType ==
  ASSUME NEW call \in Calls
  PROVE  /\ Retry(call) \in Calls
         /\ Retry(call).pc \in {"idle", "send"}
         /\ Retry(call).pc = "send" => Retry(call).tries <= MaxRetries
<1>1. CASE call.tries > MaxRetries
  BY <1>1, NewCallType DEF Retry
<1>2. CASE ~(call.tries > MaxRetries)
  <2>1. call.tries <= MaxRetries
    BY <1>2, FetchAssumption DEF Calls
  <2> QED
    BY <1>2, <2>1 DEF Retry, Calls
<1> QED
  BY <1>1, <1>2

\* What is in the bucket is between nothing and its capacity.
LEMMA RefilledType ==
  ASSUME TypeOK, NEW w \in Workers
  PROVE  Refilled(worker[w]) \in 0 .. Capacity
<1>1. /\ worker[w].left \in 0 .. Capacity \cup {Nil} /\ worker[w].lag \in 0 .. MaxStall
      /\ age \in 0 .. MaxAge \cup {Nil}
  BY DEF TypeOK, Calls
<1>2. CASE worker[w].left = Nil \/ age = Nil
  BY <1>2, FetchAssumption DEF Refilled
<1>3. CASE worker[w].left \in 0 .. Capacity /\ age \in 0 .. MaxAge
  BY <1>1, <1>3, FetchAssumption DEF Refilled, AtMost, AtLeast, MaxAge
<1> QED
  BY <1>1, <1>2, <1>3

\* Every variable of the fetch client keeps its type.
THEOREM TypeCorrect == Spec => []TypeOK
<1>1. Init => TypeInv
  <2> SUFFICES ASSUME Init PROVE TypeInv
    OBVIOUS
  <2>1. worker \in [Workers -> Calls] /\ AttemptLeft
    BY NewCallType DEF Init, AttemptLeft
  <2>2. 0 \in 0 .. Threshold /\ 0 \in 0 .. Cooldown /\ 0 \in 0 .. MaxRequests
        /\ 0 \in 0 .. MaxCrashes /\ 0 \in 0 .. MaxRaces /\ Capacity \in Int /\ Capacity <= Capacity
    BY FetchAssumption
  <2> QED
    BY <2>1, <2>2 DEF Init, TypeInv, TypeOK
<1>2. TypeInv /\ [Next]_vars => TypeInv'
  <2> SUFFICES ASSUME TypeInv, [Next]_vars PROVE TypeInv'
    OBVIOUS
  <2> USE DEF TypeInv
  <2>1. CASE Tick
    <3>1. /\ worker' \in [Workers -> Calls]
          /\ \A w \in Workers : worker'[w].pc = worker[w].pc /\ worker'[w].tries = worker[w].tries
      BY <2>1, OlderType DEF Tick, TypeOK
    <3>2. opened' \in 0 .. Cooldown \cup {Nil}
      BY <2>1, FetchAssumption DEF Tick, TypeOK, AtLeast
    <3>3. cooling' \in 0 .. Cooldown
      BY <2>1, FetchAssumption DEF Tick, TypeOK, AtLeast
    <3>4. age' \in 0 .. MaxAge \cup {Nil}
      BY <2>1, FetchAssumption DEF Tick, TypeOK, AtMost, MaxAge
    <3>5. ideal' \in Int /\ ideal' <= Capacity
      BY <2>1, FetchAssumption DEF Tick, TypeOK, AtMost
    <3> QED
      BY <2>1, <3>1, <3>2, <3>3, <3>4, <3>5 DEF Tick, TypeOK, AttemptLeft
  <2>2. CASE CacheExpire
    BY <2>2 DEF CacheExpire, TypeOK, AttemptLeft, breaker, bucket
  <2>3. ASSUME NEW w \in Workers, Get(w) PROVE TypeInv'
    BY <2>3, NewCallType, FetchAssumption DEF Get, TypeOK, AttemptLeft, breaker, bucket
  <2>4. ASSUME NEW w \in Workers, Crash(w) PROVE TypeInv'
    <3>1. ideal' \in Int /\ ideal' <= Capacity
      BY <2>4, FetchAssumption DEF Crash, TypeOK, AtMost
    <3>2. races' \in 0 .. MaxRaces /\ crashes' \in 0 .. MaxCrashes
      BY <2>4, FetchAssumption DEF Crash, TypeOK
    <3>3. worker' = [worker EXCEPT ![w] = Dead]
      BY <2>4 DEF Crash
    <3> QED
      BY <2>4, <3>1, <3>2, <3>3, NewCallType DEF Crash, TypeOK, AttemptLeft, breaker
  <2>5. ASSUME NEW w \in Workers, Check(w) PROVE TypeInv'
    <3>0. /\ [worker[w] EXCEPT !.pc = "lookup"] \in Calls
          /\ [worker[w] EXCEPT !.pc = "reset"] \in Calls
      BY DEF TypeOK, Calls
    <3>1. PICK c \in {Idle, [worker[w] EXCEPT !.pc = "lookup"], [worker[w] EXCEPT !.pc = "reset"]} :
            worker' = [worker EXCEPT ![w] = c]
      BY <2>5 DEF Check, Goto, TypeOK
    <3>2. c \in Calls /\ c.pc # "send"
      BY <3>0, NewCallType DEF TypeOK, Calls
    <3> QED
      BY <2>5, <3>1, <3>2 DEF Check, TypeOK, AttemptLeft, breaker, bucket
  <2>6. ASSUME NEW w \in Workers, Reset(w) PROVE TypeInv'
    BY <2>6, FetchAssumption DEF Reset, Goto, TypeOK, AttemptLeft, Calls, bucket
  <2>7. ASSUME NEW w \in Workers, Lookup(w) PROVE TypeInv'
    <3>1. PICK c \in Calls : worker' = [worker EXCEPT ![w] = c] /\ c.pc # "send"
      BY <2>7, NewCallType DEF Lookup, Goto, TypeOK, Calls
    <3> QED
      BY <2>7, <3>1 DEF Lookup, TypeOK, AttemptLeft, breaker, bucket
  <2>8. ASSUME NEW w \in Workers, ReadTokens(w) PROVE TypeInv'
    <3> DEFINE c == [worker[w] EXCEPT !.pc = "updated", !.left = tokens, !.lag = 0]
    <3>0. 0 \in 0 .. MaxStall
      BY FetchAssumption
    <3>1. c \in Calls /\ c.pc = "updated" /\ worker' = [worker EXCEPT ![w] = c]
      BY <2>8, <3>0 DEF ReadTokens, TypeOK, Calls, Taking
    <3>2. races' \in 0 .. MaxRaces /\ ideal' \in Int /\ ideal' <= Capacity
      BY <2>8, FetchAssumption DEF ReadTokens, TypeOK
    <3> QED
      BY <2>8, <3>1, <3>2 DEF ReadTokens, TypeOK, AttemptLeft, breaker
  <2>9. ASSUME NEW w \in Workers, ReadUpdated(w) PROVE TypeInv'
    <3>1. AtLeast(Refilled(worker[w]) - 1, 0) \in 0 .. Capacity
      BY RefilledType, FetchAssumption DEF AtLeast
    <3> DEFINE full == Refilled(worker[w])
               c == [worker[w] EXCEPT !.pc = "write", !.granted = full >= 1, !.left = AtLeast(full - 1, 0)]
    <3>2. worker' = [worker EXCEPT ![w] = c] /\ c \in Calls /\ c.pc = "write"
      <4>1. worker' = [worker EXCEPT ![w] = c]
        BY <2>9 DEF ReadUpdated
      <4>2. (full >= 1) \in BOOLEAN
        OBVIOUS
      <4> QED
        BY <3>1, <4>1, <4>2 DEF TypeOK, Calls, Taking
    <3>3. ideal' \in Int /\ ideal' <= Capacity
      BY <2>9, FetchAssumption DEF ReadUpdated, TypeOK, AtMost
    <3> QED
      BY <2>9, <3>2, <3>3 DEF ReadUpdated, TypeOK, AttemptLeft, breaker
  <2>10. ASSUME NEW w \in Workers, WriteTokens(w) PROVE TypeInv'
    BY <2>10 DEF WriteTokens, Goto, TypeOK, AttemptLeft, Calls, Taking, breaker
  <2>11. ASSUME NEW w \in Workers, WriteUpdated(w) PROVE TypeInv'
    <3>1. PICK c \in Calls : worker' = [worker EXCEPT ![w] = c] /\ c.tries = 0
      BY <2>11, NewCallType DEF WriteUpdated, TypeOK, NewCall
    <3>2. age' \in 0 .. MaxAge
      BY <2>11, FetchAssumption DEF WriteUpdated, TypeOK, Calls, MaxAge
    <3>3. c.pc = "send" => c.tries <= MaxRetries
      BY <3>1, FetchAssumption
    <3> QED
      BY <2>11, <3>1, <3>2, <3>3 DEF WriteUpdated, TypeOK, AttemptLeft, breaker
  <2>12. ASSUME NEW w \in Workers, SendFails(w) PROVE TypeInv'
    <3>1. worker[w].tries + 1 \in 0 .. MaxRetries + 1
      BY <2>12, FetchAssumption DEF SendFails, TypeOK, AttemptLeft, Calls
    <3>2. worker' = [worker EXCEPT ![w].pc = "failed", ![w].tries = worker[w].tries + 1]
      BY <2>12 DEF SendFails
    <3> QED
      BY <2>12, <3>1, <3>2 DEF SendFails, TypeOK, AttemptLeft, Calls, breaker, bucket
  <2>13. ASSUME NEW w \in Workers, SendAnswered(w) PROVE TypeInv'
    <3>1. PICK c \in Calls : worker' = [worker EXCEPT ![w] = c] /\ c.pc # "send"
      BY <2>13 DEF SendAnswered, Goto, TypeOK, Calls
    <3> QED
      BY <2>13, <3>1 DEF SendAnswered, TypeOK, AttemptLeft, breaker, bucket
  <2>14. ASSUME NEW w \in Workers, RecordSuccess(w) PROVE TypeInv'
    <3>1. PICK c \in Calls : worker' = [worker EXCEPT ![w] = c] /\ c.pc # "send"
      <4>1. [worker[w] EXCEPT !.pc = "store"] \in Calls /\ [worker[w] EXCEPT !.pc = "store"].pc # "send"
        BY DEF TypeOK, Calls
      <4>2. worker' = [worker EXCEPT ![w] =
              IF worker[w].pc = "answered" THEN [worker[w] EXCEPT !.pc = "store"] ELSE Idle]
        BY <2>14 DEF RecordSuccess, TypeOK
      <4> QED
        BY <4>1, <4>2, NewCallType
    <3> QED
      BY <2>14, <3>1, FetchAssumption DEF RecordSuccess, TypeOK, AttemptLeft, bucket
  <2>15. ASSUME NEW w \in Workers, RecordFailure(w) PROVE TypeInv'
    <3>1. PICK c \in Calls : /\ worker' = [worker EXCEPT ![w] = c]
                             /\ c.pc = "send" => c.tries <= MaxRetries
      <4>1. /\ [worker[w] EXCEPT !.pc = "trip"] \in Calls
            /\ [worker[w] EXCEPT !.pc = "trip"].pc # "send"
        BY DEF TypeOK, Calls
      <4>2. worker' = [worker EXCEPT ![w] = IF failures + 1 >= Threshold
              THEN [worker[w] EXCEPT !.pc = "trip"] ELSE Retry(worker[w])]
        BY <2>15 DEF RecordFailure, TypeOK
      <4>3. worker[w] \in Calls
        BY DEF TypeOK
      <4> QED
        BY <4>1, <4>2, <4>3, RetryType
    <3>2. failures' \in 0 .. Threshold /\ streak' \in 0 .. Threshold
      BY <2>15, FetchAssumption DEF RecordFailure, TypeOK, AtMost
    <3> QED
      BY <2>15, <3>1, <3>2 DEF RecordFailure, TypeOK, AttemptLeft, bucket
  <2>16. ASSUME NEW w \in Workers, Trip(w) PROVE TypeInv'
    <3>1. PICK c \in Calls : /\ worker' = [worker EXCEPT ![w] = c]
                             /\ c.pc = "send" => c.tries <= MaxRetries
      BY <2>16, RetryType DEF Trip, TypeOK
    <3> QED
      BY <2>16, <3>1, FetchAssumption DEF Trip, TypeOK, AttemptLeft, bucket
  <2>17. ASSUME NEW w \in Workers, Store(w) PROVE TypeInv'
    BY <2>17, NewCallType DEF Store, TypeOK, AttemptLeft, breaker, bucket
  <2>18. CASE UNCHANGED vars
    BY <2>18 DEF vars, breaker, bucket, TypeOK, AttemptLeft
  <2> QED
    BY <2>1, <2>2, <2>3, <2>4, <2>5, <2>6, <2>7, <2>8, <2>9, <2>10, <2>11, <2>12, <2>13,
       <2>14, <2>15, <2>16, <2>17, <2>18 DEF Next, Step
<1>3. TypeInv => TypeOK
  BY DEF TypeInv
<1> QED
  BY <1>1, <1>2, <1>3, PTL DEF Spec

\* The count is of failures since the host last answered, and a worker on its
\* way to SET the cooldown has counted up to the threshold.
CountIsStreak ==
  slipped \/ (failures <= streak /\ \A w \in Workers : worker[w].pc = "trip" => streak = Threshold)

\* A step that leaves the breaker alone and lets no worker to its SET.
LEMMA BreakerFrame ==
  ASSUME CountIsStreak, BreakerHolds, UNCHANGED breaker,
         \A w \in Workers : worker'[w].pc = "trip" => worker[w].pc = "trip"
  PROVE  CountIsStreak' /\ BreakerHolds'
  BY DEF CountIsStreak, BreakerHolds, breaker

\* An open breaker stands for Threshold failures in a row, and for the whole
\* cooldown, as long as nothing slips between two commands of a call.
THEOREM BreakerIsSound == Spec => []BreakerHolds
<1>1. Init => CountIsStreak /\ BreakerHolds
  BY FetchAssumption DEF Init, CountIsStreak, BreakerHolds, Idle, NewCall
<1>2. TypeOK /\ TypeOK' /\ CountIsStreak /\ BreakerHolds /\ [Next]_vars
        => CountIsStreak' /\ BreakerHolds'
  <2> SUFFICES ASSUME TypeOK, TypeOK', CountIsStreak, BreakerHolds, [Next]_vars
               PROVE  CountIsStreak' /\ BreakerHolds'
    OBVIOUS
  <2>1. CASE Tick
    <3>1. \A w \in Workers : worker'[w].pc = worker[w].pc
      BY <2>1, OlderType DEF Tick, TypeOK
    <3>2. CountIsStreak'
      BY <2>1, <3>1 DEF Tick, CountIsStreak
    <3>3. BreakerHolds'
      <4>1. opened \in 0 .. Cooldown \cup {Nil} /\ cooling \in 0 .. Cooldown
        BY DEF TypeOK
      <4> QED
        BY <2>1, <4>1, FetchAssumption DEF Tick, BreakerHolds, AtLeast
    <3> QED
      BY <3>2, <3>3
  <2>2. CASE CacheExpire
    BY <2>2, BreakerFrame DEF CacheExpire
  <2>3. ASSUME NEW w \in Workers, Get(w) PROVE CountIsStreak' /\ BreakerHolds'
    <3>1. \A v \in Workers : worker'[v].pc = "trip" => worker[v].pc = "trip"
      BY <2>3, NewCallType DEF Get, TypeOK
    <3> QED
      BY <2>3, <3>1, BreakerFrame DEF Get
  <2>4. ASSUME NEW w \in Workers, Crash(w) PROVE CountIsStreak' /\ BreakerHolds'
    <3>1. \A v \in Workers : worker'[v].pc = "trip" => worker[v].pc = "trip"
      BY <2>4, NewCallType DEF Crash, TypeOK
    <3> QED
      BY <2>4, <3>1, BreakerFrame DEF Crash
  <2>5. ASSUME NEW w \in Workers, Check(w) PROVE CountIsStreak' /\ BreakerHolds'
    <3>1. \A v \in Workers : worker'[v].pc = "trip" => worker[v].pc = "trip"
      BY <2>5, NewCallType DEF Check, Goto, TypeOK, Calls
    <3> QED
      BY <2>5, <3>1, BreakerFrame DEF Check
  <2>6. ASSUME NEW w \in Workers, Reset(w) PROVE CountIsStreak' /\ BreakerHolds'
    <3>1. \A v \in Workers : worker'[v].pc = "trip" => worker[v].pc = "trip"
      BY <2>6 DEF Reset, Goto, TypeOK, Calls
    <3>2. streak \in Nat /\ cooling \in Nat
      BY FetchAssumption DEF TypeOK
    <3> QED
      <4>1. /\ failures' = 0 /\ opened' = Nil /\ streak' = streak /\ cooling' = cooling
            /\ slipped' = (slipped \/ cooling > 0)
        BY <2>6 DEF Reset
      <4>2. CASE slipped \/ cooling > 0
        BY <4>1, <4>2 DEF CountIsStreak, BreakerHolds
      <4>3. CASE ~slipped /\ ~(cooling > 0)
        BY <3>1, <3>2, <4>1, <4>3 DEF CountIsStreak, BreakerHolds
      <4> QED
        BY <4>2, <4>3
  <2>7. ASSUME NEW w \in Workers, Lookup(w) PROVE CountIsStreak' /\ BreakerHolds'
    <3>1. \A v \in Workers : worker'[v].pc = "trip" => worker[v].pc = "trip"
      BY <2>7, NewCallType DEF Lookup, Goto, TypeOK, Calls
    <3> QED
      BY <2>7, <3>1, BreakerFrame DEF Lookup
  <2>8. ASSUME NEW w \in Workers, ReadTokens(w) PROVE CountIsStreak' /\ BreakerHolds'
    <3>1. \A v \in Workers : worker'[v].pc = "trip" => worker[v].pc = "trip"
      BY <2>8 DEF ReadTokens, TypeOK, Calls
    <3> QED
      BY <2>8, <3>1, BreakerFrame DEF ReadTokens
  <2>9. ASSUME NEW w \in Workers, ReadUpdated(w) PROVE CountIsStreak' /\ BreakerHolds'
    <3>1. \A v \in Workers : worker'[v].pc = "trip" => worker[v].pc = "trip"
      BY <2>9 DEF ReadUpdated, TypeOK, Calls
    <3> QED
      BY <2>9, <3>1, BreakerFrame DEF ReadUpdated
  <2>10. ASSUME NEW w \in Workers, WriteTokens(w) PROVE CountIsStreak' /\ BreakerHolds'
    <3>1. \A v \in Workers : worker'[v].pc = "trip" => worker[v].pc = "trip"
      BY <2>10 DEF WriteTokens, Goto, TypeOK, Calls
    <3> QED
      BY <2>10, <3>1, BreakerFrame DEF WriteTokens
  <2>11. ASSUME NEW w \in Workers, WriteUpdated(w) PROVE CountIsStreak' /\ BreakerHolds'
    <3>1. \A v \in Workers : worker'[v].pc = "trip" => worker[v].pc = "trip"
      BY <2>11 DEF WriteUpdated, NewCall, TypeOK
    <3> QED
      BY <2>11, <3>1, BreakerFrame DEF WriteUpdated
  <2>12. ASSUME NEW w \in Workers, SendFails(w) PROVE CountIsStreak' /\ BreakerHolds'
    <3>1. \A v \in Workers : worker'[v].pc = "trip" => worker[v].pc = "trip"
      BY <2>12 DEF SendFails, TypeOK, Calls
    <3> QED
      BY <2>12, <3>1, BreakerFrame DEF SendFails
  <2>13. ASSUME NEW w \in Workers, SendAnswered(w) PROVE CountIsStreak' /\ BreakerHolds'
    <3>1. \A v \in Workers : worker'[v].pc = "trip" => worker[v].pc = "trip"
      BY <2>13 DEF SendAnswered, Goto, TypeOK, Calls
    <3> QED
      BY <2>13, <3>1, BreakerFrame DEF SendAnswered
  <2>14. ASSUME NEW w \in Workers, RecordSuccess(w) PROVE CountIsStreak' /\ BreakerHolds'
    <3>1. \A v \in Workers : worker'[v].pc = "trip" => worker[v].pc = "trip"
      BY <2>14, NewCallType DEF RecordSuccess, TypeOK, Calls
    <3> QED
      <4>1. /\ failures' = 0 /\ opened' = Nil /\ streak' = 0 /\ cooling' = 0
            /\ slipped' = (slipped \/ \E v \in Workers : worker[v].pc = "trip")
        BY <2>14 DEF RecordSuccess
      <4>2. CASE slipped \/ \E v \in Workers : worker[v].pc = "trip"
        BY <4>1, <4>2 DEF CountIsStreak, BreakerHolds
      <4>3. CASE ~slipped /\ \A v \in Workers : worker[v].pc # "trip"
        BY <3>1, <4>1, <4>3 DEF CountIsStreak, BreakerHolds
      <4> QED
        BY <4>2, <4>3
  <2>15. ASSUME NEW w \in Workers, RecordFailure(w) PROVE CountIsStreak' /\ BreakerHolds'
    <3>1. failures \in 0 .. Threshold /\ streak \in 0 .. Threshold
      BY DEF TypeOK
    <3>2. UNCHANGED <<opened, cooling, slipped>>
      BY <2>15 DEF RecordFailure
    <3>3. streak = Threshold => streak' = Threshold
      BY <2>15, <3>1, FetchAssumption DEF RecordFailure, AtMost
    <3>4. BreakerHolds'
      BY <3>2, <3>3 DEF BreakerHolds
    <3>5. CASE slipped
      BY <3>2, <3>4, <3>5 DEF CountIsStreak
    <3>6. CASE ~slipped
      <4>1. failures' <= streak'
        BY <2>15, <3>1, <3>6, FetchAssumption DEF RecordFailure, AtMost, CountIsStreak
      <4>2. CASE failures + 1 >= Threshold
        <5>1. streak' = Threshold
          BY <2>15, <3>1, <3>6, <4>2, FetchAssumption DEF RecordFailure, AtMost, CountIsStreak
        <5> QED
          BY <3>4, <4>1, <5>1 DEF CountIsStreak
      <4>3. CASE ~(failures + 1 >= Threshold)
        <5>1. worker' = [worker EXCEPT ![w] = Retry(worker[w])]
          BY <2>15, <4>3 DEF RecordFailure
        <5>2. Retry(worker[w]).pc # "trip"
          BY RetryType DEF TypeOK
        <5>3. \A v \in Workers : worker'[v].pc = "trip" => worker[v].pc = "trip"
          BY <5>1, <5>2 DEF TypeOK
        <5> QED
          BY <3>3, <3>4, <3>6, <4>1, <5>3 DEF CountIsStreak
      <4> QED
        BY <4>2, <4>3
    <3> QED
      BY <3>5, <3>6
  <2>16. ASSUME NEW w \in Workers, Trip(w) PROVE CountIsStreak' /\ BreakerHolds'
    <3>1. Retry(worker[w]).pc # "trip"
      BY RetryType DEF TypeOK
    <3>2. \A v \in Workers : worker'[v].pc = "trip" => worker[v].pc = "trip"
      BY <2>16, <3>1 DEF Trip, TypeOK
    <3> QED
      BY <2>16, <3>2 DEF Trip, CountIsStreak, BreakerHolds
  <2>17. ASSUME NEW w \in Workers, Store(w) PROVE CountIsStreak' /\ BreakerHolds'
    <3>1. \A v \in Workers : worker'[v].pc = "trip" => worker[v].pc = "trip"
      BY <2>17, NewCallType DEF Store, TypeOK
    <3> QED
      BY <2>17, <3>1, BreakerFrame DEF Store
  <2>18. CASE UNCHANGED vars
    BY <2>18, BreakerFrame DEF vars
  <2> QED
    BY <2>1, <2>2, <2>3, <2>4, <2>5, <2>6, <2>7, <2>8, <2>9, <2>10, <2>11, <2>12, <2>13,
       <2>14, <2>15, <2>16, <2>17, <2>18 DEF Next, Step
<1> QED
  BY <1>1, <1>2, TypeCorrect, PTL DEF Spec

-----------------------------------------------------------------------------
(* The budget of the host *)

\* What a bucket holds of x tokens that were written y ago.
Level(x, y) == IF x = Nil \/ y = Nil THEN Capacity ELSE AtMost(Capacity, x + y)

\* How long before a call read its clock the bucket was written.
Since(call) == IF age = Nil THEN Nil ELSE AtLeast(0, age - call.lag)

\* The tokens of a bucket without races, and what the races may have cost.
Paid == ideal + races * Capacity

Takes(w) == worker[w].pc \in Taking
Reading(w) == worker[w].pc = "updated"
Writing(w) == worker[w].pc \in {"write", "stamp"}

\* No take is under way: the bucket holds no more than is paid for.
Quiet == (\A w \in Workers : ~Takes(w)) /\ Paid >= Level(tokens, age)

\* One take is under way and began when no other was: what it reads is what
\* the bucket holds, and what it writes is paid for.
AloneReads(w) ==
  /\ worker[w].pc = "updated"
  /\ worker[w].left = tokens
  /\ Paid >= AtMost(Capacity, Refilled(worker[w]) + worker[w].lag - 1)
AloneWrites(w) ==
  /\ worker[w].pc = "write"
  /\ LET full == Level(tokens, Since(worker[w])) IN
       worker[w].granted = (full >= 1) /\ worker[w].left = AtLeast(full - 1, 0)
  /\ Paid >= AtMost(Capacity, worker[w].left + worker[w].lag)
AloneStamps(w) ==
  /\ worker[w].pc = "stamp"
  /\ tokens = worker[w].left /\ tokens \in Nat
  /\ Level(0, Since(worker[w])) <= worker[w].left + 1
  /\ Paid >= AtMost(Capacity, worker[w].left + worker[w].lag)
Alone ==
  \E w \in Workers :
    /\ \A v \in Workers : Takes(v) => v = w
    /\ age = Nil \/ age >= worker[w].lag
    /\ AloneReads(w) \/ AloneWrites(w) \/ AloneStamps(w)

\* Takes have overlapped, and each may leave a full bucket behind.
Full == Paid >= Capacity

\* Takes overlap on an empty bucket: all of them read it, none gets a token.
Empty ==
  /\ Paid >= Capacity - 2
  /\ \E v, w \in Workers : v # w /\ Reading(v) /\ Reading(w)
  /\ tokens = 0 /\ age = 0
  /\ \A w \in Workers : Takes(w) => Reading(w) /\ worker[w].left = 0 /\ worker[w].lag = 0

\* Takes overlap on a bucket with one token: each may get it, and the last
\* to write leaves the bucket empty.
LastToken ==
  /\ Paid >= Capacity - 1
  /\ \A w \in Workers : Writing(w) => worker[w].left = 0 /\ worker[w].lag = 0
  /\ \/ /\ \A w \in Workers : Takes(w) => worker[w].lag = 0
        /\ Level(tokens, age) <= 1
        /\ \A w \in Workers : Reading(w) => Level(worker[w].left, age) <= 1
     \/ /\ tokens = 0 /\ age \in {0, 1}
        /\ \A w \in Workers : Reading(w) => worker[w].left = 0 /\ worker[w].lag \in {0, 1}
  /\ tokens = 0 \/ \E w \in Workers : Pending(worker[w])
  /\ age = 0 \/ \E w \in Workers : Pending(worker[w]) \/ worker[w].pc = "stamp"

Paced == Quiet \/ Alone \/ Full \/ Empty \/ LastToken

\* The parts of the state that a take works with.
LEMMA TakeTyped ==
  ASSUME TypeOK
  PROVE  /\ Capacity \in Nat /\ Capacity >= 1 /\ MaxStall \in Nat
         /\ tokens \in 0 .. Capacity \cup {Nil} /\ age \in 0 .. MaxAge \cup {Nil}
         /\ Nil \notin Int /\ ideal \in Int /\ ideal <= Capacity /\ races \in Nat
         /\ Paid \in Int /\ Paid >= ideal
         /\ \A w \in Workers :
              /\ worker[w] \in Calls /\ worker[w].lag \in 0 .. MaxStall
              /\ worker[w].left \in 0 .. Capacity \cup {Nil}
<1>1. races \in Nat /\ Capacity \in Nat
  BY FetchAssumption DEF TypeOK
<1>2. races * Capacity \in Nat
  BY <1>1
<1>3. Paid \in Int /\ Paid >= ideal
  BY <1>2 DEF Paid, TypeOK
<1>4. \A w \in Workers : worker[w] \in Calls
  BY DEF TypeOK
<1> QED
  BY <1>1, <1>3, <1>4, FetchAssumption DEF TypeOK, Calls

\* A bucket for each race.
LEMMA OneMore == \A m, n \in Nat : m * n \in Nat /\ (m + 1) * n = m * n + n
OBVIOUS

\* What is paid for changes with the ideal bucket and with the races.
LEMMA PaidSteps ==
  ASSUME TypeOK, TypeOK'
  PROVE  /\ races' = races => Paid' = Paid + (ideal' - ideal)
         /\ races' = races + 1 => Paid' = Paid + (ideal' - ideal) + Capacity
         /\ ideal' = Capacity => Full'
<1>1. /\ races \in Nat /\ Capacity \in Nat /\ races' \in Nat /\ ideal \in Int /\ ideal' \in Int
  BY FetchAssumption DEF TypeOK
<1> DEFINE old == races * Capacity
           new == races' * Capacity
<1>2. old \in Nat /\ new \in Nat /\ (races' = races => new = old)
      /\ (races' = races + 1 => new = old + Capacity)
  BY <1>1, OneMore
<1>3. Paid = ideal + old /\ Paid' = ideal' + new
  BY DEF Paid
<1> HIDE DEF old, new
<1>4. races' = races => Paid' = Paid + (ideal' - ideal)
  BY <1>1, <1>2, <1>3
<1>5. races' = races + 1 => Paid' = Paid + (ideal' - ideal) + Capacity
  BY <1>1, <1>2, <1>3
<1>6. ideal' = Capacity => Paid' >= Capacity
  BY <1>1, <1>2, <1>3
<1> QED
  BY <1>4, <1>5, <1>6 DEF Full

\* What a call finds in the bucket is the level at the time it read its clock.
LEMMA RefilledLevel ==
  ASSUME TypeOK, NEW w \in Workers
  PROVE  /\ Refilled(worker[w]) = Level(worker[w].left, Since(worker[w]))
         /\ Refilled(worker[w]) \in 0 .. Capacity
<1>1. Nil \notin Int /\ age \in 0 .. MaxAge \cup {Nil} /\ worker[w].lag \in 0 .. MaxStall
  BY TakeTyped
<1>2. age # Nil => Since(worker[w]) = AtLeast(0, age - worker[w].lag) /\ Since(worker[w]) # Nil
  BY <1>1, FetchAssumption DEF Since, AtLeast, MaxAge
<1>3. age = Nil => Since(worker[w]) = Nil
  BY DEF Since
<1>4. Refilled(worker[w]) = Level(worker[w].left, Since(worker[w]))
  BY <1>2, <1>3 DEF Refilled, Level
<1> QED
  BY <1>4, RefilledType

\* Levels are between an empty bucket and a full one.
LEMMA LevelType ==
  ASSUME TypeOK
  PROVE  /\ \A x \in 0 .. Capacity \cup {Nil}, y \in Nat \cup {Nil} : Level(x, y) \in 0 .. Capacity
         /\ \A w \in Workers : Since(worker[w]) \in Nat \cup {Nil}
<1>1. \A x \in 0 .. Capacity \cup {Nil}, y \in Nat \cup {Nil} : Level(x, y) \in 0 .. Capacity
  BY FetchAssumption DEF Level, AtMost
<1>2. \A w \in Workers : Since(worker[w]) \in Nat \cup {Nil}
  BY TakeTyped, FetchAssumption DEF Since, AtLeast, MaxAge
<1> QED
  BY <1>1, <1>2

\* A step that no take is part of.
LEMMA PacedFrame ==
  ASSUME Paced, UNCHANGED bucket,
         \A w \in Workers : Takes(w) \/ Takes(w)' => worker'[w] = worker[w]
  PROVE  Paced'
<1>1. Paid' = Paid
  BY DEF Paid, bucket
<1>2. UNCHANGED <<tokens, age>>
  BY DEF bucket
<1>3. \A w \in Workers : Takes(w)' <=> Takes(w)
  BY DEF Takes
<1>4. \A w \in Workers :
        /\ Reading(w)' <=> Reading(w)
        /\ Writing(w)' <=> Writing(w)
        /\ worker'[w].pc = "stamp" <=> worker[w].pc = "stamp"
        /\ Pending(worker'[w]) <=> Pending(worker[w])
  BY DEF Takes, Reading, Writing, Pending, Taking
<1>5. CASE Quiet
  BY <1>1, <1>2, <1>3, <1>5 DEF Quiet, Level, Paced
<1>6. CASE Alone
  <2>1. PICK w \in Workers :
          /\ \A v \in Workers : Takes(v) => v = w
          /\ age = Nil \/ age >= worker[w].lag
          /\ AloneReads(w) \/ AloneWrites(w) \/ AloneStamps(w)
    BY <1>6 DEF Alone
  <2>2. worker'[w] = worker[w]
    BY <2>1 DEF Takes, Taking, AloneReads, AloneWrites, AloneStamps
  <2>3. AloneReads(w)' \/ AloneWrites(w)' \/ AloneStamps(w)'
    BY <1>1, <1>2, <2>1, <2>2 DEF AloneReads, AloneWrites, AloneStamps, Refilled, Level, Since
  <2> QED
    BY <1>2, <1>3, <2>1, <2>2, <2>3 DEF Alone, Paced
<1>7. CASE Full
  BY <1>1, <1>7 DEF Full, Paced
<1>8. CASE Empty
  BY <1>1, <1>2, <1>3, <1>4, <1>8 DEF Empty, Takes, Paced
<1>9. CASE LastToken
  <2>1. \A w \in Workers : Reading(w) \/ Writing(w) => Takes(w)
    BY DEF Reading, Writing, Takes, Taking
  <2> QED
    BY <1>1, <1>2, <1>3, <1>4, <1>9, <2>1 DEF LastToken, Level, Paced
<1> QED
  BY <1>5, <1>6, <1>7, <1>8, <1>9 DEF Paced

\* A tick refills the bucket and what is paid for alike.
LEMMA TickPaced ==
  ASSUME TypeOK, TypeOK', Paced, Tick
  PROVE  Paced'
<1>1. CASE ideal' = Capacity
  BY <1>1, PaidSteps DEF Paced
<1>2. CASE ideal' # Capacity
  <2>1. /\ Capacity \in Nat /\ Capacity >= 1 /\ MaxStall \in Nat /\ Nil \notin Int
        /\ tokens \in 0 .. Capacity \cup {Nil} /\ age \in 0 .. MaxAge \cup {Nil}
        /\ ideal \in Int /\ ideal <= Capacity /\ Paid \in Int
    BY TakeTyped
  <2>2. Paid' = Paid + 1
    <3>1. ideal' = ideal + 1 /\ races' = races
      BY <1>2, <2>1 DEF Tick, AtMost
    <3> QED
      BY <2>1, <3>1, PaidSteps
  <2>3. /\ tokens' = tokens
        /\ age' = IF age = Nil THEN Nil ELSE AtMost(age + 1, MaxAge)
    BY DEF Tick
  <2>4. \A w \in Workers :
          /\ worker'[w].pc = worker[w].pc /\ worker'[w].left = worker[w].left
          /\ worker'[w].granted = worker[w].granted
          /\ Takes(w) => worker'[w].lag = worker[w].lag + 1 /\ worker[w].lag < MaxStall
          /\ worker[w].lag \in 0 .. MaxStall /\ worker[w].left \in 0 .. Capacity \cup {Nil}
    <3> TAKE w \in Workers
    <3>1. worker'[w] = Older(worker[w]) /\ worker[w] \in Calls
      BY TakeTyped DEF Tick
    <3>2. Takes(w) => worker[w].lag < MaxStall
      BY DEF Tick, Takes
    <3> QED
      BY <3>1, <3>2, TakeTyped DEF Older, Calls, Takes
  <2>5. \A w \in Workers :
          /\ Takes(w)' <=> Takes(w)
          /\ Reading(w)' <=> Reading(w)
          /\ Writing(w)' <=> Writing(w)
          /\ Pending(worker'[w]) <=> Pending(worker[w])
    BY <2>4 DEF Takes, Reading, Writing, Pending
  <2>6. CASE Quiet
    <3>1. Level(tokens, age)' <= Level(tokens, age) + 1
      BY <2>1, <2>3 DEF Level, AtMost, MaxAge
    <3>2. Level(tokens, age) \in Int /\ Level(tokens, age)' \in Int
      BY <2>1, <2>3 DEF Level, AtMost, MaxAge
    <3> QED
      BY <2>1, <2>2, <2>5, <2>6, <3>1, <3>2 DEF Quiet, Paced
  <2>7. CASE Alone
    <3>1. PICK w \in Workers :
            /\ \A v \in Workers : Takes(v) => v = w
            /\ age = Nil \/ age >= worker[w].lag
            /\ AloneReads(w) \/ AloneWrites(w) \/ AloneStamps(w)
      BY <2>7 DEF Alone
    <3>2. Takes(w)
      BY <3>1 DEF AloneReads, AloneWrites, AloneStamps, Takes, Taking
    <3>3. age' = Nil \/ age' >= worker'[w].lag
      BY <2>1, <2>3, <2>4, <3>1, <3>2, FetchAssumption DEF AtMost, MaxAge
    <3> DEFINE s == Since(worker[w])
    <3>4. \A x \in 0 .. Capacity \cup {Nil} : Level(x, Since(worker[w])') = Level(x, s)
      <4>1. CASE age = Nil
        BY <2>3, <4>1 DEF Since, Level
      <4>2. CASE age # Nil /\ age + 1 <= MaxAge
        BY <2>1, <2>3, <2>4, <3>2, <4>2 DEF Since, AtMost, AtLeast, MaxAge
      <4>3. CASE age # Nil /\ ~(age + 1 <= MaxAge)
        <5>1. /\ Since(worker[w]) \in Nat /\ Since(worker[w]) >= Capacity
              /\ Since(worker[w])' \in Nat /\ Since(worker[w])' >= Capacity
          BY <2>1, <2>3, <2>4, <3>2, <4>3 DEF Since, AtMost, AtLeast, MaxAge
        <5> HIDE DEF s
        <5> QED
          BY <2>1, <5>1 DEF Level, AtMost, s
      <4> QED
        BY <2>1, <4>1, <4>2, <4>3
    <3>5. /\ Refilled(worker[w])' = Refilled(worker[w])
          /\ Refilled(worker[w]) \in 0 .. Capacity
      <4>1. age' = Nil => Since(worker[w])' = Nil
        BY DEF Since
      <4>2. age' # Nil => Since(worker[w])' = AtLeast(0, age' - worker'[w].lag) /\ Since(worker[w])' # Nil
        BY <2>1, <2>3, <2>4, <3>2 DEF Since, AtLeast, AtMost, MaxAge
      <4>3. Refilled(worker[w])' = Level(worker'[w].left, Since(worker[w])')
        BY <4>1, <4>2 DEF Refilled, Level
      <4> QED
        BY <2>4, <3>4, <4>3, RefilledLevel
    <3>6. worker'[w].lag = worker[w].lag + 1 /\ worker[w].lag \in Nat
      BY <2>1, <2>4, <3>2
    <3>7. CASE AloneReads(w)
      <4>1. Paid' >= AtMost(Capacity, Refilled(worker[w])' + worker'[w].lag - 1)
        BY <2>1, <2>2, <3>5, <3>6, <3>7 DEF AloneReads, AtMost
      <4>2. AloneReads(w)'
        BY <2>3, <2>4, <3>7, <4>1 DEF AloneReads
      <4> QED
        BY <2>5, <3>1, <3>3, <4>2 DEF Alone, Paced
    <3>8. CASE AloneWrites(w)
      <4>1. worker[w].left \in Nat
        <5>1. Level(tokens, Since(worker[w])) \in 0 .. Capacity
          BY <2>1, LevelType
        <5> QED
          BY <2>1, <3>8, <5>1 DEF AloneWrites, AtLeast
      <4>2. Paid' >= AtMost(Capacity, worker'[w].left + worker'[w].lag)
        BY <2>1, <2>2, <2>4, <3>6, <3>8, <4>1 DEF AloneWrites, AtMost
      <4>3. Level(tokens', Since(worker[w])') = Level(tokens, s)
        BY <2>1, <2>3, <3>4
      <4>4. AloneWrites(w)'
        BY <2>4, <3>8, <4>2, <4>3 DEF AloneWrites
      <4> QED
        BY <2>5, <3>1, <3>3, <4>4 DEF Alone, Paced
    <3>9. CASE AloneStamps(w)
      <4>1. worker[w].left \in Nat
        BY <3>9 DEF AloneStamps
      <4>2. Paid' >= AtMost(Capacity, worker'[w].left + worker'[w].lag)
        BY <2>1, <2>2, <2>4, <3>6, <3>9, <4>1 DEF AloneStamps, AtMost
      <4>3. Level(0, Since(worker[w])') = Level(0, s)
        BY <2>1, <3>4
      <4>4. AloneStamps(w)'
        BY <2>3, <2>4, <3>9, <4>2, <4>3 DEF AloneStamps
      <4> QED
        BY <2>5, <3>1, <3>3, <4>4 DEF Alone, Paced
    <3> QED
      BY <3>1, <3>7, <3>8, <3>9
  <2>8. CASE Full
    BY <2>1, <2>2, <2>8 DEF Full, Paced
  <2>9. CASE Empty
    <3>1. \A w \in Workers : Takes(w) => Reading(w) /\ worker[w].left = 0 /\ worker[w].lag = 0
      BY <2>9 DEF Empty
    <3>2. age' = 1 /\ tokens' = 0
      BY <2>1, <2>3, <2>9 DEF Empty, AtMost, MaxAge
    <3>3. \A w \in Workers : Reading(w) => Takes(w)
      BY DEF Reading, Takes, Taking
    <3>4. \A w \in Workers : Writing(w) => Takes(w) /\ ~Reading(w)
      BY DEF Reading, Writing, Takes, Taking
    <3>5. \E w \in Workers : Pending(worker'[w])
      BY <2>5, <2>9 DEF Empty, Reading, Pending
    <3>6. LastToken'
      BY <2>1, <2>2, <2>4, <2>5, <2>9, <3>1, <3>2, <3>3, <3>4, <3>5 DEF Empty, LastToken
    <3> QED
      BY <3>6 DEF Paced
  <2>10. CASE LastToken
    BY <2>1, <2>2, <2>10 DEF LastToken, Full, Paced
  <2> QED
    BY <2>6, <2>7, <2>8, <2>9, <2>10 DEF Paced
<1> QED
  BY <1>1, <1>2

\* Where a worker is, by its place.
LEMMA Places ==
  ASSUME NEW w \in Workers
  PROVE  /\ Takes(w) <=> Reading(w) \/ Writing(w)
         /\ ~(Reading(w) /\ Writing(w))
         /\ Pending(worker[w]) => Takes(w) /\ worker[w].pc # "stamp"
         /\ Reading(w) => Pending(worker[w])
BY DEF Takes, Reading, Writing, Pending, Taking

\* A step of one worker leaves the places of the others.
LEMMA OthersStay ==
  ASSUME NEW w \in Workers, \A v \in Workers \ {w} : worker'[v] = worker[v]
  PROVE  \A v \in Workers \ {w} :
           /\ Takes(v)' <=> Takes(v)
           /\ Reading(v)' <=> Reading(v)
           /\ Writing(v)' <=> Writing(v)
           /\ Pending(worker'[v]) <=> Pending(worker[v])
           /\ worker'[v] = worker[v]
BY DEF Takes, Reading, Writing

\* A worker that dies during its take leaves the bucket as it is, or half
\* written, which is a race.
LEMMA CrashPaced ==
  ASSUME TypeOK, TypeOK', Paced, NEW w \in Workers, Crash(w)
  PROVE  Paced'
<1>1. /\ Capacity \in Nat /\ Capacity >= 1 /\ Nil \notin Int
      /\ tokens \in 0 .. Capacity \cup {Nil} /\ age \in 0 .. MaxAge \cup {Nil}
      /\ ideal \in Int /\ ideal <= Capacity /\ Paid \in Int /\ races \in Nat
      /\ worker[w].lag \in Nat /\ MaxAge \in Nat
  BY TakeTyped, FetchAssumption DEF MaxAge
<1>2. /\ worker' = [worker EXCEPT ![w] = Dead] /\ UNCHANGED <<tokens, age>>
      /\ IF worker[w].pc = "stamp" THEN races' = races + 1 ELSE races' = races
      /\ ideal' = IF Pending(worker[w]) THEN AtMost(ideal + 1, Capacity) ELSE ideal
  BY DEF Crash
<1>3. ~Takes(w)' /\ ~Pending(worker'[w]) /\ worker'[w].pc = "dead"
  BY <1>2, NewCallType DEF TypeOK, Takes, Taking, Pending
<1>4. \A v \in Workers \ {w} : worker'[v] = worker[v]
  BY <1>2 DEF TypeOK
<1>5. \A v \in Workers \ {w} :
        /\ Takes(v)' <=> Takes(v)
        /\ Reading(v)' <=> Reading(v)
        /\ Writing(v)' <=> Writing(v)
        /\ Pending(worker'[v]) <=> Pending(worker[v])
        /\ worker'[v] = worker[v]
  BY <1>4, OthersStay
<1>6. ~Reading(w)' /\ ~Writing(w)'
  BY <1>3 DEF Reading, Writing
<1>7. Level(tokens, age)' = Level(tokens, age)
  BY <1>2 DEF Level
<1>8. CASE ~Takes(w)
  <2>1. UNCHANGED bucket
    BY <1>2, <1>8, Places DEF bucket, Takes, Taking
  <2>2. \A v \in Workers : Takes(v) \/ Takes(v)' => worker'[v] = worker[v]
    BY <1>3, <1>5, <1>8
  <2> QED
    BY <2>1, <2>2, PacedFrame
<1>9. CASE worker[w].pc = "stamp"
  <2>1. Paid' = Paid + Capacity
    BY <1>1, <1>2, <1>9, PaidSteps DEF Pending
  <2>2. Takes(w) /\ ~Reading(w)
    BY <1>9 DEF Takes, Reading, Taking
  <2>3. Paid >= 0
    <3>1. CASE Alone
      <4>1. AloneStamps(w)
        BY <1>9, <2>2, <3>1 DEF Alone, AloneReads, AloneWrites
      <4> QED
        BY <1>1, <4>1 DEF AloneStamps, AtMost
    <3> QED
      BY <1>1, <2>2, <3>1 DEF Paced, Quiet, Full, Empty, LastToken
  <2> QED
    BY <1>1, <2>1, <2>3 DEF Full, Paced
<1>10. CASE Pending(worker[w])
  <2>1. CASE ideal' = Capacity
    BY <2>1, PaidSteps DEF Paced
  <2>2. CASE ideal' # Capacity
    <3>1. Paid' = Paid + 1 /\ Takes(w)
      <4>1. ideal' = ideal + 1 /\ races' = races
        BY <1>1, <1>2, <1>10, <2>2, Places DEF AtMost
      <4> QED
        BY <1>1, <1>10, <4>1, PaidSteps, Places
    <3>2. CASE Alone
      <4>1. /\ \A v \in Workers : Takes(v) => v = w
            /\ AloneReads(w) \/ AloneWrites(w)
        BY <1>10, <3>1, <3>2 DEF Alone, AloneStamps, Pending
      <4>2. \A v \in Workers : ~Takes(v)'
        BY <1>3, <1>5, <4>1
      <4> DEFINE f == Level(tokens, Since(worker[w]))
      <4>3. f \in 0 .. Capacity /\ Level(tokens, age) \in 0 .. Capacity
        <5>1. f \in 0 .. Capacity
          BY <1>1, LevelType
        <5>2. age \in Nat \cup {Nil}
          BY <1>1
        <5> QED
          BY <1>1, <5>1, <5>2, LevelType
      <4>4. Level(tokens, age) <= f + worker[w].lag
        BY <1>1 DEF Level, Since, AtMost, AtLeast
      <4>5. CASE AloneReads(w)
        <5>1. Refilled(worker[w]) = f
          BY <4>5, RefilledLevel DEF AloneReads
        <5> HIDE DEF f
        <5> QED
          BY <1>1, <1>7, <3>1, <4>2, <4>3, <4>4, <4>5, <5>1 DEF AloneReads, Quiet, AtMost, Paced
      <4>6. CASE AloneWrites(w)
        <5>1. f >= 1 /\ worker[w].left = AtLeast(f - 1, 0) /\ Paid >= AtMost(Capacity, worker[w].left + worker[w].lag)
          BY <1>10, <4>6 DEF AloneWrites, Pending
        <5> HIDE DEF f
        <5> QED
          BY <1>1, <1>7, <3>1, <4>2, <4>3, <4>4, <5>1 DEF Quiet, AtMost, AtLeast, Paced
      <4> QED
        BY <4>1, <4>5, <4>6
    <3>3. CASE Full \/ LastToken
      BY <1>1, <3>1, <3>3 DEF Full, LastToken, Paced
    <3>4. CASE Empty
      <4>1. PICK v \in Workers \ {w} : Reading(v)
        BY <3>4 DEF Empty
      <4>2. Pending(worker'[v])
        BY <1>5, <4>1, Places
      <4>3. \A u \in Workers : Takes(u)' => Reading(u)' /\ worker'[u].left = 0 /\ worker'[u].lag = 0
        BY <1>3, <1>5, <3>4 DEF Empty
      <4>4. \A u \in Workers : (Reading(u)' => Takes(u)') /\ ~Writing(u)'
        BY <1>5, <1>6, <3>4, Places DEF Empty
      <4>5. LastToken'
        BY <1>1, <1>2, <3>1, <3>4, <4>2, <4>3, <4>4 DEF Empty, LastToken
      <4> QED
        BY <4>5 DEF Paced
    <3> QED
      BY <3>1, <3>2, <3>3, <3>4 DEF Paced, Quiet
  <2> QED
    BY <2>1, <2>2
<1>11. CASE worker[w].pc = "write" /\ ~worker[w].granted
  <2>1. Paid' = Paid /\ Takes(w) /\ ~Reading(w) /\ ~Pending(worker[w])
    <3>1. ~Pending(worker[w]) /\ Takes(w) /\ ~Reading(w)
      BY <1>11 DEF Pending, Takes, Reading, Taking
    <3>2. ideal' = ideal /\ races' = races
      BY <1>2, <1>11, <3>1
    <3> QED
      BY <1>1, <3>1, <3>2, PaidSteps
  <2>2. CASE Alone
    <3>1. /\ \A v \in Workers : Takes(v) => v = w
          /\ age = Nil \/ age >= worker[w].lag
          /\ AloneWrites(w)
      BY <1>11, <2>1, <2>2 DEF Alone, AloneStamps, AloneReads
    <3>2. \A v \in Workers : ~Takes(v)'
      BY <1>3, <1>5, <3>1
    <3> DEFINE f == Level(tokens, Since(worker[w]))
    <3>3. f \in 0 .. Capacity /\ ~(f >= 1) /\ worker[w].left = AtLeast(f - 1, 0)
      BY <1>1, <1>11, <3>1, LevelType DEF AloneWrites
    <3>4. f = 0 /\ worker[w].left = 0
      BY <3>3 DEF AtLeast
    <3>5. tokens = 0 /\ age = worker[w].lag
      BY <1>1, <3>1, <3>4 DEF Level, Since, AtMost, AtLeast
    <3>6. Paid >= AtMost(Capacity, worker[w].lag)
      BY <1>1, <3>1, <3>4 DEF AloneWrites
    <3> QED
      BY <1>1, <1>7, <2>1, <3>2, <3>5, <3>6 DEF Quiet, Level, Paced
  <2>3. CASE Full
    BY <2>1, <2>3 DEF Full, Paced
  <2>4. CASE LastToken
    <3>1. \A v \in Workers : Pending(worker[v]) => Pending(worker'[v])
      BY <1>5, <2>1
    <3>2. \A v \in Workers : worker[v].pc = "stamp" => worker'[v].pc = "stamp"
      BY <1>5, <1>11
    <3>3. \A v \in Workers : Writing(v)' => Writing(v) /\ worker'[v] = worker[v]
      BY <1>5, <1>6
    <3>4. \A v \in Workers : Reading(v)' => Reading(v) /\ worker'[v] = worker[v]
      BY <1>5, <1>6
    <3>5. \A v \in Workers : Takes(v)' => Takes(v) /\ worker'[v] = worker[v]
      BY <1>3, <1>5
    <3>6. \A x : Level(x, age)' = Level(x, age)
      BY <1>2 DEF Level
    <3>7. LastToken'
      BY <1>2, <2>1, <2>4, <3>1, <3>2, <3>3, <3>4, <3>5, <3>6 DEF LastToken
    <3> QED
      BY <3>7 DEF Paced
  <2> QED
    BY <2>1, <2>2, <2>3, <2>4 DEF Paced, Quiet, Empty
<1> QED
  BY <1>8, <1>9, <1>10, <1>11 DEF Takes, Taking, Pending

\* A take that begins during another one may leave another full bucket.
LEMMA ReadTokensPaced ==
  ASSUME TypeOK, TypeOK', Paced, NEW w \in Workers, ReadTokens(w)
  PROVE  Paced'
<1>1. /\ Capacity \in Nat /\ Capacity >= 1 /\ Nil \notin Int /\ MaxAge \in Nat
      /\ tokens \in 0 .. Capacity \cup {Nil} /\ age \in 0 .. MaxAge \cup {Nil}
      /\ ideal \in Int /\ Paid \in Int
      /\ \A v \in Workers : worker[v].lag \in Nat
  BY TakeTyped, FetchAssumption DEF MaxAge
<1>2. /\ ~Takes(w) /\ UNCHANGED <<tokens, age>> /\ ideal' = ideal - 1
      /\ IF \E v \in Workers : Takes(v) THEN races' = races + 1 ELSE races' = races
      /\ worker' = [worker EXCEPT ![w] = [worker[w] EXCEPT !.pc = "updated", !.left = tokens, !.lag = 0]]
  BY DEF ReadTokens, Takes, Taking, TypeOK
<1>3. worker'[w].pc = "updated" /\ worker'[w].left = tokens /\ worker'[w].lag = 0
  BY <1>2, TakeTyped DEF TypeOK, Calls
<1>4. Takes(w)' /\ Reading(w)' /\ ~Writing(w)' /\ Pending(worker'[w])
  BY <1>3 DEF Takes, Reading, Writing, Pending, Taking
<1>5. \A v \in Workers \ {w} : worker'[v] = worker[v]
  BY <1>2 DEF TypeOK
<1>6. \A v \in Workers \ {w} :
        /\ Takes(v)' <=> Takes(v)
        /\ Reading(v)' <=> Reading(v)
        /\ Writing(v)' <=> Writing(v)
        /\ worker'[v] = worker[v]
  BY <1>5, OthersStay
<1>7. \A x : Level(x, age') = Level(x, age)
  BY <1>2 DEF Level
<1>8. Level(tokens, age) \in 0 .. Capacity
  <2>1. age \in Nat \cup {Nil}
    BY <1>1
  <2> QED
    BY <1>1, <2>1, LevelType
<1>9. CASE ~\E v \in Workers : Takes(v)
  <2>1. Paid' = Paid - 1
    <3>1. ideal' - ideal = -1 /\ races' = races
      BY <1>1, <1>2, <1>9
    <3> QED
      BY <1>1, <3>1, PaidSteps
  <2>2. Paid >= Level(tokens, age)
    <3>1. CASE LastToken
      <4>1. tokens = 0 /\ age = 0 /\ Paid >= Capacity - 1
        BY <1>9, <3>1, Places DEF LastToken, Takes, Taking
      <4>2. Level(tokens, age) = 0
        BY <1>1, <4>1 DEF Level, AtMost
      <4> QED
        BY <1>1, <4>1, <4>2
    <3>2. ~Alone /\ ~Empty
      BY <1>9, Places DEF Alone, AloneReads, AloneWrites, AloneStamps, Takes, Taking, Empty
    <3> QED
      BY <1>1, <1>8, <3>1, <3>2 DEF Paced, Quiet, Full
  <2>3. Refilled(worker[w])' = Level(tokens, age)
    BY <1>1, <1>2, <1>3 DEF Refilled, Level, AtLeast
  <2>4. Paid' >= AtMost(Capacity, Refilled(worker[w])' + worker'[w].lag - 1)
    BY <1>1, <1>3, <1>8, <2>1, <2>2, <2>3 DEF AtMost
  <2>5. AloneReads(w)'
    BY <1>2, <1>3, <2>4 DEF AloneReads
  <2>6. age' = Nil \/ age' >= worker'[w].lag
    BY <1>1, <1>2, <1>3
  <2>7. \A v \in Workers : Takes(v)' => v = w
    BY <1>6, <1>9
  <2> QED
    BY <2>5, <2>6, <2>7 DEF Alone, Paced
<1>10. CASE \E v \in Workers : Takes(v)
  <2>1. Paid' = Paid - 1 + Capacity
    <3>1. ideal' - ideal = -1 /\ races' = races + 1
      BY <1>1, <1>2, <1>10
    <3> QED
      BY <1>1, <3>1, PaidSteps
  <2>2. CASE Alone
    <3>1. PICK v \in Workers :
            /\ \A u \in Workers : Takes(u) => u = v
            /\ age = Nil \/ age >= worker[v].lag
            /\ AloneReads(v) \/ AloneWrites(v) \/ AloneStamps(v)
      BY <2>2 DEF Alone
    <3>2. v # w
      BY <1>2, <3>1, Places DEF AloneReads, AloneWrites, AloneStamps, Takes, Taking
    <3>3. \A u \in Workers : Takes(u)' => u \in {v, w}
      BY <1>6, <3>1
    <3>4. worker'[v] = worker[v] /\ worker[v].lag \in Nat
      BY <1>1, <1>5, <3>2
    <3> DEFINE f == Level(tokens, Since(worker[v]))
    <3>5. f \in 0 .. Capacity
      BY <1>1, LevelType
    <3>6. CASE Paid >= 1
      BY <1>1, <2>1, <3>6 DEF Full, Paced
    <3>7. CASE AloneReads(v) /\ ~(Paid >= 1)
      <4>1. Refilled(worker[v]) = f
        BY <3>7, RefilledLevel DEF AloneReads
      <4>2. Paid \in {-1, 0} /\ f + worker[v].lag <= Paid + 1
        <5> HIDE DEF f
        <5> QED
          BY <1>1, <3>4, <3>5, <3>7, <4>1 DEF AloneReads, AtMost
      <4>3. Reading(v)' /\ Reading(v)
        BY <1>6, <3>2, <3>7 DEF AloneReads, Reading
      <4>4. \A u \in Workers : ~Writing(u)'
        BY <1>4, <1>6, <3>1, <3>3, <4>3, Places
      <4>5. worker'[v].left = tokens
        BY <3>4, <3>7 DEF AloneReads
      <4>6. CASE worker[v].lag = 0 /\ Paid = -1
        <5>1. f = 0
          BY <3>5, <4>2, <4>6
        <5>2. tokens = 0 /\ age = 0
          BY <1>1, <3>1, <4>6, <5>1 DEF Level, Since, AtMost, AtLeast
        <5>3. \A u \in Workers : Takes(u)' => Reading(u)' /\ worker'[u].left = 0 /\ worker'[u].lag = 0
          BY <1>3, <1>4, <3>3, <3>4, <4>3, <4>5, <4>6, <5>2
        <5>4. Paid' >= Capacity - 2
          BY <1>1, <2>1, <4>6
        <5>5. Empty'
          BY <1>2, <1>4, <3>2, <4>3, <5>2, <5>3, <5>4 DEF Empty
        <5> QED
          BY <5>5 DEF Paced
      <4>7. CASE worker[v].lag = 0 /\ Paid = 0
        <5>1. f <= 1 /\ Level(tokens, age) = f
          <6>1. f = Level(tokens, age)
            BY <1>1, <4>7 DEF Level, Since, AtMost, AtLeast
          <6>2. f + 0 <= 0 + 1
            BY <4>2, <4>7
          <6> HIDE DEF f
          <6> QED
            BY <3>5, <6>1, <6>2
        <5> HIDE DEF f
        <5>2. \A u \in Workers : Takes(u)' => worker'[u].lag = 0 /\ worker'[u].left = tokens
          BY <1>3, <3>3, <3>4, <4>5, <4>7
        <5>3. \A u \in Workers : Reading(u)' => Takes(u)'
          BY <1>4, <1>6, Places
        <5>4. \A u \in Workers : Reading(u)' => Level(worker'[u].left, age') <= 1
          BY <1>7, <5>1, <5>2, <5>3
        <5>5. Paid' >= Capacity - 1
          BY <1>1, <2>1, <4>7
        <5>6. LastToken'
          BY <1>2, <1>4, <1>7, <4>4, <5>1, <5>2, <5>4, <5>5 DEF LastToken
        <5> QED
          BY <5>6 DEF Paced
      <4>8. CASE worker[v].lag = 1 /\ Paid = 0
        <5>1. f = 0
          <6> HIDE DEF f
          <6> QED
            BY <3>5, <4>2, <4>8
        <5>2. tokens = 0 /\ age = 1
          BY <1>1, <3>1, <4>8, <5>1 DEF Level, Since, AtMost, AtLeast
        <5> HIDE DEF f
        <5>3. \A u \in Workers : Reading(u)' => worker'[u].left = 0 /\ worker'[u].lag \in {0, 1}
          <6>1. \A u \in Workers : Reading(u)' => u \in {v, w}
            BY <1>4, <1>6, <3>3, Places
          <6> QED
            BY <1>3, <3>4, <4>5, <4>8, <5>2, <6>1
        <5>4. Paid' >= Capacity - 1
          BY <1>1, <2>1, <4>8
        <5>5. LastToken'
          BY <1>2, <1>4, <4>4, <5>2, <5>3, <5>4 DEF LastToken
        <5> QED
          BY <5>5 DEF Paced
      <4> QED
        <5> HIDE DEF f
        <5>1. worker[v].lag \in {0, 1}
          BY <3>4, <3>5, <4>2
        <5>2. Paid = -1 => worker[v].lag = 0
          BY <3>4, <3>5, <4>2
        <5> QED
          BY <4>2, <4>6, <4>7, <4>8, <5>1, <5>2
    <3>8. CASE (AloneWrites(v) \/ AloneStamps(v)) /\ ~(Paid >= 1)
      <4>1. worker[v].left \in Nat /\ Paid >= AtMost(Capacity, worker[v].left + worker[v].lag)
        BY <1>1, <3>5, <3>8 DEF AloneWrites, AloneStamps, AtLeast
      <4>2. Paid = 0 /\ worker[v].left = 0 /\ worker[v].lag = 0
        <5> HIDE DEF f
        <5> QED
          BY <1>1, <3>4, <3>8, <4>1 DEF AtMost
      <4>3. Level(tokens, age) <= 1
        <5>1. Since(worker[v]) = age
          BY <1>1, <4>2 DEF Since, AtLeast
        <5>2. CASE AloneWrites(v)
          <6>1. 0 = AtLeast(f - 1, 0)
            BY <4>2, <5>2 DEF AloneWrites
          <6>2. f <= 1
            BY <3>5, <6>1 DEF AtLeast
          <6> QED
            BY <5>1, <6>2
        <5>3. CASE AloneStamps(v)
          BY <4>2, <5>1, <5>3 DEF AloneStamps
        <5> QED
          BY <3>8, <5>2, <5>3
      <4>4. Writing(v)
        BY <3>8 DEF AloneWrites, AloneStamps, Writing
      <4>5. \A u \in Workers : Reading(u)' => u = w
        BY <1>6, <3>1, <4>4, Places
      <4>6. \A u \in Workers : Writing(u)' => u = v
        BY <1>4, <1>6, <3>1, Places
      <4>7. \A u \in Workers : Takes(u)' => worker'[u].lag = 0
        BY <1>3, <3>3, <3>4, <4>2
      <4>8. Paid' >= Capacity - 1
        BY <1>1, <2>1, <4>2
      <4>9. LastToken'
        BY <1>2, <1>3, <1>4, <1>7, <3>4, <4>2, <4>3, <4>5, <4>6, <4>7, <4>8 DEF LastToken
      <4> QED
        BY <4>9 DEF Paced
    <3> QED
      BY <3>1, <3>6, <3>7, <3>8
  <2>3. CASE Full
    BY <1>1, <2>1, <2>3 DEF Full, Paced
  <2>4. CASE Empty
    <3>1. \A u \in Workers : Takes(u)' => Reading(u)' /\ worker'[u].left = 0 /\ worker'[u].lag = 0
      BY <1>3, <1>4, <1>6, <2>4 DEF Empty
    <3>2. \E u, v \in Workers : u # v /\ Reading(u)' /\ Reading(v)'
      BY <1>4, <1>6, <2>4 DEF Empty
    <3>3. Paid' >= Capacity - 2
      BY <1>1, <2>1, <2>4 DEF Empty
    <3>4. Empty'
      BY <1>2, <2>4, <3>1, <3>2, <3>3 DEF Empty
    <3> QED
      BY <3>4 DEF Paced
  <2>5. CASE LastToken
    <3>1. Paid' >= Capacity - 1
      BY <1>1, <2>1, <2>5 DEF LastToken
    <3>2. \A u \in Workers : Writing(u)' => worker'[u].left = 0 /\ worker'[u].lag = 0
      BY <1>4, <1>6, <2>5 DEF LastToken
    <3>3. \A u \in Workers : Reading(u)' => u = w \/ (Reading(u) /\ worker'[u] = worker[u])
      BY <1>6
    <3>4. \A u \in Workers : Takes(u)' => u = w \/ (Takes(u) /\ worker'[u] = worker[u])
      BY <1>6
    <3>5. LastToken'
      BY <1>2, <1>3, <1>4, <1>7, <2>5, <3>1, <3>2, <3>3, <3>4 DEF LastToken
    <3> QED
      BY <3>5 DEF Paced
  <2> QED
    BY <1>10, <2>2, <2>3, <2>4, <2>5 DEF Paced, Quiet
<1> QED
  BY <1>9, <1>10

\* What a take reads, and so whether it gets a token.
LEMMA ReadUpdatedPaced ==
  ASSUME TypeOK, TypeOK', Paced, NEW w \in Workers, ReadUpdated(w)
  PROVE  Paced'
<1> DEFINE f == Refilled(worker[w])
<1>1. /\ Capacity \in Nat /\ Capacity >= 1 /\ Nil \notin Int /\ MaxAge \in Nat
      /\ tokens \in 0 .. Capacity \cup {Nil} /\ age \in 0 .. MaxAge \cup {Nil}
      /\ ideal \in Int /\ ideal <= Capacity /\ Paid \in Int /\ worker[w].lag \in Nat
      /\ f \in 0 .. Capacity
  BY TakeTyped, RefilledLevel, FetchAssumption DEF MaxAge
<1>2. /\ Reading(w) /\ Takes(w) /\ ~Writing(w) /\ UNCHANGED <<tokens, age, races>>
      /\ ideal' = IF f >= 1 THEN ideal ELSE AtMost(ideal + 1, Capacity)
      /\ worker' = [worker EXCEPT ![w] = [worker[w] EXCEPT
           !.pc = "write", !.granted = f >= 1, !.left = AtLeast(f - 1, 0)]]
  BY DEF ReadUpdated, Reading, Writing, Takes, Taking
<1>3. /\ worker'[w].pc = "write" /\ worker'[w].granted = (f >= 1)
      /\ worker'[w].left = AtLeast(f - 1, 0) /\ worker'[w].lag = worker[w].lag
  BY <1>2, TakeTyped DEF TypeOK, Calls
<1> HIDE DEF f
<1>4. Takes(w)' /\ ~Reading(w)' /\ Writing(w)' /\ (f >= 1 => Pending(worker'[w]))
  BY <1>3 DEF Takes, Reading, Writing, Pending, Taking
<1>5. \A v \in Workers \ {w} : worker'[v] = worker[v]
  BY <1>2 DEF TypeOK
<1>6. \A v \in Workers \ {w} :
        /\ Takes(v)' <=> Takes(v)
        /\ Reading(v)' <=> Reading(v)
        /\ Writing(v)' <=> Writing(v)
        /\ worker'[v] = worker[v]
  BY <1>5, OthersStay
<1>7. \A x : Level(x, age') = Level(x, age)
  BY <1>2 DEF Level
<1>8. CASE ideal' = Capacity /\ ~(f >= 1)
  BY <1>8, PaidSteps DEF Paced
<1>9. CASE ~(ideal' = Capacity /\ ~(f >= 1))
  <2>1. Paid' = IF f >= 1 THEN Paid ELSE Paid + 1
    <3>1. ideal' = (IF f >= 1 THEN ideal ELSE ideal + 1) /\ races' = races
      BY <1>1, <1>2, <1>9 DEF AtMost
    <3> QED
      BY <1>1, <3>1, PaidSteps
  <2>2. CASE Alone
    <3>1. /\ \A u \in Workers : Takes(u) => u = w
          /\ age = Nil \/ age >= worker[w].lag
          /\ AloneReads(w)
      BY <1>2, <2>2 DEF Alone, AloneReads, AloneWrites, AloneStamps, Reading
    <3>2. f = Level(tokens, Since(worker[w]))
      BY <3>1, RefilledLevel DEF AloneReads, f
    <3>3. Since(worker[w])' = Since(worker[w])
      BY <1>2, <1>3 DEF Since
    <3>4. Level(tokens', Since(worker[w])') = f
      BY <1>2, <3>2, <3>3
    <3>5. Paid' >= AtMost(Capacity, worker'[w].left + worker'[w].lag)
      BY <1>1, <1>3, <2>1, <3>1 DEF AloneReads, AtMost, AtLeast, f
    <3>6. AloneWrites(w)'
      BY <1>3, <3>4, <3>5 DEF AloneWrites
    <3>7. age' = Nil \/ age' >= worker'[w].lag
      BY <1>2, <1>3, <3>1
    <3>8. \A u \in Workers : Takes(u)' => u = w
      BY <1>6, <3>1
    <3> QED
      BY <3>6, <3>7, <3>8 DEF Alone, Paced
  <2>3. CASE Full
    BY <1>1, <2>1, <2>3 DEF Full, Paced
  <2>4. CASE Empty
    <3>1. worker[w].left = 0 /\ worker[w].lag = 0 /\ age = 0 /\ tokens = 0
      BY <1>2, <2>4 DEF Empty
    <3>2. f = 0
      BY <1>1, <3>1 DEF f, Refilled, AtMost, AtLeast
    <3>3. PICK v \in Workers \ {w} : Reading(v)
      BY <2>4 DEF Empty
    <3>4. Pending(worker'[v])
      BY <1>6, <3>3 DEF Reading, Pending
    <3>5. worker'[w].left = 0 /\ worker'[w].lag = 0
      BY <1>3, <3>1, <3>2 DEF AtLeast
    <3>6. \A u \in Workers : Writing(u)' => u = w
      BY <1>6, <2>4, Places DEF Empty
    <3>7. \A u \in Workers : Reading(u)' => worker'[u].left = 0 /\ worker'[u].lag = 0
      BY <1>4, <1>6, <2>4, Places DEF Empty
    <3>8. Paid' >= Capacity - 1
      BY <1>1, <2>1, <2>4, <3>2 DEF Empty
    <3>9. LastToken'
      BY <1>2, <3>1, <3>4, <3>5, <3>6, <3>7, <3>8 DEF LastToken
    <3> QED
      BY <3>9 DEF Paced
  <2>5. CASE LastToken /\ f >= 1
    <3>1. worker[w].lag = 0 /\ f = 1
      <4>1. CASE /\ \A v \in Workers : Takes(v) => worker[v].lag = 0
                 /\ \A v \in Workers : Reading(v) => Level(worker[v].left, age) <= 1
        <5>1. worker[w].lag = 0 /\ Level(worker[w].left, age) <= 1
          BY <1>2, <4>1
        <5>2. f = Level(worker[w].left, age)
          BY <1>1, <5>1, TakeTyped DEF f, Refilled, Level, AtLeast
        <5> QED
          BY <1>1, <2>5, <5>1, <5>2
      <4>2. CASE age \in {0, 1} /\ worker[w].left = 0 /\ worker[w].lag \in {0, 1}
        BY <1>1, <2>5, <4>2 DEF f, Refilled, AtMost, AtLeast
      <4> QED
        BY <1>2, <2>5, <4>1, <4>2 DEF LastToken
    <3>2. worker'[w].left = 0 /\ worker'[w].lag = 0 /\ Pending(worker'[w])
      BY <1>3, <1>4, <3>1 DEF AtLeast
    <3>3. \A u \in Workers : Writing(u)' => worker'[u].left = 0 /\ worker'[u].lag = 0
      BY <1>6, <2>5, <3>2 DEF LastToken
    <3>4. \A u \in Workers : Reading(u)' => Reading(u) /\ worker'[u] = worker[u]
      BY <1>4, <1>6
    <3>5. \A u \in Workers : Takes(u)' => u = w \/ (Takes(u) /\ worker'[u] = worker[u])
      BY <1>6
    <3>6. Paid' = Paid
      BY <2>1, <2>5
    <3>7. LastToken'
      BY <1>2, <1>7, <2>5, <3>2, <3>3, <3>4, <3>5, <3>6 DEF LastToken
    <3> QED
      BY <3>7 DEF Paced
  <2>6. CASE LastToken /\ ~(f >= 1)
    BY <1>1, <2>1, <2>6 DEF LastToken, Full, Paced
  <2> QED
    BY <1>2, <2>2, <2>3, <2>4, <2>5, <2>6 DEF Paced, Quiet
<1> QED
  BY <1>8, <1>9

\* The tokens are written, the time is not yet.
LEMMA WriteTokensPaced ==
  ASSUME TypeOK, TypeOK', Paced, NEW w \in Workers, WriteTokens(w)
  PROVE  Paced'
<1>1. /\ Capacity \in Nat /\ Capacity >= 1 /\ Nil \notin Int /\ MaxAge \in Nat
      /\ tokens \in 0 .. Capacity \cup {Nil} /\ age \in 0 .. MaxAge \cup {Nil}
      /\ Paid \in Int /\ worker[w].lag \in Nat
  BY TakeTyped, FetchAssumption DEF MaxAge
<1>2. /\ worker[w].pc = "write" /\ Takes(w) /\ ~Reading(w) /\ Writing(w)
      /\ UNCHANGED <<age, races, ideal>> /\ tokens' = worker[w].left
      /\ worker' = [worker EXCEPT ![w] = [worker[w] EXCEPT !.pc = "stamp"]]
  BY DEF WriteTokens, Goto, Reading, Writing, Takes, Taking
<1>3. /\ worker'[w].pc = "stamp" /\ worker'[w].left = worker[w].left /\ worker'[w].lag = worker[w].lag
  BY <1>2, TakeTyped DEF TypeOK, Calls
<1>4. Takes(w)' /\ ~Reading(w)' /\ Writing(w)'
  BY <1>3 DEF Takes, Reading, Writing, Taking
<1>5. \A v \in Workers \ {w} : worker'[v] = worker[v]
  BY <1>2 DEF TypeOK
<1>6. \A v \in Workers \ {w} :
        /\ Takes(v)' <=> Takes(v)
        /\ Reading(v)' <=> Reading(v)
        /\ Writing(v)' <=> Writing(v)
        /\ worker'[v] = worker[v]
  BY <1>5, OthersStay
<1>7. Paid' = Paid
  BY <1>2 DEF Paid
<1>8. CASE Alone
  <2>1. /\ \A u \in Workers : Takes(u) => u = w
        /\ age = Nil \/ age >= worker[w].lag
        /\ AloneWrites(w)
    BY <1>2, <1>8 DEF Alone, AloneReads, AloneWrites, AloneStamps
  <2> DEFINE f == Level(tokens, Since(worker[w]))
  <2>2. f \in 0 .. Capacity /\ worker[w].left = AtLeast(f - 1, 0)
    BY <1>1, <2>1, LevelType DEF AloneWrites
  <2>3. Since(worker[w])' = Since(worker[w]) /\ Since(worker[w]) \in Nat \cup {Nil}
    BY <1>2, <1>3, LevelType DEF Since
  <2>4. Level(0, Since(worker[w])) <= f
    BY <1>1, <2>3 DEF Level, AtMost
  <2>5. Level(0, Since(worker[w])) \in 0 .. Capacity
    BY <1>1, <2>3 DEF Level, AtMost
  <2>6. worker[w].left \in Nat /\ Level(0, Since(worker[w])) <= worker[w].left + 1
    <3> DEFINE l == Level(0, Since(worker[w]))
    <3>1. l <= f /\ l \in 0 .. Capacity
      BY <2>4, <2>5
    <3> HIDE DEF f, l
    <3>2. worker[w].left \in Nat /\ l <= worker[w].left + 1
      BY <1>1, <2>2, <3>1 DEF AtLeast
    <3> QED
      BY <3>2 DEF l
  <2>7. Level(0, Since(worker[w])') = Level(0, Since(worker[w]))
    BY <2>3
  <2>8. AloneStamps(w)'
    BY <1>2, <1>3, <1>7, <2>1, <2>6, <2>7 DEF AloneStamps, AloneWrites
  <2>9. age' = Nil \/ age' >= worker'[w].lag
    BY <1>2, <1>3, <2>1
  <2>10. \A u \in Workers : Takes(u)' => u = w
    BY <1>6, <2>1
  <2> QED
    BY <2>8, <2>9, <2>10 DEF Alone, Paced
<1>9. CASE Full
  BY <1>7, <1>9 DEF Full, Paced
<1>10. CASE LastToken
  <2>1. worker[w].left = 0 /\ worker[w].lag = 0 /\ tokens' = 0
    BY <1>2, <1>10 DEF LastToken
  <2>2. Level(tokens, age) <= 1 => Level(tokens', age') <= 1
    BY <1>1, <1>2, <2>1 DEF Level, AtMost
  <2>3. \A u \in Workers : Writing(u)' => worker'[u].left = 0 /\ worker'[u].lag = 0
    BY <1>3, <1>6, <1>10, <2>1 DEF LastToken
  <2>4. \A u \in Workers : Reading(u)' => Reading(u) /\ worker'[u] = worker[u]
    BY <1>4, <1>6
  <2>5. \A u \in Workers : Takes(u)' => u = w \/ (Takes(u) /\ worker'[u] = worker[u])
    BY <1>6
  <2>6. \A x : Level(x, age') = Level(x, age)
    BY <1>2 DEF Level
  <2>7. LastToken'
    BY <1>2, <1>3, <1>7, <1>10, <2>1, <2>2, <2>3, <2>4, <2>5, <2>6 DEF LastToken
  <2> QED
    BY <2>7 DEF Paced
<1> QED
  BY <1>2, <1>8, <1>9, <1>10 DEF Paced, Quiet, Empty

\* The take is over: the bucket holds what it left, refilled since.
LEMMA WriteUpdatedPaced ==
  ASSUME TypeOK, TypeOK', Paced, NEW w \in Workers, WriteUpdated(w)
  PROVE  Paced'
<1>1. /\ Capacity \in Nat /\ Capacity >= 1 /\ Nil \notin Int /\ MaxAge \in Nat
      /\ tokens \in 0 .. Capacity \cup {Nil} /\ age \in 0 .. MaxAge \cup {Nil}
      /\ Paid \in Int /\ worker[w].lag \in Nat
      /\ \A v \in Workers : worker[v].left \in 0 .. Capacity \cup {Nil}
  BY TakeTyped, FetchAssumption DEF MaxAge
<1>2. /\ worker[w].pc = "stamp" /\ Takes(w) /\ ~Reading(w) /\ Writing(w) /\ ~Pending(worker[w])
      /\ UNCHANGED <<tokens, races, ideal>> /\ age' = worker[w].lag
  BY DEF WriteUpdated, Reading, Writing, Pending, Takes, Taking
<1>3. PICK p \in {[NewCall EXCEPT !.pc = "send"], [NewCall EXCEPT !.pc = "sleep", !.wait = 1]} :
        worker' = [worker EXCEPT ![w] = p]
  BY DEF WriteUpdated
<1>4. worker'[w].pc \in {"send", "sleep"}
  BY <1>3 DEF TypeOK, NewCall
<1>5. ~Takes(w)' /\ ~Reading(w)' /\ ~Writing(w)'
  BY <1>4 DEF Takes, Reading, Writing, Taking
<1>6. \A v \in Workers \ {w} : worker'[v] = worker[v]
  BY <1>3 DEF TypeOK
<1>7. \A v \in Workers \ {w} :
        /\ Takes(v)' <=> Takes(v)
        /\ Reading(v)' <=> Reading(v)
        /\ Writing(v)' <=> Writing(v)
        /\ Pending(worker'[v]) <=> Pending(worker[v])
        /\ worker'[v] = worker[v]
  BY <1>6, OthersStay
<1>8. Paid' = Paid
  BY <1>2 DEF Paid
<1>9. CASE Alone
  <2>1. (\A u \in Workers : Takes(u) => u = w) /\ AloneStamps(w)
    BY <1>2, <1>9 DEF Alone, AloneReads, AloneWrites, AloneStamps
  <2>2. Level(tokens', age') = AtMost(Capacity, worker[w].left + worker[w].lag)
    BY <1>1, <1>2, <2>1 DEF Level, AloneStamps
  <2>3. \A u \in Workers : ~Takes(u)'
    BY <1>5, <1>7, <2>1
  <2>4. Paid' >= Level(tokens', age')
    BY <1>8, <2>1, <2>2 DEF AloneStamps
  <2> QED
    BY <2>3, <2>4 DEF Quiet, Paced
<1>10. CASE Full
  BY <1>8, <1>10 DEF Full, Paced
<1>11. CASE LastToken
  <2>1. worker[w].lag = 0 /\ age' = 0
    BY <1>2, <1>11 DEF LastToken
  <2>2. \A x \in 0 .. Capacity \cup {Nil} : Level(x, age) <= 1 => Level(x, age') <= 1
    BY <1>1, <2>1 DEF Level, AtMost
  <2>3. \A u \in Workers : Writing(u)' => Writing(u) /\ worker'[u] = worker[u]
    BY <1>5, <1>7
  <2>4. \A u \in Workers : Reading(u)' => Reading(u) /\ worker'[u] = worker[u]
    BY <1>5, <1>7
  <2>5. \A u \in Workers : Takes(u)' => Takes(u) /\ worker'[u] = worker[u]
    BY <1>5, <1>7
  <2>6. (\E u \in Workers : Pending(worker[u])) => (\E u \in Workers : Pending(worker'[u]))
    BY <1>2, <1>7
  <2>7. LastToken'
    BY <1>1, <1>2, <1>8, <1>11, <2>1, <2>2, <2>3, <2>4, <2>5, <2>6 DEF LastToken
  <2> QED
    BY <2>7 DEF Paced
<1> QED
  BY <1>2, <1>9, <1>10, <1>11 DEF Paced, Quiet, Empty

\* Nothing is taken at the start, and the bucket is as good as full.
LEMMA PacedAtFirst == Init => Paced
<1> SUFFICES ASSUME Init PROVE Paced
  OBVIOUS
<1>1. \A w \in Workers : ~Takes(w)
  BY NewCallType DEF Init, Takes, Taking
<1>2. Paid = Capacity /\ Level(tokens, age) = Capacity
  BY FetchAssumption DEF Init, Paid, Level
<1> QED
  BY <1>1, <1>2, FetchAssumption DEF Quiet, Paced

\* One step for each action of Next.
LEMMA StepPaced == TypeOK /\ TypeOK' /\ Paced /\ [Next]_vars => Paced'
<1> SUFFICES ASSUME TypeOK, TypeOK', Paced, [Next]_vars PROVE Paced'
  OBVIOUS
<1>1. CASE Tick
  BY <1>1, TickPaced
<1>2. CASE CacheExpire \/ UNCHANGED vars
  <2>1. UNCHANGED bucket /\ UNCHANGED worker
    BY <1>2 DEF CacheExpire, vars
  <2> QED
    BY <2>1, PacedFrame
<1>3. ASSUME NEW w \in Workers, Crash(w) PROVE Paced'
  BY <1>3, CrashPaced
<1>4. ASSUME NEW w \in Workers, ReadTokens(w) \/ ReadUpdated(w) \/ WriteTokens(w) \/ WriteUpdated(w)
      PROVE  Paced'
  BY <1>4, ReadTokensPaced, ReadUpdatedPaced, WriteTokensPaced, WriteUpdatedPaced
<1>5. ASSUME NEW w \in Workers,
             \/ Get(w) \/ Check(w) \/ Reset(w) \/ Lookup(w) \/ SendFails(w) \/ SendAnswered(w)
             \/ RecordSuccess(w) \/ RecordFailure(w) \/ Trip(w) \/ Store(w)
      PROVE  Paced'
  <2> DEFINE at(pc) == [worker[w] EXCEPT !.pc = pc]
             failed == [worker[w] EXCEPT !.pc = "failed", !.tries = worker[w].tries + 1]
             moves == {NewCall, Idle, Retry(worker[w]), failed} \cup
                      {at(pc) : pc \in {"lookup", "reset", "store", "take", "answered", "refused", "trip"}}
  <2>1. UNCHANGED bucket /\ ~Takes(w)
    BY <1>5 DEF Get, Check, Reset, Lookup, SendFails, SendAnswered, RecordSuccess, RecordFailure,
                Trip, Store, bucket, Takes, Taking
  <2>2. \E m \in moves : worker' = [worker EXCEPT ![w] = m]
    <3>1. CASE Get(w) \/ Check(w) \/ Reset(w) \/ Lookup(w)
      BY <3>1 DEF Get, Check, Reset, Lookup, Goto, TypeOK
    <3>2. CASE SendFails(w)
      <4>1. worker' = [worker EXCEPT ![w].pc = "failed", ![w].tries = worker[w].tries + 1]
        BY <3>2 DEF SendFails
      <4>2. worker' = [worker EXCEPT ![w] = failed]
        BY <4>1
      <4> QED
        BY <4>2
    <3>3. CASE SendAnswered(w)
      BY <3>3 DEF SendAnswered, Goto
    <3>4. CASE RecordSuccess(w)
      BY <3>4 DEF RecordSuccess
    <3>5. CASE RecordFailure(w) \/ Trip(w) \/ Store(w)
      BY <3>5 DEF RecordFailure, Trip, Store
    <3> QED
      BY <1>5, <3>1, <3>2, <3>3, <3>4, <3>5
  <2>3. \A m \in moves : m.pc \notin Taking
    <3>1. worker[w] \in Calls
      BY DEF TypeOK
    <3>2. \A pc \in STRING : at(pc).pc = pc
      BY <3>1 DEF Calls
    <3>3. failed.pc = "failed"
      BY <3>1 DEF Calls
    <3>4. Retry(worker[w]).pc \in {"idle", "send"} /\ NewCall.pc = "check" /\ Idle.pc = "idle"
      BY <3>1, RetryType, NewCallType
    <3> SUFFICES ASSUME NEW m \in moves PROVE m.pc \notin Taking
      OBVIOUS
    <3>5. CASE m \in {NewCall, Idle, Retry(worker[w]), failed}
      BY <3>3, <3>4, <3>5 DEF Taking
    <3>6. CASE m \in {at(pc) : pc \in {"lookup", "reset", "store", "take", "answered", "refused", "trip"}}
      <4>1. PICK pc \in {"lookup", "reset", "store", "take", "answered", "refused", "trip"} : m = at(pc)
        BY <3>6
      <4>2. m.pc = pc
        BY <3>2, <4>1
      <4> QED
        BY <4>2 DEF Taking
    <3> QED
      BY <3>5, <3>6
  <2> HIDE DEF moves
  <2>4. PICK m \in moves : worker' = [worker EXCEPT ![w] = m]
    BY <2>2
  <2>5. \A v \in Workers : worker'[v] = IF v = w THEN m ELSE worker[v]
    BY <2>4 DEF TypeOK
  <2>6. \A v \in Workers : Takes(v) \/ Takes(v)' => worker'[v] = worker[v]
    BY <2>1, <2>3, <2>5 DEF Takes
  <2> QED
    BY <2>1, <2>6, PacedFrame
<1> QED
  BY <1>1, <1>2, <1>3, <1>4, <1>5 DEF Next, Step

\* What is paid for is never less than what has been taken.
LEMMA PacedBounds == TypeOK /\ Paced => HostIsPaced
<1> SUFFICES ASSUME TypeOK, Paced PROVE HostIsPaced
  OBVIOUS
<1> DEFINE reading == {w \in Workers : worker[w].pc = "updated"}
           n == Cardinality(reading)
           spent == races * Capacity
<1>1. /\ Capacity \in Nat /\ Capacity >= 1 /\ races \in Nat /\ ideal \in Int
      /\ tokens \in 0 .. Capacity \cup {Nil} /\ age \in 0 .. MaxAge \cup {Nil}
      /\ \A w \in Workers : worker[w].lag \in Nat /\ Refilled(worker[w]) \in 0 .. Capacity
  BY TakeTyped, RefilledLevel, FetchAssumption
<1>2. spent \in Nat /\ Paid = ideal + spent /\ Paid \in Int
  BY <1>1, OneMore DEF Paid
<1>3. reading \subseteq Workers
  OBVIOUS
<1>4. IsFiniteSet(reading)
  BY <1>3, FetchAssumption, FS_Subset
<1>5. n \in Nat /\ (n = 0 <=> reading = {})
  BY <1>4, FS_CardinalityType, FS_EmptySet
<1>6. Paid >= 0 \/ (Paid >= -1 /\ \E w \in Workers : worker[w].pc = "updated")
  <2>1. CASE Quiet
    <3>1. age \in Nat \cup {Nil}
      BY <1>1, FetchAssumption DEF MaxAge
    <3>2. Level(tokens, age) \in 0 .. Capacity
      BY <1>1, <3>1, LevelType
    <3> QED
      BY <1>1, <1>2, <2>1, <3>2 DEF Quiet
  <2>2. CASE Alone
    <3>1. PICK w \in Workers : AloneReads(w) \/ AloneWrites(w) \/ AloneStamps(w)
      BY <2>2 DEF Alone
    <3>2. CASE AloneReads(w)
      BY <1>1, <1>2, <3>2 DEF AloneReads, AtMost
    <3>3. CASE AloneWrites(w)
      <4>1. Level(tokens, Since(worker[w])) \in 0 .. Capacity
        BY <1>1, LevelType
      <4> QED
        BY <1>1, <1>2, <3>3, <4>1 DEF AloneWrites, AtMost, AtLeast
    <3>4. CASE AloneStamps(w)
      BY <1>1, <1>2, <3>4 DEF AloneStamps, AtMost
    <3> QED
      BY <3>1, <3>2, <3>3, <3>4
  <2>3. CASE Full \/ LastToken
    BY <1>1, <1>2, <2>3 DEF Full, LastToken
  <2>4. CASE Empty
    BY <1>1, <1>2, <2>4 DEF Empty, Reading
  <2> QED
    BY <2>1, <2>2, <2>3, <2>4 DEF Paced
<1>7. (\E w \in Workers : worker[w].pc = "updated") => n >= 1
  <2>1. (\E w \in Workers : worker[w].pc = "updated") => reading # {}
    OBVIOUS
  <2> HIDE DEF n
  <2> QED
    BY <1>5, <2>1
<1>8. Paid + n >= 0
  <2> HIDE DEF n
  <2> QED
    BY <1>2, <1>5, <1>6, <1>7
<1>9. ideal + n >= -spent
  <2> HIDE DEF n, spent
  <2> QED
    BY <1>1, <1>2, <1>5, <1>8
<1> QED
  BY <1>9 DEF HostIsPaced

\* The workers of a host together take no more tokens than the bucket holds
\* and time refills, and one bucket more for each take that overlapped
\* another or died half-written, however their GETs and SETs interleave and
\* however long each of them takes (core/fetch/throttle.py).
THEOREM HostStaysPaced == Spec => []HostIsPaced
BY PacedAtFirst, StepPaced, PacedBounds, TypeCorrect, PTL DEF Spec
=============================================================================
