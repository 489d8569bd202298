------------------------------- MODULE Fetch -------------------------------
(***************************************************************************)
(* The shared fetch client (mlsc/core/fetch/): FetchClient.get with the    *)
(* breaker, the response cache and the throttle, whose state is in Redis,  *)
(* for the requests of several workers to one host.  Each action is one    *)
(* command to Redis or one attempt of the transport, so everything between *)
(* two of them can happen to a worker that waits for an answer.            *)
(*                                                                         *)
(* Clocks are kept as durations, which Tick counts: what is left of the    *)
(* cooldown, and the age of a timestamp.  A unit is the time one token     *)
(* takes to refill.                                                        *)
(***************************************************************************)
EXTENDS Integers, FiniteSets

CONSTANTS
  Workers,      \* processes that call get for the host
  Threshold,    \* breaker_failure_threshold
  Cooldown,     \* breaker_cooldown_seconds
  Capacity,     \* host_budget_capacity, in whole tokens
  MaxRetries,   \* max_transport_retries
  MaxRequests,  \* bound: calls of get
  MaxStall,     \* bound: how long a worker takes from reading the clock to writing the bucket
  MaxRaces,     \* bound: takes of a token during another's, or cut short
  MaxCrashes,   \* bound: workers that die
  Nil           \* no key

ASSUME FetchAssumption ==
  /\ IsFiniteSet(Workers)
  /\ Threshold \in Nat \ {0} /\ Cooldown \in Nat \ {0} /\ Capacity \in Nat \ {0}
  /\ MaxRetries \in Nat /\ MaxRequests \in Nat /\ MaxStall \in Nat
  /\ MaxRaces \in Nat /\ MaxCrashes \in Nat
  /\ Nil \notin Int

VARIABLES
  failures,  \* the breaker's count of failures in a row, up to Threshold
  opened,    \* what is left until opened_until, or Nil
  cached,    \* the response to the request is in the cache
  tokens,    \* the bucket's tokens, or Nil
  age,       \* the age of the bucket's updated_at, up to MaxAge, or Nil
  worker,    \* the state of each call of get
  requests,  \* spent of MaxRequests
  crashes,   \* spent of MaxCrashes
  \* auxiliary
  streak,    \* failures since the host last answered, up to Threshold
  cooling,   \* what is left of the last cooldown that no answer ended
  slipped,   \* a cooldown began or ended between two commands of a call
  ideal,     \* the tokens of a bucket without races, less one for each take
             \* from the time its clock is read
  races      \* spent of MaxRaces

breaker == <<failures, opened, streak, cooling, slipped>>
bucket == <<tokens, age, ideal, races>>
vars == <<breaker, bucket, cached, worker, requests, crashes>>

\* An older timestamp fills the bucket whatever clock it is read with.
MaxAge == Capacity + MaxStall

AtMost(n, m) == IF n < m THEN n ELSE m
AtLeast(n, m) == IF n > m THEN n ELSE m

\* tries: failed attempts; lag: the age of the clock's reading; left: the
\* tokens that were read, then those to write; granted: one was taken; wait:
\* time to sleep.
NewCall == [pc |-> "check", tries |-> 0, lag |-> 0, left |-> 0, granted |-> FALSE, wait |-> 0]
Idle == [NewCall EXCEPT !.pc = "idle"]
Dead == [NewCall EXCEPT !.pc = "dead"]
Pending(call) == call.pc = "updated" \/ (call.pc = "write" /\ call.granted)
Taking == {"updated", "write", "stamp"}
Calls == [pc : {"idle", "dead", "check", "reset", "lookup", "take", "sleep", "send", "failed",
                "trip", "answered", "refused", "store"} \cup Taking,
          tries : 0 .. MaxRetries + 1, lag : 0 .. MaxStall,
          left : 0 .. Capacity \cup {Nil}, granted : BOOLEAN, wait : {0, 1}]

TypeOK ==
  /\ failures \in 0 .. Threshold
  /\ opened \in 0 .. Cooldown \cup {Nil}
  /\ cached \in BOOLEAN
  /\ tokens \in 0 .. Capacity \cup {Nil} /\ age \in 0 .. MaxAge \cup {Nil}
  /\ worker \in [Workers -> Calls]
  /\ requests \in 0 .. MaxRequests /\ crashes \in 0 .. MaxCrashes
  /\ streak \in 0 .. Threshold /\ cooling \in 0 .. Cooldown /\ slipped \in BOOLEAN
  /\ ideal \in Int /\ ideal <= Capacity /\ races \in 0 .. MaxRaces

Init ==
  /\ failures = 0 /\ opened = Nil /\ streak = 0 /\ cooling = 0 /\ slipped = FALSE
  /\ tokens = Nil /\ age = Nil /\ ideal = Capacity /\ races = 0
  /\ cached = FALSE
  /\ worker = [w \in Workers |-> Idle]
  /\ requests = 0 /\ crashes = 0

-----------------------------------------------------------------------------
(* Time, the cache's TTL and deaths *)

Older(call) ==
  [call EXCEPT !.lag = IF call.pc \in Taking THEN @ + 1 ELSE @,
               !.wait = AtLeast(@ - 1, 0)]

Tick ==
  /\ \A w \in Workers : worker[w].pc \in Taking => worker[w].lag < MaxStall
  /\ opened' = IF opened = Nil THEN Nil ELSE AtLeast(opened - 1, 0)
  /\ cooling' = AtLeast(cooling - 1, 0)
  /\ age' = IF age = Nil THEN Nil ELSE AtMost(age + 1, MaxAge)
  /\ ideal' = AtMost(ideal + 1, Capacity)
  /\ worker' = [w \in Workers |-> Older(worker[w])]
  /\ UNCHANGED <<failures, streak, slipped, tokens, races, cached, requests, crashes>>

CacheExpire ==
  /\ cached
  /\ cached' = FALSE
  /\ UNCHANGED <<breaker, bucket, worker, requests, crashes>>

\* A take whose worker dies between its two SETs leaves the tokens of one
\* moment with the timestamp of another.
Crash(w) ==
  /\ worker[w].pc \notin {"idle", "dead"}
  /\ crashes < MaxCrashes
  /\ crashes' = crashes + 1
  /\ IF worker[w].pc = "stamp" THEN races < MaxRaces /\ races' = races + 1 ELSE UNCHANGED races
  /\ ideal' = IF Pending(worker[w]) THEN AtMost(ideal + 1, Capacity) ELSE ideal
  /\ worker' = [worker EXCEPT ![w] = Dead]
  /\ UNCHANGED <<breaker, tokens, age, cached, requests>>

-----------------------------------------------------------------------------
(* The breaker *)

Goto(w, pc) == worker' = [worker EXCEPT ![w].pc = pc]

Get(w) ==
  /\ worker[w].pc = "idle"
  /\ requests < MaxRequests
  /\ requests' = requests + 1
  /\ worker' = [worker EXCEPT ![w] = NewCall]
  /\ UNCHANGED <<breaker, bucket, cached, crashes>>

\* check's GET: during the cooldown the call ends with SKIPPED_BREAKER_OPEN.
Check(w) ==
  /\ worker[w].pc = "check"
  /\ \/ opened = Nil /\ Goto(w, "lookup")
     \/ opened = 0 /\ Goto(w, "reset")
     \/ opened \notin {Nil, 0} /\ worker' = [worker EXCEPT ![w] = Idle]
  /\ UNCHANGED <<breaker, bucket, cached, requests, crashes>>

\* check's DELETE after an elapsed cooldown, whatever the keys are by then.
Reset(w) ==
  /\ worker[w].pc = "reset"
  /\ failures' = 0 /\ opened' = Nil
  /\ slipped' = (slipped \/ cooling > 0)
  /\ Goto(w, "lookup")
  /\ UNCHANGED <<streak, cooling, bucket, cached, requests, crashes>>

\* Mutant: the failures are counted for ever.
RecordSuccessKeepsCount(w) ==
  /\ worker[w].pc \in {"answered", "refused"}
  /\ opened' = Nil /\ streak' = 0 /\ cooling' = 0
  /\ slipped' = (slipped \/ \E v \in Workers : worker[v].pc = "trip")
  /\ worker' = [worker EXCEPT ![w] =
       IF worker[w].pc = "answered" THEN [@ EXCEPT !.pc = "store"] ELSE Idle]
  /\ UNCHANGED <<failures, bucket, cached, requests, crashes>>

\* record_success: the host answered, with items that are valid or not.
RecordSuccess(w) ==
  /\ worker[w].pc \in {"answered", "refused"}
  /\ failures' = 0 /\ opened' = Nil /\ streak' = 0 /\ cooling' = 0
  /\ slipped' = (slipped \/ \E v \in Workers : worker[v].pc = "trip")
  /\ worker' = [worker EXCEPT ![w] =
       IF worker[w].pc = "answered" THEN [@ EXCEPT !.pc = "store"] ELSE Idle]
  /\ UNCHANGED <<bucket, cached, requests, crashes>>

\* Mutant: one attempt too many.
RetryOnceMore(call) ==
  IF call.tries > MaxRetries + 1 THEN Idle ELSE [call EXCEPT !.pc = "send"]

\* After a failed attempt: the next one, without another look at the breaker,
\* or TRANSPORT_FAILED after the last.
Retry(call) ==
  IF call.tries > MaxRetries THEN Idle ELSE [call EXCEPT !.pc = "send"]

\* record_failure's INCR.
RecordFailure(w) ==
  /\ worker[w].pc = "failed"
  /\ failures' = AtMost(failures + 1, Threshold)
  /\ streak' = AtMost(streak + 1, Threshold)
  /\ worker' = [worker EXCEPT ![w] =
       IF failures + 1 >= Threshold THEN [@ EXCEPT !.pc = "trip"] ELSE Retry(@)]
  /\ UNCHANGED <<opened, cooling, slipped, bucket, cached, requests, crashes>>

\* record_failure's SET.
Trip(w) ==
  /\ worker[w].pc = "trip"
  /\ opened' = Cooldown /\ cooling' = Cooldown
  /\ worker' = [worker EXCEPT ![w] = Retry(@)]
  /\ UNCHANGED <<failures, streak, slipped, bucket, cached, requests, crashes>>

-----------------------------------------------------------------------------
(* The cache and the transport *)

\* A hit ends the call; a lookup that Redis fails is a miss.
Lookup(w) ==
  /\ worker[w].pc = "lookup"
  /\ \/ cached /\ worker' = [worker EXCEPT ![w] = Idle]
     \/ Goto(w, "take")
  /\ UNCHANGED <<breaker, bucket, cached, requests, crashes>>

\* No answer: a TransportFailure.
SendFails(w) ==
  /\ worker[w].pc = "send"
  /\ worker' = [worker EXCEPT ![w].pc = "failed", ![w].tries = @ + 1]
  /\ UNCHANGED <<breaker, bucket, cached, requests, crashes>>

\* An answer, which validate accepts or refuses.
SendAnswered(w) ==
  /\ worker[w].pc = "send"
  /\ Goto(w, "answered") \/ Goto(w, "refused")
  /\ UNCHANGED <<breaker, bucket, cached, requests, crashes>>

\* The call ends with OK, cached unless Redis fails the SET.
Store(w) ==
  /\ worker[w].pc = "store"
  /\ cached' \in {cached, TRUE}
  /\ worker' = [worker EXCEPT ![w] = Idle]
  /\ UNCHANGED <<breaker, bucket, requests, crashes>>

-----------------------------------------------------------------------------
(* The throttle *)

\* _take_token reads the clock and GETs the tokens.
ReadTokens(w) ==
  /\ worker[w].pc = "take" \/ (worker[w].pc = "sleep" /\ worker[w].wait = 0)
  /\ LET during == \E v \in Workers : worker[v].pc \in Taking IN
       /\ during => races < MaxRaces
       /\ races' = IF during THEN races + 1 ELSE races
  /\ ideal' = ideal - 1
  /\ worker' = [worker EXCEPT ![w] = [@ EXCEPT !.pc = "updated", !.left = tokens, !.lag = 0]]
  /\ UNCHANGED <<breaker, tokens, age, cached, requests, crashes>>

\* Mutant: the refill is not limited to the capacity.
RefilledUncapped(call) ==
  IF call.left = Nil \/ age = Nil THEN Capacity
  ELSE call.left + AtLeast(0, age - call.lag)

\* Mutant: what was refilled since the last take is forgotten.
RefilledNever(call) == IF call.left = Nil \/ age = Nil THEN Capacity ELSE call.left

\* What is in the bucket for a call that read left tokens and then updated_at.
Refilled(call) ==
  IF call.left = Nil \/ age = Nil THEN Capacity
  ELSE AtMost(Capacity, call.left + AtLeast(0, age - call.lag))

\* It GETs updated_at and takes a token if there is one.
ReadUpdated(w) ==
  /\ worker[w].pc = "updated"
  /\ LET full == Refilled(worker[w]) IN
     /\ ideal' = IF full >= 1 THEN ideal ELSE AtMost(ideal + 1, Capacity)
     /\ worker' = [worker EXCEPT ![w] = [@ EXCEPT
         !.pc = "write", !.granted = full >= 1, !.left = AtLeast(full - 1, 0)]]
  /\ UNCHANGED <<breaker, tokens, age, races, cached, requests, crashes>>

\* It SETs the tokens,
WriteTokens(w) ==
  /\ worker[w].pc = "write"
  /\ tokens' = worker[w].left
  /\ Goto(w, "stamp")
  /\ UNCHANGED <<breaker, age, ideal, races, cached, requests, crashes>>

\* and updated_at to the time it began; with no token it sleeps until there
\* is one and tries again, with one it sends the request.
WriteUpdated(w) ==
  LET call == worker[w] IN
  /\ call.pc = "stamp"
  /\ age' = call.lag
  /\ worker' = [worker EXCEPT ![w] =
       IF call.granted THEN [NewCall EXCEPT !.pc = "send"]
       ELSE [NewCall EXCEPT !.pc = "sleep", !.wait = 1]]
  /\ UNCHANGED <<breaker, tokens, ideal, races, cached, requests, crashes>>

-----------------------------------------------------------------------------
Step(w) ==
  \/ Check(w) \/ Reset(w) \/ Lookup(w)
  \/ ReadTokens(w) \/ ReadUpdated(w) \/ WriteTokens(w) \/ WriteUpdated(w)
  \/ SendFails(w) \/ SendAnswered(w) \/ RecordSuccess(w) \/ RecordFailure(w) \/ Trip(w) \/ Store(w)

Next ==
  \/ Tick \/ CacheExpire
  \/ \E w \in Workers : Get(w) \/ Step(w) \/ Crash(w)

\* A call that began goes on, and time passes.
Fairness == WF_vars(Tick) /\ \A w \in Workers : WF_vars(Step(w))

Spec == Init /\ [][Next]_vars /\ Fairness

-----------------------------------------------------------------------------
(* Properties *)

\* "Trip after this many consecutive transport failures; cool for this long"
\* (breaker.py:22-27): an open breaker stands for Threshold failures since the
\* host last answered, and the host stays closed off until the cooldown of the
\* last one is over or it has answered.  Both fail only when something came
\* between two commands of one call: an answer between a failure's INCR and
\* its SET, or a new cooldown between a check's GET and its DELETE.
BreakerHolds ==
  \/ slipped
  \/ /\ opened # Nil => streak = Threshold
     /\ cooling > 0 => opened = cooling

\* Workers that throttle a host share one budget (throttle.py:1-5): together
\* they take no more than Capacity tokens and those refilled since, in any
\* stretch of time, while takes do not overlap.  A take that overlaps another,
\* or dies half-written, costs no more than what the bucket holds; it can cost
\* more than the one token of throttle.py:90-92, when a worker waits for an
\* answer of Redis long enough for others to take several.
HostIsPaced ==
  ideal + Cardinality({w \in Workers : worker[w].pc = "updated"}) >= -(races * Capacity)

\* get "always returns a FetchOutcome" (client.py:6-10): a call that began
\* ends, also when the breaker is open or the bucket empty, unless its worker
\* dies.
CallsEnd == \A w \in Workers : worker[w].pc \notin {"idle", "dead"} ~> worker[w].pc \in {"idle", "dead"}
=============================================================================
