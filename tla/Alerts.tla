-------------------------------- MODULE Alerts ------------------------------
(***************************************************************************)
(* Alert deliveries: evaluate_alerts inserts them, and every 15 minutes    *)
(* Beat starts a sweep, deliver_pending, that tries the due ones and       *)
(* commits all their outcomes at its end (mlsc/tasks/alerts.py,            *)
(* repositories/alert_rules.py, core/fetch/webhook.py, beat.py).           *)
(*                                                                         *)
(* Nothing keeps a second sweep from starting before the first one ends.   *)
(***************************************************************************)
EXTENDS Naturals, FiniteSets

CONSTANTS
  Deliveries,   \* the deliveries that are ever created
  Mistyped,     \* those to a target that passes the rule's URL pattern but
                \* that the HTTP client refuses to parse
  Sweeps,       \* worker processes that can run deliver_pending
  MaxOverlaps,  \* bound: sweeps started while another one is running
  MaxCrashes,   \* bound: sweeps that die with their worker
  MaxTries      \* bound: how far the attempts of the sweeps are counted

ASSUME AlertsAssumption ==
  /\ Mistyped \subseteq Deliveries
  /\ MaxOverlaps \in Nat
  /\ MaxCrashes \in Nat
  /\ MaxTries \in Nat \ (0 .. 2)   \* counts at least up to the limit

VARIABLES
  delivery,  \* Delivery rows: state ("none": no row) and attempts
  sweep,     \* state of each worker
  tries,     \* attempts of the sweeps at a delivery, each a POST or a refusal
             \* by the open breaker, counted up to MaxTries (auxiliary)
  received,  \* deliveries whose POST reached the endpoint at least once
  overlaps,  \* spent of MaxOverlaps
  crashes    \* spent of MaxCrashes

vars == <<delivery, sweep, tries, received, overlaps, crashes>>

MaxAttempts == 3
Terminal == {"delivered", "abandoned"}
Due == {"pending", "failed"}

Rows == [state : {"none"} \cup Due \cup Terminal, attempts : 0 .. MaxAttempts]

\* todo: deliveries read but not tried yet; rows: the session's copies of the
\* deliveries it read, which it marks and writes back at commit.
NoRow == [state |-> "none", attempts |-> 0]
Idle == [running |-> FALSE, todo |-> {}, rows |-> [d \in Deliveries |-> NoRow]]

TypeOK ==
  /\ delivery \in [Deliveries -> Rows]
  /\ sweep \in [Sweeps -> [running : BOOLEAN, todo : SUBSET Deliveries,
                           rows : [Deliveries -> Rows]]]
  /\ tries \in [Deliveries -> 0 .. MaxTries]
  /\ received \in SUBSET Deliveries
  /\ overlaps \in 0 .. MaxOverlaps
  /\ crashes \in 0 .. MaxCrashes
  \* no attempt is counted on a pending row, one or two on a failed one
  /\ \A d \in Deliveries :
       /\ delivery[d].state = "pending" => delivery[d].attempts = 0
       /\ delivery[d].state = "failed" => delivery[d].attempts \in 1 .. 2

Init ==
  /\ delivery = [d \in Deliveries |-> NoRow]
  /\ sweep = [s \in Sweeps |-> Idle]
  /\ tries = [d \in Deliveries |-> 0]
  /\ received = {}
  /\ overlaps = 0
  /\ crashes = 0

-----------------------------------------------------------------------------
\* evaluate_alerts commits the deliveries of one bucket's matches together.
Evaluate ==
  /\ \E new \in (SUBSET {d \in Deliveries : delivery[d].state = "none"}) \ {{}} :
       delivery' = [d \in Deliveries |->
         IF d \in new THEN [state |-> "pending", attempts |-> 0] ELSE delivery[d]]
  /\ UNCHANGED <<sweep, tries, received, overlaps, crashes>>

Overlapping(s) == \E t \in Sweeps \ {s} : sweep[t].running

\* A sweep over the rows in the given states.
Sweep(s, states) ==
  LET due == {d \in Deliveries : delivery[d].state \in states} IN
  /\ ~sweep[s].running
  /\ due # {}
  /\ sweep' = [sweep EXCEPT ![s] =
       [running |-> TRUE, todo |-> due,
        rows |-> [d \in Deliveries |-> IF d \in due THEN delivery[d] ELSE NoRow]]]
  /\ \/ /\ ~Overlapping(s)
        /\ UNCHANGED overlaps
     \/ /\ Overlapping(s)
        /\ overlaps < MaxOverlaps
        /\ overlaps' = overlaps + 1
  /\ UNCHANGED <<delivery, tries, received, crashes>>

\* Mutant: everything but a delivered row is due.
StartRetriesAbandoned(s) == Sweep(s, Due \cup {"abandoned"})

\* Mutant: failed rows are not due again.
StartPendingOnly(s) == Sweep(s, {"pending"})

\* deliver_pending reads the due rows, without locking them.
Start(s) == Sweep(s, Due)

\* DeliveryRepository.mark on the session's copy of a row.
Mark(s, d, state) ==
  sweep' = [sweep EXCEPT ![s].todo = @ \ {d},
                         ![s].rows[d] = [state |-> state, attempts |-> @.attempts + 1]]

Tried(d) ==
  tries' = [tries EXCEPT ![d] = IF @ < MaxTries THEN @ + 1 ELSE @]

\* The endpoint takes the POST and answers below 400.  The rule is always
\* there and always a webhook: nothing deletes rules, and
\* AlertRuleCreateRequest refuses the email channel.
Succeed(s, d) ==
  /\ d \in sweep[s].todo \ Mistyped
  /\ Mark(s, d, "delivered")
  /\ Tried(d)
  /\ received' = received \cup {d}
  /\ UNCHANGED <<delivery, overlaps, crashes>>

\* What a failed attempt makes of a row on which n were counted before.
AfterFailure(n) == IF n + 1 >= MaxAttempts THEN "abandoned" ELSE "failed"

\* Mutant: the limit is compared with the attempts before this one.
FailTooLate(s, d) ==
  /\ d \in sweep[s].todo \ Mistyped
  /\ Mark(s, d, IF sweep[s].rows[d].attempts >= MaxAttempts THEN "abandoned" ELSE "failed")
  /\ Tried(d)
  /\ received' \in {received, received \cup {d}}
  /\ UNCHANGED <<delivery, overlaps, crashes>>

\* Mutant: the limit is one too low.
FailTooEarly(s, d) ==
  /\ d \in sweep[s].todo \ Mistyped
  /\ Mark(s, d, AfterFailure(sweep[s].rows[d].attempts + 1))
  /\ Tried(d)
  /\ received' \in {received, received \cup {d}}
  /\ UNCHANGED <<delivery, overlaps, crashes>>

\* The breaker of the target's host is open: WebhookUnreachable without a
\* POST, which counts on the row like any other failure.
Refuse(s, d) ==
  /\ d \in sweep[s].todo \ Mistyped
  /\ Mark(s, d, AfterFailure(sweep[s].rows[d].attempts))
  /\ Tried(d)
  /\ UNCHANGED <<delivery, received, overlaps, crashes>>

\* WebhookUnreachable after a POST: the endpoint is down or answers with an
\* error, or it took the POST and its answer was lost.
Fail(s, d) ==
  /\ d \in sweep[s].todo \ Mistyped
  /\ Mark(s, d, AfterFailure(sweep[s].rows[d].attempts))
  /\ Tried(d)
  /\ received' \in {received, received \cup {d}}
  /\ UNCHANGED <<delivery, overlaps, crashes>>

\* httpx.InvalidURL is no HTTPError, so it is neither a TransportFailure nor
\* a WebhookUnreachable: it ends the sweep before its only commit.
Raise(s, d) ==
  /\ d \in sweep[s].todo \cap Mistyped
  /\ sweep' = [sweep EXCEPT ![s] = Idle]
  /\ UNCHANGED <<delivery, tries, received, overlaps, crashes>>

\* Mutant: the commit writes the states without the attempts.
CommitForgetsAttempts(s) ==
  /\ sweep[s].running
  /\ sweep[s].todo = {}
  /\ delivery' = [d \in Deliveries |->
       IF sweep[s].rows[d] = NoRow THEN delivery[d]
       ELSE [sweep[s].rows[d] EXCEPT !.attempts = delivery[d].attempts]]
  /\ sweep' = [sweep EXCEPT ![s] = Idle]
  /\ UNCHANGED <<tries, received, overlaps, crashes>>

\* The flush updates the columns that changed: always the attempts, and the
\* state unless a row that was read as FAILED has failed again.
Flushed(row, stored) ==
  CASE row = NoRow -> stored
    [] row.state = "failed" /\ row.attempts > 1 -> [stored EXCEPT !.attempts = row.attempts]
    [] OTHER -> row

\* The commit flushes every row the sweep read, whatever another sweep has
\* committed since.
Commit(s) ==
  /\ sweep[s].running
  /\ sweep[s].todo = {}
  /\ delivery' = [d \in Deliveries |-> Flushed(sweep[s].rows[d], delivery[d])]
  /\ sweep' = [sweep EXCEPT ![s] = Idle]
  /\ UNCHANGED <<tries, received, overlaps, crashes>>

\* The worker dies, or something other than the send raises.
Crash(s) ==
  /\ sweep[s].running
  /\ crashes < MaxCrashes
  /\ crashes' = crashes + 1
  /\ sweep' = [sweep EXCEPT ![s] = Idle]
  /\ UNCHANGED <<delivery, tries, received, overlaps>>

-----------------------------------------------------------------------------
SweepStep(s) ==
  \/ \E d \in Deliveries : Succeed(s, d) \/ Refuse(s, d) \/ Fail(s, d) \/ Raise(s, d)
  \/ Commit(s)

Next ==
  \/ Evaluate
  \/ \E s \in Sweeps : Start(s) \/ SweepStep(s) \/ Crash(s)

Spec == Init /\ [][Next]_vars

\* Beat starts a sweep every 900 s and a sweep's sends have timeouts.
FairSpec == Spec /\ \A s \in Sweeps : WF_vars(Start(s)) /\ WF_vars(SweepStep(s))

-----------------------------------------------------------------------------
(* Properties *)

\* A delivery shown as delivered did reach its endpoint, and one shown as
\* abandoned was taken up three times, also when overlapping sweeps overwrote
\* each other's counts and outcomes.  It need not have been sent three times,
\* or at all: an open breaker refuses an attempt and the row counts it.
OutcomeWasEarned ==
  \A d \in Deliveries :
    /\ delivery[d].state = "delivered" => d \in received
    /\ delivery[d].state = "abandoned" => tries[d] >= MaxAttempts

\* No delivery goes to a target the HTTP client refuses.
TargetsParse == \A d \in Mistyped : delivery[d].state = "none"

\* As long as every target parses, the limit of three attempts, and so of
\* POSTs, is exceeded only by what a crash or an overlapping sweep loses, one
\* for each.
TriesAreLimited ==
  TargetsParse =>
    \A d \in Deliveries : tries[d] <= MaxAttempts + overlaps + crashes

\* "only delivered and abandoned are terminal" (repositories/alert_rules.py):
\* no sweep takes a delivery out of a terminal state, as long as sweeps do
\* not overlap.  When they do, a later commit turns DELIVERED into FAILED.
TerminalIsTerminal ==
  [][overlaps = 0 =>
       \A d \in Deliveries :
         delivery[d].state \in Terminal => delivery'[d] = delivery[d]]_vars

\* A delivery comes to a terminal state through crashes, lost answers and
\* sweeps that overwrite one another, as long as every target parses.
DeliveriesEnd ==
  \A d \in Deliveries :
    (delivery[d].state = "pending") ~>
      (delivery[d].state \in Terminal \/ ~TargetsParse)
=============================================================================
