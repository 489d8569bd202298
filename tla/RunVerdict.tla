----------------------------- MODULE RunVerdict -----------------------------
(***************************************************************************)
(* How one run's collection outcomes become its verdict: SourceResult,     *)
(* SourceOutcome and the classification at the head of RunService.finalise *)
(* (mlsc/application/runs.py).  Pure; Runs and RunLedger both use it.      *)
(***************************************************************************)

\* A source's outcome.  FAILED_VALIDATION and FAILED_TRANSPORT weigh the same
\* in the verdict and are one value here; SKIPPED_BREAKER is never produced.
\* kept abstracts the document count to "more than zero".  "none" marks a
\* source the dispatch has not reached, or a ledger without a row for it.
Results == {"none", "skipped", "collected", "failed"}
Outcomes == [result : Results, kept : BOOLEAN]

NoRow == [result |-> "none", kept |-> FALSE]
Skipped == [result |-> "skipped", kept |-> FALSE]

\* What FetchStats can hold: a failed fan-out keeps the items its earlier
\* adapters returned, so "failed" and kept are independent.
LedgerRows == [result : {"collected", "failed"}, kept : BOOLEAN]

FinalStatuses == {"complete", "partial", "failed"}
RunStatuses == {"none", "pending"} \cup FinalStatuses

\* finalise's classification of a function from sources to outcomes.
\* expected is dispatch_run's bool(sources).
Classify(expected, out) ==
  LET anyKept      == \E s \in DOMAIN out : out[s].kept
      anyCollected == \E s \in DOMAIN out : out[s].result = "collected"
      anyFailed    == \E s \in DOMAIN out : out[s].result = "failed"
  IN  IF expected /\ ~anyKept THEN "failed"
      ELSE IF anyFailed THEN (IF anyCollected THEN "partial" ELSE "failed")
      ELSE "complete"

\* The sources a dispatch has read: every one has an outcome once it is done.
Visited(out) == {s \in DOMAIN out : out[s].result # "none"}
Verdict(out) == Classify(Visited(out) # {}, out)
=============================================================================
