----------------------------- MODULE RunLedger ------------------------------
(***************************************************************************)
(* What the run lifecycle promises a reader of a run, with the lock, the   *)
(* queue and the workers left out: the ledger of a run (FetchStats) only   *)
(* ever gains rows, one per source, and every verdict a run is given is    *)
(* the classification of rows that are in its ledger.  Runs implements it. *)
(***************************************************************************)
EXTENDS Naturals, RunVerdict

CONSTANTS Sources, MaxDay

VARIABLES run,     \* run[d]: status of the monitor's daily run for day d
          ledger   \* ledger[d][s]: the FetchStats row of source s in run d

vars == <<run, ledger>>

Days == 1 .. MaxDay

Init ==
  /\ run = [d \in Days |-> "none"]
  /\ ledger = [d \in Days |-> [s \in Sources |-> NoRow]]

Open(d) ==
  /\ run[d] = "none"
  /\ run' = [run EXCEPT ![d] = "pending"]
  /\ UNCHANGED ledger

Record(d, s, row) ==
  /\ run[d] # "none"
  /\ ledger[d][s] = NoRow
  /\ ledger' = [ledger EXCEPT ![d][s] = row]
  /\ UNCHANGED run

\* Conclude run d from the outcomes of one dispatch, each of which is a row
\* of the ledger or a source skipped because it was switched off meanwhile.
Conclude(d, out) ==
  /\ run[d] # "none"
  /\ \A s \in Sources : out[s] \in {NoRow, Skipped, ledger[d][s]}
  /\ run' = [run EXCEPT ![d] = Verdict(out)]
  /\ UNCHANGED ledger

Next ==
  \E d \in Days :
    \/ Open(d)
    \/ \E s \in Sources, row \in LedgerRows : Record(d, s, row)
    \/ \E out \in [Sources -> Outcomes] : Conclude(d, out)

Spec == Init /\ [][Next]_vars
=============================================================================
