---------------------------- MODULE ThemesProofs ----------------------------
(***************************************************************************)
(* Proofs about Themes and Monitors for every set of clients, schedules,   *)
(* edits, queries and entities, every number of requests, jobs and crashes.*)
(***************************************************************************)
EXTENDS Themes, FiniteSetTheorems, TLAPS

\* Types that do not depend on how many registrations there have been.
RegistrationRows == [id : Nat, cron : Crons, zone : Zones]
LoadedCalls == [op : {"write"}, edit : Edits, monitor : MonitorRows,
                registration : RegistrationRows \cup {None}, torn : BOOLEAN]
JobCalls == [op : {"insert", "dispatch"}, kind : JobKinds, job : Jobs \cup {0}]
MarkCalls == [op : {"mark"}, ref : Refs]
AnyCall == {Idle} \cup LoadCalls \cup LoadedCalls \cup JobCalls \cup MarkCalls

MonitorTyped ==
  /\ monitor \in MonitorRows /\ registration \in RegistrationRows \cup {None} /\ inserted \in Nat
CallTyped == call \in [Clients -> AnyCall]
JobTyped == job \in [Jobs -> JobRows]
ReviewTyped == seed \in Seeds /\ candidate \in [Refs -> CandidateState]
Typed == MonitorTyped /\ CallTyped /\ JobTyped /\ ReviewTyped

\* An update request, merged with the row as loaded.
Merged(old, edit) == [f \in DOMAIN old |-> IF edit[f] = None THEN old[f] ELSE edit[f]]

\* What an update makes of a loaded row, field by field.
LEMMA MergedRow ==
  ASSUME NEW old \in MonitorRows, NEW edit \in EditRequests
  PROVE  Merged(old, edit) \in MonitorRows
<1> DEFINE new == Merged(old, edit)
<1>1. new = [status |-> IF edit.status = None THEN old.status ELSE edit.status,
             cron |-> IF edit.cron = None THEN old.cron ELSE edit.cron,
             zone |-> IF edit.zone = None THEN old.zone ELSE edit.zone]
  BY DEF Merged, MonitorRows, EditRequests
<1> QED
  BY <1>1 DEF MonitorRows, EditRequests

\* What is flushed of a monitor's row, field by field.
LEMMA FlushedRow ==
  ASSUME NEW row \in MonitorRows, NEW loaded \in MonitorRows, NEW set \in MonitorRows
  PROVE  /\ Flushed(row, loaded, set) \in MonitorRows
         /\ Flushed(row, loaded, set).status = IF set.status # loaded.status THEN set.status ELSE row.status
         /\ Flushed(row, loaded, set).cron = IF set.cron # loaded.cron THEN set.cron ELSE row.cron
         /\ Flushed(row, loaded, set).zone = IF set.zone # loaded.zone THEN set.zone ELSE row.zone
<1> DEFINE new == Flushed(row, loaded, set)
<1>1. new = [status |-> IF set.status # loaded.status THEN set.status ELSE row.status,
             cron |-> IF set.cron # loaded.cron THEN set.cron ELSE row.cron,
             zone |-> IF set.zone # loaded.zone THEN set.zone ELSE row.zone]
  BY DEF Flushed, MonitorRows
<1> QED
  BY <1>1 DEF MonitorRows

\* What is flushed of a registration.
LEMMA FlushedRegistration ==
  ASSUME NEW row \in RegistrationRows, NEW loaded \in RegistrationRows,
         NEW cron \in Crons, NEW zone \in Zones
  PROVE  LET set == [cron |-> cron, zone |-> zone] IN
         /\ Flushed(row, loaded, set) \in RegistrationRows
         /\ Flushed(row, loaded, set).cron = IF cron # loaded.cron THEN cron ELSE row.cron
         /\ Flushed(row, loaded, set).zone = IF zone # loaded.zone THEN zone ELSE row.zone
<1> DEFINE new == Flushed(row, loaded, [cron |-> cron, zone |-> zone])
<1>1. new = [id |-> row.id,
             cron |-> IF cron # loaded.cron THEN cron ELSE row.cron,
             zone |-> IF zone # loaded.zone THEN zone ELSE row.zone]
  BY DEF Flushed, RegistrationRows
<1> QED
  BY <1>1 DEF RegistrationRows

\* What an update makes of the registration of an active monitor.
LEMMA UpsertedRow ==
  ASSUME MonitorTyped, NEW loaded \in RegistrationRows \cup {None},
         NEW cron \in Crons, NEW zone \in Zones
  PROVE  Upserted(loaded, cron, zone) \in RegistrationRows
<1>1. CASE registration = None
  BY <1>1 DEF Upserted, MonitorTyped, RegistrationRows
<1>2. CASE registration # None
  <2> DEFINE base == IF loaded # None /\ loaded.id = registration.id THEN loaded ELSE registration
  <2>1. registration \in RegistrationRows /\ base \in RegistrationRows
    BY <1>2 DEF MonitorTyped
  <2> HIDE DEF base
  <2>2. Flushed(registration, base, [cron |-> cron, zone |-> zone]) \in RegistrationRows
    BY <2>1, FlushedRegistration
  <2>3. Upserted(loaded, cron, zone) = Flushed(registration, base, [cron |-> cron, zone |-> zone])
    BY <1>2 DEF Upserted, base
  <2> QED
    BY <2>2, <2>3
<1> QED
  BY <1>1, <1>2

\* A call in hand is one of the records of its stage.
LEMMA CallKinds ==
  ASSUME CallTyped, NEW c \in Clients
  PROVE  /\ call[c] \in AnyCall
         /\ call[c].op = "load" => call[c] \in LoadCalls
         /\ call[c].op = "write" => call[c] \in LoadedCalls
         /\ call[c].op \in {"insert", "dispatch"} => call[c] \in JobCalls
         /\ call[c].op = "mark" => call[c] \in MarkCalls
  BY DEF CallTyped, AnyCall, Idle, LoadCalls, LoadedCalls, JobCalls, MarkCalls

\* A request or an answer leaves a record of some stage.
LEMMA RequestTyped ==
  ASSUME CallTyped, NEW c \in Clients, NEW record \in AnyCall, call' = [call EXCEPT ![c] = record]
  PROVE  CallTyped'
  BY DEF CallTyped

\* The rows of jobs, candidates and queries keep their types.
LEMMA JobStep ==
  ASSUME JobTyped, NEW j \in Jobs, NEW row \in JobRows, Become(j, row)
  PROVE  JobTyped'
  BY DEF JobTyped, Become

\* A job goes on to its next stage.
LEMMA StageStep ==
  ASSUME JobTyped, NEW j \in Jobs, NEW stage \in Stages, GoTo(j, stage)
  PROVE  JobTyped'
  BY DEF JobTyped, GoTo, JobRows

\* A job that is submitted.
LEMMA NoJobTyped ==
  ASSUME NEW kind \in JobKinds, NEW status \in JobStatus
  PROVE  [NoJob EXCEPT !.kind = kind, !.status = status] \in JobRows
  BY DEF NoJob, JobRows, Stages

\* The update of a monitor keeps the types of its rows.
LEMMA WriteTyped ==
  ASSUME Typed, NEW c \in Clients, Write(c)
  PROVE  MonitorTyped' /\ CallTyped'
<1> DEFINE old == call[c].monitor
           edit == call[c].edit
           new == Merged(old, edit)
           loaded == call[c].registration
<1>1. call[c] \in LoadedCalls
  BY CallKinds DEF Write, Typed
<1>2. /\ old \in MonitorRows /\ edit \in EditRequests /\ loaded \in RegistrationRows \cup {None}
  BY <1>1, MonitorsAssumption DEF LoadedCalls
<1>3. new \in MonitorRows
  BY <1>2, MergedRow
<1>4. monitor' = Flushed(monitor, old, new)
  BY DEF Write, Merged
<1>5. monitor' \in MonitorRows
  BY <1>2, <1>3, <1>4, FlushedRow DEF Typed, MonitorTyped
<1>6. Upserted(loaded, new.cron, new.zone) \in RegistrationRows
  <2>1. new.cron \in Crons /\ new.zone \in Zones
    BY <1>3 DEF MonitorRows
  <2> QED
    BY <1>2, <2>1, UpsertedRow DEF Typed
<1>7. registration' \in {Upserted(loaded, new.cron, new.zone), None} /\ inserted' \in {inserted, inserted + 1}
  BY DEF Write, Merged
<1>8. call' = [call EXCEPT ![c] = Idle] /\ Idle \in AnyCall
  BY DEF Write, Answer, AnyCall
<1> HIDE DEF old, edit, new, loaded
<1>9. CallTyped'
  BY <1>8, RequestTyped DEF Typed
<1> QED
  BY <1>5, <1>6, <1>7, <1>9 DEF Typed, MonitorTyped

\* Every row and every call in hand keeps its type.
LEMMA TypeInvariant == Spec => []Typed
<1>1. Init => Typed
  <2> SUFFICES ASSUME Init PROVE Typed
    OBVIOUS
  <2>1. MonitorTyped
    BY MonitorsAssumption DEF Init, MonitorsInit, MonitorTyped, MonitorRows, MonitorStatus, RegistrationRows
  <2>2. CallTyped
    BY DEF Init, MonitorsInit, CallTyped, AnyCall
  <2>3. JobTyped
    BY DEF Init, JobTyped, NoJob, JobRows, JobKinds, JobStatus, Stages
  <2>4. ReviewTyped
    BY DEF Init, ReviewTyped, Seeds, CandidateState
  <2> QED
    BY <2>1, <2>2, <2>3, <2>4 DEF Typed
<1>2. Typed /\ [Next]_vars => Typed'
  <2> SUFFICES ASSUME Typed, [Next]_vars PROVE Typed'
    OBVIOUS
  <2> USE DEF Typed
  <2>1. CASE Tick /\ UNCHANGED themeVars
    BY <2>1 DEF Tick, themeVars, MonitorTyped, CallTyped, JobTyped, ReviewTyped
  <2>2. CASE CrashApi
    BY <2>2 DEF CrashApi, monitorVars, MonitorTyped, CallTyped, AnyCall, JobTyped, ReviewTyped
  <2>3. ASSUME NEW j \in Jobs, Work(j) PROVE Typed'
    <3>1. UNCHANGED <<monitorVars, call>>
      BY <2>3 DEF Work, TakeGeneration, WriteQueries, Raise, TakeDiscovery, Search,
           Insert, SearchEnds, RecordOutcome, End, requests
    <3>2. MonitorTyped' /\ CallTyped'
      BY <3>1 DEF monitorVars, MonitorTyped, CallTyped
    <3>j. job[j] \in JobRows
      BY DEF JobTyped
    <3>3. CASE TakeGeneration(j)
      <4>1. [job[j] EXCEPT !.status = "running", !.stage = "llm"] \in JobRows
        BY <3>j DEF JobRows, JobStatus, Stages
      <4> QED
        BY <3>2, <3>3, <4>1, JobStep DEF TakeGeneration, ReviewTyped
    <3>4. CASE WriteQueries(j)
      BY <3>2, <3>4, StageStep DEF WriteQueries, ReviewTyped, Seeds, Stages
    <3>5. CASE Raise(j)
      BY <3>2, <3>5, StageStep DEF Raise, ReviewTyped, Stages
    <3>6. CASE TakeDiscovery(j)
      <4>1. PICK found \in SUBSET Refs : Become(j, [job[j] EXCEPT
              !.status = "running",
              !.stage = IF seed.accepted = {} THEN "record" ELSE "search",
              !.queries = seed.accepted, !.found = found,
              !.known = {r \in Refs : candidate[r] = "rejected"}])
        BY <3>6 DEF TakeDiscovery
      <4>2. seed.accepted \in SUBSET Queries
        BY DEF ReviewTyped, Seeds
      <4>3. [job[j] EXCEPT
              !.status = "running",
              !.stage = IF seed.accepted = {} THEN "record" ELSE "search",
              !.queries = seed.accepted, !.found = found,
              !.known = {r \in Refs : candidate[r] = "rejected"}] \in JobRows
        BY <3>j, <4>2 DEF JobRows, JobStatus, Stages
      <4> QED
        BY <3>2, <3>6, <4>1, <4>3, JobStep DEF TakeDiscovery, ReviewTyped
    <3>7. ASSUME NEW r \in Refs, Search(j, r) PROVE Typed'
      <4>1. /\ [job[j] EXCEPT !.found = @ \ {r}] \in JobRows
            /\ [job[j] EXCEPT !.found = @ \ {r}, !.proposed = TRUE] \in JobRows
            /\ [job[j] EXCEPT !.found = @ \ {r}, !.stage = "insert", !.ref = r] \in JobRows
        BY <3>j DEF JobRows, Stages
      <4>2. PICK row \in JobRows : Become(j, row)
        BY <3>7, <4>1 DEF Search
      <4>3. JobTyped'
        BY <4>2, JobStep
      <4> QED
        BY <3>2, <3>7, <4>3 DEF Search, ReviewTyped
    <3>8. CASE Insert(j)
      <4>1. [job[j] EXCEPT !.stage = "search", !.ref = None, !.proposed = TRUE] \in JobRows
        BY <3>j DEF JobRows, Stages
      <4>2. JobTyped'
        BY <3>8, <4>1, JobStep, StageStep DEF Insert, Stages
      <4>3. ReviewTyped'
        BY <3>8 DEF Insert, ReviewTyped, CandidateState
      <4> QED
        BY <3>2, <4>2, <4>3
    <3>9. CASE SearchEnds(j)
      BY <3>2, <3>9, StageStep DEF SearchEnds, ReviewTyped, Stages
    <3>10. CASE RecordOutcome(j)
      BY <3>2, <3>10, StageStep DEF RecordOutcome, ReviewTyped, Stages
    <3>11. CASE End(j)
      <4>1. job[j].kind \in JobKinds /\ {"complete", "failed"} \subseteq JobStatus
        BY <3>j DEF JobRows, JobStatus
      <4>2. PICK row \in JobRows : Become(j, row)
        BY <3>11, <4>1, NoJobTyped DEF End
      <4>3. JobTyped'
        BY <4>2, JobStep
      <4> QED
        BY <3>2, <3>11, <4>3 DEF End, ReviewTyped
    <3> QED
      BY <2>3, <3>3, <3>4, <3>5, <3>6, <3>7, <3>8, <3>9, <3>10, <3>11 DEF Work
  <2>4. ASSUME NEW j \in Jobs, CrashWorker(j) PROVE Typed'
    <3>1. JobTyped'
      BY <2>4, StageStep DEF CrashWorker, Stages
    <3> QED
      BY <2>4, <3>1 DEF CrashWorker, monitorVars, MonitorTyped, CallTyped, ReviewTyped
  <2>5. ASSUME NEW c \in Clients, LoadRegistration(c), UNCHANGED themeVars PROVE Typed'
    <3> DEFINE record == [op |-> "write", edit |-> call[c].edit, monitor |-> call[c].monitor,
                          registration |-> registration, torn |-> monitor # call[c].monitor]
    <3>1. call[c] \in LoadCalls
      BY <2>5, CallKinds DEF LoadRegistration
    <3>2. record \in LoadedCalls
      BY <3>1 DEF LoadCalls, LoadedCalls, MonitorTyped
    <3>3. CallTyped'
      BY <2>5, <3>2, RequestTyped DEF LoadRegistration, AnyCall
    <3> QED
      BY <2>5, <3>3 DEF LoadRegistration, monitorVars, themeVars, MonitorTyped, JobTyped, ReviewTyped
  <2>6. ASSUME NEW c \in Clients, Write(c), UNCHANGED themeVars PROVE Typed'
    BY <2>6, WriteTyped DEF themeVars, JobTyped, ReviewTyped
  <2>7. ASSUME NEW c \in Clients, MarkAccepted(c) PROVE Typed'
    <3>1. CallTyped'
      BY <2>7, RequestTyped DEF MarkAccepted, Answer, AnyCall
    <3>2. ReviewTyped'
      BY <2>7 DEF MarkAccepted, ReviewTyped, CandidateState
    <3> QED
      BY <2>7, <3>1, <3>2 DEF MarkAccepted, monitorVars, MonitorTyped, JobTyped
  <2>8. ASSUME NEW c \in Clients, CreatePending(c) PROVE Typed'
    <3>1. call[c] \in JobCalls
      BY <2>8, CallKinds DEF CreatePending
    <3>2. PICK j \in Jobs :
            /\ job' = [job EXCEPT ![j].kind = call[c].kind, ![j].status = "pending"]
            /\ call' = [call EXCEPT ![c].op = "dispatch", ![c].job = j]
      BY <2>8 DEF CreatePending
    <3>3. JobTyped'
      <4>1. [job[j] EXCEPT !.kind = call[c].kind, !.status = "pending"] \in JobRows
        <5>1. job[j] \in JobRows /\ call[c].kind \in JobKinds /\ "pending" \in JobStatus
          BY <3>1 DEF JobTyped, JobCalls, JobStatus
        <5> QED
          BY <5>1 DEF JobRows
      <4>2. Become(j, [job[j] EXCEPT !.kind = call[c].kind, !.status = "pending"])
        BY <3>2 DEF Become
      <4> QED
        BY <4>1, <4>2, JobStep
    <3>4. [call[c] EXCEPT !.op = "dispatch", !.job = j] \in JobCalls
      BY <3>1 DEF JobCalls
    <3>5. call' = [call EXCEPT ![c] = [call[c] EXCEPT !.op = "dispatch", !.job = j]]
      BY <3>2
    <3>6. CallTyped'
      BY <3>4, <3>5, RequestTyped DEF AnyCall
    <3> QED
      BY <2>8, <3>3, <3>6 DEF CreatePending, monitorVars, MonitorTyped, ReviewTyped
  <2>9. ASSUME NEW c \in Clients, Dispatch(c) PROVE Typed'
    <3>1. CallTyped'
      BY <2>9, RequestTyped DEF Dispatch, Answer, AnyCall
    <3>2. JobTyped'
      <4>1. CASE call[c].job \in Jobs
        BY <2>9, <4>1, StageStep DEF Dispatch, GoTo, Stages
      <4>2. CASE call[c].job \notin Jobs
        <5>1. job' = job
          BY <2>9, <4>2 DEF Dispatch, JobTyped
        <5> QED
          BY <5>1 DEF JobTyped
      <4> QED
        BY <4>1, <4>2
    <3> QED
      BY <2>9, <3>1, <3>2 DEF Dispatch, monitorVars, MonitorTyped, ReviewTyped
  <2>10. ASSUME NEW c \in Clients, NEW e \in Edits, Load(c, e), UNCHANGED themeVars PROVE Typed'
    <3>1. [op |-> "load", edit |-> e, monitor |-> monitor] \in LoadCalls
      BY DEF LoadCalls, MonitorTyped
    <3>2. CallTyped'
      BY <2>10, <3>1, RequestTyped DEF Load, Request, AnyCall
    <3> QED
      BY <2>10, <3>2 DEF Load, monitorVars, themeVars, MonitorTyped, JobTyped, ReviewTyped
  <2>11. ASSUME NEW c \in Clients, NEW k \in Keys,
                AttachByHand(c, k) \/ \E enabled \in BOOLEAN : Enable(c, k, enabled) /\ UNCHANGED themeVars
         PROVE Typed'
    <3>1. CallTyped'
      BY <2>11, RequestTyped DEF AttachByHand, Attach, Enable, Request, AnyCall
    <3> QED
      BY <2>11, <3>1 DEF AttachByHand, Attach, Enable, monitorVars, themeVars, MonitorTyped, JobTyped, ReviewTyped
  <2>12. ASSUME NEW c \in Clients, NEW Q \in SUBSET Queries, Review(c, Q) PROVE Typed'
    <3>1. CallTyped'
      BY <2>12, RequestTyped DEF Review, Request, AnyCall
    <3> QED
      BY <2>12, <3>1 DEF Review, monitorVars, MonitorTyped, JobTyped, ReviewTyped, Seeds
  <2>13. ASSUME NEW c \in Clients, NEW r \in Refs, Reject(c, r) PROVE Typed'
    <3>1. CallTyped'
      BY <2>13, RequestTyped DEF Reject, Request, AnyCall
    <3> QED
      BY <2>13, <3>1 DEF Reject, monitorVars, MonitorTyped, JobTyped, ReviewTyped, CandidateState
  <2>14. ASSUME NEW c \in Clients, NEW r \in Refs, Accept(c, r) PROVE Typed'
    <3>1. Idle \in AnyCall /\ [op |-> "mark", ref |-> r] \in AnyCall
      BY DEF AnyCall, MarkCalls
    <3>2. CallTyped'
      BY <2>14, <3>1, RequestTyped DEF Accept, Request
    <3> QED
      BY <2>14, <3>2 DEF Accept, monitorVars, themeVars, MonitorTyped, JobTyped, ReviewTyped
  <2>15. ASSUME NEW c \in Clients, NEW kind \in JobKinds, Submit(c, kind) PROVE Typed'
    <3>1. Idle \in AnyCall /\ [op |-> "insert", kind |-> kind, job |-> 0] \in AnyCall
      BY DEF AnyCall, JobCalls
    <3>2. CallTyped'
      BY <2>15, <3>1, RequestTyped DEF Submit, Request
    <3> QED
      BY <2>15, <3>2 DEF Submit, monitorVars, themeVars, MonitorTyped, JobTyped, ReviewTyped
  <2>16. CASE UNCHANGED vars
    BY <2>16 DEF vars, monitorVars, themeVars, MonitorTyped, CallTyped, JobTyped, ReviewTyped
  <2> QED
    BY <2>1, <2>2, <2>3, <2>4, <2>5, <2>6, <2>7, <2>8, <2>9, <2>10, <2>11, <2>12, <2>13, <2>14,
       <2>15, <2>16 DEF Next, Proceed
<1> QED
  BY <1>1, <1>2, PTL DEF Spec
-----------------------------------------------------------------------------
(* Reviews *)

\* A candidate that was reviewed is never proposed again: an insertion looks
\* at the row, whatever the pass had read.
THEOREM RejectionStays == Spec => RejectionStands
<1>1. Typed /\ [Next]_vars =>
        \A r \in Refs : candidate[r] \in {"accepted", "rejected"}
                          => candidate'[r] \in {"accepted", "rejected"}
  <2> SUFFICES ASSUME Typed, [Next]_vars, NEW r \in Refs, candidate[r] \in {"accepted", "rejected"}
               PROVE  candidate'[r] \in {"accepted", "rejected"}
    OBVIOUS
  <2>t. candidate \in [Refs -> CandidateState]
    BY DEF Typed, ReviewTyped
  <2>1. CASE candidate' = candidate
    BY <2>1
  <2>2. ASSUME NEW c \in Clients, NEW q \in Refs, Reject(c, q)
        PROVE  candidate'[r] \in {"accepted", "rejected"}
    BY <2>2, <2>t DEF Reject
  <2>3. ASSUME NEW c \in Clients, MarkAccepted(c)
        PROVE  candidate'[r] \in {"accepted", "rejected"}
    BY <2>3, <2>t DEF MarkAccepted
  <2>4. ASSUME NEW j \in Jobs, Insert(j)
        PROVE  candidate'[r] \in {"accepted", "rejected"}
    BY <2>4, <2>t DEF Insert
  <2> QED
    BY <2>1, <2>2, <2>3, <2>4
       DEF Next, Tick, CrashApi, Work, TakeGeneration, WriteQueries, Raise, TakeDiscovery,
           Search, SearchEnds, RecordOutcome, End, CrashWorker, Proceed, CreatePending, Dispatch,
           AttachByHand, Review, Accept, Submit, themeVars, vars
<1> QED
  BY <1>1, TypeInvariant, PTL DEF Spec, RejectionStands

\* The accepted queries are a list that a user approved, or none; and so is
\* what a pass has read of them.
QueriesReviewed ==
  /\ seed.accepted = {} \/ seed.accepted \in reviews
  /\ DiscoveryWasReviewed

\* A step that changes no queries.
LEMMA QueriesFrame ==
  ASSUME QueriesReviewed, seed' = seed, reviews' = reviews,
         \A j \in Jobs : job'[j].queries \in {{}, job[j].queries, seed.accepted}
  PROVE  QueriesReviewed'
  BY DEF QueriesReviewed, DiscoveryWasReviewed

\* A discovery pass searches with a list that a user approved.
THEOREM OnlyReviewedQueries == Spec => []DiscoveryWasReviewed
<1>1. Init => QueriesReviewed
  BY DEF Init, QueriesReviewed, DiscoveryWasReviewed, NoJob
<1>2. Typed /\ QueriesReviewed /\ [Next]_vars => QueriesReviewed'
  <2> SUFFICES ASSUME Typed, QueriesReviewed, [Next]_vars PROVE QueriesReviewed'
    OBVIOUS
  <2>t. job \in [Jobs -> JobRows]
    BY DEF Typed, JobTyped
  <2>1. CASE UNCHANGED <<seed, reviews, job>>
    BY <2>1, QueriesFrame
  <2>2. ASSUME NEW c \in Clients, NEW Q \in SUBSET Queries, Review(c, Q) PROVE QueriesReviewed'
    BY <2>2 DEF Review, QueriesReviewed, DiscoveryWasReviewed
  <2>3. ASSUME NEW c \in Clients, CreatePending(c) PROVE QueriesReviewed'
    <3>1. \A j \in Jobs : job'[j].queries = job[j].queries
      BY <2>3, <2>t DEF CreatePending, JobRows
    <3> QED
      BY <2>3, <3>1, QueriesFrame DEF CreatePending
  <2>4. ASSUME NEW c \in Clients, Dispatch(c) PROVE QueriesReviewed'
    <3>1. \A j \in Jobs : job'[j].queries = job[j].queries
      BY <2>4, <2>t DEF Dispatch, JobRows
    <3> QED
      BY <2>4, <3>1, QueriesFrame DEF Dispatch
  <2>5. ASSUME NEW j \in Jobs, NEW stage, GoTo(j, stage)
        PROVE  \A i \in Jobs : job'[i].queries = job[i].queries
    BY <2>5, <2>t DEF GoTo, JobRows
  <2>6. ASSUME NEW j \in Jobs, CrashWorker(j) PROVE QueriesReviewed'
    BY <2>5, <2>6, QueriesFrame DEF CrashWorker
  <2>7. ASSUME NEW j \in Jobs, Work(j) PROVE QueriesReviewed'
    <3>0. reviews' = reviews
      BY <2>7 DEF Work, TakeGeneration, WriteQueries, Raise, TakeDiscovery, Search,
           Insert, SearchEnds, RecordOutcome, End, requests
    <3>j. job[j] \in JobRows
      BY <2>t
    <3>1. CASE WriteQueries(j)
      <4>1. \A i \in Jobs : job'[i].queries = job[i].queries
        BY <2>5, <3>1 DEF WriteQueries
      <4>2. seed'.accepted = {}
        BY <3>1 DEF WriteQueries
      <4> QED
        BY <3>0, <4>1, <4>2 DEF QueriesReviewed, DiscoveryWasReviewed
    <3>2. CASE Raise(j) \/ SearchEnds(j) \/ RecordOutcome(j)
      <4>1. \E stage \in Stages : GoTo(j, stage)
        BY <3>2 DEF Raise, SearchEnds, RecordOutcome, Stages
      <4>2. seed' = seed
        BY <3>2 DEF Raise, SearchEnds, RecordOutcome
      <4> QED
        BY <2>5, <3>0, <4>1, <4>2, QueriesFrame
    <3>3. ASSUME NEW row, Become(j, row), row.queries \in {{}, job[j].queries, seed.accepted},
                 seed' = seed
          PROVE  QueriesReviewed'
      <4>1. \A i \in Jobs : job'[i].queries \in {{}, job[i].queries, seed.accepted}
        BY <2>t, <3>3 DEF Become
      <4> QED
        BY <3>0, <3>3, <4>1, QueriesFrame
    <3>4. CASE TakeGeneration(j)
      <4>1. [job[j] EXCEPT !.status = "running", !.stage = "llm"].queries = job[j].queries
        BY <3>j DEF JobRows
      <4> QED
        BY <3>3, <3>4, <4>1 DEF TakeGeneration
    <3>5. CASE TakeDiscovery(j)
      <4>1. PICK found \in SUBSET Refs : Become(j, [job[j] EXCEPT
              !.status = "running",
              !.stage = IF seed.accepted = {} THEN "record" ELSE "search",
              !.queries = seed.accepted, !.found = found,
              !.known = {r \in Refs : candidate[r] = "rejected"}])
        BY <3>5 DEF TakeDiscovery
      <4>2. [job[j] EXCEPT
              !.status = "running",
              !.stage = IF seed.accepted = {} THEN "record" ELSE "search",
              !.queries = seed.accepted, !.found = found,
              !.known = {r \in Refs : candidate[r] = "rejected"}].queries = seed.accepted
        BY <3>j DEF JobRows
      <4>3. seed' = seed
        BY <3>5 DEF TakeDiscovery
      <4> QED
        BY <3>3, <4>1, <4>2, <4>3
    <3>6. ASSUME NEW r \in Refs, Search(j, r) PROVE QueriesReviewed'
      <4>1. /\ [job[j] EXCEPT !.found = @ \ {r}].queries = job[j].queries
            /\ [job[j] EXCEPT !.found = @ \ {r}, !.proposed = TRUE].queries = job[j].queries
            /\ [job[j] EXCEPT !.found = @ \ {r}, !.stage = "insert", !.ref = r].queries = job[j].queries
        BY <3>j DEF JobRows
      <4>2. seed' = seed /\ \E row : Become(j, row) /\ row.queries = job[j].queries
        BY <3>6, <4>1 DEF Search
      <4> QED
        BY <3>3, <4>2
    <3>7. CASE Insert(j)
      <4>1. [job[j] EXCEPT !.stage = "search", !.ref = None, !.proposed = TRUE].queries = job[j].queries
        BY <3>j DEF JobRows
      <4>2. seed' = seed
        BY <3>7 DEF Insert
      <4>3. CASE GoTo(j, "fail")
        BY <2>5, <3>0, <4>2, <4>3, QueriesFrame
      <4>4. CASE Become(j, [job[j] EXCEPT !.stage = "search", !.ref = None, !.proposed = TRUE])
        BY <3>3, <4>1, <4>2, <4>4
      <4> QED
        BY <3>7, <4>3, <4>4 DEF Insert
    <3>8. CASE End(j)
      <4> DEFINE row == [NoJob EXCEPT !.kind = job[j].kind,
                           !.status = IF job[j].stage = "mark" THEN "complete" ELSE "failed"]
      <4>1. row.queries = {}
        BY DEF NoJob
      <4>2. seed' = seed /\ Become(j, row)
        BY <3>8 DEF End
      <4> QED
        BY <3>3, <4>1, <4>2
    <3> QED
      BY <2>7, <3>1, <3>2, <3>4, <3>5, <3>6, <3>7, <3>8 DEF Work
  <2> QED
    BY <2>1, <2>2, <2>3, <2>4, <2>6, <2>7
       DEF Next, Tick, CrashApi, Proceed, MarkAccepted, AttachByHand, Reject, Accept, Submit,
           themeVars, vars
<1>3. QueriesReviewed => DiscoveryWasReviewed
  BY DEF QueriesReviewed
<1> QED
  BY <1>1, <1>2, <1>3, TypeInvariant, PTL DEF Spec

-----------------------------------------------------------------------------
(* Acceptance *)

\* An acceptance that has attached its source knows that it is there.
Attached ==
  /\ AcceptanceIsWhole
  /\ \A c \in Clients : call[c].op = "mark" => call[c].ref \in DOMAIN source

\* A step that loses no source and no record of why a candidate is not marked.
LEMMA AcceptanceFrame ==
  ASSUME Attached, DOMAIN source' = DOMAIN source, candidate' = candidate,
         manual \subseteq manual', died \subseteq died',
         \A c \in Clients : call[c].op = "mark" \/ call'[c].op = "mark" => call'[c] = call[c]
  PROVE  Attached'
<1>1. \A c \in Clients, r \in Refs : call[c] = [op |-> "mark", ref |-> r] => call'[c] = call[c]
  OBVIOUS
<1> QED
  BY <1>1 DEF Attached, AcceptanceIsWhole

\* The update of a client's request leaves the others' alone.
LEMMA OneCall ==
  ASSUME CallTyped, NEW c \in Clients, NEW record, call' = [call EXCEPT ![c] = record]
  PROVE  call'[c] = record /\ \A d \in Clients \ {c} : call'[d] = call[d]
  BY DEF CallTyped

\* An accepted candidate is a source of the monitor, and one that became a
\* source does not stay proposed, unless its acceptance died half way or the
\* user attached that source.
THEOREM AcceptanceHolds == Spec => []AcceptanceIsWhole
<1>1. Init => Attached
  BY DEF Init, MonitorsInit, Attached, AcceptanceIsWhole, Idle
<1>2. Typed /\ Attached /\ [Next]_vars => Attached'
  <2> SUFFICES ASSUME Typed, Attached, [Next]_vars PROVE Attached'
    OBVIOUS
  <2> USE DEF Typed
  <2>i. Idle.op = "idle"
    BY DEF Idle
  <2>1. CASE UNCHANGED <<source, candidate, call, manual, died>>
    BY <2>1, AcceptanceFrame
  <2>2. ASSUME NEW c \in Clients, call[c].op # "mark", NEW record, record.op # "mark",
               call' = [call EXCEPT ![c] = record],
               DOMAIN source' = DOMAIN source, UNCHANGED <<candidate, manual, died>>
        PROVE  Attached'
    <3>1. \A d \in Clients : call[d].op = "mark" \/ call'[d].op = "mark" => call'[d] = call[d]
      BY <2>2, OneCall
    <3> QED
      BY <2>2, <3>1, AcceptanceFrame
  <2>3. CASE CrashApi
    <3>1. \A c \in Clients, r \in Refs : call[c] = [op |-> "mark", ref |-> r] => r \in died'
      BY <2>3 DEF CrashApi
    <3>2. \A c \in Clients : call'[c].op # "mark"
      BY <2>3, <2>i DEF CrashApi
    <3>3. died \subseteq died' /\ UNCHANGED <<source, candidate, manual>>
      BY <2>3 DEF CrashApi
    <3> QED
      BY <3>1, <3>2, <3>3 DEF Attached, AcceptanceIsWhole
  <2>4. ASSUME NEW j \in Jobs, Insert(j) PROVE Attached'
    <3>1. UNCHANGED <<source, call, manual, died>>
      BY <2>4 DEF Insert, requests
    <3>2. \A r \in Refs : candidate'[r] = candidate[r]
                            \/ (candidate[r] = "none" /\ candidate'[r] = "proposed")
      BY <2>4 DEF Insert, ReviewTyped
    <3> QED
      BY <3>1, <3>2 DEF Attached, AcceptanceIsWhole
  <2>5. ASSUME NEW c \in Clients, LoadRegistration(c), UNCHANGED themeVars PROVE Attached'
    <3> DEFINE record == [op |-> "write", edit |-> call[c].edit, monitor |-> call[c].monitor,
                          registration |-> registration, torn |-> monitor # call[c].monitor]
    <3>1. record.op # "mark" /\ call' = [call EXCEPT ![c] = record] /\ call[c].op # "mark"
      BY <2>5 DEF LoadRegistration
    <3>2. UNCHANGED <<source, candidate, manual, died>>
      BY <2>5 DEF LoadRegistration, themeVars
    <3> QED
      BY <2>2, <3>1, <3>2
  <2>6. ASSUME NEW c \in Clients, Write(c), UNCHANGED themeVars PROVE Attached'
    BY <2>2, <2>6, <2>i DEF Write, Answer, themeVars
  <2>7. ASSUME NEW c \in Clients, MarkAccepted(c) PROVE Attached'
    <3>1. PICK r \in Refs : call[c] = [op |-> "mark", ref |-> r]
      BY <2>7, CallKinds DEF MarkAccepted, MarkCalls
    <3>2. /\ candidate' = [candidate EXCEPT ![r] = "accepted"] /\ r \in DOMAIN source
          /\ UNCHANGED <<source, manual, died>>
      BY <2>7, <3>1 DEF MarkAccepted, Attached
    <3>3. candidate'[r] = "accepted" /\ \A q \in Refs \ {r} : candidate'[q] = candidate[q]
      BY <3>2 DEF ReviewTyped
    <3>4. call'[c] = Idle /\ \A d \in Clients \ {c} : call'[d] = call[d]
      BY <2>7, OneCall DEF MarkAccepted, Answer
    <3>5. \A q \in Refs \ {r}, d \in Clients :
            call[d] = [op |-> "mark", ref |-> q] => call'[d] = [op |-> "mark", ref |-> q]
      BY <3>1, <3>4
    <3>6. AcceptanceIsWhole'
      BY <3>2, <3>3, <3>5 DEF Attached, AcceptanceIsWhole
    <3>7. \A d \in Clients : call'[d].op = "mark" => call'[d].ref \in DOMAIN source'
      BY <2>i, <3>2, <3>4 DEF Attached
    <3> QED
      BY <3>6, <3>7 DEF Attached
  <2>8. ASSUME NEW c \in Clients, CreatePending(c) PROVE Attached'
    <3>1. call[c] \in JobCalls /\ call[c].op # "mark"
      BY <2>8, CallKinds DEF CreatePending
    <3>2. PICK j \in Jobs : call' = [call EXCEPT ![c].op = "dispatch", ![c].job = j]
      BY <2>8 DEF CreatePending
    <3> DEFINE record == [call[c] EXCEPT !.op = "dispatch", !.job = j]
    <3>3. call' = [call EXCEPT ![c] = record]
      BY <3>2
    <3>4. record.op # "mark"
      BY <3>1 DEF JobCalls
    <3> QED
      BY <2>2, <2>8, <3>1, <3>3, <3>4 DEF CreatePending
  <2>9. ASSUME NEW c \in Clients, Dispatch(c) PROVE Attached'
    BY <2>2, <2>9, <2>i DEF Dispatch, Answer
  <2>10. ASSUME NEW c \in Clients, NEW e \in Edits, Load(c, e), UNCHANGED themeVars PROVE Attached'
    <3>1. [op |-> "load", edit |-> e, monitor |-> monitor].op # "mark"
      OBVIOUS
    <3> QED
      BY <2>2, <2>10, <2>i, <3>1 DEF Load, Request, themeVars
  <2>11. ASSUME NEW c \in Clients, NEW k \in Keys, AttachByHand(c, k) PROVE Attached'
    <3>1. call[c] = Idle /\ call' = [call EXCEPT ![c] = Idle]
      BY <2>11 DEF AttachByHand, Attach, Request
    <3>2. /\ DOMAIN source \subseteq DOMAIN source' /\ DOMAIN source' \subseteq DOMAIN source \cup {k}
          /\ manual' = manual \cup {k} /\ UNCHANGED <<candidate, died>>
      BY <2>11 DEF AttachByHand, Attach, WithSource
    <3>3. \A d \in Clients : call'[d] = call[d]
      BY <3>1, OneCall
    <3> QED
      BY <3>2, <3>3 DEF Attached, AcceptanceIsWhole
  <2>12. ASSUME NEW c \in Clients, NEW k \in Keys, NEW enabled \in BOOLEAN,
                Enable(c, k, enabled), UNCHANGED themeVars
         PROVE Attached'
    <3>1. DOMAIN source' = DOMAIN source
      BY <2>12 DEF Enable
    <3> QED
      BY <2>2, <2>12, <2>i, <3>1 DEF Enable, Request, themeVars
  <2>13. ASSUME NEW c \in Clients, NEW Q \in SUBSET Queries, Review(c, Q) PROVE Attached'
    BY <2>2, <2>13, <2>i DEF Review, Request
  <2>14. ASSUME NEW c \in Clients, NEW r \in Refs, Reject(c, r) PROVE Attached'
    <3>1. \A d \in Clients : call'[d] = call[d]
      BY <2>14, OneCall DEF Reject, Request
    <3>2. UNCHANGED <<source, manual, died>>
      BY <2>14 DEF Reject
    <3>3. candidate'[r] = "rejected" /\ \A q \in Refs \ {r} : candidate'[q] = candidate[q]
      BY <2>14 DEF Reject, ReviewTyped
    <3> QED
      BY <3>1, <3>2, <3>3 DEF Attached, AcceptanceIsWhole
  <2>15. ASSUME NEW c \in Clients, NEW r \in Refs, Accept(c, r) PROVE Attached'
    <3>1. UNCHANGED <<candidate, manual, died>>
      BY <2>15 DEF Accept, themeVars
    <3>2. CASE Request(c, Idle) /\ UNCHANGED source
      BY <2>2, <2>i, <3>1, <3>2 DEF Request
    <3>3. CASE Request(c, [op |-> "mark", ref |-> r]) /\ source' = WithSource(r)
      <4>1. call[c] = Idle /\ call' = [call EXCEPT ![c] = [op |-> "mark", ref |-> r]]
        BY <3>3 DEF Request
      <4>2. call'[c] = [op |-> "mark", ref |-> r] /\ \A d \in Clients \ {c} : call'[d] = call[d]
        BY <4>1, OneCall
      <4>3. DOMAIN source' = DOMAIN source \cup {r}
        BY <3>3 DEF WithSource
      <4>4. \A d \in Clients, q \in Refs :
              call[d] = [op |-> "mark", ref |-> q] => call'[d] = [op |-> "mark", ref |-> q]
        BY <2>i, <4>1, <4>2
      <4>5. AcceptanceIsWhole'
        BY <3>1, <4>2, <4>3, <4>4 DEF Attached, AcceptanceIsWhole
      <4>6. \A d \in Clients : call'[d].op = "mark" => call'[d].ref \in DOMAIN source'
        BY <4>2, <4>3 DEF Attached
      <4> QED
        BY <4>5, <4>6 DEF Attached
    <3> QED
      BY <2>15, <3>2, <3>3 DEF Accept
  <2>16. ASSUME NEW c \in Clients, NEW kind \in JobKinds, Submit(c, kind) PROVE Attached'
    <3>1. [op |-> "insert", kind |-> kind, job |-> 0].op # "mark"
      OBVIOUS
    <3>2. UNCHANGED <<source, candidate, manual, died>>
      BY <2>16 DEF Submit, themeVars
    <3> QED
      BY <2>2, <2>16, <2>i, <3>1, <3>2 DEF Submit, Request
  <2> QED
    BY <2>1, <2>3, <2>4, <2>5, <2>6, <2>7, <2>8, <2>9, <2>10, <2>11, <2>12, <2>13, <2>14, <2>15, <2>16
       DEF Next, Tick, Work, TakeGeneration, WriteQueries, Raise, TakeDiscovery, Search,
           SearchEnds, RecordOutcome, End, CrashWorker, Proceed, requests, themeVars, vars
<1>3. Attached => AcceptanceIsWhole
  BY DEF Attached
<1> QED
  BY <1>1, <1>2, <1>3, TypeInvariant, PTL DEF Spec

-----------------------------------------------------------------------------
(* The schedule *)

\* A registration and the monitor's row it stands beside.
Follows(m, r) ==
  IF m.status = "active" THEN r # None /\ r.cron = m.cron /\ r.zone = m.zone ELSE r = None

\* What an update has loaded is of one moment, unless it is torn.
LoadedTogether ==
  \A c \in Clients :
    call[c].op = "write" /\ ~call[c].torn => Follows(call[c].monitor, call[c].registration)

ScheduleInv == raced \/ (Follows(monitor, registration) /\ LoadedTogether)

\* An update writes a registration that follows the row it writes: it has seen
\* the registration that is there, if there is one, and writes the same columns
\* of both.
LEMMA WriteFollows ==
  ASSUME Typed, ScheduleInv, NEW c \in Clients, Write(c), ~raced'
  PROVE  Follows(monitor', registration')
<1> DEFINE old == call[c].monitor
           edit == call[c].edit
           new == Merged(old, edit)
           loaded == call[c].registration
           Id(r) == IF r = None THEN None ELSE r.id
<1>1. call[c] \in LoadedCalls /\ call[c].op = "write"
  BY CallKinds DEF Write, Typed
<1>2. /\ old \in MonitorRows /\ edit \in EditRequests /\ loaded \in RegistrationRows \cup {None}
  BY <1>1, MonitorsAssumption DEF LoadedCalls
<1>3. new \in MonitorRows
  BY <1>2, MergedRow
<1>4. monitor' = Flushed(monitor, old, new)
  BY DEF Write, Merged
<1>5. /\ ~raced /\ ~call[c].torn /\ Id(loaded) = Id(registration)
      /\ registration = None /\ registration' # None => monitor = old
  BY DEF Write
<1>6. Follows(old, loaded) /\ Follows(monitor, registration)
  BY <1>1, <1>5 DEF ScheduleInv, LoadedTogether
<1>7. monitor \in MonitorRows /\ registration \in RegistrationRows \cup {None}
  BY DEF Typed, MonitorTyped
<1>8. registration' = IF new.status = "active" THEN Upserted(loaded, new.cron, new.zone) ELSE None
  BY DEF Write, Merged
<1>9. (loaded = None) <=> (registration = None)
  BY <1>2, <1>5, <1>7, MonitorsAssumption DEF RegistrationRows
<1>10. /\ monitor'.status = IF new.status # old.status THEN new.status ELSE monitor.status
       /\ monitor'.cron = IF new.cron # old.cron THEN new.cron ELSE monitor.cron
       /\ monitor'.zone = IF new.zone # old.zone THEN new.zone ELSE monitor.zone
  BY <1>2, <1>3, <1>4, <1>7, FlushedRow
<1>11. new.cron \in Crons /\ new.zone \in Zones /\ new.status \in MonitorStatus
  BY <1>3 DEF MonitorRows
<1>12. Upserted(loaded, new.cron, new.zone) \in RegistrationRows
  BY <1>2, <1>11, UpsertedRow DEF Typed
<1>13. Upserted(loaded, new.cron, new.zone) # None
  BY <1>12, MonitorsAssumption DEF RegistrationRows
<1>14. CASE new.status # "active"
  <2>1. monitor'.status # "active"
    BY <1>6, <1>9, <1>10, <1>14 DEF Follows
  <2> QED
    BY <1>8, <1>14, <2>1 DEF Follows
<1>15. CASE new.status = "active" /\ registration = None
  <2>1. monitor = old
    BY <1>5, <1>8, <1>13, <1>15
  <2>2. monitor'.status = "active" /\ monitor'.cron = new.cron /\ monitor'.zone = new.zone
    BY <1>10, <1>15, <2>1
  <2>3. registration'.cron = new.cron /\ registration'.zone = new.zone
    BY <1>8, <1>15 DEF Upserted
  <2> QED
    BY <1>8, <1>13, <1>15, <2>2, <2>3 DEF Follows
<1>16. CASE new.status = "active" /\ registration # None
  <2>1. loaded \in RegistrationRows /\ registration \in RegistrationRows /\ loaded.id = registration.id
    BY <1>2, <1>5, <1>7, <1>9, <1>16
  <2>2. Upserted(loaded, new.cron, new.zone)
          = Flushed(registration, loaded, [cron |-> new.cron, zone |-> new.zone])
    BY <1>9, <1>16, <2>1 DEF Upserted
  <2>3. /\ registration'.cron = IF new.cron # loaded.cron THEN new.cron ELSE registration.cron
        /\ registration'.zone = IF new.zone # loaded.zone THEN new.zone ELSE registration.zone
    <3>1. registration' = Flushed(registration, loaded, [cron |-> new.cron, zone |-> new.zone])
      BY <1>8, <1>16, <2>2
    <3> HIDE DEF new, loaded
    <3> QED
      BY <1>11, <2>1, <3>1, FlushedRegistration
  <2>4. monitor.status = "active" /\ old.cron = loaded.cron /\ old.zone = loaded.zone
        /\ monitor.cron = registration.cron /\ monitor.zone = registration.zone
    BY <1>6, <1>9, <1>16 DEF Follows
  <2> QED
    BY <1>8, <1>10, <1>13, <1>16, <2>3, <2>4 DEF Follows
<1> QED
  BY <1>14, <1>15, <1>16

\* A monitor has a registration with its own schedule exactly when it is
\* active, up to updates that could not see each other.
THEOREM ScheduleFollows == Spec => []RegistrationFollows
<1>1. Init => ScheduleInv
  <2> SUFFICES ASSUME Init PROVE ScheduleInv
    OBVIOUS
  <2>1. LoadedTogether
    BY DEF Init, MonitorsInit, LoadedTogether, Idle
  <2>2. registration \in RegistrationRows
    BY MonitorsAssumption DEF Init, MonitorsInit, RegistrationRows
  <2>3. registration # None
    BY <2>2, MonitorsAssumption DEF RegistrationRows
  <2>4. Follows(monitor, registration)
    BY <2>3 DEF Init, MonitorsInit, Follows
  <2> QED
    BY <2>1, <2>4 DEF ScheduleInv
<1>2. Typed /\ ScheduleInv /\ [Next]_vars => ScheduleInv'
  <2> SUFFICES ASSUME Typed, ScheduleInv, [Next]_vars, ~raced' PROVE ScheduleInv'
    BY DEF ScheduleInv
  <2>i. Idle.op = "idle"
    BY DEF Idle
  <2>1. ASSUME UNCHANGED <<monitor, registration, raced>>,
               \A c \in Clients : call'[c].op = "write" => call'[c] = call[c]
        PROVE  ScheduleInv'
    BY <2>1 DEF ScheduleInv, LoadedTogether
  <2>2. ASSUME NEW c \in Clients, NEW record, record.op # "write",
               call' = [call EXCEPT ![c] = record], UNCHANGED <<monitor, registration, raced>>
        PROVE  ScheduleInv'
    <3>1. \A d \in Clients : call'[d].op = "write" => call'[d] = call[d]
      BY <2>2, OneCall DEF Typed
    <3> QED
      BY <2>1, <2>2, <3>1
  <2>3. CASE UNCHANGED <<monitor, registration, raced, call>>
    BY <2>1, <2>3
  <2>4. CASE CrashApi
    BY <2>1, <2>4, <2>i DEF CrashApi, monitorVars
  <2>5. ASSUME NEW c \in Clients, LoadRegistration(c), UNCHANGED themeVars PROVE ScheduleInv'
    <3> DEFINE record == [op |-> "write", edit |-> call[c].edit, monitor |-> call[c].monitor,
                          registration |-> registration, torn |-> monitor # call[c].monitor]
    <3>1. call' = [call EXCEPT ![c] = record] /\ UNCHANGED <<monitor, registration, raced>>
      BY <2>5 DEF LoadRegistration, monitorVars
    <3>2. call'[c] = record /\ \A d \in Clients \ {c} : call'[d] = call[d]
      BY <3>1, OneCall DEF Typed
    <3>3. ~raced /\ Follows(monitor, registration) /\ LoadedTogether
      BY <3>1 DEF ScheduleInv
    <3>4. ~record.torn => Follows(record.monitor, record.registration)
      BY <3>3
    <3> QED
      BY <3>1, <3>2, <3>3, <3>4 DEF ScheduleInv, LoadedTogether
  <2>6. ASSUME NEW c \in Clients, Write(c), UNCHANGED themeVars PROVE ScheduleInv'
    <3>1. Follows(monitor', registration')
      BY <2>6, WriteFollows
    <3>2. ~raced
      BY <2>6 DEF Write
    <3>3. call' = [call EXCEPT ![c] = Idle]
      BY <2>6 DEF Write, Answer
    <3>4. \A d \in Clients : call'[d].op = "write" => call'[d] = call[d]
      BY <3>3, <2>i, OneCall DEF Typed
    <3>5. LoadedTogether'
      BY <3>2, <3>4 DEF ScheduleInv, LoadedTogether
    <3> QED
      BY <3>1, <3>5 DEF ScheduleInv
  <2>7. ASSUME NEW c \in Clients, MarkAccepted(c) PROVE ScheduleInv'
    BY <2>2, <2>7, <2>i DEF MarkAccepted, Answer, monitorVars
  <2>8. ASSUME NEW c \in Clients, CreatePending(c) PROVE ScheduleInv'
    <3>1. call[c] \in JobCalls
      BY <2>8, CallKinds DEF CreatePending, Typed
    <3>2. PICK j \in Jobs : call' = [call EXCEPT ![c].op = "dispatch", ![c].job = j]
      BY <2>8 DEF CreatePending
    <3> DEFINE record == [call[c] EXCEPT !.op = "dispatch", !.job = j]
    <3>3. call' = [call EXCEPT ![c] = record]
      BY <3>2
    <3>4. record.op # "write"
      BY <3>1 DEF JobCalls
    <3>5. UNCHANGED <<monitor, registration, raced>>
      BY <2>8 DEF CreatePending, monitorVars
    <3> QED
      BY <2>2, <3>3, <3>4, <3>5
  <2>9. ASSUME NEW c \in Clients, Dispatch(c) PROVE ScheduleInv'
    BY <2>2, <2>9, <2>i DEF Dispatch, Answer, monitorVars
  <2>10. ASSUME NEW c \in Clients, NEW record, record.op # "write", Request(c, record),
                UNCHANGED <<monitor, registration, raced>>
         PROVE  ScheduleInv'
    BY <2>2, <2>10 DEF Request
  <2>11. ASSUME NEW c \in Clients, NEW e \in Edits, Load(c, e) PROVE ScheduleInv'
    <3>1. [op |-> "load", edit |-> e, monitor |-> monitor].op # "write"
      OBVIOUS
    <3> QED
      BY <2>10, <2>11, <3>1 DEF Load, monitorVars
  <2>12. ASSUME NEW c \in Clients, NEW k \in Keys,
                AttachByHand(c, k) \/ \E enabled \in BOOLEAN : Enable(c, k, enabled)
         PROVE  ScheduleInv'
    BY <2>10, <2>12, <2>i DEF AttachByHand, Attach, Enable, monitorVars
  <2>13. ASSUME NEW c \in Clients, NEW Q \in SUBSET Queries, Review(c, Q) PROVE ScheduleInv'
    BY <2>10, <2>13, <2>i DEF Review, monitorVars
  <2>14. ASSUME NEW c \in Clients, NEW r \in Refs, Reject(c, r) \/ Accept(c, r) PROVE ScheduleInv'
    <3>1. [op |-> "mark", ref |-> r].op # "write"
      OBVIOUS
    <3>2. UNCHANGED <<monitor, registration, raced>>
      BY <2>14 DEF Reject, Accept, monitorVars
    <3> QED
      BY <2>10, <2>14, <2>i, <3>1, <3>2 DEF Reject, Accept
  <2>15. ASSUME NEW c \in Clients, NEW kind \in JobKinds, Submit(c, kind) PROVE ScheduleInv'
    <3>1. [op |-> "insert", kind |-> kind, job |-> 0].op # "write"
      OBVIOUS
    <3>2. UNCHANGED <<monitor, registration, raced>>
      BY <2>15 DEF Submit, monitorVars
    <3> QED
      BY <2>10, <2>15, <2>i, <3>1, <3>2 DEF Submit
  <2> QED
    BY <2>3, <2>4, <2>5, <2>6, <2>7, <2>8, <2>9, <2>11, <2>12, <2>13, <2>14, <2>15
       DEF Next, Tick, Work, TakeGeneration, WriteQueries, Raise, TakeDiscovery, Search,
           Insert, SearchEnds, RecordOutcome, End, CrashWorker, Proceed, requests, monitorVars, vars
<1>3. ScheduleInv => RegistrationFollows
  BY DEF ScheduleInv, Follows, RegistrationFollows
<1> QED
  BY <1>1, <1>2, <1>3, TypeInvariant, PTL DEF Spec

-----------------------------------------------------------------------------
(* Types, with the bounds and what outcome rows there are.                 *)

\* The requests that are on their way to a registration.
Updating == {c \in Clients : call[c].op \in {"load", "write"}}

\* Every registration there has been was inserted by a request of its own.
Bounded ==
  /\ IsFiniteSet(Updating) /\ calls \in 0 .. MaxCalls
  /\ inserted + Cardinality(Updating) <= calls
  /\ registration # None => registration.id <= inserted
  /\ \A c \in Clients : call[c].op = "write" /\ call[c].registration # None
                          => call[c].registration.id <= inserted

\* Replacing one call's record.
LEMMA UpdatingStep ==
  ASSUME CallTyped, NEW c \in Clients, NEW record, call' = [call EXCEPT ![c] = record]
  PROVE  /\ record.op \in {"load", "write"} => Updating' = Updating \cup {c}
         /\ record.op \notin {"load", "write"} => Updating' = Updating \ {c}
  BY DEF CallTyped, Updating

\* A step that neither loads nor writes nor inserts anything.
LEMMA BoundedFrame ==
  ASSUME CallTyped, Bounded, UNCHANGED <<call, calls, inserted, registration>>
  PROVE  Bounded'
  BY DEF Bounded, Updating

\* A step of a request that is none of an update.
LEMMA OtherCall ==
  ASSUME CallTyped, Bounded, NEW c \in Clients, NEW record,
         call' = [call EXCEPT ![c] = record],
         call[c].op \notin {"load", "write"}, record.op \notin {"load", "write"},
         calls' \in 0 .. MaxCalls, calls <= calls', UNCHANGED <<inserted, registration>>, inserted \in Nat
  PROVE  Bounded'
<1>1. Updating' = Updating \ {c} /\ c \notin Updating
  BY UpdatingStep DEF Updating
<1>2. Updating' = Updating
  BY <1>1
<1>3. Cardinality(Updating) \in Nat
  BY FS_CardinalityType DEF Bounded
<1>4. inserted' + Cardinality(Updating') <= calls'
  BY <1>2, <1>3, MonitorsAssumption DEF Bounded
<1>5. \A x \in Clients : call'[x].op = "write" => call'[x] = call[x]
  BY DEF CallTyped
<1>6. IsFiniteSet(Updating') /\ (registration' # None => registration'.id <= inserted')
  BY <1>2 DEF Bounded
<1>7. \A x \in Clients : call'[x].op = "write" /\ call'[x].registration # None => call'[x].registration.id <= inserted'
  BY <1>5 DEF Bounded
<1> QED
  BY <1>4, <1>6, <1>7 DEF Bounded

LEMMA OtherRequest ==
  ASSUME CallTyped, Bounded, inserted \in Nat, NEW c \in Clients, NEW record, Request(c, record),
         record.op \notin {"load", "write"}, UNCHANGED <<inserted, registration>>
  PROVE  Bounded'
<1>1. /\ call[c].op \notin {"load", "write"} /\ calls \in 0 .. MaxCalls /\ calls < MaxCalls /\ calls' = calls + 1
      /\ call' = [call EXCEPT ![c] = record]
  BY DEF Request, Idle, Bounded
<1>2. calls' \in 0 .. MaxCalls /\ calls <= calls'
  BY <1>1, MonitorsAssumption DEF MonitorsAssumption
<1> QED
  BY <1>1, <1>2, OtherCall

\* A write takes its request's place among the registrations.
LEMMA WriteBounded ==
  ASSUME Typed, Bounded, NEW c \in Clients, Write(c)
  PROVE  Bounded'
<1> DEFINE loaded == call[c].registration
           new == Merged(call[c].monitor, call[c].edit)
           up == Upserted(loaded, new.cron, new.zone)
<1>1. call[c] \in LoadedCalls /\ c \in Updating /\ call[c].op = "write"
  BY CallKinds DEF Write, Typed, Updating
<1>2. /\ call' = [call EXCEPT ![c] = Idle] /\ Idle.op = "idle" /\ calls' = calls
      /\ \/ registration' = up /\ inserted' = IF registration = None THEN inserted + 1 ELSE inserted
         \/ registration' = None /\ inserted' = inserted
  BY DEF Write, Answer, Idle, Merged
<1>3. inserted \in Nat /\ registration \in RegistrationRows \cup {None}
  BY DEF Typed, MonitorTyped
<1>4. Updating' = Updating \ {c}
  BY <1>2, UpdatingStep DEF Typed
<1>5. IsFiniteSet(Updating') /\ Cardinality(Updating') = Cardinality(Updating) - 1 /\ Cardinality(Updating) \in Nat
  BY <1>1, <1>4, FS_RemoveElement, FS_CardinalityType DEF Bounded
<1>6. inserted' \in Nat /\ inserted <= inserted' /\ inserted' <= inserted + 1
  BY <1>2, <1>3
<1>7. inserted' + Cardinality(Updating') <= calls'
  BY <1>2, <1>3, <1>5, <1>6 DEF Bounded
<1>8. registration' # None => registration'.id <= inserted'
  <2>1. CASE registration' = up
    <3>1. CASE registration = None
      <4>1. up.id = inserted + 1
        BY <3>1 DEF Upserted
      <4> HIDE DEF up
      <4> QED
        BY <1>2, <1>3, <2>1, <3>1, <4>1, MonitorsAssumption
    <3>2. CASE registration # None
      <4>1. up.id = registration.id
        BY <1>3, <3>2 DEF Upserted, Flushed, RegistrationRows
      <4>2. registration.id \in Nat /\ registration.id <= inserted
        BY <1>3, <3>2 DEF RegistrationRows, Bounded
      <4> HIDE DEF up
      <4> QED
        BY <1>3, <1>6, <2>1, <4>1, <4>2
    <3> QED
      BY <3>1, <3>2
  <2>2. CASE registration' = None
    BY <2>2
  <2> HIDE DEF up
  <2> QED
    BY <1>2, <2>1, <2>2
<1>9. ASSUME NEW x \in Clients, call'[x].op = "write", call'[x].registration # None
      PROVE  call'[x].registration.id <= inserted'
  <2>1. call'[x] = call[x]
    BY <1>2, <1>9 DEF Typed, CallTyped
  <2>2. call[x] \in LoadedCalls
    BY <1>9, <2>1, CallKinds DEF Typed
  <2>3. call[x].registration.id \in Nat /\ call[x].registration.id <= inserted
    BY <1>9, <2>1, <2>2 DEF LoadedCalls, RegistrationRows, Bounded
  <2> QED
    BY <1>3, <1>6, <2>1, <2>3
<1> QED
  BY <1>2, <1>5, <1>7, <1>8, <1>9 DEF Bounded

LEMMA LoadBounded ==
  ASSUME Typed, Bounded, NEW c \in Clients, NEW e \in Edits, Load(c, e)
  PROVE  Bounded'
<1> DEFINE record == [op |-> "load", edit |-> e, monitor |-> monitor]
<1>1. /\ call[c].op = "idle" /\ calls < MaxCalls /\ calls' = calls + 1
      /\ call' = [call EXCEPT ![c] = record] /\ UNCHANGED <<inserted, registration>>
  BY DEF Load, Request, Idle, monitorVars
<1>2. record.op = "load" /\ inserted \in Nat /\ calls \in 0 .. MaxCalls
  BY DEF Typed, MonitorTyped, Bounded
<1> HIDE DEF record
<1>3. Updating' = Updating \cup {c} /\ c \notin Updating
  BY <1>1, <1>2, UpdatingStep DEF Typed, Updating
<1>4. /\ IsFiniteSet(Updating') /\ Cardinality(Updating') = Cardinality(Updating) + 1
      /\ Cardinality(Updating) \in Nat
  BY <1>3, FS_AddElement, FS_CardinalityType DEF Bounded
<1>5. calls' \in 0 .. MaxCalls /\ inserted' + Cardinality(Updating') <= calls'
  BY <1>1, <1>2, <1>4, MonitorsAssumption DEF MonitorsAssumption, Bounded
<1>6. \A x \in Clients : call'[x].op = "write" => call'[x] = call[x]
  BY <1>1, <1>2 DEF Typed, CallTyped
<1>7. \A x \in Clients : call'[x].op = "write" /\ call'[x].registration # None => call'[x].registration.id <= inserted'
  BY <1>1, <1>6 DEF Bounded
<1> QED
  BY <1>1, <1>4, <1>5, <1>7 DEF Bounded

LEMMA LoadRegistrationBounded ==
  ASSUME Typed, Bounded, NEW c \in Clients, LoadRegistration(c)
  PROVE  Bounded'
<1> DEFINE record == [op |-> "write", edit |-> call[c].edit, monitor |-> call[c].monitor,
                      registration |-> registration, torn |-> monitor # call[c].monitor]
<1>1. /\ call[c].op = "load" /\ call' = [call EXCEPT ![c] = record]
      /\ UNCHANGED <<inserted, registration, calls>>
  BY DEF LoadRegistration, monitorVars
<1>2. record.op = "write" /\ record.registration = registration
  OBVIOUS
<1> HIDE DEF record
<1>3. Updating' = Updating
  <2>1. Updating' = Updating \cup {c} /\ c \in Updating
    BY <1>1, <1>2, UpdatingStep DEF Typed, Updating
  <2> QED
    BY <2>1
<1>4. \A x \in Clients : call'[x] = call[x] \/ call'[x] = record
  BY <1>1 DEF Typed, CallTyped
<1>5. \A x \in Clients : call'[x].op = "write" /\ call'[x].registration # None => call'[x].registration.id <= inserted'
  BY <1>1, <1>2, <1>4 DEF Bounded
<1> QED
  BY <1>1, <1>3, <1>5 DEF Bounded

LEMMA CrashBounded ==
  ASSUME Typed, Bounded, CrashApi
  PROVE  Bounded'
<1>1. call' = [c \in Clients |-> Idle] /\ UNCHANGED <<inserted, registration, calls>> /\ Idle.op = "idle"
  BY DEF CrashApi, monitorVars, Idle
<1>2. Updating' = {}
  BY <1>1 DEF Updating
<1>3. IsFiniteSet({}) /\ Cardinality({}) = 0
  BY FS_EmptySet
<1>4. inserted \in Nat /\ Cardinality(Updating) \in Nat /\ calls \in 0 .. MaxCalls
  BY FS_CardinalityType DEF Typed, MonitorTyped, Bounded
<1>5. inserted' + Cardinality(Updating') <= calls'
  BY <1>1, <1>2, <1>3, <1>4, MonitorsAssumption DEF MonitorsAssumption, Bounded
<1> QED
  BY <1>1, <1>2, <1>3, <1>5 DEF Bounded

\* A job is at work once it is submitted, queries are generated for jobs of
\* that kind, and a discovery that is over, or all but, has its outcome.
RowRecorded(j) ==
  /\ job[j].status = "none" => job[j].stage = "idle"
  /\ job[j].stage = "llm" => job[j].kind = "query_generation"
  /\ job[j].kind = "discovery" /\ (job[j].stage = "mark" \/ job[j].status = "complete")
       => j \in DOMAIN outcome
Submitted(c) == call[c].op = "dispatch" => call[c].job \in Jobs /\ job[call[c].job].status # "none"
Recorded ==
  /\ DOMAIN outcome \subseteq Jobs /\ \A j \in DOMAIN outcome : outcome[j] \in NoDiscoveryReason
  /\ \A j \in Jobs : RowRecorded(j)
  /\ \A c \in Clients : Submitted(c)

\* A step that leaves jobs, outcomes and the submitting requests alone.
LEMMA RecordedFrame ==
  ASSUME Recorded, UNCHANGED <<job, outcome>>,
         \A c \in Clients : call'[c].op = "dispatch" => call'[c] = call[c]
  PROVE  Recorded'
  BY DEF Recorded, RowRecorded, Submitted

\* A request that is not about to dispatch.
LEMMA RecordedCall ==
  ASSUME CallTyped, Recorded, UNCHANGED <<job, outcome>>,
         NEW c \in Clients, NEW record, record.op # "dispatch", call' = [call EXCEPT ![c] = record]
  PROVE  Recorded'
<1>1. \A x \in Clients : call'[x].op = "dispatch" => call'[x] = call[x]
  BY DEF CallTyped
<1> QED
  BY <1>1, RecordedFrame

\* A step of one job of the worker's.
LEMMA RecordedJob ==
  ASSUME Typed, Recorded, NEW j \in Jobs, NEW row, row \in JobRows, job' = [job EXCEPT ![j] = row],
         UNCHANGED call, DOMAIN outcome \subseteq DOMAIN outcome', DOMAIN outcome' \subseteq Jobs,
         \A i \in DOMAIN outcome' : outcome'[i] \in NoDiscoveryReason,
         row.status = "none" => row.stage = "idle" /\ job[j].status = "none",
         row.stage = "llm" => row.kind = "query_generation",
         row.kind = "discovery" /\ (row.stage = "mark" \/ row.status = "complete") => j \in DOMAIN outcome'
  PROVE  Recorded'
<1>1. job'[j] = row /\ \A i \in Jobs \ {j} : job'[i] = job[i]
  BY DEF Typed, JobTyped
<1>2. \A i \in Jobs : RowRecorded(i)'
  <2> SUFFICES ASSUME NEW i \in Jobs PROVE RowRecorded(i)'
    OBVIOUS
  <2>1. CASE i = j
    BY <1>1, <2>1 DEF RowRecorded
  <2>2. CASE i # j
    BY <1>1, <2>2 DEF RowRecorded, Recorded
  <2> QED
    BY <2>1, <2>2
<1>3. \A c \in Clients : Submitted(c)'
  <2> SUFFICES ASSUME NEW c \in Clients, call[c].op = "dispatch"
               PROVE  call[c].job \in Jobs /\ job'[call[c].job].status # "none"
    BY DEF Submitted
  <2>1. call[c].job \in Jobs /\ job[call[c].job].status # "none"
    BY DEF Recorded, Submitted
  <2> QED
    BY <1>1, <2>1
<1> QED
  BY <1>2, <1>3 DEF Recorded

LEMMA WorkRecorded ==
  ASSUME Typed, Recorded, NEW j \in Jobs, Work(j)
  PROVE  Recorded'
<1>1. /\ job[j] \in JobRows /\ job \in [Jobs -> JobRows]
      /\ DOMAIN outcome \subseteq Jobs /\ \A i \in DOMAIN outcome : outcome[i] \in NoDiscoveryReason
      /\ RowRecorded(j)
  BY DEF Typed, JobTyped, Recorded
<1>2. UNCHANGED call
  BY DEF Work, TakeGeneration, WriteQueries, Raise, TakeDiscovery, Search,
         Insert, SearchEnds, RecordOutcome, End, requests
\* What the stages make of a row.
<1>3. \A stage \in Stages :
        /\ [job[j] EXCEPT !.stage = stage] \in JobRows
        /\ [job[j] EXCEPT !.stage = stage].stage = stage
        /\ [job[j] EXCEPT !.stage = stage].status = job[j].status
        /\ [job[j] EXCEPT !.stage = stage].kind = job[j].kind
  BY <1>1 DEF JobRows
<1>4. \A stage : GoTo(j, stage) <=> job' = [job EXCEPT ![j] = [job[j] EXCEPT !.stage = stage]]
  BY <1>1 DEF GoTo
<1>5. {"mark", "fail", "record", "search", "insert", "llm", "idle"} \subseteq Stages
  BY DEF Stages
<1>6. job[j].stage # "idle" => job[j].status # "none"
  BY <1>1 DEF RowRecorded
<1>7. CASE TakeGeneration(j)
  <2> DEFINE row == [job[j] EXCEPT !.status = "running", !.stage = "llm"]
  <2>1. /\ row \in JobRows /\ row.status = "running" /\ row.stage = "llm" /\ row.kind = "query_generation"
        /\ job' = [job EXCEPT ![j] = row] /\ UNCHANGED outcome
    BY <1>1, <1>7 DEF TakeGeneration, Become, JobRows, JobStatus, Stages
  <2> HIDE DEF row
  <2> QED
    BY <1>1, <1>2, <2>1, RecordedJob
<1>8. CASE WriteQueries(j)
  <2> DEFINE row == [job[j] EXCEPT !.stage = "mark"]
  <2>1. job[j].stage = "llm" /\ job' = [job EXCEPT ![j] = row] /\ UNCHANGED outcome
    BY <1>4, <1>8 DEF WriteQueries
  <2>2. /\ row \in JobRows /\ row.stage = "mark" /\ row.status = job[j].status
        /\ row.kind = "query_generation" /\ job[j].status # "none"
    BY <1>1, <1>3, <1>5, <1>6, <2>1 DEF RowRecorded
  <2> HIDE DEF row
  <2> QED
    BY <1>1, <1>2, <2>1, <2>2, RecordedJob
<1>9. CASE Raise(j)
  <2> DEFINE row == [job[j] EXCEPT !.stage = "fail"]
  <2>1. job[j].stage \in {"llm", "search"} /\ job' = [job EXCEPT ![j] = row] /\ UNCHANGED outcome
    BY <1>4, <1>9 DEF Raise
  <2>2. /\ row \in JobRows /\ row.stage = "fail" /\ row.status = job[j].status
        /\ row.kind = job[j].kind /\ job[j].status # "none"
    BY <1>3, <1>5, <1>6, <2>1
  <2> HIDE DEF row
  <2>3. row.kind = "discovery" /\ row.status = "complete" => j \in DOMAIN outcome'
    BY <1>1, <2>1, <2>2 DEF RowRecorded
  <2> QED
    BY <1>1, <1>2, <2>1, <2>2, <2>3, RecordedJob
<1>10. CASE TakeDiscovery(j)
  <2>1. PICK found \in SUBSET Refs : Become(j, [job[j] EXCEPT
          !.status = "running",
          !.stage = IF seed.accepted = {} THEN "record" ELSE "search",
          !.queries = seed.accepted, !.found = found,
          !.known = {r \in Refs : candidate[r] = "rejected"}])
    BY <1>10 DEF TakeDiscovery
  <2> DEFINE row == [job[j] EXCEPT
          !.status = "running",
          !.stage = IF seed.accepted = {} THEN "record" ELSE "search",
          !.queries = seed.accepted, !.found = found,
          !.known = {r \in Refs : candidate[r] = "rejected"}]
  <2>2. seed.accepted \in SUBSET Queries
    BY DEF Typed, ReviewTyped, Seeds
  <2>3. row \in JobRows /\ row.status = "running" /\ row.stage \in {"record", "search"}
    BY <1>1, <2>2 DEF JobRows, JobStatus, Stages
  <2>4. job' = [job EXCEPT ![j] = row] /\ UNCHANGED outcome
    BY <1>10, <2>1 DEF Become, TakeDiscovery
  <2> HIDE DEF row
  <2> QED
    BY <1>1, <1>2, <2>3, <2>4, RecordedJob
<1>11. ASSUME NEW r \in Refs, Search(j, r) PROVE Recorded'
  <2> DEFINE known == [job[j] EXCEPT !.found = @ \ {r}]
             there == [job[j] EXCEPT !.found = @ \ {r}, !.proposed = TRUE]
             fresh == [job[j] EXCEPT !.found = @ \ {r}, !.stage = "insert", !.ref = r]
             Fits(row) == /\ row \in JobRows /\ row.status = job[j].status /\ row.kind = job[j].kind
                          /\ row.stage \in {"search", "insert"}
  <2>1. job[j].stage = "search" /\ UNCHANGED outcome
    BY <1>11 DEF Search
  <2>2. Fits(known) /\ Fits(there) /\ Fits(fresh)
    BY <1>1, <2>1 DEF JobRows, Stages
  <2>3. Become(j, known) \/ Become(j, there) \/ Become(j, fresh)
    BY <1>11 DEF Search
  <2> HIDE DEF known, there, fresh
  <2>4. PICK row : Fits(row) /\ job' = [job EXCEPT ![j] = row]
    BY <2>2, <2>3 DEF Become
  <2>5. row.kind = "discovery" /\ row.status = "complete" => j \in DOMAIN outcome'
    BY <1>1, <2>1, <2>4 DEF RowRecorded
  <2> QED
    BY <1>1, <1>2, <1>6, <2>1, <2>4, <2>5, RecordedJob
<1>12. CASE Insert(j)
  <2> DEFINE failed == [job[j] EXCEPT !.stage = "fail"]
             done == [job[j] EXCEPT !.stage = "search", !.ref = None, !.proposed = TRUE]
             Fits(row) == /\ row \in JobRows /\ row.status = job[j].status /\ row.kind = job[j].kind
                          /\ row.stage \in {"search", "fail"}
  <2>1. job[j].stage = "insert" /\ UNCHANGED outcome
    BY <1>12 DEF Insert
  <2>2. Fits(failed) /\ Fits(done)
    BY <1>1, <2>1 DEF JobRows, Stages
  <2>3. job' = [job EXCEPT ![j] = failed] \/ job' = [job EXCEPT ![j] = done]
    BY <1>4, <1>12 DEF Insert, Become
  <2> HIDE DEF failed, done
  <2>4. PICK row : Fits(row) /\ job' = [job EXCEPT ![j] = row]
    BY <2>2, <2>3
  <2>5. row.kind = "discovery" /\ row.status = "complete" => j \in DOMAIN outcome'
    BY <1>1, <2>1, <2>4 DEF RowRecorded
  <2> QED
    BY <1>1, <1>2, <1>6, <2>1, <2>4, <2>5, RecordedJob
<1>13. CASE SearchEnds(j)
  <2> DEFINE row == [job[j] EXCEPT !.stage = "record"]
  <2>1. job[j].stage = "search" /\ job' = [job EXCEPT ![j] = row] /\ UNCHANGED outcome
    BY <1>4, <1>13 DEF SearchEnds
  <2>2. /\ row \in JobRows /\ row.stage = "record" /\ row.status = job[j].status
        /\ row.kind = job[j].kind /\ job[j].status # "none"
    BY <1>3, <1>5, <1>6, <2>1
  <2> HIDE DEF row
  <2>3. row.kind = "discovery" /\ row.status = "complete" => j \in DOMAIN outcome'
    BY <1>1, <2>1, <2>2 DEF RowRecorded
  <2> QED
    BY <1>1, <1>2, <2>1, <2>2, <2>3, RecordedJob
<1>14. CASE RecordOutcome(j)
  <2> DEFINE row == [job[j] EXCEPT !.stage = "mark"]
  <2>1. PICK reason \in NoDiscoveryReason :
          outcome' = [i \in DOMAIN outcome \cup {j} |-> IF i = j THEN reason ELSE outcome[i]]
    BY <1>14 DEF RecordOutcome, NoDiscoveryReason
  <2>2. job[j].stage = "record" /\ job' = [job EXCEPT ![j] = row]
    BY <1>4, <1>14 DEF RecordOutcome
  <2>3. /\ row \in JobRows /\ row.stage = "mark" /\ row.status = job[j].status
        /\ row.kind = job[j].kind /\ job[j].status # "none"
    BY <1>3, <1>5, <1>6, <2>2
  <2> HIDE DEF row
  <2>4. /\ DOMAIN outcome \subseteq DOMAIN outcome' /\ DOMAIN outcome' \subseteq Jobs /\ j \in DOMAIN outcome'
        /\ \A i \in DOMAIN outcome' : outcome'[i] \in NoDiscoveryReason
    BY <1>1, <2>1
  <2> QED
    BY <1>2, <2>2, <2>3, <2>4, RecordedJob
<1>15. CASE End(j)
  <2> DEFINE row == [NoJob EXCEPT !.kind = job[j].kind,
                       !.status = IF job[j].stage = "mark" THEN "complete" ELSE "failed"]
  <2>1. job[j].kind \in JobKinds /\ {"complete", "failed"} \subseteq JobStatus
    BY <1>1 DEF JobRows, JobStatus
  <2>2. /\ row \in JobRows /\ row.kind = job[j].kind /\ row.stage = "idle"
        /\ row.status = IF job[j].stage = "mark" THEN "complete" ELSE "failed"
    <3>1. row \in JobRows
      BY <2>1, NoJobTyped
    <3> QED
      BY <3>1 DEF NoJob
  <2>3. job' = [job EXCEPT ![j] = row] /\ UNCHANGED outcome
    BY <1>15 DEF End, Become
  <2> HIDE DEF row
  <2>4. row.kind = "discovery" /\ row.status = "complete" => j \in DOMAIN outcome'
    BY <1>1, <2>2, <2>3 DEF RowRecorded
  <2> QED
    BY <1>1, <1>2, <2>2, <2>3, <2>4, RecordedJob
<1> QED
  BY <1>7, <1>8, <1>9, <1>10, <1>11, <1>12, <1>13, <1>14, <1>15 DEF Work

LEMMA SubmittingRecorded ==
  ASSUME Typed, Recorded, NEW c \in Clients, CreatePending(c) \/ Dispatch(c)
  PROVE  Recorded'
<1>1. call[c] \in JobCalls
  BY CallKinds DEF CreatePending, Dispatch, Typed
<1>2. job \in [Jobs -> JobRows] /\ call \in [Clients -> AnyCall] /\ UNCHANGED outcome
  BY DEF Typed, JobTyped, CallTyped, CreatePending, Dispatch
<1>3. CASE CreatePending(c)
  <2>1. PICK j \in Jobs :
          /\ job[j].status = "none"
          /\ job' = [job EXCEPT ![j].kind = call[c].kind, ![j].status = "pending"]
          /\ call' = [call EXCEPT ![c].op = "dispatch", ![c].job = j]
    BY <1>3 DEF CreatePending
  <2>2. /\ job'[j].status = "pending" /\ job'[j].stage = job[j].stage
        /\ \A i \in Jobs \ {j} : job'[i] = job[i]
    BY <1>2, <2>1 DEF JobRows
  <2>3. call'[c].job = j /\ \A x \in Clients \ {c} : call'[x] = call[x]
    BY <1>1, <1>2, <2>1 DEF JobCalls
  <2>4. job[j].stage = "idle"
    BY <2>1 DEF Recorded, RowRecorded
  <2>5. \A i \in Jobs : RowRecorded(i)'
    <3> SUFFICES ASSUME NEW i \in Jobs PROVE RowRecorded(i)'
      OBVIOUS
    <3>1. CASE i = j
      BY <2>2, <2>4, <3>1 DEF RowRecorded
    <3>2. CASE i # j
      BY <1>2, <2>2, <3>2 DEF RowRecorded, Recorded
    <3> QED
      BY <3>1, <3>2
  <2>6. \A x \in Clients : Submitted(x)'
    <3> SUFFICES ASSUME NEW x \in Clients PROVE Submitted(x)'
      OBVIOUS
    <3>1. CASE x = c
      BY <2>2, <2>3, <3>1 DEF Submitted
    <3>2. CASE x # c
      BY <2>2, <2>3, <3>2 DEF Submitted, Recorded
    <3> QED
      BY <3>1, <3>2
  <2> QED
    BY <1>2, <2>5, <2>6 DEF Recorded
<1>4. CASE Dispatch(c)
  <2> DEFINE j == call[c].job
  <2>1. j \in Jobs /\ job[j].status # "none"
    BY <1>4 DEF Recorded, Submitted, Dispatch
  <2>2. /\ job'[j].status = job[j].status /\ job'[j].kind = job[j].kind /\ job'[j].stage = "queued"
        /\ \A i \in Jobs \ {j} : job'[i] = job[i]
    BY <1>2, <1>4, <2>1 DEF Dispatch, JobRows
  <2>3. \A x \in Clients : call'[x].op = "dispatch" => call'[x] = call[x]
    BY <1>2, <1>4 DEF Dispatch, Answer, Idle
  <2> HIDE DEF j
  <2>4. \A i \in Jobs : RowRecorded(i)'
    <3> SUFFICES ASSUME NEW i \in Jobs PROVE RowRecorded(i)'
      OBVIOUS
    <3>1. CASE i = j
      BY <1>2, <2>1, <2>2, <3>1 DEF RowRecorded, Recorded
    <3>2. CASE i # j
      BY <1>2, <2>2, <3>2 DEF RowRecorded, Recorded
    <3> QED
      BY <3>1, <3>2
  <2>5. \A i \in Jobs : job'[i].status = job[i].status
    BY <2>2
  <2>6. \A x \in Clients : Submitted(x)'
    BY <2>3, <2>5 DEF Submitted, Recorded
  <2> QED
    BY <1>2, <2>4, <2>6 DEF Recorded
<1> QED
  BY <1>3, <1>4

\* What is left of the types.
Plain ==
  /\ projected \in [cron : Crons, zone : Zones] \cup {None}
  /\ DOMAIN source \subseteq Keys /\ \A k \in DOMAIN source : source[k] \in BOOLEAN
  /\ raced \in BOOLEAN
  /\ seed.accepted \cap seed.other = {}
  /\ crashes \in 0 .. MaxCrashes
  /\ reviews \subseteq SUBSET Queries /\ manual \subseteq Keys /\ died \subseteq Refs

LEMMA PlainStep ==
  ASSUME Typed, Plain, [Next]_vars
  PROVE  Plain'
<1>1. projected' \in [cron : Crons, zone : Zones] \cup {None}
  <2>1. projected' = Projection \/ projected' = projected
    BY DEF Next, Tick, CrashApi, Work, TakeGeneration, WriteQueries, Raise, TakeDiscovery, Search,
         Insert, SearchEnds, RecordOutcome, End, requests, CrashWorker, Proceed, LoadRegistration, Write,
         MarkAccepted, CreatePending, Dispatch, Load, AttachByHand, Attach, Enable, Review, Reject, Accept,
         Submit, monitorVars, vars
  <2>2. Projection \in [cron : Crons, zone : Zones] \cup {None}
    BY DEF Projection, Typed, MonitorTyped, RegistrationRows
  <2> QED
    BY <2>1, <2>2 DEF Plain
<1>2. DOMAIN source' \subseteq Keys /\ \A k \in DOMAIN source' : source'[k] \in BOOLEAN
  <2> DEFINE Fine(s) == DOMAIN s \subseteq Keys /\ \A k \in DOMAIN s : s[k] \in BOOLEAN
  <2>1. Fine(source)
    BY DEF Plain
  <2>2. \A k \in Keys : Fine(WithSource(k))
    BY <2>1 DEF WithSource
  <2>3. \A k \in Keys, enabled \in BOOLEAN : Fine([source EXCEPT ![k] = enabled])
    BY <2>1
  <2> HIDE DEF Fine
  <2>4. ASSUME NEW c \in Clients, NEW k \in Keys, AttachByHand(c, k) PROVE Fine(source')
    BY <2>1, <2>2, <2>4 DEF AttachByHand, Attach
  <2>5. ASSUME NEW c \in Clients, NEW k \in Keys, NEW enabled \in BOOLEAN, Enable(c, k, enabled) PROVE Fine(source')
    BY <2>3, <2>5 DEF Enable
  <2>6. ASSUME NEW c \in Clients, NEW r \in Refs, Accept(c, r) PROVE Fine(source')
    <3>1. r \in Keys
      BY ThemesAssumption DEF ThemesAssumption
    <3> QED
      BY <2>1, <2>2, <2>6, <3>1 DEF Accept
  <2>7. \/ source' = source
        \/ \E c \in Clients, k \in Keys : AttachByHand(c, k) \/ \E enabled \in BOOLEAN : Enable(c, k, enabled)
        \/ \E c \in Clients, r \in Refs : Accept(c, r)
    BY DEF Next, Tick, CrashApi, Work, TakeGeneration, WriteQueries, Raise, TakeDiscovery, Search,
         Insert, SearchEnds, RecordOutcome, End, requests, CrashWorker, Proceed, LoadRegistration, Write,
         MarkAccepted, CreatePending, Dispatch, Load, Review, Reject, Submit, vars
  <2>8. Fine(source')
    BY <2>1, <2>4, <2>5, <2>6, <2>7
  <2> QED
    BY <2>8 DEF Fine
<1>3. raced' \in BOOLEAN
  <2>1. ASSUME NEW c \in Clients, Write(c) PROVE raced' \in BOOLEAN
    BY <2>1 DEF Write
  <2>2. raced' = raced \/ \E c \in Clients : Write(c)
    BY DEF Next, Tick, CrashApi, Work, TakeGeneration, WriteQueries, Raise, TakeDiscovery, Search,
         Insert, SearchEnds, RecordOutcome, End, requests, CrashWorker, Proceed, LoadRegistration,
         MarkAccepted, CreatePending, Dispatch, Load, AttachByHand, Attach, Enable, Review, Reject, Accept,
         Submit, monitorVars, vars
  <2> QED
    BY <2>1, <2>2 DEF Plain
<1>4. seed'.accepted \cap seed'.other = {}
  <2>1. ASSUME NEW c \in Clients, NEW Q \in SUBSET Queries, Review(c, Q) PROVE seed'.accepted \cap seed'.other = {}
    BY <2>1 DEF Review
  <2>2. ASSUME NEW j \in Jobs, WriteQueries(j) PROVE seed'.accepted \cap seed'.other = {}
    BY <2>2 DEF WriteQueries
  <2>3. \/ seed' = seed
        \/ \E c \in Clients, Q \in SUBSET Queries : Review(c, Q)
        \/ \E j \in Jobs : WriteQueries(j)
    BY DEF Next, Tick, CrashApi, Work, TakeGeneration, Raise, TakeDiscovery, Search,
         Insert, SearchEnds, RecordOutcome, End, requests, CrashWorker, Proceed,
         MarkAccepted, CreatePending, Dispatch, AttachByHand, Reject, Accept,
         Submit, themeVars, vars
  <2> QED
    BY <2>1, <2>2, <2>3 DEF Plain
<1>5. crashes' \in 0 .. MaxCrashes
  <2>1. crashes' = crashes \/ (crashes < MaxCrashes /\ crashes' = crashes + 1)
    BY DEF Next, Tick, CrashApi, Work, TakeGeneration, WriteQueries, Raise, TakeDiscovery, Search,
         Insert, SearchEnds, RecordOutcome, End, requests, CrashWorker, Proceed,
         MarkAccepted, CreatePending, Dispatch, AttachByHand, Review, Reject, Accept,
         Submit, themeVars, vars
  <2> QED
    BY <2>1, ThemesAssumption DEF Plain, ThemesAssumption
<1>6. reviews' \subseteq SUBSET Queries
  <2>1. reviews' = reviews \/ \E Q \in SUBSET Queries : reviews' = reviews \cup {Q}
    BY DEF Next, Tick, CrashApi, Work, TakeGeneration, WriteQueries, Raise, TakeDiscovery, Search,
         Insert, SearchEnds, RecordOutcome, End, requests, CrashWorker, Proceed,
         MarkAccepted, CreatePending, Dispatch, AttachByHand, Review, Reject, Accept,
         Submit, themeVars, vars
  <2> QED
    BY <2>1 DEF Plain
<1>7. manual' \subseteq Keys
  <2>1. manual' = manual \/ \E k \in Keys : manual' = manual \cup {k}
    BY DEF Next, Tick, CrashApi, Work, TakeGeneration, WriteQueries, Raise, TakeDiscovery, Search,
         Insert, SearchEnds, RecordOutcome, End, requests, CrashWorker, Proceed,
         MarkAccepted, CreatePending, Dispatch, AttachByHand, Review, Reject, Accept,
         Submit, themeVars, vars
  <2> QED
    BY <2>1 DEF Plain
<1>8. died' \subseteq Refs
  <2>1. ASSUME CrashApi PROVE died' \subseteq Refs
    <3>1. \A c \in Clients : call[c].op = "mark" => call[c].ref \in Refs
      BY CallKinds DEF Typed, MarkCalls
    <3> QED
      BY <2>1, <3>1 DEF CrashApi, Plain
  <2>2. died' = died \/ CrashApi
    BY DEF Next, Tick, Work, TakeGeneration, WriteQueries, Raise, TakeDiscovery, Search,
         Insert, SearchEnds, RecordOutcome, End, requests, CrashWorker, Proceed,
         MarkAccepted, CreatePending, Dispatch, AttachByHand, Review, Reject, Accept,
         Submit, themeVars, vars
  <2> QED
    BY <2>1, <2>2 DEF Plain
<1> QED
  BY <1>1, <1>2, <1>3, <1>4, <1>5, <1>6, <1>7, <1>8 DEF Plain

\* Bounded and Recorded, action by action.
LEMMA BoundedRecordedStep ==
  ASSUME Typed, Bounded, Recorded, [Next]_vars
  PROVE  Bounded' /\ Recorded'
<1> USE DEF Typed
<1>0. inserted \in Nat /\ call \in [Clients -> AnyCall] /\ job \in [Jobs -> JobRows]
  BY DEF MonitorTyped, CallTyped, JobTyped
<1>1. CASE Tick /\ UNCHANGED themeVars
  BY <1>1, BoundedFrame, RecordedFrame DEF Tick, themeVars
<1>2. CASE CrashApi
  <2>1. UNCHANGED <<job, outcome>> /\ \A c \in Clients : call'[c] = Idle
    BY <1>2 DEF CrashApi
  <2>2. Recorded'
    BY <2>1, RecordedFrame DEF Idle
  <2> QED
    BY <1>2, <2>2, CrashBounded
<1>3. ASSUME NEW j \in Jobs, Work(j) PROVE Bounded' /\ Recorded'
  <2>1. UNCHANGED <<call, calls, inserted, registration>>
    BY <1>3 DEF Work, TakeGeneration, WriteQueries, Raise, TakeDiscovery, Search,
         Insert, SearchEnds, RecordOutcome, End, requests, monitorVars
  <2> QED
    BY <1>3, <2>1, BoundedFrame, WorkRecorded
<1>4. ASSUME NEW j \in Jobs, CrashWorker(j) PROVE Bounded' /\ Recorded'
  <2>1. UNCHANGED <<call, calls, inserted, registration, outcome>>
    BY <1>4 DEF CrashWorker, monitorVars
  <2> DEFINE row == [job[j] EXCEPT !.stage = "idle"]
  <2>2. job' = [job EXCEPT ![j] = row] /\ job[j].stage # "idle"
    BY <1>0, <1>4 DEF CrashWorker, GoTo
  <2>3. row \in JobRows /\ row.stage = "idle" /\ row.status = job[j].status /\ row.kind = job[j].kind
    BY <1>0 DEF JobRows, Stages
  <2>4. /\ job[j].status # "none" /\ DOMAIN outcome \subseteq Jobs
        /\ \A i \in DOMAIN outcome : outcome[i] \in NoDiscoveryReason
        /\ job[j].kind = "discovery" /\ job[j].status = "complete" => j \in DOMAIN outcome
    BY <2>2 DEF Recorded, RowRecorded
  <2> HIDE DEF row
  <2>5. Recorded'
    BY <2>1, <2>2, <2>3, <2>4, RecordedJob
  <2> QED
    BY <2>1, <2>5, BoundedFrame
<1>5. ASSUME NEW c \in Clients, LoadRegistration(c), UNCHANGED themeVars PROVE Bounded' /\ Recorded'
  <2> DEFINE record == [op |-> "write", edit |-> call[c].edit, monitor |-> call[c].monitor,
                        registration |-> registration, torn |-> monitor # call[c].monitor]
  <2>1. record.op # "dispatch" /\ call' = [call EXCEPT ![c] = record] /\ UNCHANGED <<job, outcome>>
    BY <1>5 DEF LoadRegistration, themeVars
  <2> HIDE DEF record
  <2>2. Recorded'
    BY <2>1, RecordedCall
  <2> QED
    BY <1>5, <2>2, LoadRegistrationBounded
<1>6. ASSUME NEW c \in Clients, Write(c), UNCHANGED themeVars PROVE Bounded' /\ Recorded'
  <2>1. Idle.op # "dispatch" /\ call' = [call EXCEPT ![c] = Idle] /\ UNCHANGED <<job, outcome>>
    BY <1>6 DEF Write, Answer, themeVars, Idle
  <2>2. Recorded'
    BY <2>1, RecordedCall
  <2> QED
    BY <1>6, <2>2, WriteBounded
<1>7. ASSUME NEW c \in Clients, MarkAccepted(c) PROVE Bounded' /\ Recorded'
  <2>1. /\ Idle.op = "idle" /\ call' = [call EXCEPT ![c] = Idle] /\ call[c].op = "mark"
        /\ UNCHANGED <<job, outcome, calls, inserted, registration>>
    BY <1>7 DEF MarkAccepted, Answer, monitorVars, Idle
  <2>2. calls \in 0 .. MaxCalls /\ calls <= calls
    BY DEF Bounded
  <2>3. Bounded'
    BY <1>0, <2>1, <2>2, OtherCall
  <2>4. Recorded'
    BY <2>1, RecordedCall
  <2> QED
    BY <2>3, <2>4
<1>8. ASSUME NEW c \in Clients, CreatePending(c) PROVE Bounded' /\ Recorded'
  <2>1. PICK j \in Jobs : call' = [call EXCEPT ![c].op = "dispatch", ![c].job = j]
    BY <1>8 DEF CreatePending
  <2> DEFINE record == [call[c] EXCEPT !.op = "dispatch", !.job = j]
  <2>2. call[c] \in JobCalls /\ call[c].op = "insert" /\ UNCHANGED <<calls, inserted, registration>>
    BY <1>8, CallKinds DEF CreatePending, monitorVars
  <2>3. call' = [call EXCEPT ![c] = record] /\ record.op = "dispatch"
    BY <1>0, <2>1, <2>2 DEF JobCalls
  <2>4. calls \in 0 .. MaxCalls /\ calls <= calls
    BY DEF Bounded
  <2> HIDE DEF record
  <2>5. Bounded'
    BY <1>0, <2>2, <2>3, <2>4, OtherCall
  <2> QED
    BY <1>8, <2>5, SubmittingRecorded
<1>9. ASSUME NEW c \in Clients, Dispatch(c) PROVE Bounded' /\ Recorded'
  <2>1. /\ Idle.op = "idle" /\ call' = [call EXCEPT ![c] = Idle] /\ call[c].op = "dispatch"
        /\ UNCHANGED <<calls, inserted, registration>>
    BY <1>9 DEF Dispatch, Answer, monitorVars, Idle
  <2>2. calls \in 0 .. MaxCalls /\ calls <= calls
    BY DEF Bounded
  <2>3. Bounded'
    BY <1>0, <2>1, <2>2, OtherCall
  <2> QED
    BY <1>9, <2>3, SubmittingRecorded
<1>10. ASSUME NEW c \in Clients, NEW e \in Edits, Load(c, e), UNCHANGED themeVars PROVE Bounded' /\ Recorded'
  <2> DEFINE record == [op |-> "load", edit |-> e, monitor |-> monitor]
  <2>1. record.op # "dispatch" /\ call' = [call EXCEPT ![c] = record] /\ UNCHANGED <<job, outcome>>
    BY <1>10 DEF Load, Request, themeVars
  <2> HIDE DEF record
  <2>2. Recorded'
    BY <2>1, RecordedCall
  <2> QED
    BY <1>10, <2>2, LoadBounded
\* The other requests leave jobs and registrations alone.
<1>11. ASSUME NEW c \in Clients, NEW record, record.op \notin {"load", "write", "dispatch"}, Request(c, record),
              UNCHANGED <<inserted, registration, job, outcome>>
       PROVE  Bounded' /\ Recorded'
  <2>1. call' = [call EXCEPT ![c] = record] /\ record.op # "dispatch"
    BY <1>11 DEF Request
  <2>2. Recorded'
    BY <1>11, <2>1, RecordedCall
  <2> QED
    BY <1>0, <1>11, <2>2, OtherRequest
<1>12. Idle.op = "idle"
  BY DEF Idle
<1>13. ASSUME NEW c \in Clients, NEW k \in Keys,
              AttachByHand(c, k) \/ \E enabled \in BOOLEAN : Enable(c, k, enabled) /\ UNCHANGED themeVars
       PROVE  Bounded' /\ Recorded'
  <2>1. Request(c, Idle) /\ UNCHANGED <<inserted, registration, job, outcome>>
    BY <1>13 DEF AttachByHand, Attach, Enable, monitorVars, themeVars
  <2> QED
    BY <1>11, <1>12, <2>1
<1>14. ASSUME NEW c \in Clients, NEW Q \in SUBSET Queries, Review(c, Q) PROVE Bounded' /\ Recorded'
  <2>1. Request(c, Idle) /\ UNCHANGED <<inserted, registration, job, outcome>>
    BY <1>14 DEF Review, monitorVars
  <2> QED
    BY <1>11, <1>12, <2>1
<1>15. ASSUME NEW c \in Clients, NEW r \in Refs, Reject(c, r) PROVE Bounded' /\ Recorded'
  <2>1. Request(c, Idle) /\ UNCHANGED <<inserted, registration, job, outcome>>
    BY <1>15 DEF Reject, monitorVars
  <2> QED
    BY <1>11, <1>12, <2>1
<1>16. ASSUME NEW c \in Clients, NEW r \in Refs, Accept(c, r) PROVE Bounded' /\ Recorded'
  <2> DEFINE record == [op |-> "mark", ref |-> r]
  <2>1. (Request(c, Idle) \/ Request(c, record)) /\ UNCHANGED <<inserted, registration, job, outcome>>
    BY <1>16 DEF Accept, monitorVars, themeVars
  <2>2. record.op = "mark"
    OBVIOUS
  <2> HIDE DEF record
  <2> QED
    BY <1>11, <1>12, <2>1, <2>2
<1>17. ASSUME NEW c \in Clients, NEW kind \in JobKinds, Submit(c, kind) PROVE Bounded' /\ Recorded'
  <2> DEFINE record == [op |-> "insert", kind |-> kind, job |-> 0]
  <2>1. (Request(c, Idle) \/ Request(c, record)) /\ UNCHANGED <<inserted, registration, job, outcome>>
    BY <1>17 DEF Submit, monitorVars, themeVars
  <2>2. record.op = "insert"
    OBVIOUS
  <2> HIDE DEF record
  <2> QED
    BY <1>11, <1>12, <2>1, <2>2
<1>18. CASE UNCHANGED vars
  BY <1>18, BoundedFrame, RecordedFrame DEF vars, monitorVars, themeVars
<1> QED
  BY <1>1, <1>2, <1>3, <1>4, <1>5, <1>6, <1>7, <1>8, <1>9, <1>10, <1>13, <1>14, <1>15, <1>16, <1>17, <1>18
     DEF Next, Proceed

\* Every row and request keeps its type and every count its bound; there is an
\* outcome of every discovery that is complete.
\* (tasks/themes.py:105-180, db/models.py, repositories/monitors.py)
THEOREM TypeCorrect == Spec => []TypeOK
<1>1. Init => Plain /\ Bounded /\ Recorded
  <2> SUFFICES ASSUME Init PROVE Plain /\ Bounded /\ Recorded
    OBVIOUS
  <2>1. Plain
    <3>1. projected = None /\ raced = FALSE /\ crashes = 0 /\ manual = {} /\ died = {} /\ DOMAIN source = {}
      BY DEF Init, MonitorsInit
    <3>2. PICK Q \in {{}, Queries} : seed = [accepted |-> Q, other |-> {}] /\ reviews = {Q}
      BY DEF Init
    <3>3. seed.accepted \cap seed.other = {}
      BY <3>2
    <3>4. reviews \subseteq SUBSET Queries
      BY <3>2
    <3>5. crashes \in 0 .. MaxCrashes
      BY <3>1, ThemesAssumption DEF ThemesAssumption
    <3> QED
      BY <3>1, <3>3, <3>4, <3>5 DEF Plain
  <2>2. Bounded
    <3>1. Updating = {}
      BY DEF Init, MonitorsInit, Updating, Idle
    <3>2. IsFiniteSet({}) /\ Cardinality({}) = 0
      BY FS_EmptySet
    <3>3. inserted = 0 /\ calls = 0 /\ registration.id = 0 /\ \A c \in Clients : call[c].op = "idle"
      BY DEF Init, MonitorsInit, Idle
    <3> QED
      BY <3>1, <3>2, <3>3, MonitorsAssumption DEF MonitorsAssumption, Bounded
  <2>3. Recorded
    <3>1. /\ \A j \in Jobs : job[j].status = "none" /\ job[j].stage = "idle"
          /\ DOMAIN outcome = {} /\ \A c \in Clients : call[c].op = "idle"
      BY DEF Init, MonitorsInit, NoJob, Idle
    <3> QED
      BY <3>1 DEF Recorded, RowRecorded, Submitted
  <2> QED
    BY <2>1, <2>2, <2>3
<1>2. Typed /\ (Plain /\ Bounded /\ Recorded) /\ [Next]_vars => (Plain /\ Bounded /\ Recorded)'
  BY PlainStep, BoundedRecordedStep
<1>3. Typed /\ Plain /\ Bounded /\ Recorded => TypeOK
  <2> SUFFICES ASSUME Typed, Plain, Bounded, Recorded PROVE TypeOK
    OBVIOUS
  <2>1. inserted \in 0 .. MaxCalls
    <3>1. Cardinality(Updating) \in Nat
      BY FS_CardinalityType DEF Bounded
    <3> QED
      BY <3>1, MonitorsAssumption DEF Bounded, Typed, MonitorTyped, MonitorsAssumption
  <2>2. registration \in Registrations \cup {None}
    <3>1. CASE registration # None
      <4>1. registration \in RegistrationRows /\ registration.id <= inserted
        BY <3>1 DEF Typed, MonitorTyped, Bounded
      <4>2. registration.id \in 0 .. MaxCalls
        BY <2>1, <4>1, MonitorsAssumption DEF RegistrationRows, MonitorsAssumption
      <4> QED
        BY <4>1, <4>2 DEF RegistrationRows, Registrations
    <3> QED
      BY <3>1
  <2>3. MonitorsTypeOK
    BY <2>1, <2>2 DEF MonitorsTypeOK, Typed, MonitorTyped, Plain, Bounded
  <2>4. ASSUME NEW c \in Clients PROVE call[c] \in {Idle} \cup LoadCalls \cup WriteCalls \cup ThemeCalls
    <3>1. call[c] \in AnyCall
      BY DEF Typed, CallTyped
    <3>2. CASE call[c] \in LoadedCalls
      <4> DEFINE loaded == call[c].registration
      <4>1. loaded \in RegistrationRows \cup {None} /\ (loaded # None => loaded.id <= inserted)
        BY <3>2 DEF LoadedCalls, Bounded
      <4>2. loaded \in Registrations \cup {None}
        <5>1. CASE loaded # None
          <6>1. loaded.id \in 0 .. MaxCalls
            BY <2>1, <4>1, <5>1, MonitorsAssumption DEF RegistrationRows, MonitorsAssumption
          <6> QED
            BY <4>1, <5>1, <6>1 DEF RegistrationRows, Registrations
        <5> QED
          BY <5>1
      <4> HIDE DEF loaded
      <4>3. call[c] \in WriteCalls
        BY <3>2, <4>2 DEF LoadedCalls, WriteCalls, loaded
      <4> QED
        BY <4>3
    <3>3. CASE call[c] \in JobCalls \cup MarkCalls
      BY <3>3 DEF JobCalls, MarkCalls, ThemeCalls
    <3> QED
      BY <3>1, <3>2, <3>3 DEF AnyCall
  <2> QED
    BY <2>3, <2>4 DEF TypeOK, Typed, ReviewTyped, JobTyped, Plain, Recorded, RowRecorded
<1> QED
  BY <1>1, <1>2, <1>3, TypeInvariant, PTL DEF Spec
=============================================================================
