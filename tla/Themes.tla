-------------------------------- MODULE Themes --------------------------------
(***************************************************************************)
(* A theme monitor: the queries generated from its description, their      *)
(* review, the discovery of entities by the reviewed queries, and the      *)
(* review of the candidates, which become sources of the monitor           *)
(* (application/themes.py, tasks/themes.py, mlsc.run_theme_job), with the  *)
(* monitor itself and its sources from Monitors.                           *)
(***************************************************************************)
EXTENDS Monitors

CONSTANTS
  Queries,
  Refs,          \* what the surfaces may find, named by the key of the source
                 \* it would become
  MaxJobs, MaxCrashes

ASSUME ThemesAssumption ==
  /\ MaxJobs \in Nat /\ MaxCrashes \in Nat
  /\ Refs \subseteq Keys /\ None \notin Refs

VARIABLES
  seed,       \* ThemeSeed.queries, as the accepted and the other texts
  candidate,  \* EntityCandidate.state of each ref, "none" without a row
  job,        \* ThemeJob rows with what their worker holds
  outcome,    \* jobs with a DiscoveryOutcome row, and its reason
  crashes,
  reviews,    \* auxiliary: the lists that users approved
  manual,     \* auxiliary: sources that users attached themselves
  died        \* auxiliary: refs whose acceptance died half way

themeVars == <<seed, candidate, job, outcome, crashes, reviews, manual, died>>
vars == <<monitor, registration, inserted, projected, source, call, calls, raced, themeVars>>

Jobs == 1 .. MaxJobs
JobKinds == {"query_generation", "discovery"}
JobStatus == {"none", "pending", "running", "complete", "failed"}
CandidateState == {"none", "proposed", "accepted", "rejected"}
NoDiscoveryReason == {"no_queries", "every_surface_empty", "none"}
Stages == {"idle", "queued", "llm", "search", "insert", "record", "mark", "fail"}
JobRows == [kind : JobKinds, status : JobStatus, stage : Stages,
            queries : SUBSET Queries,    \* the accepted ones, as read
            known : SUBSET Refs,         \* the rejected ones, as read
            found : SUBSET Refs,         \* results still to be proposed
            ref : Refs \cup {None},      \* the result in hand
            proposed : BOOLEAN]
Seeds == [accepted : SUBSET Queries, other : SUBSET Queries]
ThemeCalls ==
  [op : {"insert", "dispatch"}, kind : JobKinds, job : Jobs \cup {0}]
    \cup [op : {"mark"}, ref : Refs]

NoJob == [kind |-> "discovery", status |-> "none", stage |-> "idle", queries |-> {},
          known |-> {}, found |-> {}, ref |-> None, proposed |-> FALSE]

TypeOK ==
  /\ MonitorsTypeOK
  /\ \A c \in Clients : call[c] \in {Idle} \cup LoadCalls \cup WriteCalls \cup ThemeCalls
  /\ seed \in Seeds /\ seed.accepted \cap seed.other = {}
  /\ candidate \in [Refs -> CandidateState]
  /\ job \in [Jobs -> JobRows]
  /\ DOMAIN outcome \subseteq Jobs
  \* a discovery that is complete has said what came of it
  /\ \A j \in Jobs : job[j].kind = "discovery" /\ job[j].status = "complete" => j \in DOMAIN outcome
  /\ \A j \in DOMAIN outcome : outcome[j] \in NoDiscoveryReason
  /\ crashes \in 0 .. MaxCrashes
  /\ reviews \subseteq SUBSET Queries /\ manual \subseteq Keys /\ died \subseteq Refs

\* The monitor has been in use: its queries may be reviewed (all), and an earlier
\* pass may have proposed a candidate (bound: one), also rejected by now.
Init ==
  /\ MonitorsInit
  /\ \E Q \in {{}, Queries} :
       /\ seed = [accepted |-> Q, other |-> {}] /\ reviews = {Q}
  /\ \E r \in Refs, state \in {"none", "proposed", "rejected"} :
       candidate = [x \in Refs |-> IF x = r THEN state ELSE "none"]
  /\ job = [j \in Jobs |-> NoJob]
  /\ outcome = [j \in {} |-> "none"]
  /\ crashes = 0 /\ manual = {} /\ died = {}

-----------------------------------------------------------------------------
(* ThemeService.                                                           *)

\* review_queries: the list as edited, all of it accepted.
Review(c, Q) ==
  /\ Request(c, Idle)
  /\ seed' = [accepted |-> Q, other |-> {}]
  /\ reviews' = reviews \cup {Q}
  /\ UNCHANGED <<monitorVars, source, candidate, job, outcome, crashes, manual, died>>

Reject(c, r) ==
  /\ Request(c, Idle)
  /\ candidate[r] # "none"
  /\ candidate' = [candidate EXCEPT ![r] = "rejected"]
  /\ UNCHANGED <<monitorVars, source, seed, job, outcome, crashes, reviews, manual, died>>

\* Mutant: the candidate is marked before its source is attached.
AcceptMarksFirst(c, r) ==
  /\ Request(c, Idle)
  /\ candidate[r] # "none"
  /\ candidate' = [candidate EXCEPT ![r] = "accepted"]
  /\ \E refused \in BOOLEAN :
       IF refused \/ r \in DOMAIN source THEN UNCHANGED source ELSE source' = WithSource(r)
  /\ UNCHANGED <<monitorVars, seed, job, outcome, crashes, reviews, manual, died>>

\* accept_candidate, whatever its state: the source is attached in a
\* transaction of its own.  A config that is refused (CandidateNotViable) and
\* a source that is there already (IntegrityError) end the request.
Accept(c, r) ==
  /\ candidate[r] # "none"
  /\ \/ Request(c, Idle) /\ UNCHANGED source
     \/ /\ r \notin DOMAIN source
        /\ Request(c, [op |-> "mark", ref |-> r])
        /\ source' = WithSource(r)
  /\ UNCHANGED <<monitorVars, themeVars>>

MarkAccepted(c) ==
  /\ call[c].op = "mark"
  /\ candidate' = [candidate EXCEPT ![call[c].ref] = "accepted"]
  /\ Answer(c)
  /\ UNCHANGED <<monitorVars, source, calls, seed, job, outcome, crashes, reviews, manual, died>>

-----------------------------------------------------------------------------
(* ThemeJobService._submit.                                                *)
InFlight(j) == job[j].status \in {"pending", "running"}

\* One in flight is ThemeJobOverlaps; two of them, which this check does not
\* prevent, are MultipleResultsFound.
Submit(c, kind) ==
  /\ IF \E j \in Jobs : InFlight(j) /\ job[j].kind = kind
     THEN Request(c, Idle)
     ELSE Request(c, [op |-> "insert", kind |-> kind, job |-> 0])
  /\ UNCHANGED <<monitorVars, source, themeVars>>

CreatePending(c) ==
  /\ call[c].op = "insert"
  /\ \E j \in Jobs :
       /\ job[j].status = "none" /\ \A i \in 1 .. j - 1 : job[i].status # "none"
       /\ job' = [job EXCEPT ![j].kind = call[c].kind, ![j].status = "pending"]
       /\ call' = [call EXCEPT ![c].op = "dispatch", ![c].job = j]
  /\ UNCHANGED <<monitorVars, source, calls, seed, candidate, outcome, crashes, reviews, manual, died>>

Dispatch(c) ==
  /\ call[c].op = "dispatch"
  /\ job' = [job EXCEPT ![call[c].job].stage = "queued"]
  /\ Answer(c)
  /\ UNCHANGED <<monitorVars, source, calls, seed, candidate, outcome, crashes, reviews, manual, died>>

-----------------------------------------------------------------------------
(* mlsc.run_theme_job.                                                     *)
requests == <<monitorVars, source, call, calls, crashes, reviews, manual, died>>
Become(j, row) == job' = [job EXCEPT ![j] = row]
GoTo(j, stage) == job' = [job EXCEPT ![j].stage = stage]

TakeGeneration(j) ==
  /\ job[j].stage = "queued" /\ job[j].kind = "query_generation"
  /\ Become(j, [job[j] EXCEPT !.status = "running", !.stage = "llm"])
  /\ UNCHANGED <<requests, seed, candidate, outcome>>

\* Mutant: generated queries need no review.
WriteQueriesAccepted(j) ==
  /\ job[j].stage = "llm"
  /\ \E Q \in (SUBSET Queries) \ {{}} : seed' = [accepted |-> Q, other |-> {}]
  /\ GoTo(j, "mark")
  /\ UNCHANGED <<requests, candidate, outcome>>

\* run_query_generation: what the model proposes replaces the list, not yet
\* accepted.
WriteQueries(j) ==
  /\ job[j].stage = "llm"
  /\ \E Q \in (SUBSET Queries) \ {{}} : seed' = [accepted |-> {}, other |-> Q]
  /\ GoTo(j, "mark")
  /\ UNCHANGED <<requests, candidate, outcome>>

\* QueriesUnusable, no router configured, any other failure of the model; and
\* in a search whatever the adapters do not turn into a failed surface.
Raise(j) ==
  /\ job[j].stage \in {"llm", "search"}
  /\ GoTo(j, "fail")
  /\ UNCHANGED <<requests, seed, candidate, outcome>>

\* run_discovery reads the accepted queries and the rejected candidates; what
\* it is going to find, a failing surface's results apart, is any set.
TakeDiscovery(j) ==
  /\ job[j].stage = "queued" /\ job[j].kind = "discovery"
  /\ \E found \in IF seed.accepted = {} THEN {{}} ELSE SUBSET Refs :
       Become(j, [job[j] EXCEPT
         !.status = "running",
         !.stage = IF seed.accepted = {} THEN "record" ELSE "search",
         !.queries = seed.accepted, !.found = found,
         !.known = {r \in Refs : candidate[r] = "rejected"}])
  /\ UNCHANGED <<requests, seed, candidate, outcome>>

\* One result: known to be rejected, there already, or to be inserted.
Search(j, r) ==
  /\ job[j].stage = "search" /\ r \in job[j].found
  /\ Become(j, CASE r \in job[j].known -> [job[j] EXCEPT !.found = @ \ {r}]
                 [] r \notin job[j].known /\ candidate[r] # "none" ->
                      [job[j] EXCEPT !.found = @ \ {r}, !.proposed = TRUE]
                 [] OTHER -> [job[j] EXCEPT !.found = @ \ {r}, !.stage = "insert", !.ref = r])
  /\ UNCHANGED <<requests, seed, candidate, outcome>>

\* Mutant: an upsert that resets what it finds.
InsertResets(j) ==
  LET r == job[j].ref IN
  /\ job[j].stage = "insert"
  /\ candidate' = [candidate EXCEPT ![r] = "proposed"]
  /\ Become(j, [job[j] EXCEPT !.stage = "search", !.ref = None, !.proposed = TRUE])
  /\ UNCHANGED <<requests, seed, outcome>>

\* uq_entity_candidates_identity: another pass was there first, and this one
\* fails.
Insert(j) ==
  LET r == job[j].ref IN
  /\ job[j].stage = "insert"
  /\ IF candidate[r] # "none"
     THEN GoTo(j, "fail") /\ UNCHANGED candidate
     ELSE /\ candidate' = [candidate EXCEPT ![r] = "proposed"]
          /\ Become(j, [job[j] EXCEPT !.stage = "search", !.ref = None, !.proposed = TRUE])
  /\ UNCHANGED <<requests, seed, outcome>>

\* Mutant: a pass that found nothing records nothing.
SearchEndsUnrecorded(j) ==
  /\ job[j].stage = "search" /\ job[j].found = {}
  /\ GoTo(j, IF job[j].proposed THEN "record" ELSE "mark")
  /\ UNCHANGED <<requests, seed, candidate, outcome>>

SearchEnds(j) ==
  /\ job[j].stage = "search" /\ job[j].found = {}
  /\ GoTo(j, "record")
  /\ UNCHANGED <<requests, seed, candidate, outcome>>

RecordOutcome(j) ==
  LET reason == CASE job[j].queries = {} -> "no_queries"
                  [] job[j].queries # {} /\ ~job[j].proposed -> "every_surface_empty"
                  [] OTHER -> "none"
  IN /\ job[j].stage = "record"
     /\ outcome' = [i \in DOMAIN outcome \cup {j} |-> IF i = j THEN reason ELSE outcome[i]]
     /\ GoTo(j, "mark")
     /\ UNCHANGED <<requests, seed, candidate>>

\* Mutant: the branch of QueriesUnusable alone.
EndOnlyComplete(j) ==
  /\ job[j].stage = "mark"
  /\ Become(j, [NoJob EXCEPT !.kind = job[j].kind, !.status = "complete"])
  /\ UNCHANGED <<requests, seed, candidate, outcome>>

\* mark_complete, and mark_failed whatever was raised.
End(j) ==
  /\ job[j].stage \in {"mark", "fail"}
  /\ Become(j, [NoJob EXCEPT !.kind = job[j].kind,
                             !.status = IF job[j].stage = "mark" THEN "complete" ELSE "failed"])
  /\ UNCHANGED <<requests, seed, candidate, outcome>>

-----------------------------------------------------------------------------
\* The API's process dies, with its requests.
CrashApi ==
  /\ crashes < MaxCrashes /\ \E c \in Clients : call[c] # Idle
  /\ crashes' = crashes + 1
  /\ died' = died \cup {call[c].ref : c \in {x \in Clients : call[x].op = "mark"}}
  /\ call' = [c \in Clients |-> Idle]
  /\ UNCHANGED <<monitorVars, source, calls, seed, candidate, job, outcome, reviews, manual>>

\* A worker dies; its message was acknowledged when it took the job.
CrashWorker(j) ==
  /\ crashes < MaxCrashes /\ job[j].stage \notin {"idle", "queued"}
  /\ crashes' = crashes + 1
  /\ GoTo(j, "idle")
  /\ UNCHANGED <<monitorVars, source, call, calls, seed, candidate, outcome, reviews, manual, died>>

AttachByHand(c, k) == /\ Attach(c, k)
                      /\ manual' = manual \cup {k}
                      /\ UNCHANGED <<seed, candidate, job, outcome, crashes, reviews, died>>

Work(j) ==
  \/ TakeGeneration(j) \/ WriteQueries(j) \/ Raise(j)
  \/ TakeDiscovery(j) \/ Insert(j) \/ SearchEnds(j) \/ RecordOutcome(j) \/ End(j)
  \/ \E r \in Refs : Search(j, r)

Proceed(c) ==
  \/ (LoadRegistration(c) \/ Write(c)) /\ UNCHANGED themeVars
  \/ MarkAccepted(c) \/ CreatePending(c) \/ Dispatch(c)

Next ==
  \/ Tick /\ UNCHANGED themeVars
  \/ CrashApi
  \/ \E j \in Jobs : Work(j) \/ CrashWorker(j)
  \/ \E c \in Clients :
       \/ Proceed(c)
       \/ \E e \in Edits : Load(c, e) /\ UNCHANGED themeVars
       \/ \E k \in Keys : \/ AttachByHand(c, k)
                          \/ \E enabled \in BOOLEAN : Enable(c, k, enabled) /\ UNCHANGED themeVars
       \/ \E Q \in SUBSET Queries : Review(c, Q)
       \/ \E r \in Refs : Reject(c, r) \/ Accept(c, r)
       \/ \E kind \in JobKinds : Submit(c, kind)

\* Beat ticks, and what was started goes on unless its process dies.
Spec ==
  /\ Init /\ [][Next]_vars
  /\ WF_vars(Tick /\ UNCHANGED themeVars)
  /\ \A c \in Clients : WF_vars(Proceed(c))
  /\ \A j \in Jobs : WF_vars(Work(j))

-----------------------------------------------------------------------------
(* Properties.                                                             *)

\* A discovery pass searches with a list that a user approved, all of it:
\* generated queries wait for their review, also when the generation finished
\* over one.  (tasks/themes.py:48-83, 105-112)
DiscoveryWasReviewed ==
  \A j \in Jobs : job[j].queries # {} => job[j].queries \in reviews

\* A candidate that was reviewed is never proposed again, not by a pass that
\* read the rejections before it either.  (repositories/themes.py:115-136)
RejectionStands ==
  [][\A r \in Refs : candidate[r] \in {"accepted", "rejected"}
                       => candidate'[r] \in {"accepted", "rejected"}]_vars

\* An accepted candidate is a source of the monitor, and one that became a
\* source does not stay proposed, unless the acceptance died between its two
\* transactions or the user had attached that source before.
\* (application/themes.py:141-165)
AcceptanceIsWhole ==
  \A r \in Refs :
    /\ candidate[r] = "accepted" => r \in DOMAIN source
    /\ r \in DOMAIN source /\ candidate[r] \in {"none", "proposed"}
         => \/ r \in manual \/ r \in died
            \/ \E c \in Clients : call[c] = [op |-> "mark", ref |-> r]

\* A job ends, and its kind can be submitted again, unless a process died.
\* (tasks/scheduled.py:224-266)
JobsEnd == \A j \in Jobs : InFlight(j) ~> (~InFlight(j) \/ crashes > 0)
=============================================================================
