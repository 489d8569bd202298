------------------------------- MODULE Topics -------------------------------
(***************************************************************************)
(* The topic registry of one monitor: the daily assignment, the weekly     *)
(* discovery and dormancy sweep (tasks/topics.py), the monthly refit       *)
(* (pipeline/topics/refit.py), the user's corrections                      *)
(* (application/topics.py), and what feeds and drains the documents they   *)
(* work on: enrichment (tasks/enrich.py) and retention                     *)
(* (tasks/retention.py).                                                   *)
(*                                                                         *)
(* Each of them is one transaction that reads, computes (clusters, asks a  *)
(* language model for a label, waits) and then writes.  A call reads in    *)
(* its begin action and writes in its commit action; the others may commit *)
(* in between.  Similarities are abstracted to the choice they lead to, and *)
(* Docs are the documents that are followed, among others: how large a     *)
(* pool, a cluster or a window is, and how well a refit agrees with the    *)
(* assignments, depends on those too.                                      *)
(***************************************************************************)
EXTENDS Naturals, FiniteSets

CONSTANTS
  Docs, Topics,   \* identifiers; rows come to be in the course of the day
  Calls,          \* bound: the transactions that run
  DormancyDays,   \* thresholds.dormancy_days
  RetentionDays,  \* Monitor.retention_days
  MaxDay,         \* bound: the days that pass
  NoTopic, NoCall

ASSUME TopicsAssumption ==
  /\ IsFiniteSet(Docs)
  /\ {DormancyDays, RetentionDays} \subseteq Nat \ {0}
  /\ MaxDay \in Nat
  /\ NoTopic \notin Topics
  /\ NoCall \notin Calls

VARIABLES
  doc,         \* Document with its Enrichment, by document
  assignment,  \* Assignment by document
  topic,       \* Topic by identifier; status "none": no row
  lineage,     \* Lineage rows
  call,        \* what each transaction has read and decided
  today,
  auto,        \* auxiliary: <<d, t>> that an automated pass ever assigned
  raced        \* auxiliary: topics merged while another call was under way

vars == <<doc, assignment, topic, lineage, call, today, auto, raced>>
rows == <<doc, assignment, topic, lineage, today, auto, raced>>

Day == 0 .. MaxDay

\* raw: no Enrichment row.  relevant: is_relevant with an embedding.
DocStates == {"absent", "raw", "relevant", "irrelevant", "gone"}
DocRows == [state : DocStates, published : Day]

\* by: the call that inserted the row, which identifies it; NoCall: no row.
\* An UPDATE of topic_id keeps the row, a reassignment replaces it.
Assignments == [topic : Topics \cup {NoTopic}, manual : BOOLEAN, by : Calls \cup {NoCall}]
NoAssignment == [topic |-> NoTopic, manual |-> FALSE, by |-> NoCall]

TopicRows == [status : {"none", "active", "dormant", "merged"},
              into : Topics \cup {NoTopic}, count : 0 .. Cardinality(Docs),
              lastSeen : Day, pinned : BOOLEAN]
NoRow == [status |-> "none", into |-> NoTopic, count |-> 0, lastSeen |-> 0, pinned |-> FALSE]

Events == [from : Topics, to : Topics \cup {NoTopic}, event : {"merge", "refit_remap"}]

\* docs: the documents read; fresh: those of them without the row that the
\* call will insert; moves: assignments to write; topics: topics to write;
\* base: the topics as read; rows: the Assignment rows as read; day: today.
\* "discovered": the weekly discovery is committed, its sweep comes next.
Kinds == {"enrich", "assign", "discover", "discovered", "dormancy", "refit", "merge", "reassign"}
CallStates ==
  [kind : Kinds \cup {"idle", "done"}, docs : SUBSET Docs, fresh : SUBSET Docs,
   moves : SUBSET (Docs \X Topics), topics : SUBSET Topics,
   base : [Topics -> TopicRows], rows : [Docs -> Calls \cup {NoCall}],
   from : Topics \cup {NoTopic}, into : Topics \cup {NoTopic}, day : Day]
Idle == [kind |-> "idle", docs |-> {}, fresh |-> {}, moves |-> {}, topics |-> {},
         base |-> [t \in Topics |-> NoRow], rows |-> [d \in Docs |-> NoCall],
         from |-> NoTopic, into |-> NoTopic, day |-> 0]
Done == [Idle EXCEPT !.kind = "done"]

TypeOK ==
  /\ doc \in [Docs -> DocRows]
  /\ assignment \in [Docs -> Assignments]
  /\ topic \in [Topics -> TopicRows]
  /\ lineage \subseteq Events
  /\ call \in [Calls -> CallStates]
  /\ today \in Day
  /\ auto \subseteq Docs \X Topics
  /\ raced \subseteq Topics
  \* the foreign keys
  /\ \A d \in Docs : assignment[d] # NoAssignment =>
       /\ doc[d].state \in {"relevant", "irrelevant", "raw"}
       /\ assignment[d].topic # NoTopic /\ topic[assignment[d].topic].status # "none"

Exists(d) == doc[d].state \notin {"absent", "gone"}
Assigned(d) == assignment[d] # NoAssignment
Active == {t \in Topics : topic[t].status = "active"}

\* Some topics have been there before; their doc_count counts from now on.
Init ==
  /\ doc = [d \in Docs |-> [state |-> "absent", published |-> 0]]
  /\ assignment = [d \in Docs |-> NoAssignment]
  /\ \E old \in SUBSET Topics :
       topic = [t \in Topics |-> IF t \in old THEN [NoRow EXCEPT !.status = "active"] ELSE NoRow]
  /\ lineage = {}
  /\ call = [c \in Calls |-> Idle]
  /\ today = 0
  /\ auto = {}
  /\ raced = {}

-----------------------------------------------------------------------------
\* A call that reads the calendar and the topics it is going to write.
Read(written) ==
  [Idle EXCEPT !.base = [t \in Topics |-> IF t \in written THEN topic[t] ELSE NoRow],
               !.day = today]

Begin(c, read) ==
  /\ call[c] = Idle
  /\ call' = [call EXCEPT ![c] = read]
  /\ UNCHANGED rows

End(c) == call' = [call EXCEPT ![c] = Done]

\* The session writes a column when it differs from what was read.
Column(c, t, column, value) ==
  IF call[c].base[t][column] = value THEN topic[t][column] ELSE value

\* The transaction raises, is refused by a constraint, or dies with its
\* process: it has written nothing.
Abort(c) ==
  /\ call[c].kind \in Kinds
  /\ End(c)
  /\ UNCHANGED rows

-----------------------------------------------------------------------------
(* Documents come and go *)

\* Collection writes a document; it may be about an earlier day.
Collect(d) ==
  /\ doc[d].state = "absent"
  /\ \E day \in 0 .. today : doc' = [doc EXCEPT ![d] = [state |-> "raw", published |-> day]]
  /\ UNCHANGED <<assignment, topic, lineage, call, today, auto, raced>>

EnrichBegin(c) ==
  Begin(c, [Idle EXCEPT !.kind = "enrich",
                        !.docs = {d \in Docs : Exists(d)},
                        !.fresh = {d \in Docs : doc[d].state = "raw"}])

\* A document enriched or deleted meanwhile fails the insert of its row.
EnrichCommit(c) ==
  /\ call[c].kind = "enrich"
  /\ \A d \in call[c].fresh : doc[d].state = "raw"
  /\ \E relevant \in SUBSET call[c].docs :
       doc' = [d \in Docs |->
                 IF d \in call[c].docs /\ Exists(d)
                 THEN [doc[d] EXCEPT !.state = IF d \in relevant THEN "relevant" ELSE "irrelevant"]
                 ELSE doc[d]]
  /\ End(c)
  /\ UNCHANGED <<assignment, topic, lineage, today, auto, raced>>

Expired == {d \in Docs : Exists(d) /\ doc[d].published + RetentionDays < today}

\* Mutant: the assignments are left.
RetainDocumentsOnly ==
  /\ doc' = [d \in Docs |-> IF d \in Expired THEN [doc[d] EXCEPT !.state = "gone"] ELSE doc[d]]
  /\ UNCHANGED <<assignment, topic, lineage, call, today, auto, raced>>

\* enforce_retention: the foreign keys cascade to enrichment and assignment.
Retain ==
  /\ Expired # {}
  /\ doc' = [d \in Docs |-> IF d \in Expired THEN [doc[d] EXCEPT !.state = "gone"] ELSE doc[d]]
  /\ assignment' = [d \in Docs |-> IF d \in Expired THEN NoAssignment ELSE assignment[d]]
  /\ UNCHANGED <<topic, lineage, call, today, auto, raced>>

NextDay ==
  /\ today < MaxDay
  /\ today' = today + 1
  /\ UNCHANGED <<doc, assignment, topic, lineage, call, auto, raced>>

-----------------------------------------------------------------------------
(* assign_topics and discover_topics *)

\* ResiduePool.load
Pool == {d \in Docs : doc[d].state = "relevant" /\ ~Assigned(d)}

Moved(moves) == {m[1] : m \in moves}
Gaining(moves) == {m[2] : m \in moves}
To(moves, t) == {m[1] : m \in {n \in moves : n[2] = t}}

\* Any choice of a target for each of some documents.
Choices(docs, targets) ==
  UNION {{{<<d, f[d]>> : d \in s} : f \in [s -> targets]} : s \in SUBSET docs}

\* nearest_active, and the threshold, for each document of the pool.
AssignBegin(c) ==
  \E moves \in Choices(Pool, Active) :
    Begin(c, [Read(Gaining(moves)) EXCEPT !.kind = "assign", !.moves = moves])

\* Clusters of the pool, each of them close to an unpinned topic or the start
\* of a new one; ResidueUnclusterable if there is none.
DiscoverBegin(c) ==
  \E new \in SUBSET {t \in Topics : topic[t].status = "none"
                                        /\ \A o \in Calls : t \notin call[o].topics} :
    \E moves \in Choices(Pool, new \cup {t \in Active : ~topic[t].pinned}) :
      /\ moves # {}
      /\ \A t \in new : To(moves, t) # {}
      /\ Begin(c, [Read(Gaining(moves)) EXCEPT !.kind = "discover", !.moves = moves, !.topics = new])

\* What a pass makes of a topic it gives documents to.  doc_count is the
\* value it read plus its own, whatever was committed since.
Grown(c, t) ==
  LET count == call[c].base[t].count + Cardinality(To(call[c].moves, t)) IN
  IF t \in call[c].topics
  THEN [NoRow EXCEPT !.status = "active", !.count = count, !.lastSeen = call[c].day]
  ELSE [topic[t] EXCEPT !.count = count, !.lastSeen = Column(c, t, "lastSeen", call[c].day)]

\* The weekly task has the dormancy sweep to run after its discovery.
EndPass(c) ==
  call' = [call EXCEPT ![c] =
             IF call[c].kind = "discover" THEN [Idle EXCEPT !.kind = "discovered"] ELSE Done]

InsertAssignments(c, docs) ==
  /\ assignment' = [d \in Docs |->
       IF d \in docs
       THEN [topic |-> (CHOOSE m \in call[c].moves : m[1] = d)[2], manual |-> FALSE, by |-> c]
       ELSE assignment[d]]
  /\ topic' = [t \in Topics |-> IF To(call[c].moves, t) = {} THEN topic[t] ELSE Grown(c, t)]
  /\ auto' = auto \cup {m \in call[c].moves : m[1] \in docs}
  /\ EndPass(c)
  /\ UNCHANGED <<doc, lineage, today, raced>>

\* Mutant: documents that have an assignment by now are passed over.
PassCommitSkips(c) ==
  /\ call[c].kind \in {"assign", "discover"}
  /\ InsertAssignments(c, {d \in Moved(call[c].moves) : Exists(d) /\ ~Assigned(d)})

\* uq_assignments_document_id and the foreign key refuse a document that was
\* assigned or deleted meanwhile, and the whole pass with it.
PassCommit(c) ==
  /\ call[c].kind \in {"assign", "discover"}
  /\ \A d \in Moved(call[c].moves) : Exists(d) /\ ~Assigned(d)
  /\ InsertAssignments(c, Moved(call[c].moves))

-----------------------------------------------------------------------------
(* mark_dormant_topics, which the weekly task calls next, and refit_registry *)

\* The pool is below min_residue_pool_size, or none of Docs is in a cluster.
\* A discovery that raises leaves the sweep undone: both are in one try block.
SkipDiscovery(c) == Begin(c, [Idle EXCEPT !.kind = "discovered"])

Sweep(c, silent) ==
  /\ call[c].kind = "discovered"
  /\ call' = [call EXCEPT ![c] = [Idle EXCEPT !.kind = "dormancy", !.topics = silent]]
  /\ UNCHANGED rows

Silent(t) == topic[t].lastSeen + DormancyDays < today

\* Mutant: every topic is looked at, not only the active ones.
DormancyBeginAll(c) == Sweep(c, {t \in Topics : topic[t].status # "none" /\ Silent(t)})

DormancyBegin(c) == Sweep(c, {t \in Active : Silent(t)})

\* The status is written over whatever the topic has become.
DormancyCommit(c) ==
  /\ call[c].kind = "dormancy"
  /\ topic' = [t \in Topics |->
                 IF t \in call[c].topics THEN [topic[t] EXCEPT !.status = "dormant"] ELSE topic[t]]
  /\ End(c)
  /\ UNCHANGED <<doc, assignment, lineage, today, auto, raced>>

\* Clusters of the window's documents are matched with the topics they have
\* now, one to one; what agrees closely enough with history is applied.
RefitOf(c, window) ==
  \E moves \in Choices(window, {assignment[d].topic : d \in window}) :
    Begin(c, [Idle EXCEPT
      !.kind = "refit", !.docs = window,
      !.moves = {m \in moves : m[2] # assignment[m[1]].topic},
      !.topics = {assignment[m[1]].topic : m \in {n \in moves : n[2] # assignment[n[1]].topic}},
      !.rows = [d \in Docs |-> assignment[d].by]])

\* Mutant: the window holds manual assignments too.
RefitBeginAll(c) == RefitOf(c, {d \in Docs : Assigned(d)})

RefitBegin(c) == RefitOf(c, {d \in Docs : Assigned(d) /\ ~assignment[d].manual})

\* The updates go by document, whoever has assigned it meanwhile.
RefitCommit(c) ==
  /\ call[c].kind = "refit"
  /\ assignment' = [d \in Docs |->
       IF Assigned(d) /\ d \in Moved(call[c].moves)
       THEN [assignment[d] EXCEPT !.topic = (CHOOSE m \in call[c].moves : m[1] = d)[2]]
       ELSE assignment[d]]
  /\ lineage' = lineage \cup
       {[from |-> t, to |-> NoTopic, event |-> "refit_remap"] : t \in call[c].topics}
  /\ End(c)
  /\ UNCHANGED <<doc, topic, today, auto, raced>>

-----------------------------------------------------------------------------
(* TopicService *)

\* Mutant: the target's status is not looked at.
MergeBeginAnyTarget(c) ==
  \E from, into \in {t \in Topics : topic[t].status # "none"} :
    /\ from # into
    /\ Begin(c, [Read({from}) EXCEPT !.kind = "merge", !.from = from, !.into = into])

\* The topic that is merged may have any status, the target is active.
MergeBegin(c) ==
  \E from \in {t \in Topics : topic[t].status # "none"}, into \in Active :
    /\ from # into
    /\ Begin(c, [Read({from}) EXCEPT !.kind = "merge", !.from = from, !.into = into])

\* Mutant: the documents stay where they are.
MergeCommitKeepsDocuments(c) ==
  /\ call[c].kind = "merge"
  /\ topic' = [topic EXCEPT ![call[c].from].status = "merged", ![call[c].from].into = call[c].into]
  /\ End(c)
  /\ UNCHANGED <<doc, assignment, lineage, today, auto, raced>>

MergeCommit(c) ==
  LET from == call[c].from
      into == call[c].into
  IN
  /\ call[c].kind = "merge"
  /\ assignment' = [d \in Docs |->
       IF assignment[d].topic = from THEN [assignment[d] EXCEPT !.topic = into] ELSE assignment[d]]
  /\ topic' = [topic EXCEPT ![from].status = Column(c, from, "status", "merged"),
                             ![from].into = Column(c, from, "into", into)]
  /\ lineage' = lineage \cup {[from |-> from, to |-> into, event |-> "merge"]}
  /\ raced' = IF \E o \in Calls \ {c} : call[o].kind \in Kinds THEN raced \cup {from} ELSE raced
  /\ End(c)
  /\ UNCHANGED <<doc, today, auto>>

\* Any topic will do, also a dormant or a merged one.
ReassignBegin(c) ==
  \E d \in Docs, t \in {u \in Topics : topic[u].status # "none"} :
    /\ Exists(d)
    /\ Begin(c, [Read({t}) EXCEPT !.kind = "reassign", !.moves = {<<d, t>>},
                             !.rows = [x \in Docs |-> assignment[x].by]])

\* The row that was read is deleted and a new one inserted, which the unique
\* key refuses if another row has come in its place.
ReassignCommit(c) ==
  /\ call[c].kind = "reassign"
  /\ \E m \in call[c].moves :
       /\ Exists(m[1])
       /\ assignment[m[1]].by = call[c].rows[m[1]]
       /\ assignment' = [assignment EXCEPT ![m[1]] = [topic |-> m[2], manual |-> TRUE, by |-> c]]
       /\ topic' = [topic EXCEPT ![m[2]].lastSeen = Column(c, m[2], "lastSeen", call[c].day)]
  /\ End(c)
  /\ UNCHANGED <<doc, lineage, today, auto, raced>>

\* set_pinned.
Pin(t) ==
  /\ topic[t].status # "none"
  /\ topic' = [topic EXCEPT ![t].pinned = ~@]
  /\ UNCHANGED <<doc, assignment, lineage, call, today, auto, raced>>

-----------------------------------------------------------------------------
Automated(c) ==
  \/ EnrichBegin(c) \/ EnrichCommit(c)
  \/ AssignBegin(c) \/ DiscoverBegin(c) \/ PassCommit(c)
  \/ SkipDiscovery(c) \/ DormancyBegin(c) \/ DormancyCommit(c)
  \/ RefitBegin(c) \/ RefitCommit(c)

User(c) ==
  \/ MergeBegin(c) \/ MergeCommit(c)
  \/ ReassignBegin(c) \/ ReassignCommit(c)

Next ==
  \/ \E c \in Calls : Automated(c) \/ User(c) \/ Abort(c)
  \/ \E d \in Docs : Collect(d)
  \/ \E t \in Topics : Pin(t)
  \/ Retain
  \/ NextDay

Spec == Init /\ [][Next]_vars

-----------------------------------------------------------------------------
(* Properties *)

\* "The pool is a query, not a store, which is what keeps a member from ever
\* being counted twice" (pipeline/topics/registry.py): passes that overlap,
\* and the documents of theirs that come to nothing, never raise a topic's
\* doc_count above the documents that were given to it, and no document is
\* given away twice.
CountedOnce ==
  /\ \A t \in Topics : topic[t].count <= Cardinality(To(auto, t))
  /\ \A m, n \in auto : m[1] = n[1] => m = n

\* A merged topic leads, over the topics it and others were merged into, to
\* one that is not merged: TopicService.merge looks at the target, so that a
\* ring needs a merge that was committed under another call.
MergesResolve ==
  ~\E s \in (SUBSET (Topics \ raced)) \ {{}} :
     \A t \in s : topic[t].status = "merged" /\ topic[t].into \in s

\* A merge leaves no document behind, and no later pass brings one back: what
\* is found in a merged topic was put there by the user, or by a call that
\* was under way when the merge was committed.
MergedIsEmpty ==
  \A d \in Docs, t \in Topics \ raced :
    assignment[d].topic = t /\ topic[t].status = "merged" => assignment[d].manual

\* A refit that read the document's row before the present one replaced it.
RefitReadBefore(d) ==
  \E c \in Calls : /\ call[c].kind = "refit"
                   /\ d \in Moved(call[c].moves)
                   /\ call[c].rows[d] # assignment[d].by

UserCommits == \E c \in Calls : call[c].kind \in {"merge", "reassign"} /\ call'[c] = Done

\* What a user has decided stands against the automated passes: a manual
\* assignment moves only with a merge or another reassignment, and a merged
\* topic stays merged, except against a refit or a dormancy sweep that had
\* begun before the user's decision.
UserDecisionsStand ==
  [][/\ \A d \in Docs :
          assignment[d].manual /\ Exists(d)' /\ assignment'[d] # assignment[d] =>
            RefitReadBefore(d) \/ UserCommits
     /\ \A t \in Topics :
          topic[t].status = "merged" /\ topic'[t].status # "merged" =>
            t \in raced
    ]_vars
=============================================================================
