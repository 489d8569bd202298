---------------------------- MODULE TopicsProofs ----------------------------
(***************************************************************************)
(* Proofs about Topics for every set of documents, topics and transactions,*)
(* every threshold and every number of days.                               *)
(***************************************************************************)
EXTENDS Topics, FiniteSetTheorems, TLAPS

\* Types that do not depend on how many documents or days there are.
AnyTopicRow == [status : {"none", "active", "dormant", "merged"}, into : Topics \cup {NoTopic},
                count : Nat, lastSeen : Nat, pinned : BOOLEAN]
AnyCall == [kind : Kinds \cup {"idle", "done"}, docs : SUBSET Docs, fresh : SUBSET Docs,
            moves : SUBSET (Docs \X Topics), topics : SUBSET Topics,
            base : [Topics -> AnyTopicRow], rows : [Docs -> Calls \cup {NoCall}],
            from : Topics \cup {NoTopic}, into : Topics \cup {NoTopic}, day : Nat]

TopicTyped == topic \in [Topics -> AnyTopicRow]
AssignmentTyped ==
  assignment \in [Docs -> {NoAssignment} \cup [topic : Topics, manual : BOOLEAN, by : Calls]]
CallTyped == call \in [Calls -> AnyCall]
Typed == TopicTyped /\ AssignmentTyped /\ CallTyped /\ today \in Nat

\* The states of a call that reads nothing.
LEMMA IdleTyped == Idle \in AnyCall /\ Done \in AnyCall /\ Idle.kind = "idle" /\ Done.kind = "done"
<1>1. NoRow \in AnyTopicRow
  BY DEF NoRow, AnyTopicRow
<1>2. Idle \in AnyCall
  BY <1>1 DEF Idle, AnyCall
<1>3. Done \in AnyCall /\ Done.kind = "done"
  BY <1>2 DEF Done, AnyCall
<1> QED
  BY <1>2, <1>3 DEF Idle

\* What a call reads of the topics it is going to write.
LEMMA ReadTyped ==
  ASSUME Typed, NEW written
  PROVE  Read(written) \in AnyCall
<1>1. NoRow \in AnyTopicRow
  BY DEF NoRow, AnyTopicRow
<1>2. [t \in Topics |-> IF t \in written THEN topic[t] ELSE NoRow] \in [Topics -> AnyTopicRow]
  BY <1>1 DEF Typed, TopicTyped
<1> QED
  BY <1>2, IdleTyped DEF Read, AnyCall, Typed

\* The moves of a choice are of its documents, to its targets, one of each.
LEMMA ChoiceMoves ==
  ASSUME NEW docs, NEW targets, NEW moves \in Choices(docs, targets)
  PROVE  /\ moves \subseteq docs \X targets
         /\ \A m, n \in moves : m[1] = n[1] => m = n
<1>1. PICK s \in SUBSET docs : moves \in {{<<d, f[d]>> : d \in s} : f \in [s -> targets]}
  BY DEF Choices
<1>2. PICK f \in [s -> targets] : moves = {<<d, f[d]>> : d \in s}
  BY <1>1
<1> QED
  BY <1>2

\* The document of a move, and the topic that a commit chooses for it.
LEMMA ChosenMove ==
  ASSUME NEW moves \in SUBSET (Docs \X Topics), NEW d \in Moved(moves)
  PROVE  LET m == CHOOSE m \in moves : m[1] = d IN
         m \in moves /\ m[1] = d /\ m[2] \in Topics /\ m[2] \in Gaining(moves) /\ d \in Docs
  BY DEF Moved, Gaining

\* A transaction that begins has read nothing that is not typed.
LEMMA BeginTyped ==
  ASSUME Typed, NEW c \in Calls, NEW read \in AnyCall, Begin(c, read)
  PROVE  Typed'
  BY DEF Typed, TopicTyped, AssignmentTyped, CallTyped, Begin, rows

\* What a pass makes of a topic.
LEMMA GrownTyped ==
  ASSUME Typed, NEW c \in Calls, NEW t \in Topics
  PROVE  /\ Grown(c, t) \in AnyTopicRow
         /\ t \in call[c].topics => Grown(c, t).status = "active"
         /\ t \notin call[c].topics => Grown(c, t).status = topic[t].status /\ Grown(c, t).into = topic[t].into
         /\ Grown(c, t).count = call[c].base[t].count + Cardinality(To(call[c].moves, t))
<1>1. call[c] \in AnyCall /\ topic[t] \in AnyTopicRow
  BY DEF Typed, CallTyped, TopicTyped
<1>2. call[c].base[t].count \in Nat /\ call[c].day \in Nat /\ call[c].moves \subseteq Docs \X Topics
  BY <1>1 DEF AnyCall, AnyTopicRow
<1>3. To(call[c].moves, t) \subseteq Docs
  BY <1>2 DEF To
<1>4. Cardinality(To(call[c].moves, t)) \in Nat
  BY <1>3, TopicsAssumption, FS_Subset, FS_CardinalityType
<1> DEFINE count == call[c].base[t].count + Cardinality(To(call[c].moves, t))
<1>5. count \in Nat
  BY <1>2, <1>4
<1>6. Column(c, t, "lastSeen", call[c].day) \in Nat
  BY <1>1, <1>2 DEF Column, AnyTopicRow
<1> HIDE DEF count
<1>7. CASE t \in call[c].topics
  <2>1. Grown(c, t) = [NoRow EXCEPT !.status = "active", !.count = count, !.lastSeen = call[c].day]
    BY <1>7 DEF Grown, count
  <2>2. Grown(c, t) = [status |-> "active", into |-> NoTopic, count |-> count,
                       lastSeen |-> call[c].day, pinned |-> FALSE]
    BY <2>1 DEF NoRow
  <2> QED
    BY <1>2, <1>5, <1>7, <2>2 DEF AnyTopicRow, count
<1>8. CASE t \notin call[c].topics
  <2>1. Grown(c, t) = [topic[t] EXCEPT !.count = count, !.lastSeen = Column(c, t, "lastSeen", call[c].day)]
    BY <1>8 DEF Grown, count
  <2> QED
    BY <1>1, <1>5, <1>6, <1>8, <2>1 DEF AnyTopicRow, count
<1> QED
  BY <1>7, <1>8

-----------------------------------------------------------------------------
(* What a step does to the topics, the assignments and the calls *)

UnderWay(c) == call[c].kind \in Kinds
Settled == {c \in Calls : call[c].kind \in {"discovered", "dormancy", "done"}}

\* A topic that becomes merged, or is merged into another one, is raced or
\* leaves no call under way; only the discovery that named a topic adds it.
TopicSteps ==
  /\ raced \subseteq raced'
  /\ \A t \in Topics :
       /\ topic'[t].status = "merged" /\ topic[t].status # "merged" =>
            t \in raced' \/ \A c \in Calls : ~UnderWay(c)'
       /\ topic'[t].into # topic[t].into =>
            topic[t].status = "none" \/ t \in raced' \/ \A c \in Calls : ~UnderWay(c)'
       /\ topic[t].status # "none" => topic'[t].status # "none"
       /\ topic[t].status = "none" /\ topic'[t].status # "none" =>
            \E c \in Calls : /\ call[c].kind = "discover" /\ t \in call[c].topics
                             /\ call'[c].kind # "discover"

\* A row becomes manual only as a new row of a reassignment.
RowSteps ==
  \A d \in Docs :
    \/ assignment'[d].by = assignment[d].by /\ assignment'[d].manual = assignment[d].manual
    \/ ~assignment'[d].manual
    \/ \E c \in Calls : assignment'[d].by = c /\ call[c].kind = "reassign"

\* Calls that have written stay so, and a discovery that begins names topics
\* that no call has named.
CallSteps ==
  /\ Settled \subseteq Settled'
  /\ \A c \in Calls : call'[c] # call[c] /\ call'[c].kind = "discover" =>
       \A t \in call'[c].topics : \A o \in Calls : t \notin call[o].topics

Steps == TopicSteps /\ RowSteps /\ CallSteps

-----------------------------------------------------------------------------
(* The invariant *)

\* The topics that a discovery has named are its own until it commits.
NamesAreNew(c) ==
  /\ call[c].kind = "assign" => call[c].topics = {}
  /\ call[c].kind = "discover" =>
       \A t \in call[c].topics :
         /\ topic[t].status = "none"
         /\ \A o \in Calls \ {c} : call[o].kind = "discover" => t \notin call[o].topics

SweepsRows(c) ==
  call[c].kind = "dormancy" => \A t \in call[c].topics : topic[t].status # "none"

\* A merge writes what it means to write, unless another one has been there.
MergeReads(c) ==
  call[c].kind = "merge" =>
    /\ call[c].from \in Topics /\ call[c].into \in Topics /\ call[c].from # call[c].into
    /\ topic[call[c].from].status # "none"
    /\ \/ call[c].from \in raced
       \/ topic[call[c].from].into = call[c].base[call[c].from].into

\* The topics that a call is going to write as topics that are not merged.
Gains(c) ==
  {t \in Topics : \/ call[c].kind \in {"assign", "discover", "refit"} /\ t \in Gaining(call[c].moves)
                  \/ call[c].kind = "merge" /\ t = call[c].into
                  \/ call[c].kind = "dormancy" /\ t \in call[c].topics}
GainsAreOpen(c) == \A t \in Gains(c) : topic[t].status # "merged" \/ t \in raced

\* The rows that a refit has read were there, and none of them was manual.
RefitReads(c) ==
  call[c].kind = "refit" =>
    \A d \in Docs :
      /\ call[c].rows[d] \in Settled \cup {NoCall}
      /\ d \in Moved(call[c].moves) /\ call[c].rows[d] = assignment[d].by => ~assignment[d].manual

Reads(c) ==
  NamesAreNew(c) /\ SweepsRows(c) /\ MergeReads(c) /\ GainsAreOpen(c) /\ RefitReads(c)

RowsAreSettled == \A d \in Docs : assignment[d].by \in Settled \cup {NoCall}

Inv ==
  /\ Typed
  /\ \A c \in Calls : Reads(c)
  /\ RowsAreSettled
  /\ MergedIsEmpty

\* Nothing has begun.
LEMMA Initially == Init => Inv
<1> SUFFICES ASSUME Init PROVE Inv
  OBVIOUS
<1>1. PICK old \in SUBSET Topics :
        topic = [t \in Topics |-> IF t \in old THEN [NoRow EXCEPT !.status = "active"] ELSE NoRow]
  BY DEF Init
<1>2. NoRow \in AnyTopicRow /\ [NoRow EXCEPT !.status = "active"] \in AnyTopicRow
      /\ [NoRow EXCEPT !.status = "active"].status = "active" /\ NoRow.status = "none"
  BY DEF NoRow, AnyTopicRow
<1>3. TopicTyped
  BY <1>1, <1>2 DEF TopicTyped
<1>4. AssignmentTyped
  BY DEF Init, AssignmentTyped
<1>5. CallTyped /\ \A c \in Calls : call[c].kind = "idle"
  BY IdleTyped DEF Init, CallTyped
<1>6. Typed
  BY <1>3, <1>4, <1>5 DEF Init, Typed
<1>7. \A c \in Calls : Reads(c)
  BY <1>5 DEF Reads, NamesAreNew, SweepsRows, MergeReads, GainsAreOpen, Gains, RefitReads
<1>8. \A d \in Docs : assignment[d] = NoAssignment
  BY DEF Init
<1>9. RowsAreSettled /\ MergedIsEmpty
  BY <1>8, TopicsAssumption DEF RowsAreSettled, MergedIsEmpty, NoAssignment
<1> QED
  BY <1>6, <1>7, <1>9 DEF Inv

\* What a call has read holds while other calls take steps.
LEMMA OthersRead ==
  ASSUME Inv, Steps, NEW c \in Calls, call'[c] = call[c]
  PROVE  Reads(c)'
<1> USE DEF Inv, Steps, Reads
<1>1. call[c] \in AnyCall /\ call'[c] \in AnyCall
  BY DEF Typed, CallTyped
<1>2. NamesAreNew(c)'
  <2> SUFFICES ASSUME call[c].kind = "discover", NEW t \in call[c].topics
               PROVE  /\ topic'[t].status = "none"
                      /\ \A o \in Calls \ {c} : call'[o].kind = "discover" => t \notin call'[o].topics
    BY DEF NamesAreNew
  <2>1. t \in Topics /\ topic[t].status = "none"
    BY <1>1 DEF NamesAreNew, AnyCall
  <2>2. \A o \in Calls \ {c} : call[o].kind = "discover" => t \notin call[o].topics
    BY DEF NamesAreNew
  <2>3. topic'[t].status = "none"
    BY <2>1, <2>2 DEF TopicSteps
  <2>4. \A o \in Calls \ {c} : call'[o].kind = "discover" => t \notin call'[o].topics
    BY <2>2 DEF CallSteps
  <2> QED
    BY <2>3, <2>4
<1>3. SweepsRows(c)'
  BY <1>1 DEF SweepsRows, TopicSteps, AnyCall
<1>4. UnderWay(c) => UnderWay(c)'
  BY DEF UnderWay
<1>5. MergeReads(c)'
  BY <1>4 DEF MergeReads, TopicSteps, UnderWay, Kinds
<1>6. GainsAreOpen(c)'
  BY <1>4 DEF GainsAreOpen, Gains, TopicSteps, UnderWay, Kinds
<1>7. RefitReads(c)'
  <2> SUFFICES ASSUME call[c].kind = "refit", NEW d \in Docs
               PROVE  /\ call[c].rows[d] \in Settled' \cup {NoCall}
                      /\ d \in Moved(call[c].moves) /\ call[c].rows[d] = assignment'[d].by
                           => ~assignment'[d].manual
    BY DEF RefitReads
  <2>1. call[c].rows[d] \in Settled \cup {NoCall}
    BY DEF RefitReads
  <2>2. \A o \in Calls : call[o].kind = "reassign" => call[c].rows[d] # o
    BY <2>1, TopicsAssumption DEF Settled
  <2> QED
    BY <2>1, <2>2 DEF RefitReads, RowSteps, CallSteps
<1> QED
  BY <1>2, <1>3, <1>5, <1>6, <1>7

\* A step of one call.
LEMMA ActorStep ==
  ASSUME Inv, Steps, Typed', RowsAreSettled', MergedIsEmpty',
         NEW c \in Calls, Reads(c)', \A o \in Calls \ {c} : call'[o] = call[o]
  PROVE  Inv'
<1>1. \A o \in Calls \ {c} : Reads(o)'
  BY OthersRead
<1> QED
  BY <1>1 DEF Inv

\* A step of no call.
LEMMA OutsideStep ==
  ASSUME Inv, Steps, Typed', RowsAreSettled', MergedIsEmpty', UNCHANGED call
  PROVE  Inv'
<1>1. \A o \in Calls : Reads(o)'
  BY OthersRead
<1> QED
  BY <1>1 DEF Inv

-----------------------------------------------------------------------------
(* Calls that begin *)

\* A call that begins writes nothing, so only what it has read is new.
LEMMA BeginInv ==
  ASSUME Inv, NEW c \in Calls, NEW read \in AnyCall, Begin(c, read), Reads(c)',
         read.kind = "discover" => \A t \in read.topics : \A o \in Calls : t \notin call[o].topics
  PROVE  Inv'
<1>1. call' = [call EXCEPT ![c] = read] /\ call[c].kind = "idle" /\ call \in [Calls -> AnyCall]
  BY IdleTyped DEF Begin, Inv, Typed, CallTyped
<1>2. UNCHANGED <<assignment, topic, raced>>
  BY DEF Begin, rows
<1>3. \A o \in Calls \ {c} : call'[o] = call[o]
  BY <1>1
<1>4. call'[c] = read
  BY <1>1
<1>5. Settled \subseteq Settled'
  BY <1>1, <1>3 DEF Settled
<1>6. CallSteps
  BY <1>3, <1>4, <1>5 DEF CallSteps
<1>7. RowSteps
  BY <1>2 DEF RowSteps
<1>8. TopicSteps
  BY <1>2 DEF TopicSteps
<1>9. RowsAreSettled'
  BY <1>2, <1>5 DEF RowsAreSettled, Inv
<1>10. MergedIsEmpty'
  BY <1>2 DEF MergedIsEmpty, Inv
<1>11. Typed'
  BY BeginTyped DEF Inv
<1> QED
  BY <1>3, <1>6, <1>7, <1>8, <1>9, <1>10, <1>11, ActorStep DEF Steps

\* What a call that has just begun reads holds, given what it has read.
LEMMA BegunReads ==
  ASSUME Inv, NEW c \in Calls, NEW read \in AnyCall, Begin(c, read),
         read.kind = "discover" => \A t \in read.topics :
           topic[t].status = "none" /\ \A o \in Calls : t \notin call[o].topics,
         read.kind \notin {"merge", "dormancy", "refit"},
         read.kind = "assign" => read.topics = {},
         read.kind \in {"assign", "discover"} =>
           \A t \in Gaining(read.moves) : topic[t].status # "merged"
  PROVE  Reads(c)'
<1>1. call'[c] = read /\ \A o \in Calls \ {c} : call'[o] = call[o]
  BY DEF Begin, Inv, Typed, CallTyped
<1>2. UNCHANGED <<assignment, topic, raced>>
  BY DEF Begin, rows
<1>3. NamesAreNew(c)'
  BY <1>1, <1>2 DEF NamesAreNew
<1>4. GainsAreOpen(c)'
  BY <1>1, <1>2 DEF GainsAreOpen, Gains
<1> QED
  BY <1>1, <1>3, <1>4 DEF Reads, SweepsRows, MergeReads, RefitReads

\* The begin actions, one by one: what each of them reads is so.
LEMMA EnrichBeginInv == ASSUME Inv, NEW c \in Calls, EnrichBegin(c) PROVE Inv'
<1> DEFINE read == [Idle EXCEPT !.kind = "enrich", !.docs = {d \in Docs : Exists(d)},
                                !.fresh = {d \in Docs : doc[d].state = "raw"}]
<1>1. Begin(c, read)
  BY DEF EnrichBegin
<1>2. read \in AnyCall /\ read.kind = "enrich"
  BY IdleTyped DEF AnyCall, Kinds
<1> HIDE DEF read
<1> QED
  BY <1>1, <1>2, BeginInv, BegunReads

LEMMA SkipDiscoveryInv == ASSUME Inv, NEW c \in Calls, SkipDiscovery(c) PROVE Inv'
<1> DEFINE read == [Idle EXCEPT !.kind = "discovered"]
<1>1. Begin(c, read)
  BY DEF SkipDiscovery
<1>2. read \in AnyCall /\ read.kind = "discovered"
  BY IdleTyped DEF AnyCall, Kinds
<1> HIDE DEF read
<1> QED
  BY <1>1, <1>2, BeginInv, BegunReads

LEMMA AssignBeginInv == ASSUME Inv, NEW c \in Calls, AssignBegin(c) PROVE Inv'
<1>1. PICK moves \in Choices(Pool, Active) :
        Begin(c, [Read(Gaining(moves)) EXCEPT !.kind = "assign", !.moves = moves])
  BY DEF AssignBegin
<1> DEFINE read == [Read(Gaining(moves)) EXCEPT !.kind = "assign", !.moves = moves]
<1>2. moves \subseteq Pool \X Active
  BY ChoiceMoves
<1>3. Gaining(moves) \subseteq Active /\ moves \subseteq Docs \X Topics
  BY <1>2 DEF Gaining, Pool, Active
<1>4. Read(Gaining(moves)) \in AnyCall
  BY ReadTyped DEF Inv
<1>5. read \in AnyCall /\ read.kind = "assign" /\ read.moves = moves /\ read.topics = {}
  BY <1>3, <1>4 DEF AnyCall, Kinds, Read, Idle
<1>6. Begin(c, read)
  BY <1>1
<1>7. \A t \in Gaining(moves) : topic[t].status # "merged"
  BY <1>3 DEF Active
<1> HIDE DEF read
<1> QED
  BY <1>5, <1>6, <1>7, BeginInv, BegunReads

LEMMA DiscoverBeginInv == ASSUME Inv, NEW c \in Calls, DiscoverBegin(c) PROVE Inv'
<1>1. PICK new \in SUBSET {t \in Topics : topic[t].status = "none" /\ \A o \in Calls : t \notin call[o].topics} :
        \E moves \in Choices(Pool, new \cup {t \in Active : ~topic[t].pinned}) :
          Begin(c, [Read(Gaining(moves)) EXCEPT !.kind = "discover", !.moves = moves, !.topics = new])
  BY DEF DiscoverBegin
<1>2. PICK moves \in Choices(Pool, new \cup {t \in Active : ~topic[t].pinned}) :
        Begin(c, [Read(Gaining(moves)) EXCEPT !.kind = "discover", !.moves = moves, !.topics = new])
  BY <1>1
<1> DEFINE read == [Read(Gaining(moves)) EXCEPT !.kind = "discover", !.moves = moves, !.topics = new]
<1>3. moves \subseteq Pool \X (new \cup {t \in Active : ~topic[t].pinned})
  BY ChoiceMoves
<1>4. Gaining(moves) \subseteq new \cup Active /\ moves \subseteq Docs \X Topics
  BY <1>3 DEF Gaining, Pool, Active
<1>5. Read(Gaining(moves)) \in AnyCall
  BY ReadTyped DEF Inv
<1>6. read \in AnyCall /\ read.kind = "discover" /\ read.moves = moves /\ read.topics = new
  BY <1>4, <1>5 DEF AnyCall, Kinds
<1>7. Begin(c, read)
  BY <1>2
<1>8. \A t \in Gaining(moves) : topic[t].status # "merged"
  BY <1>4 DEF Active
<1>9. \A t \in new : topic[t].status = "none" /\ \A o \in Calls : t \notin call[o].topics
  OBVIOUS
<1> HIDE DEF read
<1> QED
  BY <1>6, <1>7, <1>8, <1>9, BeginInv, BegunReads

\* The window of a refit holds assignments that are not manual, so none of
\* its targets is a merged topic unless the merge was raced.
LEMMA RefitBeginInv == ASSUME Inv, NEW c \in Calls, RefitBegin(c) PROVE Inv'
<1> DEFINE window == {d \in Docs : Assigned(d) /\ ~assignment[d].manual}
           moved(moves) == {m \in moves : m[2] # assignment[m[1]].topic}
           left(moves) == {assignment[m[1]].topic : m \in {n \in moves : n[2] # assignment[n[1]].topic}}
           found == [d \in Docs |-> assignment[d].by]
           read(moves) == [Idle EXCEPT !.kind = "refit", !.docs = window, !.moves = moved(moves),
                                       !.topics = left(moves), !.rows = found]
<1>1. PICK moves \in Choices(window, {assignment[d].topic : d \in window}) : Begin(c, read(moves))
  BY DEF RefitBegin, RefitOf
<1>2. \A d \in window : assignment[d].topic \in Topics /\ ~assignment[d].manual
  BY DEF Inv, Typed, AssignmentTyped, Assigned, NoAssignment
<1>3. moves \subseteq window \X {assignment[d].topic : d \in window}
  BY ChoiceMoves
<1> DEFINE targets == {assignment[d].topic : d \in window}
<1>4. targets \subseteq Topics
  BY <1>2
<1>5. window \subseteq Docs
  OBVIOUS
<1>6. \A t \in targets : topic[t].status # "merged" \/ t \in raced
  BY <1>2, <1>4 DEF Inv, MergedIsEmpty
<1>7. \A d \in window : assignment[d].topic \in Topics
  BY <1>2
<1> HIDE DEF window, targets
<1>8. moves \subseteq Docs \X Topics /\ \A m \in moves : m[1] \in window /\ m[2] \in targets
  BY <1>3, <1>4, <1>5 DEF targets
<1>9. moved(moves) \subseteq Docs \X Topics /\ left(moves) \subseteq Topics
  BY <1>7, <1>8
<1>10. found \in [Docs -> Calls \cup {NoCall}]
  BY DEF Inv, Typed, AssignmentTyped, NoAssignment
<1>11. /\ read(moves) \in AnyCall /\ read(moves).kind = "refit"
       /\ read(moves).moves = moved(moves) /\ read(moves).rows = found
  BY <1>5, <1>9, <1>10, IdleTyped DEF AnyCall, Kinds
<1>12. \A t \in Gaining(moved(moves)) : topic[t].status # "merged" \/ t \in raced
  BY <1>6, <1>8 DEF Gaining
<1>13. \A d \in Moved(moved(moves)) : ~assignment[d].manual
  BY <1>2, <1>8 DEF Moved
<1> DEFINE r == read(moves)
           mv == moved(moves)
<1>14. /\ Begin(c, r) /\ r \in AnyCall /\ r.kind = "refit" /\ r.moves = mv /\ r.rows = found
       /\ \A t \in Gaining(mv) : topic[t].status # "merged" \/ t \in raced
       /\ \A d \in Moved(mv) : ~assignment[d].manual
  BY <1>1, <1>11, <1>12, <1>13
<1> HIDE DEF r, mv
<1>15. call'[c] = r /\ call' = [call EXCEPT ![c] = r] /\ call[c].kind = "idle"
  BY <1>14, IdleTyped DEF Begin, Inv, Typed, CallTyped
<1>16. UNCHANGED <<assignment, topic, raced>>
  BY <1>14 DEF Begin, rows
<1>17. GainsAreOpen(c)'
  BY <1>14, <1>15, <1>16 DEF GainsAreOpen, Gains
<1>18. Settled \subseteq Settled'
  BY <1>15 DEF Settled, Inv, Typed, CallTyped
<1>19. RefitReads(c)'
  BY <1>14, <1>15, <1>16, <1>18 DEF RefitReads, RowsAreSettled, Inv
<1>20. Reads(c)'
  BY <1>14, <1>15, <1>17, <1>19 DEF Reads, NamesAreNew, SweepsRows, MergeReads
<1> QED
  BY <1>14, <1>20, BeginInv

\* A merge reads a target that is active.
LEMMA MergeBeginInv == ASSUME Inv, NEW c \in Calls, MergeBegin(c) PROVE Inv'
<1>1. PICK from \in {t \in Topics : topic[t].status # "none"}, into \in Active :
        /\ from # into
        /\ Begin(c, [Read({from}) EXCEPT !.kind = "merge", !.from = from, !.into = into])
  BY DEF MergeBegin
<1> DEFINE read == [Read({from}) EXCEPT !.kind = "merge", !.from = from, !.into = into]
<1>2. Read({from}) \in AnyCall /\ Read({from}).base[from] = topic[from]
  BY ReadTyped DEF Inv, Read, Idle
<1>3. /\ read \in AnyCall /\ read.kind = "merge" /\ read.from = from /\ read.into = into
      /\ read.base[from] = topic[from]
  BY <1>2 DEF AnyCall, Kinds, Active
<1>4. Begin(c, read)
  BY <1>1
<1> HIDE DEF read
<1>5. call'[c] = read
  BY <1>4 DEF Begin, Inv, Typed, CallTyped
<1>6. UNCHANGED <<topic, raced>>
  BY <1>4 DEF Begin, rows
<1>7. MergeReads(c)'
  BY <1>1, <1>3, <1>5, <1>6 DEF MergeReads, Active
<1>8. GainsAreOpen(c)'
  BY <1>1, <1>3, <1>5, <1>6 DEF GainsAreOpen, Gains, Active
<1>9. Reads(c)'
  BY <1>3, <1>5, <1>7, <1>8 DEF Reads, NamesAreNew, SweepsRows, RefitReads
<1> QED
  BY <1>3, <1>4, <1>9, BeginInv

LEMMA ReassignBeginInv == ASSUME Inv, NEW c \in Calls, ReassignBegin(c) PROVE Inv'
<1> DEFINE found == [x \in Docs |-> assignment[x].by]
<1>1. PICK d \in Docs, t \in {u \in Topics : topic[u].status # "none"} :
        Begin(c, [Read({t}) EXCEPT !.kind = "reassign", !.moves = {<<d, t>>}, !.rows = found])
  BY DEF ReassignBegin
<1> DEFINE read == [Read({t}) EXCEPT !.kind = "reassign", !.moves = {<<d, t>>}, !.rows = found]
<1>2. found \in [Docs -> Calls \cup {NoCall}]
  BY DEF Inv, Typed, AssignmentTyped, NoAssignment
<1>3. Read({t}) \in AnyCall
  BY ReadTyped DEF Inv
<1>4. {<<d, t>>} \subseteq Docs \X Topics
  OBVIOUS
<1> HIDE DEF found
<1>5. read \in AnyCall /\ read.kind = "reassign"
  BY <1>2, <1>3, <1>4 DEF AnyCall, Kinds
<1>6. Begin(c, read)
  BY <1>1
<1> HIDE DEF read
<1> QED
  BY <1>5, <1>6, BeginInv, BegunReads

\* The sweep that follows a discovery reads topics that are active.
LEMMA DormancyBeginInv == ASSUME Inv, NEW c \in Calls, DormancyBegin(c) PROVE Inv'
<1> DEFINE silent == {t \in Active : Silent(t)}
           read == [Idle EXCEPT !.kind = "dormancy", !.topics = silent]
<1>1. call[c].kind = "discovered" /\ call' = [call EXCEPT ![c] = read] /\ UNCHANGED rows
  BY DEF DormancyBegin, Sweep
<1>2. silent \subseteq Active /\ silent \subseteq Topics
  BY DEF Active
<1> HIDE DEF silent
<1>3. read \in AnyCall /\ read.kind = "dormancy" /\ read.topics = silent
  BY <1>2, IdleTyped DEF AnyCall, Kinds
<1> HIDE DEF read
<1>4. CallTyped' /\ call'[c] = read /\ \A o \in Calls \ {c} : call'[o] = call[o]
  BY <1>1, <1>3 DEF Inv, Typed, CallTyped
<1>5. UNCHANGED <<assignment, topic, raced, today>>
  BY <1>1 DEF rows
<1>6. Settled \subseteq Settled'
  BY <1>3, <1>4 DEF Settled
<1>7. Steps
  BY <1>3, <1>4, <1>5, <1>6 DEF Steps, TopicSteps, RowSteps, CallSteps
<1>8. Typed'
  BY <1>4, <1>5 DEF Inv, Typed, TopicTyped, AssignmentTyped
<1>9. RowsAreSettled' /\ MergedIsEmpty'
  BY <1>5, <1>6 DEF Inv, RowsAreSettled, MergedIsEmpty
<1>10. GainsAreOpen(c)' /\ SweepsRows(c)'
  BY <1>2, <1>3, <1>4, <1>5 DEF GainsAreOpen, Gains, SweepsRows, Active
<1>11. Reads(c)'
  BY <1>3, <1>4, <1>10 DEF Reads, NamesAreNew, MergeReads, RefitReads
<1> QED
  BY <1>4, <1>7, <1>8, <1>9, <1>11, ActorStep

-----------------------------------------------------------------------------
(* Calls that commit *)

\* A call that has committed is settled and remembers nothing.
LEMMA Committed ==
  ASSUME Inv, NEW c \in Calls, End(c) \/ EndPass(c)
  PROVE  /\ CallTyped' /\ CallSteps /\ Reads(c)' /\ c \in Settled' /\ ~(call'[c].kind = "discover")
         /\ \A o \in Calls \ {c} : call'[o] = call[o]
<1> DEFINE gone == [Idle EXCEPT !.kind = "discovered"]
<1>1. gone \in AnyCall /\ gone.kind = "discovered"
  BY IdleTyped DEF AnyCall, Kinds
<1> HIDE DEF gone
<1>2. PICK x \in {gone, Done} : call' = [call EXCEPT ![c] = x]
  BY DEF End, EndPass, gone
<1>3. x \in AnyCall /\ x.kind \in {"discovered", "done"}
  BY <1>1, IdleTyped
<1>4. CallTyped' /\ call'[c] = x /\ \A o \in Calls \ {c} : call'[o] = call[o]
  BY <1>2, <1>3 DEF Inv, Typed, CallTyped
<1>5. c \in Settled' /\ Settled \subseteq Settled'
  BY <1>3, <1>4 DEF Settled
<1>6. CallSteps
  BY <1>3, <1>4, <1>5 DEF CallSteps
<1>7. Reads(c)'
  BY <1>3, <1>4 DEF Reads, NamesAreNew, SweepsRows, MergeReads, GainsAreOpen, Gains, RefitReads
<1> QED
  BY <1>3, <1>4, <1>5, <1>6, <1>7

\* The call has written its rows: the rest is as for any step of a call.
LEMMA CommitInv ==
  ASSUME Inv, NEW c \in Calls, End(c) \/ EndPass(c), TopicSteps, RowSteps, UNCHANGED today,
         TopicTyped', AssignmentTyped', MergedIsEmpty',
         \A d \in Docs : assignment'[d].by \in {assignment[d].by, c, NoCall}
  PROVE  Inv'
<1>1. /\ CallTyped' /\ CallSteps /\ Reads(c)' /\ c \in Settled'
      /\ \A o \in Calls \ {c} : call'[o] = call[o]
  BY Committed
<1>2. Typed'
  BY <1>1 DEF Inv, Typed
<1>3. RowsAreSettled'
  BY <1>1 DEF Inv, RowsAreSettled, CallSteps
<1> QED
  BY <1>1, <1>2, <1>3, ActorStep DEF Steps

\* A pass inserts rows that are not manual into topics that are not merged,
\* and its new topics are still new.
LEMMA PassCommitInv == ASSUME Inv, NEW c \in Calls, PassCommit(c) PROVE Inv'
<1> DEFINE moves == call[c].moves
           new == [d \in Docs |-> [topic |-> (CHOOSE m \in moves : m[1] = d)[2], manual |-> FALSE, by |-> c]]
<1>1. /\ call[c].kind \in {"assign", "discover"}
      /\ \A d \in Moved(moves) : ~Assigned(d)
      /\ assignment' = [d \in Docs |-> IF d \in Moved(moves) THEN new[d] ELSE assignment[d]]
      /\ topic' = [t \in Topics |-> IF To(moves, t) = {} THEN topic[t] ELSE Grown(c, t)]
      /\ EndPass(c) /\ UNCHANGED <<today, raced>>
  BY DEF PassCommit, InsertAssignments
<1>2. call[c] \in AnyCall /\ moves \in SUBSET (Docs \X Topics)
  BY DEF Inv, Typed, CallTyped, AnyCall
<1>3. \A d \in Moved(moves) : d \in Docs /\ new[d].topic \in Topics /\ new[d].topic \in Gaining(moves)
  BY <1>2, ChosenMove
<1>4. \A d \in Docs : ~new[d].manual /\ new[d].by = c
  OBVIOUS
<1>5. \A d \in Moved(moves) : new[d] \in [topic : Topics, manual : BOOLEAN, by : Calls]
  BY <1>3
<1> HIDE DEF new, moves
<1>6. AssignmentTyped'
  BY <1>1, <1>5 DEF Inv, Typed, AssignmentTyped
<1>7. \A t \in Topics :
        /\ topic'[t] \in AnyTopicRow
        /\ t \notin call[c].topics => topic'[t].status = topic[t].status /\ topic'[t].into = topic[t].into
        /\ topic'[t] = topic[t] \/ t \notin call[c].topics \/ topic'[t].status = "active"
  BY <1>1, GrownTyped DEF Inv, Typed, TopicTyped
<1>8. TopicTyped'
  BY <1>1, <1>7 DEF TopicTyped
<1>9. call[c].kind = "discover" => \A t \in call[c].topics : topic[t].status = "none"
  BY DEF Inv, Reads, NamesAreNew
<1>10. call[c].kind = "assign" => call[c].topics = {}
  BY DEF Inv, Reads, NamesAreNew
<1>11. \A t \in Topics : topic[t].status = topic'[t].status \/ t \in call[c].topics
  BY <1>7
<1>12. call'[c].kind # "discover"
  BY <1>1, Committed
<1>13. TopicSteps
  BY <1>1, <1>7, <1>9, <1>10, <1>11, <1>12 DEF TopicSteps
<1>13a. \A d \in Docs : assignment'[d] = assignment[d] \/ (d \in Moved(moves) /\ assignment'[d] = new[d])
  BY <1>1
<1>14. \A d \in Docs : assignment'[d] = assignment[d] \/ (~assignment'[d].manual /\ assignment'[d].by = c)
  BY <1>4, <1>13a
<1>15. RowSteps
  BY <1>14 DEF RowSteps
<1>16. \A t \in Gaining(moves) : topic[t].status # "merged" \/ t \in raced
  BY <1>1, <1>2 DEF Inv, Reads, GainsAreOpen, Gains, Gaining, moves
<1>17. \A t \in Topics : topic'[t].status = "merged" => topic[t].status = "merged"
  BY <1>7
<1>18. \A d \in Docs : assignment'[d] = assignment[d]
                     \/ (~assignment'[d].manual /\ assignment'[d].topic \in Gaining(moves))
  BY <1>3, <1>4, <1>13a
<1>19. MergedIsEmpty'
  BY <1>1, <1>16, <1>17, <1>18 DEF Inv, MergedIsEmpty
<1> QED
  BY <1>1, <1>6, <1>8, <1>13, <1>14, <1>15, <1>19, CommitInv

\* The sweep writes the status of topics that have a row.
LEMMA DormancyCommitInv == ASSUME Inv, NEW c \in Calls, DormancyCommit(c) PROVE Inv'
<1>1. /\ call[c].kind = "dormancy"
      /\ topic' = [t \in Topics |->
                     IF t \in call[c].topics THEN [topic[t] EXCEPT !.status = "dormant"] ELSE topic[t]]
      /\ End(c) /\ UNCHANGED <<assignment, today, raced>>
  BY DEF DormancyCommit
<1>2. \A t \in Topics :
        /\ topic'[t] \in AnyTopicRow /\ topic'[t].into = topic[t].into
        /\ topic'[t].status = topic[t].status \/ (t \in call[c].topics /\ topic'[t].status = "dormant")
  <2> TAKE t \in Topics
  <2>1. topic[t] \in AnyTopicRow
    BY DEF Inv, Typed, TopicTyped
  <2>2. topic'[t] \in {topic[t], [topic[t] EXCEPT !.status = "dormant"]}
        /\ (topic'[t] = topic[t] \/ t \in call[c].topics)
    BY <1>1
  <2> QED
    <3>1. CASE topic'[t] = topic[t]
      BY <2>1, <3>1
    <3>2. CASE topic'[t] = [topic[t] EXCEPT !.status = "dormant"] /\ t \in call[c].topics
      BY <2>1, <3>2 DEF AnyTopicRow
    <3> QED
      BY <2>2, <3>1, <3>2
<1>3. TopicTyped'
  BY <1>1, <1>2 DEF TopicTyped
<1>4. AssignmentTyped'
  BY <1>1 DEF Inv, Typed, AssignmentTyped
<1>5. \A t \in call[c].topics : topic[t].status # "none"
  BY <1>1 DEF Inv, Reads, SweepsRows
<1>6. TopicSteps
  BY <1>1, <1>2, <1>5 DEF TopicSteps
<1>7. RowSteps
  BY <1>1 DEF RowSteps
<1>8. MergedIsEmpty'
  BY <1>1, <1>2 DEF Inv, MergedIsEmpty
<1> QED
  BY <1>1, <1>3, <1>4, <1>6, <1>7, <1>8, CommitInv

\* A refit moves rows to topics that are not merged, unless raced.
LEMMA RefitCommitInv == ASSUME Inv, NEW c \in Calls, RefitCommit(c) PROVE Inv'
<1> DEFINE moves == call[c].moves
           target == [d \in Docs |-> (CHOOSE m \in moves : m[1] = d)[2]]
<1>1. /\ call[c].kind = "refit"
      /\ assignment' = [d \in Docs |-> IF Assigned(d) /\ d \in Moved(moves)
                                       THEN [assignment[d] EXCEPT !.topic = target[d]]
                                       ELSE assignment[d]]
      /\ End(c) /\ UNCHANGED <<topic, today, raced>>
  BY DEF RefitCommit
<1>2. call[c] \in AnyCall /\ moves \in SUBSET (Docs \X Topics)
  BY DEF Inv, Typed, CallTyped, AnyCall
<1>3. \A d \in Moved(moves) : target[d] \in Topics /\ target[d] \in Gaining(moves)
  BY <1>2, ChosenMove
<1>4. \A t \in Gaining(moves) : topic[t].status # "merged" \/ t \in raced
  BY <1>1, <1>2 DEF Inv, Reads, GainsAreOpen, Gains, Gaining
<1> HIDE DEF target, moves
<1>5. \A d \in Docs : Assigned(d) => assignment[d] \in [topic : Topics, manual : BOOLEAN, by : Calls]
  BY DEF Inv, Typed, AssignmentTyped, Assigned
<1>6. \A d \in Docs :
        \/ assignment'[d] = assignment[d]
        \/ /\ assignment'[d] \in [topic : Topics, manual : BOOLEAN, by : Calls]
           /\ assignment'[d].manual = assignment[d].manual /\ assignment'[d].by = assignment[d].by
           /\ assignment'[d].topic \in Gaining(moves)
  BY <1>1, <1>3, <1>5
<1>7. AssignmentTyped'
  BY <1>1, <1>6 DEF Inv, Typed, AssignmentTyped
<1>8. TopicTyped' /\ TopicSteps
  BY <1>1 DEF Inv, Typed, TopicTyped, TopicSteps
<1>9. RowSteps
  BY <1>6 DEF RowSteps
<1>10. MergedIsEmpty'
  BY <1>1, <1>4, <1>6 DEF Inv, MergedIsEmpty
<1>11. \A d \in Docs : assignment'[d].by \in {assignment[d].by, c, NoCall}
  BY <1>6
<1> QED
  BY <1>1, <1>7, <1>8, <1>9, <1>10, <1>11, CommitInv

\* A merge empties its topic into one that is not merged, unless raced.
LEMMA MergeCommitInv == ASSUME Inv, NEW c \in Calls, MergeCommit(c) PROVE Inv'
<1> DEFINE from == call[c].from
           into == call[c].into
<1>1. /\ call[c].kind = "merge"
      /\ assignment' = [d \in Docs |-> IF assignment[d].topic = from
                                       THEN [assignment[d] EXCEPT !.topic = into] ELSE assignment[d]]
      /\ topic' = [topic EXCEPT ![from].status = Column(c, from, "status", "merged"),
                                ![from].into = Column(c, from, "into", into)]
      /\ raced' = IF \E o \in Calls \ {c} : call[o].kind \in Kinds THEN raced \cup {from} ELSE raced
      /\ End(c) /\ UNCHANGED today
  BY DEF MergeCommit
<1>2. from \in Topics /\ into \in Topics /\ from # into /\ topic[from].status # "none"
  BY <1>1 DEF Inv, Reads, MergeReads
<1>3. topic[into].status # "merged" \/ into \in raced
  BY <1>1, <1>2 DEF Inv, Reads, GainsAreOpen, Gains
<1> HIDE DEF from, into
<1>4. /\ Column(c, from, "status", "merged") \in {"merged", topic[from].status}
      /\ Column(c, from, "into", into) \in {into, topic[from].into}
  BY DEF Column
<1>5. topic[from] \in AnyTopicRow
  BY <1>2 DEF Inv, Typed, TopicTyped
<1>6. \A t \in Topics :
        /\ t # from => topic'[t] = topic[t]
        /\ topic'[t] \in AnyTopicRow
        /\ topic'[t].status # "none" \/ topic[t].status = "none"
  BY <1>1, <1>2, <1>4, <1>5 DEF Inv, Typed, TopicTyped, AnyTopicRow
<1>7. TopicTyped'
  BY <1>1, <1>2, <1>4, <1>5 DEF Inv, Typed, TopicTyped, AnyTopicRow
<1>8. /\ call'[c].kind \notin Kinds \/ call'[c].kind = "done"
      /\ \A o \in Calls \ {c} : call'[o] = call[o]
  BY <1>1, IdleTyped DEF End, Inv, Typed, CallTyped
<1>9. from \in raced' \/ \A o \in Calls : ~UnderWay(o)'
  BY <1>1, <1>8 DEF UnderWay, Kinds
<1>10. TopicSteps
  BY <1>1, <1>2, <1>6, <1>9 DEF TopicSteps
<1>11. \A d \in Docs : assignment[d].topic = from =>
        /\ assignment[d] \in [topic : Topics, manual : BOOLEAN, by : Calls]
        /\ assignment'[d] = [assignment[d] EXCEPT !.topic = into]
  BY <1>1, <1>2, TopicsAssumption DEF Inv, Typed, AssignmentTyped, NoAssignment
<1>12. \A d \in Docs :
        \/ assignment'[d] = assignment[d] /\ assignment[d].topic # from
        \/ /\ assignment'[d] \in [topic : Topics, manual : BOOLEAN, by : Calls]
           /\ assignment'[d].manual = assignment[d].manual /\ assignment'[d].by = assignment[d].by
           /\ assignment'[d].topic = into
  BY <1>1, <1>2, <1>11
<1>13. AssignmentTyped'
  BY <1>1, <1>12 DEF Inv, Typed, AssignmentTyped
<1>14. RowSteps
  BY <1>12 DEF RowSteps
<1>15. MergedIsEmpty'
  BY <1>1, <1>2, <1>3, <1>6, <1>12 DEF Inv, MergedIsEmpty
<1>16. \A d \in Docs : assignment'[d].by \in {assignment[d].by, c, NoCall}
  BY <1>12
<1> QED
  BY <1>1, <1>7, <1>10, <1>13, <1>14, <1>15, <1>16, CommitInv

\* A reassignment replaces the row of a document by a manual one of its own.
LEMMA ReassignCommitInv == ASSUME Inv, NEW c \in Calls, ReassignCommit(c) PROVE Inv'
<1>1. PICK m \in call[c].moves :
        /\ assignment' = [assignment EXCEPT ![m[1]] = [topic |-> m[2], manual |-> TRUE, by |-> c]]
        /\ topic' = [topic EXCEPT ![m[2]].lastSeen = Column(c, m[2], "lastSeen", call[c].day)]
  BY DEF ReassignCommit
<1>2. call[c].kind = "reassign" /\ End(c) /\ UNCHANGED <<today, raced>>
  BY DEF ReassignCommit
<1>3. call[c] \in AnyCall
  BY DEF Inv, Typed, CallTyped
<1>4. m[1] \in Docs /\ m[2] \in Topics /\ call[c].day \in Nat
  BY <1>3 DEF AnyCall
<1>5. topic[m[2]] \in AnyTopicRow /\ Column(c, m[2], "lastSeen", call[c].day) \in Nat
  BY <1>4 DEF Inv, Typed, TopicTyped, AnyTopicRow, Column
<1>6. TopicTyped' /\ \A t \in Topics : topic'[t].status = topic[t].status /\ topic'[t].into = topic[t].into
  BY <1>1, <1>4, <1>5 DEF Inv, Typed, TopicTyped, AnyTopicRow
<1>7. TopicSteps
  BY <1>2, <1>6 DEF TopicSteps
<1>8. \A d \in Docs : assignment'[d] = assignment[d] \/ (assignment'[d].manual /\ assignment'[d].by = c)
  <2>1. \A d \in Docs : d # m[1] => assignment'[d] = assignment[d]
    BY <1>1, <1>4 DEF Inv, Typed, AssignmentTyped
  <2>2. assignment'[m[1]] = [topic |-> m[2], manual |-> TRUE, by |-> c]
    BY <1>1, <1>4 DEF Inv, Typed, AssignmentTyped
  <2> QED
    BY <2>1, <2>2
<1>9. AssignmentTyped'
  BY <1>1, <1>4 DEF Inv, Typed, AssignmentTyped
<1>10. RowSteps
  BY <1>2, <1>8 DEF RowSteps
<1>11. MergedIsEmpty'
  BY <1>2, <1>6, <1>8 DEF Inv, MergedIsEmpty
<1> QED
  BY <1>2, <1>6, <1>7, <1>8, <1>9, <1>10, <1>11, CommitInv

\* A call that ends without a write to topics or assignments.
LEMMA QuietEndInv ==
  ASSUME Inv, NEW c \in Calls, End(c), UNCHANGED <<assignment, topic, today, raced>>
  PROVE  Inv'
<1>1. TopicTyped' /\ AssignmentTyped' /\ MergedIsEmpty'
  BY DEF Inv, Typed, TopicTyped, AssignmentTyped, MergedIsEmpty
<1>2. TopicSteps /\ RowSteps
  BY DEF TopicSteps, RowSteps
<1> QED
  BY <1>1, <1>2, CommitInv

-----------------------------------------------------------------------------
(* Steps of no call *)

\* A pin leaves status and target of the topic.
LEMMA PinInv == ASSUME Inv, NEW t \in Topics, Pin(t) PROVE Inv'
<1>1. topic' = [topic EXCEPT ![t].pinned = ~@] /\ UNCHANGED <<assignment, call, today, raced>>
  BY DEF Pin
<1>2. topic' = [topic EXCEPT ![t] = [topic[t] EXCEPT !.pinned = ~topic[t].pinned]]
  BY <1>1
<1>3. topic[t] \in AnyTopicRow
  BY DEF Inv, Typed, TopicTyped
<1>4. TopicTyped' /\ \A u \in Topics : topic'[u].status = topic[u].status /\ topic'[u].into = topic[u].into
  BY <1>2, <1>3 DEF Inv, Typed, TopicTyped, AnyTopicRow
<1>5. Steps
  BY <1>1, <1>4 DEF Steps, TopicSteps, RowSteps, CallSteps, Settled
<1>6. Typed' /\ RowsAreSettled' /\ MergedIsEmpty'
  BY <1>1, <1>4 DEF Inv, Typed, CallTyped, AssignmentTyped, RowsAreSettled, MergedIsEmpty, Settled
<1> QED
  BY <1>1, <1>5, <1>6, OutsideStep

\* Retention deletes rows.
LEMMA RetainInv == ASSUME Inv, Retain PROVE Inv'
<1>1. /\ assignment' = [d \in Docs |-> IF d \in Expired THEN NoAssignment ELSE assignment[d]]
      /\ UNCHANGED <<topic, call, today, raced>>
  BY DEF Retain
<1>2. \A d \in Docs : assignment'[d] \in {NoAssignment, assignment[d]}
  BY <1>1
<1>3. AssignmentTyped'
  BY <1>1 DEF Inv, Typed, AssignmentTyped
<1>4. NoAssignment.by = NoCall /\ NoAssignment.manual = FALSE /\ NoAssignment.topic = NoTopic
  BY DEF NoAssignment
<1>5. Steps
  BY <1>1, <1>2, <1>4 DEF Steps, TopicSteps, RowSteps, CallSteps, Settled
<1>6. RowsAreSettled' /\ MergedIsEmpty'
  BY <1>1, <1>2, <1>4, TopicsAssumption DEF Inv, RowsAreSettled, MergedIsEmpty, Settled
<1>7. Typed'
  BY <1>1, <1>3 DEF Inv, Typed, CallTyped, TopicTyped
<1> QED
  BY <1>1, <1>5, <1>6, <1>7, OutsideStep

\* Topics, assignments and calls are left alone.
LEMMA ElsewhereInv ==
  ASSUME Inv, UNCHANGED <<assignment, topic, call, raced>>, today' \in Nat
  PROVE  Inv'
<1>1. Steps
  BY DEF Steps, TopicSteps, RowSteps, CallSteps, Settled
<1>2. Typed' /\ RowsAreSettled' /\ MergedIsEmpty'
  BY DEF Inv, Typed, CallTyped, TopicTyped, AssignmentTyped, RowsAreSettled, MergedIsEmpty, Settled
<1> QED
  BY <1>1, <1>2, OutsideStep
-----------------------------------------------------------------------------
(* The theorems *)

\* One step for each action of Next.
LEMMA StepInv == Inv /\ [Next]_vars => Inv'
<1> SUFFICES ASSUME Inv, [Next]_vars PROVE Inv'
  OBVIOUS
<1>1. ASSUME NEW c \in Calls, Automated(c) PROVE Inv'
  <2>1. CASE EnrichBegin(c)
    BY <2>1, EnrichBeginInv
  <2>2. CASE EnrichCommit(c)
    BY <2>2, QuietEndInv DEF EnrichCommit
  <2>3. CASE AssignBegin(c)
    BY <2>3, AssignBeginInv
  <2>4. CASE DiscoverBegin(c)
    BY <2>4, DiscoverBeginInv
  <2>5. CASE PassCommit(c)
    BY <2>5, PassCommitInv
  <2>6. CASE SkipDiscovery(c)
    BY <2>6, SkipDiscoveryInv
  <2>7. CASE DormancyBegin(c)
    BY <2>7, DormancyBeginInv
  <2>8. CASE DormancyCommit(c)
    BY <2>8, DormancyCommitInv
  <2>9. CASE RefitBegin(c)
    BY <2>9, RefitBeginInv
  <2>10. CASE RefitCommit(c)
    BY <2>10, RefitCommitInv
  <2> QED
    BY <1>1, <2>1, <2>2, <2>3, <2>4, <2>5, <2>6, <2>7, <2>8, <2>9, <2>10 DEF Automated
<1>2. ASSUME NEW c \in Calls, User(c) PROVE Inv'
  BY <1>2, MergeBeginInv, MergeCommitInv, ReassignBeginInv, ReassignCommitInv DEF User
<1>3. ASSUME NEW c \in Calls, Abort(c) PROVE Inv'
  BY <1>3, QuietEndInv DEF Abort, rows
<1>4. ASSUME NEW d \in Docs, Collect(d) PROVE Inv'
  BY <1>4, ElsewhereInv DEF Collect, Inv, Typed
<1>5. ASSUME NEW t \in Topics, Pin(t) PROVE Inv'
  BY <1>5, PinInv
<1>6. CASE Retain
  BY <1>6, RetainInv
<1>7. CASE NextDay
  BY <1>7, ElsewhereInv DEF NextDay, Inv, Typed
<1>8. CASE UNCHANGED vars
  BY <1>8, ElsewhereInv DEF vars, Inv, Typed
<1> QED
  BY <1>1, <1>2, <1>3, <1>4, <1>5, <1>6, <1>7, <1>8 DEF Next

\* Inv is an invariant.
LEMMA Invariant == Spec => []Inv
<1> QED
  BY Initially, StepInv, PTL DEF Spec

\* A merge leaves no document behind, and no automated pass brings one back,
\* apart from the calls that were under way when it was committed
\* (application/topics.py, tasks/topics.py, pipeline/topics/refit.py).
THEOREM MergedTopicsStayEmpty == Spec => []MergedIsEmpty
<1>1. Inv => MergedIsEmpty
  BY DEF Inv
<1> QED
  BY <1>1, Invariant, PTL

\* How a step changes what the topics were merged into.
LEMMA MergeTargets ==
  ASSUME Inv, [Next]_vars, NEW t \in Topics, t \notin raced', topic'[t].status = "merged",
         topic'[t].status # topic[t].status \/ topic'[t].into # topic[t].into
  PROVE  topic'[t].into \in Topics /\
         (topic'[topic'[t].into].status # "merged" \/ topic'[t].into \in raced')
<1>1. PICK c \in Calls : MergeCommit(c) /\ t = call[c].from
  <2>1. CASE UNCHANGED topic
    BY <2>1
  <2>2. CASE \E c \in Calls : PassCommit(c)
    <3>1. PICK c \in Calls : PassCommit(c)
      BY <2>2
    <3>2. topic'[t] = topic[t] \/ topic'[t] = Grown(c, t)
      BY <3>1 DEF PassCommit, InsertAssignments
    <3> QED
      BY <3>2, GrownTyped DEF Inv
  <2>3. CASE \E c \in Calls : DormancyCommit(c)
    <3>1. PICK c \in Calls : DormancyCommit(c)
      BY <2>3
    <3>2. topic'[t] = topic[t] \/ topic'[t] = [topic[t] EXCEPT !.status = "dormant"]
      BY <3>1 DEF DormancyCommit
    <3> QED
      BY <3>2 DEF Inv, Typed, TopicTyped, AnyTopicRow
  <2>4. CASE \E c \in Calls : ReassignCommit(c)
    <3>1. PICK c \in Calls : ReassignCommit(c)
      BY <2>4
    <3>2. PICK m \in call[c].moves :
            topic' = [topic EXCEPT ![m[2]].lastSeen = Column(c, m[2], "lastSeen", call[c].day)]
      BY <3>1 DEF ReassignCommit
    <3> QED
      BY <3>2 DEF Inv, Typed, TopicTyped, AnyTopicRow
  <2>5. CASE \E u \in Topics : Pin(u)
    <3>1. PICK u \in Topics : topic' = [topic EXCEPT ![u].pinned = ~@]
      BY <2>5 DEF Pin
    <3>2. topic' = [topic EXCEPT ![u] = [topic[u] EXCEPT !.pinned = ~topic[u].pinned]]
      BY <3>1
    <3> QED
      BY <3>2 DEF Inv, Typed, TopicTyped, AnyTopicRow
  <2>6. CASE \E c \in Calls : MergeCommit(c)
    <3>1. PICK c \in Calls : MergeCommit(c)
      BY <2>6
    <3>2. topic' = [topic EXCEPT ![call[c].from].status = Column(c, call[c].from, "status", "merged"),
                                 ![call[c].from].into = Column(c, call[c].from, "into", call[c].into)]
      BY <3>1 DEF MergeCommit
    <3>3. t # call[c].from => topic'[t] = topic[t]
      BY <3>2 DEF Inv, Typed, TopicTyped
    <3> QED
      BY <3>1, <3>3
  <2> QED
    BY <2>1, <2>2, <2>3, <2>4, <2>5, <2>6
    DEF Next, Automated, User, Abort, vars, rows, Begin, EnrichBegin, EnrichCommit, AssignBegin,
        DiscoverBegin, SkipDiscovery, DormancyBegin, Sweep, RefitBegin, RefitOf, RefitCommit,
        MergeBegin, ReassignBegin, Collect, Retain, NextDay
<1> DEFINE into == call[c].into
           base == call[c].base[t]
<1>2. /\ t \in Topics /\ into \in Topics /\ t # into
      /\ t \in raced \/ topic[t].into = base.into
      /\ topic[into].status # "merged" \/ into \in raced
  BY <1>1 DEF Inv, Reads, MergeReads, GainsAreOpen, Gains, MergeCommit
<1>3. raced \subseteq raced'
  BY <1>1 DEF MergeCommit
<1> HIDE DEF into
<1>4. topic' = [topic EXCEPT ![t].status = Column(c, t, "status", "merged"),
                             ![t].into = Column(c, t, "into", into)]
  BY <1>1 DEF MergeCommit, into
<1>5. Column(c, t, "into", into) = into
  BY <1>2, <1>3 DEF Column
<1>6. topic'[t].into = into /\ topic'[into] = topic[into]
  BY <1>2, <1>4, <1>5 DEF Inv, Typed, TopicTyped, AnyTopicRow
<1> QED
  BY <1>2, <1>3, <1>6

\* Following merged_into_topic_id from a merged topic never goes round in a
\* ring, as application/topics.py intends with its check of the target; only
\* a merge that was committed under another call can have made one.
THEOREM MergesLeadOn == Spec => []MergesResolve
<1>1. Init => MergesResolve
  <2> SUFFICES ASSUME Init, NEW t \in Topics PROVE topic[t].status # "merged"
    BY DEF MergesResolve
  <2> QED
    BY DEF Init, NoRow
<1>2. Inv /\ MergesResolve /\ [Next]_vars => MergesResolve'
  <2> SUFFICES ASSUME Inv, MergesResolve, [Next]_vars PROVE MergesResolve'
    OBVIOUS
  <2> SUFFICES ASSUME NEW s \in (SUBSET (Topics \ raced')) \ {{}},
                      \A t \in s : topic'[t].status = "merged" /\ topic'[t].into \in s
               PROVE  FALSE
    BY DEF MergesResolve
  <2>a. s \in SUBSET (Topics \ raced') /\ s \notin {{}}
    OBVIOUS
  <2>b. s \subseteq Topics /\ s # {} /\ \A t \in s : t \notin raced'
    BY <2>a
  <2>1. \A t \in s : topic[t].status = "merged" /\ topic[t].into = topic'[t].into
    BY <2>b, MergeTargets
  <2>2. raced \subseteq raced'
    BY DEF Next, Automated, User, Abort, vars, rows, Begin, EnrichBegin, EnrichCommit, AssignBegin,
           DiscoverBegin, PassCommit, InsertAssignments, SkipDiscovery, DormancyBegin, Sweep,
           DormancyCommit, RefitBegin, RefitOf, RefitCommit, MergeBegin, MergeCommit, ReassignBegin,
           ReassignCommit, Collect, Pin, Retain, NextDay
  <2>3. s \in (SUBSET (Topics \ raced)) \ {{}}
    <3>1. s \subseteq Topics \ raced
      BY <2>2, <2>b
    <3>2. s \notin {{}}
      BY <2>b
    <3> QED
      BY <3>1, <3>2, Zenon
  <2> QED
    BY <2>1, <2>3 DEF MergesResolve
<1> QED
  BY <1>1, <1>2, Invariant, PTL DEF Spec

-----------------------------------------------------------------------------
(* Documents are given to a topic once *)

DocTyped == doc \in [Docs -> [state : DocStates, published : Nat]]

\* A document that was given away has its row until it is deleted.
GivenAway == \A m \in auto : Assigned(m[1]) \/ doc[m[1]].state = "gone"

Single(moves) == \A m, n \in moves : m[1] = n[1] => m = n
PassesChooseOnce == \A c \in Calls : call[c].kind \in {"assign", "discover"} => Single(call[c].moves)

Given(t) == Cardinality(To(auto, t))
CountsAreGiven == \A t \in Topics : topic[t].count <= Given(t)
ReadCountsAreGiven == \A c \in Calls, t \in Topics : call[c].base[t].count <= Given(t)

CountInv ==
  /\ DocTyped
  /\ auto \subseteq Docs \X Topics
  /\ GivenAway
  /\ Single(auto)
  /\ PassesChooseOnce
  /\ CountsAreGiven
  /\ ReadCountsAreGiven

\* The documents given to a topic are finitely many.
LEMMA GivenIsNumber == CountInv => \A t \in Topics : Given(t) \in Nat /\ IsFiniteSet(To(auto, t))
<1> SUFFICES ASSUME CountInv, NEW t \in Topics PROVE Given(t) \in Nat /\ IsFiniteSet(To(auto, t))
  OBVIOUS
<1>1. To(auto, t) \subseteq Docs
  BY DEF CountInv, To
<1> QED
  BY <1>1, TopicsAssumption, FS_Subset, FS_CardinalityType DEF Given

\* No document has been given away yet.
LEMMA NothingGiven == Init => CountInv
<1> SUFFICES ASSUME Init PROVE CountInv
  OBVIOUS
<1>1. DocTyped
  BY DEF Init, DocTyped, DocStates
<1>2. auto = {} /\ \A t \in Topics : To(auto, t) = {}
  BY DEF Init, To
<1>3. \A t \in Topics : Given(t) = 0
  BY <1>2, FS_EmptySet DEF Given
<1>4. \A t \in Topics : topic[t].count = 0
  BY DEF Init, NoRow
<1>5. \A c \in Calls, t \in Topics : call[c].base[t].count = 0 /\ call[c].kind = "idle"
  BY DEF Init, Idle, NoRow
<1>6. \A c \in Calls : call[c].kind = "idle"
  BY DEF Init, Idle
<1>7. CountsAreGiven /\ ReadCountsAreGiven
  BY <1>3, <1>4, <1>5 DEF CountsAreGiven, ReadCountsAreGiven
<1> QED
  BY <1>1, <1>2, <1>6, <1>7 DEF CountInv, GivenAway, Single, PassesChooseOnce

\* A step that gives no document away.
LEMMA NoneGiven ==
  ASSUME Inv, CountInv, auto' = auto, DocTyped',
         \A t \in Topics : topic'[t].count = topic[t].count,
         \A c \in Calls, t \in Topics :
           call'[c].base[t].count \in {call[c].base[t].count, topic[t].count, 0},
         \A c \in Calls : call'[c].kind \in {"assign", "discover"} =>
           call'[c] = call[c] \/ Single(call'[c].moves),
         \A d \in Docs : Assigned(d) \/ doc[d].state = "gone" =>
           Assigned(d)' \/ doc'[d].state = "gone"
  PROVE  CountInv'
<1>1. \A t \in Topics : Given(t)' = Given(t) /\ Given(t) \in Nat
  BY GivenIsNumber DEF Given
<1>2. CountsAreGiven'
  BY <1>1 DEF CountInv, CountsAreGiven
<1>3. ReadCountsAreGiven'
  BY <1>1 DEF CountInv, CountsAreGiven, ReadCountsAreGiven
<1>4. PassesChooseOnce'
  BY DEF CountInv, PassesChooseOnce
<1>5. GivenAway'
  BY DEF CountInv, GivenAway
<1>6. Single(auto)'
  BY DEF CountInv, Single
<1> QED
  BY <1>2, <1>3, <1>4, <1>5, <1>6 DEF CountInv

\* A call that begins has read the counts there are.
LEMMA BeginCounts ==
  ASSUME Inv, CountInv, NEW c \in Calls, NEW read, Begin(c, read),
         \A t \in Topics : read.base[t].count \in {topic[t].count, 0},
         read.kind \in {"assign", "discover"} => Single(read.moves)
  PROVE  CountInv'
<1>1. call'[c] = read /\ \A o \in Calls \ {c} : call'[o] = call[o]
  BY DEF Begin, Inv, Typed, CallTyped
<1>2. UNCHANGED <<doc, assignment, topic, auto>>
  BY DEF Begin, rows
<1>3. DocTyped'
  BY <1>2 DEF CountInv, DocTyped
<1>4. \A d \in Docs : Assigned(d) \/ doc[d].state = "gone" => Assigned(d)' \/ doc'[d].state = "gone"
  BY <1>2 DEF Assigned
<1> QED
  BY <1>1, <1>2, <1>3, <1>4, NoneGiven

\* A call that reads no topic has read no count.
LEMMA IdleBase == \A t \in Topics : Idle.base[t].count = 0
BY DEF Idle, NoRow

\* The counts that a call reads are those of the topics, or none.
LEMMA ReadBase ==
  ASSUME Inv, NEW written, NEW t \in Topics
  PROVE  Read(written).base[t].count \in {topic[t].count, 0}
<1>1. Read(written).base[t] = IF t \in written THEN topic[t] ELSE NoRow
  BY DEF Read, Idle
<1> QED
  BY <1>1 DEF NoRow

\* The begin actions, one by one.
LEMMA BeginsCount ==
  ASSUME Inv, CountInv, NEW c \in Calls,
         \/ EnrichBegin(c) \/ AssignBegin(c) \/ DiscoverBegin(c) \/ SkipDiscovery(c)
         \/ RefitBegin(c) \/ MergeBegin(c) \/ ReassignBegin(c)
  PROVE  CountInv'
<1>1. CASE EnrichBegin(c)
  <2> DEFINE read == [Idle EXCEPT !.kind = "enrich", !.docs = {d \in Docs : Exists(d)},
                                  !.fresh = {d \in Docs : doc[d].state = "raw"}]
  <2>1. Begin(c, read)
    BY <1>1 DEF EnrichBegin
  <2>2. read.kind = "enrich" /\ read.base = Idle.base
    BY DEF Idle
  <2> HIDE DEF read
  <2> QED
    BY <2>1, <2>2, IdleBase, BeginCounts
<1>2. CASE AssignBegin(c)
  <2>1. PICK moves \in Choices(Pool, Active) :
          Begin(c, [Read(Gaining(moves)) EXCEPT !.kind = "assign", !.moves = moves])
    BY <1>2 DEF AssignBegin
  <2> DEFINE read == [Read(Gaining(moves)) EXCEPT !.kind = "assign", !.moves = moves]
  <2>2. Begin(c, read)
    BY <2>1
  <2>3. read.base = Read(Gaining(moves)).base /\ read.moves = moves
    BY DEF Read, Idle
  <2>4. Single(moves)
    BY ChoiceMoves DEF Single
  <2> HIDE DEF read
  <2> QED
    BY <2>2, <2>3, <2>4, ReadBase, BeginCounts
<1>3. CASE DiscoverBegin(c)
  <2>1. PICK new \in SUBSET {t \in Topics : topic[t].status = "none" /\ \A o \in Calls : t \notin call[o].topics} :
          \E moves \in Choices(Pool, new \cup {t \in Active : ~topic[t].pinned}) :
            Begin(c, [Read(Gaining(moves)) EXCEPT !.kind = "discover", !.moves = moves, !.topics = new])
    BY <1>3 DEF DiscoverBegin
  <2>2. PICK moves \in Choices(Pool, new \cup {t \in Active : ~topic[t].pinned}) :
          Begin(c, [Read(Gaining(moves)) EXCEPT !.kind = "discover", !.moves = moves, !.topics = new])
    BY <2>1
  <2> DEFINE read == [Read(Gaining(moves)) EXCEPT !.kind = "discover", !.moves = moves, !.topics = new]
  <2>3. Begin(c, read)
    BY <2>2
  <2>4. read.base = Read(Gaining(moves)).base /\ read.moves = moves
    BY DEF Read, Idle
  <2>5. Single(moves)
    BY ChoiceMoves DEF Single
  <2> HIDE DEF read
  <2> QED
    BY <2>3, <2>4, <2>5, ReadBase, BeginCounts
<1>4. CASE SkipDiscovery(c)
  <2> DEFINE read == [Idle EXCEPT !.kind = "discovered"]
  <2>1. Begin(c, read)
    BY <1>4 DEF SkipDiscovery
  <2>2. read.kind = "discovered" /\ read.base = Idle.base
    BY DEF Idle
  <2> HIDE DEF read
  <2> QED
    BY <2>1, <2>2, IdleBase, BeginCounts
<1>5. CASE RefitBegin(c)
  <2> DEFINE window == {d \in Docs : Assigned(d) /\ ~assignment[d].manual}
             moved(moves) == {m \in moves : m[2] # assignment[m[1]].topic}
             left(moves) == {assignment[m[1]].topic : m \in {n \in moves : n[2] # assignment[n[1]].topic}}
             found == [d \in Docs |-> assignment[d].by]
             read(moves) == [Idle EXCEPT !.kind = "refit", !.docs = window, !.moves = moved(moves),
                                         !.topics = left(moves), !.rows = found]
  <2>1. PICK moves \in Choices(window, {assignment[d].topic : d \in window}) : Begin(c, read(moves))
    BY <1>5 DEF RefitBegin, RefitOf
  <2>2. read(moves).kind = "refit" /\ read(moves).base = Idle.base
    BY DEF Idle
  <2> DEFINE r == read(moves)
  <2>3. Begin(c, r) /\ r.kind = "refit" /\ r.base = Idle.base
    BY <2>1, <2>2
  <2> HIDE DEF r
  <2> QED
    BY <2>3, IdleBase, BeginCounts
<1>6. CASE MergeBegin(c)
  <2>1. PICK from \in Topics, into \in Active :
          Begin(c, [Read({from}) EXCEPT !.kind = "merge", !.from = from, !.into = into])
    BY <1>6 DEF MergeBegin
  <2> DEFINE read == [Read({from}) EXCEPT !.kind = "merge", !.from = from, !.into = into]
  <2>2. Begin(c, read)
    BY <2>1
  <2>3. read.kind = "merge" /\ read.base = Read({from}).base
    BY DEF Read, Idle
  <2> HIDE DEF read
  <2> QED
    BY <2>2, <2>3, ReadBase, BeginCounts
<1>7. CASE ReassignBegin(c)
  <2> DEFINE found == [x \in Docs |-> assignment[x].by]
  <2>1. PICK d \in Docs, t \in Topics :
          Begin(c, [Read({t}) EXCEPT !.kind = "reassign", !.moves = {<<d, t>>}, !.rows = found])
    BY <1>7 DEF ReassignBegin
  <2> DEFINE read == [Read({t}) EXCEPT !.kind = "reassign", !.moves = {<<d, t>>}, !.rows = found]
  <2>2. Begin(c, read)
    BY <2>1
  <2>3. read.kind = "reassign" /\ read.base = Read({t}).base
    BY DEF Read, Idle
  <2> HIDE DEF read
  <2> QED
    BY <2>2, <2>3, ReadBase, BeginCounts
<1> QED
  BY <1>1, <1>2, <1>3, <1>4, <1>5, <1>6, <1>7

\* The call has ended, or goes on with the sweep: it remembers no count.
LEMMA Forgets ==
  ASSUME Inv, NEW c \in Calls, End(c) \/ EndPass(c) \/ DormancyBegin(c)
  PROVE  /\ \A o \in Calls, t \in Topics : call'[o].base[t].count \in {call[o].base[t].count, 0}
         /\ \A o \in Calls : call'[o].kind \in {"assign", "discover"} => call'[o] = call[o]
<1> DEFINE pass == [Idle EXCEPT !.kind = "discovered"]
           sweep == [Idle EXCEPT !.kind = "dormancy", !.topics = {t \in Active : Silent(t)}]
<1>1. pass.base = Idle.base /\ sweep.base = Idle.base /\ Done.base = Idle.base
  BY DEF Idle, Done
<1>2. pass.kind = "discovered" /\ sweep.kind = "dormancy" /\ Done.kind = "done"
  BY DEF Idle, Done
<1> HIDE DEF pass, sweep
<1>3. PICK x \in {pass, sweep, Done} : call' = [call EXCEPT ![c] = x]
  BY DEF End, EndPass, DormancyBegin, Sweep, pass, sweep
<1>4. call'[c] = x /\ \A o \in Calls \ {c} : call'[o] = call[o]
  BY <1>3 DEF Inv, Typed, CallTyped
<1> QED
  BY <1>1, <1>2, <1>4, IdleBase

\* A step that leaves the counts and gives no document away.
LEMMA ForgetCounts ==
  ASSUME Inv, CountInv, NEW c \in Calls, End(c) \/ EndPass(c) \/ DormancyBegin(c),
         auto' = auto, DocTyped', \A t \in Topics : topic'[t].count = topic[t].count,
         \A d \in Docs : Assigned(d) \/ doc[d].state = "gone" =>
           Assigned(d)' \/ doc'[d].state = "gone"
  PROVE  CountInv'
<1>1. /\ \A o \in Calls, t \in Topics : call'[o].base[t].count \in {call[o].base[t].count, 0}
      /\ \A o \in Calls : call'[o].kind \in {"assign", "discover"} => call'[o] = call[o]
  BY Forgets
<1> QED
  BY <1>1, NoneGiven

\* A pass gives its documents away: none of them was given away before.
LEMMA PassGives == ASSUME Inv, CountInv, NEW c \in Calls, PassCommit(c) PROVE CountInv'
<1> DEFINE moves == call[c].moves
<1>1. /\ call[c].kind \in {"assign", "discover"}
      /\ \A d \in Moved(moves) : Exists(d) /\ ~Assigned(d)
      /\ assignment' = [d \in Docs |->
           IF d \in Moved(moves)
           THEN [topic |-> (CHOOSE m \in moves : m[1] = d)[2], manual |-> FALSE, by |-> c]
           ELSE assignment[d]]
      /\ topic' = [t \in Topics |-> IF To(moves, t) = {} THEN topic[t] ELSE Grown(c, t)]
      /\ auto' = auto \cup {m \in moves : m[1] \in Moved(moves)}
      /\ EndPass(c) /\ UNCHANGED doc
  BY DEF PassCommit, InsertAssignments
<1>2. call[c] \in AnyCall /\ moves \subseteq Docs \X Topics /\ Single(moves)
  BY <1>1 DEF Inv, Typed, CallTyped, AnyCall, CountInv, PassesChooseOnce
<1> HIDE DEF moves
<1>3. auto' = auto \cup moves
  BY <1>1 DEF Moved
<1>4. \A m \in auto, n \in moves : m[1] # n[1]
  BY <1>1 DEF CountInv, GivenAway, Exists, Moved
<1>5. Single(auto')
  BY <1>2, <1>3, <1>4 DEF CountInv, Single
<1>6. auto' \subseteq Docs \X Topics
  BY <1>2, <1>3 DEF CountInv
<1>7. \A d \in Docs : assignment'[d] = assignment[d] \/ (d \in Moved(moves) /\ assignment'[d].by = c)
  BY <1>1
<1>8. \A d \in Moved(moves) : assignment'[d].by = c /\ d \in Docs
  <2>1. \A d \in Moved(moves) : d \in Docs
    BY <1>2 DEF Moved
  <2> QED
    BY <1>1, <2>1
<1>9. \A m \in auto' : Assigned(m[1])' \/ doc'[m[1]].state = "gone"
  <2>1. ASSUME NEW m \in moves PROVE Assigned(m[1])'
    <3>1. m[1] \in Moved(moves)
      BY DEF Moved
    <3> QED
      BY <1>8, <3>1, TopicsAssumption DEF Assigned, NoAssignment
  <2>2. ASSUME NEW m \in auto PROVE Assigned(m[1])' \/ doc'[m[1]].state = "gone"
    <3>1. m[1] \in Docs
      BY DEF CountInv
    <3>2. m[1] \notin Moved(moves)
      BY <1>4 DEF Moved
    <3> QED
      BY <1>1, <1>7, <3>1, <3>2 DEF CountInv, GivenAway, Assigned
  <2> QED
    BY <1>3, <2>1, <2>2
<1>10. \A t \in Topics :
         /\ Given(t) \in Nat /\ Cardinality(To(moves, t)) \in Nat
         /\ Given(t)' = Given(t) + Cardinality(To(moves, t))
  <2> TAKE t \in Topics
  <2>1. IsFiniteSet(To(auto, t)) /\ Given(t) \in Nat
    BY GivenIsNumber
  <2>2. To(moves, t) \subseteq Docs
    BY <1>2 DEF To
  <2>3. IsFiniteSet(To(moves, t)) /\ Cardinality(To(moves, t)) \in Nat
    BY <2>2, TopicsAssumption, FS_Subset, FS_CardinalityType
  <2>4. To(auto', t) = To(auto, t) \cup To(moves, t)
    BY <1>3 DEF To
  <2>5. To(auto, t) \cap To(moves, t) = {}
    BY <1>4 DEF To
  <2>6. Cardinality(To(auto, t) \cap To(moves, t)) = 0
    BY <2>5, FS_EmptySet
  <2>7. Cardinality(To(auto, t) \cup To(moves, t)) =
          Cardinality(To(auto, t)) + Cardinality(To(moves, t)) - Cardinality(To(auto, t) \cap To(moves, t))
    BY <2>1, <2>3, FS_Union
  <2> QED
    BY <2>1, <2>3, <2>4, <2>6, <2>7 DEF Given
<1>11. \A t \in Topics : topic'[t].count = topic[t].count
                      \/ topic'[t].count = call[c].base[t].count + Cardinality(To(moves, t))
  BY <1>1, GrownTyped DEF Inv, moves
<1>12. \A t \in Topics : topic[t].count \in Nat
  BY DEF Inv, Typed, TopicTyped, AnyTopicRow
<1>13. \A o \in Calls, t \in Topics : call[o].base[t].count \in Nat
  BY DEF Inv, Typed, CallTyped, AnyCall, AnyTopicRow
<1>14. CountsAreGiven'
  <2> SUFFICES ASSUME NEW t \in Topics PROVE topic'[t].count <= Given(t)'
    BY DEF CountsAreGiven
  <2>1. topic[t].count <= Given(t) /\ call[c].base[t].count <= Given(t)
    BY DEF CountInv, CountsAreGiven, ReadCountsAreGiven
  <2> QED
    BY <1>10, <1>11, <1>12, <1>13, <2>1
<1>15. /\ \A o \in Calls, t \in Topics : call'[o].base[t].count \in {call[o].base[t].count, 0}
       /\ \A o \in Calls : call'[o].kind \in {"assign", "discover"} => call'[o] = call[o]
  BY <1>1, Forgets
<1>16. ReadCountsAreGiven'
  <2> SUFFICES ASSUME NEW o \in Calls, NEW t \in Topics PROVE call'[o].base[t].count <= Given(t)'
    BY DEF ReadCountsAreGiven
  <2>1. call[o].base[t].count <= Given(t)
    BY DEF CountInv, ReadCountsAreGiven
  <2> QED
    BY <1>10, <1>13, <1>15, <2>1
<1>17. PassesChooseOnce'
  BY <1>15 DEF CountInv, PassesChooseOnce
<1>18. DocTyped'
  BY <1>1 DEF CountInv, DocTyped
<1> QED
  BY <1>5, <1>6, <1>9, <1>14, <1>16, <1>17, <1>18 DEF CountInv, GivenAway

\* The other calls that end, and the sweep, leave counts and documents.
LEMMA EndsCount ==
  ASSUME Inv, CountInv, NEW c \in Calls,
         \/ EnrichCommit(c) \/ DormancyBegin(c) \/ DormancyCommit(c) \/ RefitCommit(c)
         \/ MergeCommit(c) \/ ReassignCommit(c) \/ Abort(c)
  PROVE  CountInv'
<1>1. CASE EnrichCommit(c)
  <2>1. PICK relevant \in SUBSET call[c].docs :
          doc' = [d \in Docs |->
                    IF d \in call[c].docs /\ Exists(d)
                    THEN [doc[d] EXCEPT !.state = IF d \in relevant THEN "relevant" ELSE "irrelevant"]
                    ELSE doc[d]]
    BY <1>1 DEF EnrichCommit
  <2>2. End(c) /\ UNCHANGED <<assignment, topic, auto>>
    BY <1>1 DEF EnrichCommit
  <2>3. \A d \in Docs :
          \/ doc'[d] = doc[d]
          \/ doc[d].state # "gone" /\ doc'[d] \in {[doc[d] EXCEPT !.state = "relevant"],
                                                   [doc[d] EXCEPT !.state = "irrelevant"]}
    BY <2>1 DEF Exists
  <2>4. DocTyped'
    BY <2>1, <2>3 DEF CountInv, DocTyped, DocStates
  <2>5. \A d \in Docs : Assigned(d) \/ doc[d].state = "gone" => Assigned(d)' \/ doc'[d].state = "gone"
    BY <2>2, <2>3 DEF Assigned
  <2> QED
    BY <2>2, <2>4, <2>5, ForgetCounts
<1>2. CASE DormancyBegin(c)
  <2>1. UNCHANGED <<doc, assignment, topic, auto>>
    BY <1>2 DEF DormancyBegin, Sweep, rows
  <2> QED
    BY <1>2, <2>1, ForgetCounts DEF CountInv, DocTyped, Assigned
<1>3. CASE DormancyCommit(c)
  <2>1. End(c) /\ UNCHANGED <<doc, assignment, auto>>
    BY <1>3 DEF DormancyCommit
  <2>2. \A t \in Topics : topic'[t].count = topic[t].count
    <3> TAKE t \in Topics
    <3>1. topic'[t] \in {topic[t], [topic[t] EXCEPT !.status = "dormant"]}
      BY <1>3 DEF DormancyCommit
    <3> QED
      BY <3>1 DEF Inv, Typed, TopicTyped, AnyTopicRow
  <2> QED
    BY <2>1, <2>2, ForgetCounts DEF CountInv, DocTyped, Assigned
<1>4. CASE RefitCommit(c)
  <2>1. End(c) /\ UNCHANGED <<doc, topic, auto>>
    BY <1>4 DEF RefitCommit
  <2> DEFINE target == [d \in Docs |-> (CHOOSE m \in call[c].moves : m[1] = d)[2]]
  <2>2. assignment' = [d \in Docs |-> IF Assigned(d) /\ d \in Moved(call[c].moves)
                                      THEN [assignment[d] EXCEPT !.topic = target[d]]
                                      ELSE assignment[d]]
    BY <1>4 DEF RefitCommit
  <2> HIDE DEF target
  <2>3. \A d \in Docs : Assigned(d) => Assigned(d)'
    <3> SUFFICES ASSUME NEW d \in Docs, Assigned(d) PROVE Assigned(d)'
      OBVIOUS
    <3>1. assignment[d] \in [topic : Topics, manual : BOOLEAN, by : Calls]
      BY DEF Inv, Typed, AssignmentTyped, Assigned
    <3>2. assignment'[d] \in {assignment[d], [assignment[d] EXCEPT !.topic = target[d]]}
      BY <2>2
    <3>3. assignment'[d].by \in Calls
      BY <3>1, <3>2
    <3> QED
      BY <3>3, TopicsAssumption DEF Assigned, NoAssignment
  <2> QED
    BY <2>1, <2>3, ForgetCounts DEF CountInv, DocTyped
<1>5. CASE MergeCommit(c)
  <2> DEFINE from == call[c].from
             into == call[c].into
  <2>1. /\ End(c) /\ UNCHANGED <<doc, auto>>
        /\ assignment' = [d \in Docs |-> IF assignment[d].topic = from
                                         THEN [assignment[d] EXCEPT !.topic = into] ELSE assignment[d]]
        /\ topic' = [topic EXCEPT ![from].status = Column(c, from, "status", "merged"),
                                  ![from].into = Column(c, from, "into", into)]
    BY <1>5 DEF MergeCommit
  <2> HIDE DEF from, into
  <2>2. \A t \in Topics : topic'[t].count = topic[t].count
    BY <2>1 DEF Inv, Typed, TopicTyped, AnyTopicRow
  <2>3. \A d \in Docs : Assigned(d) => Assigned(d)'
    <3> SUFFICES ASSUME NEW d \in Docs, Assigned(d) PROVE Assigned(d)'
      OBVIOUS
    <3>1. assignment[d] \in [topic : Topics, manual : BOOLEAN, by : Calls]
      BY DEF Inv, Typed, AssignmentTyped, Assigned
    <3>2. assignment'[d] \in {assignment[d], [assignment[d] EXCEPT !.topic = into]}
      BY <2>1
    <3>3. assignment'[d].by \in Calls
      BY <3>1, <3>2
    <3> QED
      BY <3>3, TopicsAssumption DEF Assigned, NoAssignment
  <2> QED
    BY <2>1, <2>2, <2>3, ForgetCounts DEF CountInv, DocTyped
<1>6. CASE ReassignCommit(c)
  <2>1. PICK m \in call[c].moves :
          /\ assignment' = [assignment EXCEPT ![m[1]] = [topic |-> m[2], manual |-> TRUE, by |-> c]]
          /\ topic' = [topic EXCEPT ![m[2]].lastSeen = Column(c, m[2], "lastSeen", call[c].day)]
    BY <1>6 DEF ReassignCommit
  <2>2. End(c) /\ UNCHANGED <<doc, auto>>
    BY <1>6 DEF ReassignCommit
  <2>3. \A t \in Topics : topic'[t].count = topic[t].count
    BY <2>1 DEF Inv, Typed, TopicTyped, AnyTopicRow
  <2>4. \A d \in Docs : \/ assignment'[d] = assignment[d]
                        \/ assignment'[d] = [topic |-> m[2], manual |-> TRUE, by |-> c]
    BY <2>1 DEF Inv, Typed, AssignmentTyped
  <2>5. \A d \in Docs : Assigned(d) => Assigned(d)'
    BY <2>4, TopicsAssumption DEF Assigned, NoAssignment
  <2> QED
    BY <2>2, <2>3, <2>5, ForgetCounts DEF CountInv, DocTyped
<1>7. CASE Abort(c)
  <2>1. End(c) /\ UNCHANGED <<doc, assignment, topic, auto>>
    BY <1>7 DEF Abort, rows
  <2> QED
    BY <2>1, ForgetCounts DEF CountInv, DocTyped, Assigned
<1> QED
  BY <1>1, <1>2, <1>3, <1>4, <1>5, <1>6, <1>7

\* Collection, retention, pins and the calendar.
LEMMA OutsideCounts ==
  ASSUME Inv, CountInv,
         \/ \E d \in Docs : Collect(d)
         \/ \E t \in Topics : Pin(t)
         \/ Retain \/ NextDay \/ UNCHANGED vars
  PROVE  CountInv'
<1>1. UNCHANGED <<call, auto>>
  BY DEF Collect, Pin, Retain, NextDay, vars
<1>2. CASE \E d \in Docs : Collect(d)
  <2>1. PICK d \in Docs, day \in 0 .. today :
          doc[d].state = "absent" /\ doc' = [doc EXCEPT ![d] = [state |-> "raw", published |-> day]]
    BY <1>2 DEF Collect
  <2>2. UNCHANGED <<assignment, topic>>
    BY <1>2 DEF Collect
  <2>3. day \in Nat
    BY <2>1 DEF Inv, Typed
  <2>4. DocTyped'
    BY <2>1, <2>3 DEF CountInv, DocTyped, DocStates
  <2>5. \A x \in Docs : doc[x].state = "gone" => doc'[x].state = "gone"
    BY <2>1 DEF CountInv, DocTyped
  <2> QED
    BY <1>1, <2>2, <2>4, <2>5, NoneGiven DEF Assigned
<1>3. CASE \E t \in Topics : Pin(t)
  <2>1. PICK t \in Topics : topic' = [topic EXCEPT ![t].pinned = ~@]
    BY <1>3 DEF Pin
  <2>2. topic' = [topic EXCEPT ![t] = [topic[t] EXCEPT !.pinned = ~topic[t].pinned]]
    BY <2>1
  <2>3. \A u \in Topics : topic'[u].count = topic[u].count
    BY <2>2 DEF Inv, Typed, TopicTyped, AnyTopicRow
  <2>4. UNCHANGED <<doc, assignment>>
    BY <1>3 DEF Pin
  <2> QED
    BY <1>1, <2>3, <2>4, NoneGiven DEF CountInv, DocTyped, Assigned
<1>4. CASE Retain
  <2>1. /\ doc' = [d \in Docs |-> IF d \in Expired THEN [doc[d] EXCEPT !.state = "gone"] ELSE doc[d]]
        /\ assignment' = [d \in Docs |-> IF d \in Expired THEN NoAssignment ELSE assignment[d]]
        /\ UNCHANGED topic
    BY <1>4 DEF Retain
  <2>2. \A d \in Docs : \/ doc'[d] = doc[d] /\ assignment'[d] = assignment[d]
                        \/ doc'[d] = [doc[d] EXCEPT !.state = "gone"]
    BY <2>1
  <2>3. \A d \in Docs : doc[d] \in [state : DocStates, published : Nat]
    BY DEF CountInv, DocTyped
  <2>4. \A d \in Docs : /\ doc'[d] \in [state : DocStates, published : Nat]
                        /\ \/ doc'[d] = doc[d] /\ assignment'[d] = assignment[d]
                           \/ doc'[d].state = "gone"
    BY <2>2, <2>3 DEF DocStates
  <2>5. DocTyped'
    BY <2>1, <2>4 DEF DocTyped
  <2> QED
    BY <1>1, <2>1, <2>4, <2>5, NoneGiven DEF Assigned
<1>5. CASE NextDay \/ UNCHANGED vars
  <2>1. UNCHANGED <<doc, assignment, topic>>
    BY <1>5 DEF NextDay, vars
  <2> QED
    BY <1>1, <2>1, NoneGiven DEF CountInv, DocTyped, Assigned
<1> QED
  BY <1>2, <1>3, <1>4, <1>5

\* One step for each action of Next.
LEMMA StepCounts == Inv /\ CountInv /\ [Next]_vars => CountInv'
<1> SUFFICES ASSUME Inv, CountInv, [Next]_vars PROVE CountInv'
  OBVIOUS
<1>1. ASSUME NEW c \in Calls, Automated(c) \/ User(c) \/ Abort(c) PROVE CountInv'
  BY <1>1, BeginsCount, PassGives, EndsCount DEF Automated, User
<1> QED
  BY <1>1, OutsideCounts DEF Next

\* CountInv is an invariant, given Inv.
LEMMA CountInvariant == Spec => []CountInv
<1> QED
  BY NothingGiven, StepCounts, Invariant, PTL DEF Spec

\* A document is given to one topic once, and no doc_count is above the
\* documents its topic was given, however the daily assignment, the weekly
\* discovery, merges, reassignments and retention interleave
\* (tasks/topics.py, pipeline/topics/registry.py).
THEOREM DocumentsCountOnce == Spec => []CountedOnce
<1>1. CountInv => CountedOnce
  BY DEF CountInv, CountsAreGiven, Given, CountedOnce, Single
<1> QED
  BY <1>1, CountInvariant, PTL

-----------------------------------------------------------------------------
(* What users have decided *)

\* What a step does to the row of a document that the user has assigned.
LEMMA ManualRows ==
  ASSUME Inv, CountInv, [Next]_vars, NEW d \in Docs, assignment[d].manual, Exists(d)',
         assignment'[d] # assignment[d]
  PROVE  RefitReadBefore(d) \/ UserCommits
<1>1. CASE UNCHANGED assignment
  BY <1>1
<1>2. CASE \E c \in Calls : PassCommit(c)
  <2>1. PICK c \in Calls : PassCommit(c)
    BY <1>2
  <2>2. d \in Moved(call[c].moves) => ~Assigned(d)
    BY <2>1 DEF PassCommit
  <2>3. d \notin Moved(call[c].moves) => assignment'[d] = assignment[d]
    BY <2>1 DEF PassCommit, InsertAssignments
  <2> QED
    BY <2>2, <2>3 DEF Assigned, NoAssignment
<1>3. CASE \E c \in Calls : RefitCommit(c)
  <2>1. PICK c \in Calls : RefitCommit(c)
    BY <1>3
  <2>2. d \in Moved(call[c].moves) /\ call[c].kind = "refit"
    BY <2>1 DEF RefitCommit
  <2>3. call[c].rows[d] # assignment[d].by
    BY <2>2 DEF Inv, Reads, RefitReads
  <2> QED
    BY <2>2, <2>3 DEF RefitReadBefore
<1>4. CASE \E c \in Calls : MergeCommit(c) \/ ReassignCommit(c)
  <2>1. PICK c \in Calls : End(c) /\ call[c].kind \in {"merge", "reassign"}
    BY <1>4 DEF MergeCommit, ReassignCommit
  <2> QED
    BY <2>1 DEF End, UserCommits, Inv, Typed, CallTyped
<1>5. CASE Retain
  <2>1. d \in Expired
    BY <1>5 DEF Retain
  <2>2. doc'[d] = [doc[d] EXCEPT !.state = "gone"]
    BY <1>5, <2>1 DEF Retain
  <2> QED
    BY <2>2 DEF Exists, CountInv, DocTyped
<1> QED
  BY <1>1, <1>2, <1>3, <1>4, <1>5
  DEF Next, Automated, User, Abort, vars, rows, Begin, EnrichBegin, EnrichCommit, AssignBegin,
      DiscoverBegin, SkipDiscovery, DormancyBegin, Sweep, DormancyCommit, RefitBegin, RefitOf,
      MergeBegin, ReassignBegin, Collect, Pin, NextDay

\* A merged topic that is written over was merged under the call that does.
LEMMA MergedRows ==
  ASSUME Inv, [Next]_vars, NEW t \in Topics, topic[t].status = "merged", topic'[t].status # "merged"
  PROVE  t \in raced
<1>1. CASE UNCHANGED topic
  BY <1>1
<1>2. CASE \E c \in Calls : PassCommit(c)
  <2>1. PICK c \in Calls : PassCommit(c)
    BY <1>2
  <2>2. t \notin call[c].topics
    BY <2>1 DEF PassCommit, Inv, Reads, NamesAreNew
  <2>3. topic'[t] = topic[t] \/ topic'[t] = Grown(c, t)
    BY <2>1 DEF PassCommit, InsertAssignments
  <2> QED
    BY <2>2, <2>3, GrownTyped DEF Inv
<1>3. CASE \E c \in Calls : DormancyCommit(c)
  <2>1. PICK c \in Calls : DormancyCommit(c)
    BY <1>3
  <2>2. t \in call[c].topics /\ call[c].kind = "dormancy"
    BY <2>1 DEF DormancyCommit
  <2> QED
    BY <2>2 DEF Inv, Reads, GainsAreOpen, Gains
<1>4. CASE \E c \in Calls : MergeCommit(c)
  <2>1. PICK c \in Calls : MergeCommit(c)
    BY <1>4
  <2> DEFINE from == call[c].from
  <2>2. topic' = [topic EXCEPT ![from].status = Column(c, from, "status", "merged"),
                               ![from].into = Column(c, from, "into", call[c].into)]
    BY <2>1 DEF MergeCommit
  <2> HIDE DEF from
  <2>3. Column(c, from, "status", "merged") \in {"merged", topic[from].status}
    BY DEF Column
  <2> QED
    BY <2>2, <2>3 DEF Inv, Typed, TopicTyped, AnyTopicRow
<1>5. CASE \E c \in Calls : ReassignCommit(c)
  <2>1. PICK c \in Calls : ReassignCommit(c)
    BY <1>5
  <2>2. PICK m \in call[c].moves :
          topic' = [topic EXCEPT ![m[2]].lastSeen = Column(c, m[2], "lastSeen", call[c].day)]
    BY <2>1 DEF ReassignCommit
  <2> QED
    BY <2>2 DEF Inv, Typed, TopicTyped, AnyTopicRow
<1>6. CASE \E u \in Topics : Pin(u)
  <2>1. PICK u \in Topics : topic' = [topic EXCEPT ![u].pinned = ~@]
    BY <1>6 DEF Pin
  <2>2. topic' = [topic EXCEPT ![u] = [topic[u] EXCEPT !.pinned = ~topic[u].pinned]]
    BY <2>1
  <2> QED
    BY <2>2 DEF Inv, Typed, TopicTyped, AnyTopicRow
<1> QED
  BY <1>1, <1>2, <1>3, <1>4, <1>5, <1>6
  DEF Next, Automated, User, Abort, vars, rows, Begin, EnrichBegin, EnrichCommit, AssignBegin,
      DiscoverBegin, SkipDiscovery, DormancyBegin, Sweep, RefitBegin, RefitOf, RefitCommit,
      MergeBegin, ReassignBegin, Collect, Retain, NextDay

\* A manual assignment moves only with a merge, with another reassignment or
\* with a refit that had read the row before, and a merged topic stays merged
\* unless it was merged under the call that writes it
\* (application/topics.py, pipeline/topics/refit.py, tasks/topics.py).
THEOREM UsersDecide == Spec => UserDecisionsStand
<1> DEFINE Stand ==
      /\ \A d \in Docs :
           assignment[d].manual /\ Exists(d)' /\ assignment'[d] # assignment[d] =>
             RefitReadBefore(d) \/ UserCommits
      /\ \A t \in Topics :
           topic[t].status = "merged" /\ topic'[t].status # "merged" => t \in raced
<1>1. Inv /\ CountInv /\ [Next]_vars => [Stand]_vars
  BY ManualRows, MergedRows
<1>2. Spec => [][Stand]_vars
  BY <1>1, Invariant, CountInvariant, PTL DEF Spec
<1> QED
  BY <1>2 DEF UserDecisionsStand

-----------------------------------------------------------------------------
(* The types and the foreign keys *)

\* The dates that topics, calls and documents hold are not ahead of today.
Dated ==
  /\ today <= MaxDay
  /\ \A t \in Topics : topic[t].lastSeen <= today
  /\ \A c \in Calls : call[c].day <= today /\ \A t \in Topics : call[c].base[t].lastSeen <= today
  /\ \A d \in Docs : doc[d].published <= today

\* What a call is going to point an assignment at has a row, or gets one in
\* the same transaction.
Reached(c) ==
  /\ \A t \in Gaining(call[c].moves) :
       topic[t].status # "none" \/ (call[c].kind = "discover" /\ t \in call[c].topics)
  /\ call[c].kind = "merge" => topic[call[c].into].status # "none"

Keyed ==
  /\ \A d \in Docs : Assigned(d) => Exists(d) /\ topic[assignment[d].topic].status # "none"
  /\ \A c \in Calls : Reached(c)

Written == lineage \subseteq Events /\ raced \subseteq Topics

\* What a call that begins or ends remembers: the rows there are, today's
\* date, and targets that have rows or are its own.
Remembers(c) ==
  /\ \A o \in Calls \ {c} : call'[o] = call[o]
  /\ call'[c].day \in {0, today}
  /\ \A t \in Topics : call'[c].base[t] \in {NoRow, topic[t]}
  /\ \A t \in Gaining(call'[c].moves) :
       \/ topic[t].status # "none"
       \/ call'[c].kind = "discover" /\ t \in call'[c].topics
       \/ \E d \in Docs : Assigned(d) /\ t = assignment[d].topic
  /\ call'[c].kind = "merge" => topic[call'[c].into].status # "none"

\* The record that a transaction begins with.
LEMMA BeginsWith ==
  ASSUME Inv, NEW c \in Calls, NEW read, Begin(c, read),
         read.day \in {0, today},
         \A t \in Topics : read.base[t] \in {NoRow, topic[t]},
         \A t \in Gaining(read.moves) :
           \/ topic[t].status # "none"
           \/ read.kind = "discover" /\ t \in read.topics
           \/ \E d \in Docs : Assigned(d) /\ t = assignment[d].topic,
         read.kind = "merge" => topic[read.into].status # "none"
  PROVE  Remembers(c) /\ UNCHANGED rows
<1>1. call'[c] = read /\ \A o \in Calls \ {c} : call'[o] = call[o]
  BY DEF Begin, Inv, Typed, CallTyped
<1> QED
  BY <1>1 DEF Remembers, Begin

\* The rest of the record of a call that has read nothing.
LEMMA IdleRest ==
  /\ Idle.day = 0 /\ Idle.moves = {} /\ \A t \in Topics : Idle.base[t] = NoRow
  /\ Gaining({}) = {}
BY DEF Idle, Gaining

\* The same of a call that has read topics.
LEMMA ReadRest ==
  ASSUME NEW written
  PROVE  /\ Read(written).day = today /\ Read(written).moves = {}
         /\ \A t \in Topics : Read(written).base[t] \in {NoRow, topic[t]}
BY DEF Read, Idle

LEMMA Begins ==
  ASSUME Inv, NEW c \in Calls,
         \/ EnrichBegin(c) \/ AssignBegin(c) \/ DiscoverBegin(c) \/ SkipDiscovery(c)
         \/ RefitBegin(c) \/ MergeBegin(c) \/ ReassignBegin(c)
  PROVE  Remembers(c) /\ UNCHANGED rows
<1>1. CASE EnrichBegin(c)
  <2> DEFINE read == [Idle EXCEPT !.kind = "enrich", !.docs = {d \in Docs : Exists(d)},
                                  !.fresh = {d \in Docs : doc[d].state = "raw"}]
  <2>1. Begin(c, read)
    BY <1>1 DEF EnrichBegin
  <2>2. read.kind = "enrich" /\ read.base = Idle.base /\ read.day = Idle.day /\ read.moves = Idle.moves
    BY DEF Idle
  <2> HIDE DEF read
  <2> QED
    BY <2>1, <2>2, IdleRest, BeginsWith
<1>2. CASE AssignBegin(c)
  <2>1. PICK moves \in Choices(Pool, Active) :
          Begin(c, [Read(Gaining(moves)) EXCEPT !.kind = "assign", !.moves = moves])
    BY <1>2 DEF AssignBegin
  <2> DEFINE read == [Read(Gaining(moves)) EXCEPT !.kind = "assign", !.moves = moves]
  <2>2. Begin(c, read)
    BY <2>1
  <2>3. /\ read.base = Read(Gaining(moves)).base /\ read.moves = moves /\ read.kind = "assign"
        /\ read.day = Read(Gaining(moves)).day
    BY DEF Read, Idle
  <2>4. moves \subseteq Pool \X Active
    BY ChoiceMoves
  <2>5. \A t \in Gaining(moves) : topic[t].status # "none"
    BY <2>4 DEF Gaining, Active
  <2> HIDE DEF read
  <2> QED
    BY <2>2, <2>3, <2>5, ReadRest, BeginsWith
<1>3. CASE DiscoverBegin(c)
  <2>1. PICK new \in SUBSET {t \in Topics : topic[t].status = "none" /\ \A o \in Calls : t \notin call[o].topics} :
          \E moves \in Choices(Pool, new \cup {t \in Active : ~topic[t].pinned}) :
            Begin(c, [Read(Gaining(moves)) EXCEPT !.kind = "discover", !.moves = moves, !.topics = new])
    BY <1>3 DEF DiscoverBegin
  <2>2. PICK moves \in Choices(Pool, new \cup {t \in Active : ~topic[t].pinned}) :
          Begin(c, [Read(Gaining(moves)) EXCEPT !.kind = "discover", !.moves = moves, !.topics = new])
    BY <2>1
  <2> DEFINE read == [Read(Gaining(moves)) EXCEPT !.kind = "discover", !.moves = moves, !.topics = new]
  <2>3. Begin(c, read)
    BY <2>2
  <2>4. /\ read.base = Read(Gaining(moves)).base /\ read.moves = moves /\ read.topics = new
        /\ read.kind = "discover" /\ read.day = Read(Gaining(moves)).day
    BY DEF Read, Idle
  <2>5. moves \subseteq Pool \X (new \cup {t \in Active : ~topic[t].pinned})
    BY ChoiceMoves
  <2>6. \A t \in Gaining(moves) : topic[t].status # "none" \/ t \in new
    BY <2>5 DEF Gaining, Active
  <2> HIDE DEF read
  <2> QED
    BY <2>3, <2>4, <2>6, ReadRest, BeginsWith
<1>4. CASE SkipDiscovery(c)
  <2> DEFINE read == [Idle EXCEPT !.kind = "discovered"]
  <2>1. Begin(c, read)
    BY <1>4 DEF SkipDiscovery
  <2>2. read.kind = "discovered" /\ read.base = Idle.base /\ read.day = Idle.day /\ read.moves = Idle.moves
    BY DEF Idle
  <2> HIDE DEF read
  <2> QED
    BY <2>1, <2>2, IdleRest, BeginsWith
<1>5. CASE RefitBegin(c)
  <2> DEFINE window == {d \in Docs : Assigned(d) /\ ~assignment[d].manual}
             targets == {assignment[d].topic : d \in window}
             moved(moves) == {m \in moves : m[2] # assignment[m[1]].topic}
             left(moves) == {assignment[m[1]].topic : m \in {n \in moves : n[2] # assignment[n[1]].topic}}
             found == [d \in Docs |-> assignment[d].by]
             read(moves) == [Idle EXCEPT !.kind = "refit", !.docs = window, !.moves = moved(moves),
                                         !.topics = left(moves), !.rows = found]
  <2>1. PICK moves \in Choices(window, targets) : Begin(c, read(moves))
    BY <1>5 DEF RefitBegin, RefitOf
  <2>2. /\ read(moves).kind = "refit" /\ read(moves).base = Idle.base /\ read(moves).day = Idle.day
        /\ read(moves).moves = moved(moves)
    BY DEF Idle
  <2>3. \A t \in targets : \E d \in Docs : Assigned(d) /\ t = assignment[d].topic
    OBVIOUS
  <2>4. moves \subseteq window \X targets
    BY ChoiceMoves
  <2> DEFINE r == read(moves)
             mv == moved(moves)
  <2>5. mv \subseteq moves
    OBVIOUS
  <2>6. Begin(c, r) /\ r.kind = "refit" /\ r.base = Idle.base /\ r.day = Idle.day /\ r.moves = mv
    BY <2>1, <2>2
  <2> HIDE DEF r, mv, targets, window
  <2>7. \A t \in Gaining(mv) : t \in targets
    BY <2>4, <2>5 DEF Gaining
  <2> QED
    BY <2>3, <2>6, <2>7, IdleRest, BeginsWith
<1>6. CASE MergeBegin(c)
  <2>1. PICK from \in Topics, into \in Active :
          Begin(c, [Read({from}) EXCEPT !.kind = "merge", !.from = from, !.into = into])
    BY <1>6 DEF MergeBegin
  <2> DEFINE read == [Read({from}) EXCEPT !.kind = "merge", !.from = from, !.into = into]
  <2>2. Begin(c, read)
    BY <2>1
  <2>3. /\ read.kind = "merge" /\ read.base = Read({from}).base /\ read.into = into
        /\ read.day = Read({from}).day /\ read.moves = Read({from}).moves
    BY DEF Read, Idle
  <2>4. topic[into].status # "none"
    BY DEF Active
  <2> HIDE DEF read
  <2>5. Gaining(read.moves) = {} /\ read.day = today
    BY <2>3, ReadRest, IdleRest
  <2>6. \A t \in Topics : read.base[t] \in {NoRow, topic[t]}
    BY <2>3, ReadRest
  <2> QED
    BY <2>2, <2>3, <2>4, <2>5, <2>6, BeginsWith
<1>7. CASE ReassignBegin(c)
  <2> DEFINE found == [x \in Docs |-> assignment[x].by]
  <2>1. PICK d \in Docs, t \in {u \in Topics : topic[u].status # "none"} :
          Begin(c, [Read({t}) EXCEPT !.kind = "reassign", !.moves = {<<d, t>>}, !.rows = found])
    BY <1>7 DEF ReassignBegin
  <2> DEFINE read == [Read({t}) EXCEPT !.kind = "reassign", !.moves = {<<d, t>>}, !.rows = found]
  <2>2. Begin(c, read)
    BY <2>1
  <2>3. /\ read.kind = "reassign" /\ read.base = Read({t}).base
        /\ read.day = Read({t}).day /\ read.moves = {<<d, t>>}
    BY DEF Read, Idle
  <2>4. \A u \in Gaining({<<d, t>>}) : topic[u].status # "none"
    BY DEF Gaining
  <2> HIDE DEF read
  <2> QED
    BY <2>2, <2>3, <2>4, ReadRest, BeginsWith
<1> QED
  BY <1>1, <1>2, <1>3, <1>4, <1>5, <1>6, <1>7

\* A call that has ended, or goes on with the sweep, remembers nothing.
LEMMA EndsEmpty ==
  ASSUME Inv, NEW c \in Calls, End(c) \/ EndPass(c) \/ DormancyBegin(c)
  PROVE  Remembers(c)
<1> DEFINE pass == [Idle EXCEPT !.kind = "discovered"]
           sweep == [Idle EXCEPT !.kind = "dormancy", !.topics = {t \in Active : Silent(t)}]
<1>1. \A x \in {pass, sweep, Done} :
        x.base = Idle.base /\ x.day = Idle.day /\ x.moves = Idle.moves
        /\ x.kind \in {"discovered", "dormancy", "done"}
  BY DEF Idle, Done
<1> HIDE DEF pass, sweep
<1>2. PICK x \in {pass, sweep, Done} : call' = [call EXCEPT ![c] = x]
  BY DEF End, EndPass, DormancyBegin, Sweep, pass, sweep
<1>3. call'[c] = x /\ \A o \in Calls \ {c} : call'[o] = call[o]
  BY <1>2 DEF Inv, Typed, CallTyped
<1> QED
  BY <1>1, <1>3, IdleRest DEF Remembers

\* What a step does to a topic's row: it stays a row, only the discovery that
\* has named it makes it one, and its date is one a call has read.
TopicWrites(c) ==
  \A t \in Topics :
    /\ topic[t].status # "none" => topic'[t].status # "none"
    /\ topic'[t].lastSeen \in {topic[t].lastSeen, call[c].day}

\* A row that is written points to a topic that has a row now.
AssignmentWrites ==
  \A d \in Docs :
    Assigned(d)' => /\ Exists(d)'
                    /\ \/ Assigned(d) /\ assignment'[d].topic = assignment[d].topic
                       \/ topic'[assignment'[d].topic].status # "none"

\* A step of a call keeps the dates and the keys.
LEMMA CallKeeps ==
  ASSUME Inv, Inv', Dated, Keyed, NEW c \in Calls, Remembers(c), TopicWrites(c), AssignmentWrites,
         UNCHANGED today, \A d \in Docs : doc'[d].published = doc[d].published
  PROVE  Dated' /\ Keyed'
<1> USE DEF Inv, Typed
<1>1. NoRow.lastSeen = 0 /\ 0 <= today
  BY DEF NoRow
<1>2. \A t \in Topics : topic'[t].lastSeen <= today
  BY DEF TopicWrites, Dated
<1>3. \A o \in Calls : call'[o].day <= today /\ \A t \in Topics : call'[o].base[t].lastSeen <= today
  BY <1>1 DEF Remembers, Dated
<1>4. Dated'
  BY <1>2, <1>3 DEF Dated
<1>5. \A d \in Docs : Assigned(d) => assignment[d].topic \in Topics
  BY DEF AssignmentTyped, Assigned
<1>6. \A d \in Docs : Assigned(d)' => Exists(d)' /\ topic'[assignment'[d].topic].status # "none"
  BY <1>5 DEF AssignmentWrites, TopicWrites, Keyed
<1>7. \A o \in Calls : Gaining(call'[o].moves) \subseteq Topics /\ call'[o].into \in Topics \cup {NoTopic}
  BY DEF CallTyped, AnyCall, Gaining
<1>8. \A o \in Calls : call'[o].kind = "merge" => call'[o].into \in Topics
  BY DEF Reads, MergeReads
<1>9. Reached(c)'
  BY <1>5, <1>7, <1>8 DEF Remembers, Reached, TopicWrites, Keyed
<1>10. \A o \in Calls \ {c} : Reached(o)'
  BY <1>7, <1>8 DEF Remembers, Reached, TopicWrites, Keyed
<1> QED
  BY <1>4, <1>6, <1>9, <1>10 DEF Keyed

\* The actions of the automated passes and of the user, one by one.
LEMMA BeginsKeep ==
  ASSUME Inv, Inv', Dated, Keyed, NEW c \in Calls,
         \/ EnrichBegin(c) \/ AssignBegin(c) \/ DiscoverBegin(c) \/ SkipDiscovery(c)
         \/ RefitBegin(c) \/ MergeBegin(c) \/ ReassignBegin(c)
         \/ DormancyBegin(c) \/ Abort(c)
  PROVE  Dated' /\ Keyed'
<1>1. Remembers(c) /\ UNCHANGED rows
  BY Begins, EndsEmpty DEF Abort, DormancyBegin, Sweep
<1>2. TopicWrites(c) /\ AssignmentWrites
  BY <1>1 DEF rows, TopicWrites, AssignmentWrites, Assigned, Exists, Keyed
<1> QED
  BY <1>1, <1>2, CallKeeps DEF rows

LEMMA EnrichKeeps ==
  ASSUME Inv, Inv', CountInv, Dated, Keyed, NEW c \in Calls, EnrichCommit(c)
  PROVE  Dated' /\ Keyed'
<1>1. PICK relevant \in SUBSET call[c].docs :
        doc' = [d \in Docs |->
                  IF d \in call[c].docs /\ Exists(d)
                  THEN [doc[d] EXCEPT !.state = IF d \in relevant THEN "relevant" ELSE "irrelevant"]
                  ELSE doc[d]]
  BY DEF EnrichCommit
<1>2. End(c) /\ UNCHANGED <<assignment, topic, today>>
  BY DEF EnrichCommit
<1>3. \A d \in Docs :
        \/ doc'[d] = doc[d]
        \/ Exists(d) /\ doc'[d] \in {[doc[d] EXCEPT !.state = "relevant"],
                                     [doc[d] EXCEPT !.state = "irrelevant"]}
  BY <1>1
<1>4. \A d \in Docs : doc'[d].published = doc[d].published /\ (Exists(d) => Exists(d)')
  BY <1>3 DEF CountInv, DocTyped, Exists
<1>5. TopicWrites(c) /\ AssignmentWrites
  BY <1>2, <1>4 DEF TopicWrites, AssignmentWrites, Assigned, Keyed
<1> QED
  BY <1>2, <1>4, <1>5, EndsEmpty, CallKeeps

\* The dates of the topics that a pass gives documents to, and their rows.
LEMMA PassKeeps ==
  ASSUME Inv, Inv', Dated, Keyed, NEW c \in Calls, PassCommit(c)
  PROVE  Dated' /\ Keyed'
<1> DEFINE moves == call[c].moves
           new == [d \in Docs |-> [topic |-> (CHOOSE m \in moves : m[1] = d)[2], manual |-> FALSE, by |-> c]]
<1>1. /\ call[c].kind \in {"assign", "discover"}
      /\ \A d \in Moved(moves) : Exists(d)
      /\ assignment' = [d \in Docs |-> IF d \in Moved(moves) THEN new[d] ELSE assignment[d]]
      /\ topic' = [t \in Topics |-> IF To(moves, t) = {} THEN topic[t] ELSE Grown(c, t)]
      /\ EndPass(c) /\ UNCHANGED <<doc, today>>
  BY DEF PassCommit, InsertAssignments
<1>2. call[c] \in AnyCall /\ moves \in SUBSET (Docs \X Topics)
  BY DEF Inv, Typed, CallTyped, AnyCall
<1>3. \A d \in Moved(moves) : new[d].topic \in Gaining(moves) /\ new[d].topic \in Topics
  BY <1>2, ChosenMove
<1>4. \A t \in Gaining(moves) : To(moves, t) # {}
  BY <1>2 DEF Gaining, To
<1>5. \A t \in Gaining(moves) : topic[t].status # "none" \/ t \in call[c].topics
  BY DEF Keyed, Reached
<1> HIDE DEF new, moves
<1>6. ASSUME NEW t \in Topics
      PROVE  /\ topic'[t].lastSeen \in {topic[t].lastSeen, call[c].day}
             /\ topic[t].status # "none" => topic'[t].status # "none"
             /\ t \in Gaining(moves) => topic'[t].status # "none"
  <2>1. CASE To(moves, t) = {}
    BY <1>1, <1>4, <2>1
  <2>2. CASE To(moves, t) # {} /\ t \in call[c].topics
    <3>1. topic'[t] = Grown(c, t)
      BY <1>1, <2>2
    <3>2. Grown(c, t).status = "active" /\ Grown(c, t).lastSeen = call[c].day
      BY <2>2 DEF Grown, NoRow
    <3> QED
      BY <3>1, <3>2
  <2>3. CASE To(moves, t) # {} /\ t \notin call[c].topics
    <3>1. topic'[t] = Grown(c, t) /\ topic[t] \in AnyTopicRow
      BY <1>1, <2>3 DEF Inv, Typed, TopicTyped
    <3>2. /\ Grown(c, t).status = topic[t].status
          /\ Grown(c, t).lastSeen = Column(c, t, "lastSeen", call[c].day)
      BY <2>3, <3>1 DEF Grown, AnyTopicRow
    <3>3. Grown(c, t).lastSeen \in {topic[t].lastSeen, call[c].day}
      BY <3>2 DEF Column
    <3> QED
      BY <1>5, <2>3, <3>1, <3>2, <3>3
  <2> QED
    BY <2>1, <2>2, <2>3
<1>7. TopicWrites(c)
  BY <1>6 DEF TopicWrites
<1>8. ASSUME NEW d \in Docs, Assigned(d)'
      PROVE  /\ Exists(d)'
             /\ \/ Assigned(d) /\ assignment'[d].topic = assignment[d].topic
                \/ topic'[assignment'[d].topic].status # "none"
  <2>1. CASE d \in Moved(moves)
    BY <1>1, <1>3, <1>6, <2>1 DEF Exists
  <2>2. CASE d \notin Moved(moves)
    BY <1>1, <1>8, <2>2 DEF Assigned, Exists, Keyed
  <2> QED
    BY <2>1, <2>2
<1>9. AssignmentWrites
  BY <1>8 DEF AssignmentWrites
<1> QED
  BY <1>1, <1>7, <1>9, EndsEmpty, CallKeeps

LEMMA DormancyKeeps ==
  ASSUME Inv, Inv', Dated, Keyed, NEW c \in Calls, DormancyCommit(c)
  PROVE  Dated' /\ Keyed'
<1>1. End(c) /\ UNCHANGED <<doc, assignment, today>>
  BY DEF DormancyCommit
<1>2. \A t \in Topics : /\ topic[t] \in AnyTopicRow
                        /\ topic'[t] \in {topic[t], [topic[t] EXCEPT !.status = "dormant"]}
  BY DEF DormancyCommit, Inv, Typed, TopicTyped
<1>3. TopicWrites(c)
  BY <1>2 DEF TopicWrites, AnyTopicRow
<1>4. AssignmentWrites
  BY <1>1 DEF AssignmentWrites, Assigned, Exists, Keyed
<1> QED
  BY <1>1, <1>3, <1>4, EndsEmpty, CallKeeps

\* A refit moves rows to topics that other rows have had: they have a row.
LEMMA RefitKeeps ==
  ASSUME Inv, Inv', Dated, Keyed, NEW c \in Calls, RefitCommit(c)
  PROVE  Dated' /\ Keyed'
<1> DEFINE moves == call[c].moves
           target == [d \in Docs |-> (CHOOSE m \in moves : m[1] = d)[2]]
<1>1. /\ call[c].kind = "refit"
      /\ assignment' = [d \in Docs |-> IF Assigned(d) /\ d \in Moved(moves)
                                       THEN [assignment[d] EXCEPT !.topic = target[d]]
                                       ELSE assignment[d]]
      /\ End(c) /\ UNCHANGED <<doc, topic, today>>
  BY DEF RefitCommit
<1>2. moves \in SUBSET (Docs \X Topics)
  BY DEF Inv, Typed, CallTyped, AnyCall
<1>3. \A d \in Moved(moves) : target[d] \in Gaining(moves)
  BY <1>2, ChosenMove
<1>4. \A t \in Gaining(moves) : topic[t].status # "none"
  BY <1>1 DEF Keyed, Reached
<1> HIDE DEF target, moves
<1>5. ASSUME NEW d \in Docs, Assigned(d)'
      PROVE  /\ Exists(d)'
             /\ \/ Assigned(d) /\ assignment'[d].topic = assignment[d].topic
                \/ topic'[assignment'[d].topic].status # "none"
  <2>1. Assigned(d)
    BY <1>1, <1>5 DEF Assigned
  <2>2. assignment[d] \in [topic : Topics, manual : BOOLEAN, by : Calls]
    BY <2>1 DEF Inv, Typed, AssignmentTyped, Assigned
  <2>3. \/ assignment'[d] = assignment[d]
        \/ d \in Moved(moves) /\ assignment'[d].topic = target[d]
    BY <1>1, <2>2
  <2>4. topic'[assignment'[d].topic].status # "none" \/ assignment'[d] = assignment[d]
    BY <1>1, <1>3, <1>4, <2>3
  <2> QED
    BY <1>1, <2>1, <2>4 DEF Exists, Keyed
<1>6. AssignmentWrites
  BY <1>5 DEF AssignmentWrites
<1>7. TopicWrites(c)
  BY <1>1 DEF TopicWrites
<1> QED
  BY <1>1, <1>6, <1>7, EndsEmpty, CallKeeps

LEMMA MergeKeeps ==
  ASSUME Inv, Inv', Dated, Keyed, NEW c \in Calls, MergeCommit(c)
  PROVE  Dated' /\ Keyed'
<1> DEFINE from == call[c].from
           into == call[c].into
<1>1. /\ call[c].kind = "merge" /\ End(c) /\ UNCHANGED <<doc, today>>
      /\ assignment' = [d \in Docs |-> IF assignment[d].topic = from
                                       THEN [assignment[d] EXCEPT !.topic = into] ELSE assignment[d]]
      /\ topic' = [topic EXCEPT ![from].status = Column(c, from, "status", "merged"),
                                ![from].into = Column(c, from, "into", into)]
  BY DEF MergeCommit
<1>2. from \in Topics /\ into \in Topics /\ from # into /\ topic[into].status # "none"
  BY <1>1 DEF Inv, Reads, MergeReads, Keyed, Reached
<1> HIDE DEF from, into
<1>3. Column(c, from, "status", "merged") \in {"merged", topic[from].status}
  BY DEF Column
<1>4. \A t \in Topics :
        /\ topic'[t].lastSeen = topic[t].lastSeen
        /\ topic[t].status # "none" => topic'[t].status # "none"
  BY <1>1, <1>2, <1>3 DEF Inv, Typed, TopicTyped, AnyTopicRow
<1>5. TopicWrites(c)
  BY <1>4 DEF TopicWrites
<1>6. ASSUME NEW d \in Docs, Assigned(d)'
      PROVE  /\ Exists(d)'
             /\ \/ Assigned(d) /\ assignment'[d].topic = assignment[d].topic
                \/ topic'[assignment'[d].topic].status # "none"
  <2>1. CASE assignment[d].topic = from
    <3>1. assignment[d] \in [topic : Topics, manual : BOOLEAN, by : Calls]
      BY <1>2, <2>1, TopicsAssumption DEF Inv, Typed, AssignmentTyped, NoAssignment
    <3>2. Assigned(d) /\ assignment'[d].topic = into
      BY <1>1, <2>1, <3>1, TopicsAssumption DEF Assigned, NoAssignment
    <3> QED
      BY <1>1, <1>2, <1>4, <3>2 DEF Exists, Keyed
  <2>2. CASE assignment[d].topic # from
    <3>1. assignment'[d] = assignment[d]
      BY <1>1, <2>2
    <3> QED
      BY <1>1, <1>6, <3>1 DEF Assigned, Exists, Keyed
  <2> QED
    BY <2>1, <2>2
<1>7. AssignmentWrites
  BY <1>6 DEF AssignmentWrites
<1> QED
  BY <1>1, <1>5, <1>7, EndsEmpty, CallKeeps

LEMMA ReassignKeeps ==
  ASSUME Inv, Inv', Dated, Keyed, NEW c \in Calls, ReassignCommit(c)
  PROVE  Dated' /\ Keyed'
<1>1. PICK m \in call[c].moves :
        /\ Exists(m[1])
        /\ assignment' = [assignment EXCEPT ![m[1]] = [topic |-> m[2], manual |-> TRUE, by |-> c]]
        /\ topic' = [topic EXCEPT ![m[2]].lastSeen = Column(c, m[2], "lastSeen", call[c].day)]
  BY DEF ReassignCommit
<1>2. call[c].kind = "reassign" /\ End(c) /\ UNCHANGED <<doc, today>>
  BY DEF ReassignCommit
<1>3. m \in Docs \X Topics
  BY DEF Inv, Typed, CallTyped, AnyCall
<1>4. topic[m[2]].status # "none"
  BY <1>2 DEF Keyed, Reached, Gaining
<1>5. Column(c, m[2], "lastSeen", call[c].day) \in {topic[m[2]].lastSeen, call[c].day}
  BY DEF Column
<1>6. \A t \in Topics :
        /\ topic'[t].status = topic[t].status
        /\ topic'[t].lastSeen \in {topic[t].lastSeen, call[c].day}
  BY <1>1, <1>3, <1>5 DEF Inv, Typed, TopicTyped, AnyTopicRow
<1>7. TopicWrites(c)
  BY <1>6 DEF TopicWrites
<1>8. \A d \in Docs : \/ assignment'[d] = assignment[d]
                      \/ d = m[1] /\ assignment'[d].topic = m[2]
  BY <1>1 DEF Inv, Typed, AssignmentTyped
<1>9. AssignmentWrites
  BY <1>1, <1>2, <1>3, <1>4, <1>6, <1>8 DEF AssignmentWrites, Assigned, Exists, Keyed
<1> QED
  BY <1>2, <1>7, <1>9, EndsEmpty, CallKeeps

\* Collection, retention, pins and the calendar: retention takes the
\* assignments with the documents.
LEMMA OutsideKeeps ==
  ASSUME Inv, Inv', CountInv, Dated, Keyed,
         \/ \E d \in Docs : Collect(d)
         \/ \E t \in Topics : Pin(t)
         \/ Retain \/ NextDay \/ UNCHANGED vars
  PROVE  Dated' /\ Keyed'
<1> USE DEF Inv, Typed
<1>1. UNCHANGED call /\ today <= today' /\ today' <= MaxDay
  BY TopicsAssumption DEF Collect, Pin, Retain, NextDay, vars, Dated
<1>2. \A t \in Topics : topic'[t].lastSeen = topic[t].lastSeen /\ topic'[t].status = topic[t].status
  <2>1. CASE \E u \in Topics : Pin(u)
    <3>1. PICK u \in Topics : topic' = [topic EXCEPT ![u].pinned = ~@]
      BY <2>1 DEF Pin
    <3>2. topic' = [topic EXCEPT ![u] = [topic[u] EXCEPT !.pinned = ~topic[u].pinned]]
      BY <3>1
    <3> QED
      BY <3>2 DEF TopicTyped, AnyTopicRow
  <2>2. CASE UNCHANGED topic
    BY <2>2
  <2> QED
    BY <2>1, <2>2 DEF Collect, Retain, NextDay, vars
<1>3. \A d \in Docs :
        /\ doc'[d].published <= today'
        /\ Assigned(d)' => Assigned(d) /\ assignment'[d] = assignment[d] /\ Exists(d)'
  <2>1. CASE \E d \in Docs : Collect(d)
    <3>1. PICK d \in Docs, day \in 0 .. today :
            doc' = [doc EXCEPT ![d] = [state |-> "raw", published |-> day]]
      BY <2>1 DEF Collect
    <3>2. UNCHANGED <<assignment, today>>
      BY <2>1 DEF Collect
    <3>3. \A x \in Docs : doc'[x] = doc[x] \/ (doc'[x].state = "raw" /\ doc'[x].published = day)
      BY <3>1 DEF CountInv, DocTyped
    <3> QED
      BY <3>2, <3>3 DEF Dated, Keyed, Assigned, Exists
  <2>2. CASE Retain
    <3>1. /\ doc' = [d \in Docs |-> IF d \in Expired THEN [doc[d] EXCEPT !.state = "gone"] ELSE doc[d]]
          /\ assignment' = [d \in Docs |-> IF d \in Expired THEN NoAssignment ELSE assignment[d]]
          /\ UNCHANGED today
      BY <2>2 DEF Retain
    <3>2. \A d \in Docs : \/ doc'[d] = doc[d] /\ assignment'[d] = assignment[d]
                          \/ assignment'[d] = NoAssignment /\ doc'[d] = [doc[d] EXCEPT !.state = "gone"]
      BY <3>1
    <3>3. \A d \in Docs : doc'[d].published = doc[d].published
      BY <3>2 DEF CountInv, DocTyped
    <3> QED
      BY <3>1, <3>2, <3>3 DEF Dated, Keyed, Assigned, Exists
  <2>3. CASE UNCHANGED <<doc, assignment>>
    <3>1. \A d \in Docs : doc[d].published \in Nat
      BY DEF CountInv, DocTyped
    <3> QED
      BY <1>1, <2>3, <3>1 DEF Dated, Keyed, Assigned, Exists
  <2> QED
    BY <2>1, <2>2, <2>3 DEF Pin, NextDay, vars
<1>4. \A t \in Topics : topic[t].lastSeen \in Nat
  BY DEF TopicTyped, AnyTopicRow
<1>5. \A c \in Calls : call[c].day \in Nat /\ \A t \in Topics : call[c].base[t].lastSeen \in Nat
  BY DEF CallTyped, AnyCall, AnyTopicRow
<1>6. Dated'
  BY <1>1, <1>2, <1>3, <1>4, <1>5 DEF Dated
<1>7. \A c \in Calls : /\ Gaining(call[c].moves) \subseteq Topics
                       /\ call[c].kind = "merge" => call[c].into \in Topics
  BY DEF CallTyped, AnyCall, Gaining, Reads, MergeReads
<1>8. \A c \in Calls : Reached(c)'
  BY <1>1, <1>2, <1>7 DEF Reached, Keyed
<1>9. \A d \in Docs : Assigned(d) => assignment[d].topic \in Topics
  BY DEF AssignmentTyped, Assigned
<1>10. Keyed'
  BY <1>2, <1>3, <1>8, <1>9 DEF Keyed
<1> QED
  BY <1>6, <1>10

\* What is written to the lineage, and what is raced, are topics.
LEMMA StepWrites == Inv /\ Written /\ [Next]_vars => Written'
<1> SUFFICES ASSUME Inv, Written, [Next]_vars PROVE Written'
  OBVIOUS
<1>1. CASE \E c \in Calls : MergeCommit(c)
  <2>1. PICK c \in Calls : MergeCommit(c)
    BY <1>1
  <2>2. call[c].from \in Topics /\ call[c].into \in Topics
    BY <2>1 DEF MergeCommit, Inv, Reads, MergeReads
  <2>3. /\ lineage' = lineage \cup {[from |-> call[c].from, to |-> call[c].into, event |-> "merge"]}
        /\ raced' \in {raced, raced \cup {call[c].from}}
    BY <2>1 DEF MergeCommit
  <2> QED
    BY <2>2, <2>3 DEF Written, Events
<1>2. CASE \E c \in Calls : RefitCommit(c)
  <2>1. PICK c \in Calls : RefitCommit(c)
    BY <1>2
  <2>2. call[c].topics \subseteq Topics
    BY DEF Inv, Typed, CallTyped, AnyCall
  <2>3. /\ lineage' = lineage \cup
             {[from |-> t, to |-> NoTopic, event |-> "refit_remap"] : t \in call[c].topics}
        /\ raced' = raced
    BY <2>1 DEF RefitCommit
  <2> QED
    BY <2>2, <2>3 DEF Written, Events
<1>3. CASE UNCHANGED <<lineage, raced>>
  BY <1>3 DEF Written
<1> QED
  BY <1>1, <1>2, <1>3
  DEF Next, Automated, User, Abort, vars, rows, Begin, EnrichBegin, EnrichCommit, AssignBegin,
      DiscoverBegin, SkipDiscovery, DormancyBegin, Sweep, RefitBegin, RefitOf, DormancyCommit,
      PassCommit, InsertAssignments, MergeBegin, ReassignBegin, ReassignCommit, Collect, Retain,
      Pin, NextDay

\* One step for each action of Next.
LEMMA StepKeeps == Inv /\ CountInv /\ Inv' /\ Dated /\ Keyed /\ [Next]_vars => Dated' /\ Keyed'
<1> SUFFICES ASSUME Inv, CountInv, Inv', Dated, Keyed, [Next]_vars PROVE Dated' /\ Keyed'
  OBVIOUS
<1>1. ASSUME NEW c \in Calls, Automated(c) \/ User(c) \/ Abort(c) PROVE Dated' /\ Keyed'
  BY <1>1, BeginsKeep, EnrichKeeps, PassKeeps, DormancyKeeps, RefitKeeps, MergeKeeps, ReassignKeeps
  DEF Automated, User
<1> QED
  BY <1>1, OutsideKeeps DEF Next

\* At the start there are topics, but no assignment and no call.
LEMMA NothingKept == Init => Dated /\ Keyed /\ Written
<1> SUFFICES ASSUME Init PROVE Dated /\ Keyed /\ Written
  OBVIOUS
<1>1. PICK old \in SUBSET Topics :
        topic = [t \in Topics |-> IF t \in old THEN [NoRow EXCEPT !.status = "active"] ELSE NoRow]
  BY DEF Init
<1>2. \A t \in Topics : topic[t].lastSeen = 0
  BY <1>1 DEF NoRow
<1>3. /\ today = 0 /\ 0 <= MaxDay /\ lineage = {} /\ raced = {}
      /\ \A d \in Docs : doc[d].published = 0 /\ ~Assigned(d)
      /\ \A c \in Calls : call[c] = Idle
  BY TopicsAssumption DEF Init, Assigned
<1>4. NoRow.lastSeen = 0 /\ Idle.kind = "idle"
  BY DEF NoRow, Idle
<1>5. \A c \in Calls :
        /\ call[c].day = 0 /\ Gaining(call[c].moves) = {} /\ call[c].kind = "idle"
        /\ \A t \in Topics : call[c].base[t].lastSeen = 0
  BY <1>3, <1>4, IdleRest
<1>6. Dated
  BY <1>2, <1>3, <1>5 DEF Dated
<1>7. Keyed
  BY <1>3, <1>5 DEF Keyed, Reached
<1> QED
  BY <1>3, <1>6, <1>7 DEF Written

\* How many documents a topic is given is bounded by how many there are.
LEMMA GivenIsBounded ==
  ASSUME CountInv, NEW t \in Topics
  PROVE  Given(t) <= Cardinality(Docs) /\ Cardinality(Docs) \in Nat /\ Given(t) \in Nat
<1>1. To(auto, t) \subseteq Docs
  BY DEF CountInv, To
<1> QED
  BY <1>1, TopicsAssumption, FS_Subset, FS_CardinalityType DEF Given

\* A topic's row is typed, given that its count and its date are bounded.
LEMMA RowTyped ==
  ASSUME NEW row \in AnyTopicRow, row.count <= Cardinality(Docs), Cardinality(Docs) \in Nat,
         row.lastSeen <= today, today \in Nat, today <= MaxDay
  PROVE  row \in TopicRows
<1>1. row.count \in 0 .. Cardinality(Docs)
  BY DEF AnyTopicRow
<1>2. row.lastSeen \in Day
  BY TopicsAssumption DEF AnyTopicRow, Day
<1> QED
  BY <1>1, <1>2 DEF AnyTopicRow, TopicRows

\* The three invariants give the types.
LEMMA TypesFollow == Inv /\ CountInv /\ Dated /\ Keyed /\ Written => TypeOK
<1> SUFFICES ASSUME Inv, CountInv, Dated, Keyed, Written PROVE TypeOK
  OBVIOUS
<1>1. today \in Nat /\ MaxDay \in Nat /\ today <= MaxDay
  BY TopicsAssumption DEF Inv, Typed, Dated
<1>2. \A d \in Docs : doc[d] \in DocRows
  <2> TAKE d \in Docs
  <2>1. doc[d] \in [state : DocStates, published : Nat] /\ doc[d].published <= today
    BY DEF CountInv, DocTyped, Dated
  <2>2. doc[d].published \in Day
    BY <1>1, <2>1 DEF Day
  <2> QED
    BY <2>1, <2>2 DEF DocRows
<1>3. doc \in [Docs -> DocRows]
  BY <1>2 DEF CountInv, DocTyped
<1>4. assignment \in [Docs -> Assignments]
  <2>1. NoAssignment \in Assignments
    BY DEF Assignments, NoAssignment
  <2>2. [topic : Topics, manual : BOOLEAN, by : Calls] \subseteq Assignments
    BY DEF Assignments
  <2> QED
    BY <2>1, <2>2 DEF Inv, Typed, AssignmentTyped
<1>5. \A t \in Topics : topic[t] \in TopicRows
  <2> TAKE t \in Topics
  <2>1. topic[t] \in AnyTopicRow
    BY DEF Inv, Typed, TopicTyped
  <2>2. topic[t].count <= Given(t) /\ topic[t].lastSeen <= today
    BY DEF CountInv, CountsAreGiven, Dated
  <2>3. topic[t].count <= Cardinality(Docs) /\ Cardinality(Docs) \in Nat
    BY <2>1, <2>2, GivenIsBounded DEF AnyTopicRow
  <2> QED
    BY <1>1, <2>1, <2>2, <2>3, RowTyped
<1>6. topic \in [Topics -> TopicRows]
  BY <1>5 DEF Inv, Typed, TopicTyped
<1>7. \A c \in Calls : call[c] \in CallStates
  <2> TAKE c \in Calls
  <2>1. call[c] \in AnyCall
    BY DEF Inv, Typed, CallTyped
  <2>2. \A t \in Topics : call[c].base[t] \in TopicRows
    <3> TAKE t \in Topics
    <3>1. call[c].base[t] \in AnyTopicRow
      BY <2>1 DEF AnyCall
    <3>2. call[c].base[t].count <= Given(t) /\ call[c].base[t].lastSeen <= today
      BY DEF CountInv, ReadCountsAreGiven, Dated
    <3>3. call[c].base[t].count <= Cardinality(Docs) /\ Cardinality(Docs) \in Nat
      BY <3>1, <3>2, GivenIsBounded DEF AnyTopicRow
    <3> QED
      BY <1>1, <3>1, <3>2, <3>3, RowTyped
  <2>3. call[c].base \in [Topics -> TopicRows]
    BY <2>1, <2>2 DEF AnyCall
  <2>4. call[c].day \in Nat /\ call[c].day <= today
    BY <2>1 DEF AnyCall, Dated
  <2>5. call[c].day \in Day
    BY <1>1, <2>4 DEF Day
  <2> QED
    BY <2>1, <2>3, <2>5 DEF AnyCall, CallStates
<1>8. call \in [Calls -> CallStates]
  BY <1>7 DEF Inv, Typed, CallTyped
<1>9. ASSUME NEW d \in Docs, assignment[d] # NoAssignment
      PROVE  /\ doc[d].state \in {"relevant", "irrelevant", "raw"}
             /\ assignment[d].topic # NoTopic /\ topic[assignment[d].topic].status # "none"
  <2>1. doc[d].state \in DocStates \ {"absent", "gone"}
    BY <1>9 DEF CountInv, DocTyped, Keyed, Assigned, Exists
  <2>2. assignment[d].topic \in Topics
    BY <1>9 DEF Inv, Typed, AssignmentTyped
  <2> QED
    BY <1>9, <2>1, <2>2, TopicsAssumption DEF DocStates, Keyed, Assigned
<1>10. today \in Day
  BY <1>1 DEF Day
<1>11. auto \subseteq Docs \X Topics /\ lineage \subseteq Events /\ raced \subseteq Topics
  BY DEF CountInv, Written
<1> QED
  BY <1>3, <1>4, <1>6, <1>8, <1>9, <1>10, <1>11 DEF TypeOK

\* The registry's foreign keys hold whatever is committed between a call's
\* read and its write, no doc_count is above the number of documents, and no
\* date is ahead of today: a target that was read still has its row, and
\* retention takes the assignments with the documents (db/models.py).
THEOREM RegistryIsTyped == Spec => []TypeOK
<1>1. Init => Dated /\ Keyed /\ Written
  BY NothingKept
<1>2. Inv /\ CountInv /\ Inv' /\ Dated /\ Keyed /\ Written /\ [Next]_vars => (Dated /\ Keyed /\ Written)'
  BY StepKeeps, StepWrites
<1>3. Spec => [](Dated /\ Keyed /\ Written)
  BY <1>1, <1>2, Invariant, CountInvariant, PTL DEF Spec
<1> QED
  BY <1>3, Invariant, CountInvariant, TypesFollow, PTL
=============================================================================
