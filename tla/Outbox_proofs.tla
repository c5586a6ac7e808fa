---------------------------- MODULE Outbox_proofs ----------------------------
(***************************************************************************)
(* No row is recorded as published that Pub/Sub did not accept, and it     *)
(* accepts no event that is not committed: for any number of approvals,    *)
(* sweeps and failures.                                                    *)
(***************************************************************************)
EXTENDS Outbox, FiniteSetTheorems, TLAPS

\* Two rows never share a created_at: the row a publisher deals with is one.
TimesDiffer ==
    \A e, f \in Event : created[e] # 0 /\ created[e] = created[f] => e = f

\* A handler has nothing to publish before its approval.
HandlerWaits == \A e \in Event : created[e] = 0 => todo[e] = {}

\* What publishers have selected is committed.
SelectedIsCommitted == \A p \in Publisher : todo[p] \subseteq Committed

\* Only a publisher with a row in hand has an answer to record.
AnswerIsOfARow == \A p \in Publisher : todo[p] = {} => reply[p] = "none"

\* An answer says of the row it belongs to what Pub/Sub did.
AnswerIsTrue ==
    \A p \in Publisher :
        reply[p] = "accepted" =>
            \A e \in Event : PublishesNow(p, e) => e \in topic

OutboxInv ==
    /\ OutboxTypeOK
    /\ TimesDiffer
    /\ HandlerWaits
    /\ SelectedIsCommitted
    /\ AnswerIsOfARow
    /\ AnswerIsTrue
    /\ PublishedWasAccepted
    /\ AcceptedWasCommitted

-----------------------------------------------------------------------------
(* The inductive invariant *)

\* There are finitely many events, so finitely many times.
LEMMA TimeIsNat == Cardinality(Event) \in Nat
BY OutboxAssumption, FS_CardinalityType

\* The inductive invariant holds initially.
LEMMA OutboxInitInv == OutboxInit => OutboxInv
BY OutboxAssumption, TimeIsNat
   DEF OutboxInit, OutboxInv, OutboxTypeOK, TimesDiffer, HandlerWaits,
       SelectedIsCommitted, AnswerIsOfARow, AnswerIsTrue, PublishesNow,
       PublishedWasAccepted, AcceptedWasCommitted, Committed, Publisher

\* An approval gives its row a time of its own, and is its only publisher yet.
LEMMA ApproveInv == ASSUME OutboxInv, NEW e \in Event, Approve(e) PROVE OutboxInv'
<1> USE OutboxAssumption, TimeIsNat
    DEF OutboxInv, Approve
<1> PICK t \in Time :
        /\ \A f \in Event : created[f] # t
        /\ created' = [created EXCEPT ![e] = t]
    OBVIOUS
<1>1. t \in 1..Cardinality(Event)
    BY DEF Time
<1>2. e \in Publisher /\ e \notin Sweeper
    BY DEF Publisher
<1>3. OutboxTypeOK'
    BY <1>1, <1>2 DEF OutboxTypeOK
<1>4. Committed' = Committed \cup {e}
    BY <1>1, <1>3 DEF Committed, OutboxTypeOK
<1>5. TimesDiffer'
    BY <1>1 DEF TimesDiffer, OutboxTypeOK
<1>6. HandlerWaits'
    BY <1>1, <1>2 DEF HandlerWaits, OutboxTypeOK, Publisher
<1>7. SelectedIsCommitted'
    BY <1>2, <1>4 DEF SelectedIsCommitted, OutboxTypeOK
<1>8. AnswerIsOfARow'
    BY <1>2 DEF AnswerIsOfARow, OutboxTypeOK
<1>9. AnswerIsTrue'
    <2> SUFFICES ASSUME NEW p \in Publisher, reply[p] = "accepted",
                        NEW f \in Event, PublishesNow(p, f)'
                 PROVE  f \in topic
        BY DEF AnswerIsTrue
    <2>1. p # e
        BY DEF HandlerWaits, AnswerIsOfARow
    <2>2. todo'[p] = todo[p] /\ e \notin todo[p]
        BY <2>1 DEF OutboxTypeOK, SelectedIsCommitted, Committed
    <2>3. PublishesNow(p, f)
        BY <2>2 DEF PublishesNow, OutboxTypeOK
    <2> QED
        BY <2>3 DEF AnswerIsTrue
<1>10. PublishedWasAccepted' /\ AcceptedWasCommitted'
    BY <1>4 DEF PublishedWasAccepted, AcceptedWasCommitted
<1> QED
    BY <1>3, <1>5, <1>6, <1>7, <1>8, <1>9, <1>10

\* A sweep selects committed rows only.
LEMMA SweepInv == ASSUME OutboxInv, NEW s \in Sweeper, Sweep(s) PROVE OutboxInv'
<1> USE OutboxAssumption
    DEF OutboxInv, Sweep
<1>1. s \in Publisher /\ s \notin Event /\ reply[s] = "none"
    BY DEF Publisher, AnswerIsOfARow
<1>2. Oldest(Pending) \subseteq Committed /\ Committed \subseteq Event
    BY DEF Oldest, Pending, Committed
<1>3. Committed' = Committed
    BY DEF Committed
<1>4. OutboxTypeOK'
    BY <1>1, <1>2 DEF OutboxTypeOK
<1>5. TimesDiffer' /\ HandlerWaits'
    BY <1>1 DEF TimesDiffer, HandlerWaits, OutboxTypeOK, Publisher
<1>6. SelectedIsCommitted' /\ AnswerIsOfARow'
    BY <1>1, <1>2, <1>3 DEF SelectedIsCommitted, AnswerIsOfARow, OutboxTypeOK
<1>7. AnswerIsTrue'
    BY <1>1 DEF AnswerIsTrue, PublishesNow, OutboxTypeOK
<1>8. PublishedWasAccepted' /\ AcceptedWasCommitted'
    BY <1>3 DEF PublishedWasAccepted, AcceptedWasCommitted
<1> QED
    BY <1>4, <1>5, <1>6, <1>7, <1>8

\* A publisher that leaves off, or goes on to its next row, has no answer.
LEMMA DropInv ==
    ASSUME OutboxInv, NEW p \in Publisher, NEW S \in SUBSET todo[p],
           todo' = [todo EXCEPT ![p] = S],
           reply' = [reply EXCEPT ![p] = "none"],
           aborts' \in 0..MaxAborts,
           published' \subseteq topic,
           UNCHANGED <<created, topic>>
    PROVE  OutboxInv'
<1> USE OutboxAssumption
    DEF OutboxInv
<1>1. Committed' = Committed
    BY DEF Committed
<1>2. OutboxTypeOK'
    BY DEF OutboxTypeOK
<1>3. TimesDiffer' /\ HandlerWaits'
    BY DEF TimesDiffer, HandlerWaits, OutboxTypeOK, Publisher
<1>4. SelectedIsCommitted' /\ AnswerIsOfARow'
    BY <1>1 DEF SelectedIsCommitted, AnswerIsOfARow, OutboxTypeOK
<1>5. AnswerIsTrue'
    BY DEF AnswerIsTrue, PublishesNow, OutboxTypeOK
<1>6. PublishedWasAccepted' /\ AcceptedWasCommitted'
    BY <1>1 DEF PublishedWasAccepted, AcceptedWasCommitted
<1> QED
    BY <1>2, <1>3, <1>4, <1>5, <1>6

\* A send tells the truth about the row it sent, and adds no other to the topic.
LEMMA SendInv ==
    ASSUME OutboxInv, NEW p \in Publisher, NEW e \in Event, PublishesNow(p, e),
           NEW answer \in {"accepted", "error"},
           reply' = [reply EXCEPT ![p] = answer],
           topic \subseteq topic', topic' \subseteq topic \cup {e},
           answer = "accepted" => e \in topic',
           UNCHANGED <<created, published, todo, aborts>>
    PROVE  OutboxInv'
<1> USE OutboxAssumption
    DEF OutboxInv
<1>1. Committed' = Committed
    BY DEF Committed
<1>2. e \in Committed
    BY DEF PublishesNow, SelectedIsCommitted
<1>3. OutboxTypeOK'
    BY DEF OutboxTypeOK
<1>4. TimesDiffer' /\ HandlerWaits' /\ SelectedIsCommitted'
    BY <1>1 DEF TimesDiffer, HandlerWaits, SelectedIsCommitted
<1>5. AnswerIsOfARow'
    BY DEF AnswerIsOfARow, OutboxTypeOK, PublishesNow
<1>6. AnswerIsTrue'
    <2> SUFFICES ASSUME NEW q \in Publisher, reply'[q] = "accepted",
                        NEW f \in Event, PublishesNow(q, f)
                 PROVE  f \in topic'
        BY DEF AnswerIsTrue, PublishesNow
    <2>1. CASE q = p
        <3>1. created[e] = created[f] /\ created[f] # 0
            <4>1. e \in todo[p] /\ f \in todo[p]
                BY <2>1 DEF PublishesNow
            <4>2. created[e] <= created[f] /\ created[f] <= created[e]
                BY <2>1, <4>1 DEF PublishesNow
            <4>3. created[e] \in Nat /\ created[f] \in Nat
                BY TimeIsNat DEF OutboxTypeOK
            <4> QED
                BY <4>1, <4>2, <4>3 DEF SelectedIsCommitted, Committed
        <3>2. f = e
            BY <3>1 DEF TimesDiffer
        <3>3. answer = "accepted"
            BY <2>1 DEF OutboxTypeOK
        <3> QED
            BY <3>2, <3>3
    <2>2. CASE q # p
        BY <2>2 DEF AnswerIsTrue, OutboxTypeOK
    <2> QED
        BY <2>1, <2>2
<1>7. PublishedWasAccepted' /\ AcceptedWasCommitted'
    BY <1>1, <1>2 DEF PublishedWasAccepted, AcceptedWasCommitted
<1> QED
    BY <1>3, <1>4, <1>5, <1>6, <1>7

\* Every step preserves the inductive invariant.
LEMMA OutboxNextInv == OutboxInv /\ [OutboxNext]_outboxVars => OutboxInv'
<1> SUFFICES ASSUME OutboxInv, [OutboxNext]_outboxVars PROVE OutboxInv'
    OBVIOUS
<1> USE OutboxAssumption
<1>1. ASSUME NEW e \in Event, Approve(e) PROVE OutboxInv'
    BY <1>1, ApproveInv
<1>2. ASSUME NEW s \in Sweeper, Sweep(s) PROVE OutboxInv'
    BY <1>2, SweepInv
<1>3. ASSUME NEW p \in Publisher, SendAccepted(p) PROVE OutboxInv'
    <2> PICK e \in Event : PublishesNow(p, e) /\ topic' = topic \cup {e}
        BY <1>3 DEF SendAccepted
    <2>1. reply' = [reply EXCEPT ![p] = "accepted"]
        BY <1>3 DEF SendAccepted
    <2>2. UNCHANGED <<created, published, todo, aborts>>
        BY <1>3 DEF SendAccepted
    <2> QED
        BY <2>1, <2>2, SendInv
<1>4. ASSUME NEW p \in Publisher, SendFailed(p) PROVE OutboxInv'
    <2> PICK e \in Event :
            /\ PublishesNow(p, e)
            /\ topic' \in {topic} \cup {topic \cup {x} : x \in {e} \ Poison}
        BY <1>4 DEF SendFailed
    <2>1. reply' = [reply EXCEPT ![p] = "error"]
        BY <1>4 DEF SendFailed
    <2>2. UNCHANGED <<created, published, todo, aborts>>
        BY <1>4 DEF SendFailed
    <2>3. topic \subseteq topic' /\ topic' \subseteq topic \cup {e}
        OBVIOUS
    <2> QED
        BY <2>1, <2>2, <2>3, SendInv
<1>5. ASSUME NEW p \in Publisher, RecordError(p) PROVE OutboxInv'
    <2> PICK e \in Event : todo' = [todo EXCEPT ![p] = @ \ {e}]
        BY <1>5 DEF RecordError
    <2>1. todo' = [todo EXCEPT ![p] = todo[p] \ {e}]
        OBVIOUS
    <2>2. reply' = [reply EXCEPT ![p] = "none"]
        BY <1>5 DEF RecordError
    <2>3. published' \subseteq topic /\ aborts' \in 0..MaxAborts
        BY <1>5 DEF RecordError, OutboxInv, OutboxTypeOK, PublishedWasAccepted
    <2>4. UNCHANGED <<created, topic>>
        BY <1>5 DEF RecordError
    <2> QED
        BY <2>1, <2>2, <2>3, <2>4, DropInv
<1>6. ASSUME NEW p \in Publisher, RecordPublished(p) PROVE OutboxInv'
    <2> PICK e \in Event :
            /\ PublishesNow(p, e)
            /\ published' = published \cup {e}
            /\ todo' = [todo EXCEPT ![p] = @ \ {e}]
        BY <1>6 DEF RecordPublished
    <2>1. todo' = [todo EXCEPT ![p] = todo[p] \ {e}]
        OBVIOUS
    <2>2. reply' = [reply EXCEPT ![p] = "none"]
        BY <1>6 DEF RecordPublished
    <2>3. e \in topic
        BY <1>6 DEF RecordPublished, OutboxInv, AnswerIsTrue
    <2>4. published' \subseteq topic /\ aborts' \in 0..MaxAborts
        BY <1>6, <2>3 DEF RecordPublished, OutboxInv, OutboxTypeOK, PublishedWasAccepted
    <2>5. UNCHANGED <<created, topic>>
        BY <1>6 DEF RecordPublished
    <2> QED
        BY <2>1, <2>2, <2>4, <2>5, DropInv
<1>7. ASSUME NEW p \in Publisher, Abort(p) PROVE OutboxInv'
    <2>1. todo' = [todo EXCEPT ![p] = {}] /\ reply' = [reply EXCEPT ![p] = "none"]
        BY <1>7 DEF Abort
    <2>2. published' \subseteq topic /\ aborts' \in 0..MaxAborts
        BY <1>7 DEF Abort, OutboxInv, OutboxTypeOK, PublishedWasAccepted
    <2>3. UNCHANGED <<created, topic>>
        BY <1>7 DEF Abort
    <2>4. {} \in SUBSET todo[p]
        OBVIOUS
    <2> QED
        BY <2>1, <2>2, <2>3, <2>4, DropInv
<1>8. CASE UNCHANGED outboxVars
    BY <1>8
       DEF outboxVars, OutboxInv, OutboxTypeOK, TimesDiffer, HandlerWaits,
           SelectedIsCommitted, AnswerIsOfARow, AnswerIsTrue, PublishesNow,
           PublishedWasAccepted, AcceptedWasCommitted, Committed
<1> QED
    BY <1>1, <1>2, <1>3, <1>4, <1>5, <1>6, <1>7, <1>8 DEF OutboxNext

\* The inductive invariant holds in every reachable state.
LEMMA OutboxInvariant == OutboxSpec => []OutboxInv
BY OutboxInitInv, OutboxNextInv, PTL DEF OutboxSpec

-----------------------------------------------------------------------------
\* Every row, selection and answer keeps its type.
THEOREM OutboxTypeCorrect == OutboxSpec => []OutboxTypeOK
<1>1. OutboxInv => OutboxTypeOK
    BY DEF OutboxInv
<1> QED
    BY <1>1, OutboxInvariant, PTL

(* Theorems *)

\* What is recorded as published was accepted by Pub/Sub.
THEOREM NoEventIsGivenUp == OutboxSpec => []PublishedWasAccepted
<1>1. OutboxInv => PublishedWasAccepted
    BY DEF OutboxInv
<1> QED
    BY <1>1, OutboxInvariant, PTL

\* Pub/Sub accepts committed events only.
THEOREM OnlyCommittedIsSent == OutboxSpec => []AcceptedWasCommitted
<1>1. OutboxInv => AcceptedWasCommitted
    BY DEF OutboxInv
<1> QED
    BY <1>1, OutboxInvariant, PTL

-----------------------------------------------------------------------------
(* What the delivery of an event rests on *)

\* A row is committed once and published for good; Pub/Sub forgets nothing.
OutboxGrows ==
    /\ \A e \in Event : created[e] # 0 => created'[e] = created[e]
    /\ published \subseteq published'
    /\ topic \subseteq topic'

\* A row leaves the rows the sweep looks for only once Pub/Sub has accepted it:
\* no failure, crash or sweep takes it away before.
PendingUntilAccepted ==
    \A e \in Pending : e \in Pending' \/ (e \in published' /\ e \in topic)

\* Every step keeps the rows and what was recorded of them.
LEMMA OutboxKeepingStep ==
    ASSUME OutboxInv, [OutboxNext]_outboxVars
    PROVE  OutboxGrows /\ PendingUntilAccepted
<1> USE DEF OutboxInv, OutboxTypeOK, OutboxGrows, PendingUntilAccepted, Pending,
            Committed
<1>1. ASSUME NEW e \in Event, Approve(e) PROVE OutboxGrows /\ PendingUntilAccepted
    BY <1>1, TimeIsNat DEF Approve, Time
<1>2. ASSUME NEW p \in Publisher, RecordPublished(p)
      PROVE  OutboxGrows /\ PendingUntilAccepted
    BY <1>2 DEF RecordPublished, AnswerIsTrue
<1>3. \/ UNCHANGED <<created, published>> /\ topic \subseteq topic'
      \/ \E e \in Event : Approve(e)
      \/ \E p \in Publisher : RecordPublished(p)
    BY DEF OutboxNext, Sweep, SendAccepted, SendFailed, RecordError, Abort, outboxVars
<1> QED
    BY <1>1, <1>2, <1>3

\* An event that is committed waits for the sweep until a send of it is accepted,
\* and is never due again once it is recorded: the safety half of what
\* sweep_unpublished_outbox_events promises.
THEOREM EventsAreKept == OutboxSpec => [][OutboxGrows /\ PendingUntilAccepted]_outboxVars
<1>1. OutboxInv /\ [OutboxNext]_outboxVars
          => [OutboxGrows /\ PendingUntilAccepted]_outboxVars
    BY OutboxKeepingStep
<1> QED
    BY <1>1, OutboxInvariant, PTL DEF OutboxSpec

\* An event is never lost: once committed it is, at every moment, accepted by
\* Pub/Sub or due for the next sweep.
THEOREM EventIsDueOrAccepted ==
    \A e \in Event :
        OutboxSpec => [](e \in Committed => [](e \in Pending \/ e \in topic))
<1> TAKE e \in Event
<1>1. OutboxInv /\ [OutboxNext]_outboxVars /\ e \in Committed => (e \in Committed)'
    BY OutboxKeepingStep, TimeIsNat DEF OutboxGrows, Committed
<1>2. OutboxInv /\ e \in Committed => e \in Pending \/ e \in topic
    BY DEF OutboxInv, PublishedWasAccepted, Pending
<1> QED
    BY <1>1, <1>2, OutboxInvariant, PTL DEF OutboxSpec
=============================================================================
