------------------------------- MODULE Outbox -------------------------------
(***************************************************************************)
(* The outbox of lifecycle events (services/event_publisher.py).  An       *)
(* approval commits its event row together with the promotion and then,    *)
(* outside the transaction, tries once to publish it; a sweep called by a  *)
(* scheduler retries the oldest rows still unpublished.                    *)
(*                                                                         *)
(* Pub/Sub is what the code sees of it: a message may be accepted, refused *)
(* or accepted without the answer arriving.  Some events it never accepts  *)
(* (an oversized payload): each sweep tries them again.                    *)
(***************************************************************************)
EXTENDS Naturals, FiniteSets

CONSTANTS
    Event,      \* approvals, each with the event row it commits
    Sweeper,    \* sweeps that may overlap
    Poison,     \* events Pub/Sub always refuses
    Limit,      \* rows a sweep takes at most
    MaxAborts   \* bound: publishers that die or lose the database

ASSUME OutboxAssumption ==
    /\ IsFiniteSet(Event)
    /\ Event \cap Sweeper = {}
    /\ Poison \subseteq Event
    /\ Limit \in Nat
    /\ MaxAborts \in Nat

VARIABLES
    created,   \* created_at of the row of an event, 0 while there is none
    published, \* rows whose published_at is set
    topic,     \* events Pub/Sub has accepted
    todo,      \* rows a publisher has selected and not yet dealt with
    reply,     \* what the send of the first of them returned
    aborts     \* publishers that died

outboxVars == <<created, published, topic, todo, reply, aborts>>

-----------------------------------------------------------------------------
\* The handler of an approval publishes one row, a sweep several.
Publisher == Event \cup Sweeper

Time == 1..Cardinality(Event)

Committed == {e \in Event : created[e] # 0}

Pending == Committed \ published

\* The rows of S that at most Limit - 1 others of S precede.
Oldest(S) ==
    {e \in S : Cardinality({f \in S : created[f] < created[e]}) < Limit}

OutboxTypeOK ==
    /\ created \in [Event -> 0..Cardinality(Event)]
    /\ published \subseteq Event
    /\ topic \subseteq Event
    /\ todo \in [Publisher -> SUBSET Event]
    /\ reply \in [Publisher -> {"none", "accepted", "error"}]
    /\ aborts \in 0..MaxAborts

OutboxInit ==
    /\ created = [e \in Event |-> 0]
    /\ published = {}
    /\ topic = {}
    /\ todo = [p \in Publisher |-> {}]
    /\ reply = [p \in Publisher |-> "none"]
    /\ aborts = 0

\* Rows are published in the order of created_at.
PublishesNow(p, e) ==
    /\ e \in todo[p]
    /\ \A f \in todo[p] : created[e] <= created[f]

-----------------------------------------------------------------------------
(* The approval *)

\* Mutant: the handler publishes in the middle of the transaction.
ApprovePublishingFirst(e) ==
    /\ created[e] = 0
    /\ \/ /\ e \notin topic
          /\ topic' = topic \cup {e}
          /\ UNCHANGED created
       \/ /\ e \in topic
          /\ \E t \in Time :
                /\ \A f \in Event : created[f] # t
                /\ created' = [created EXCEPT ![e] = t]
          /\ UNCHANGED topic
    /\ UNCHANGED <<published, todo, reply, aborts>>

\* created_at is the start of the transaction: rows need not commit in its
\* order.
Approve(e) ==
    /\ created[e] = 0
    /\ \E t \in Time :
          /\ \A f \in Event : created[f] # t
          /\ created' = [created EXCEPT ![e] = t]
    /\ todo' = [todo EXCEPT ![e] = {e}]
    /\ UNCHANGED <<published, topic, reply, aborts>>

-----------------------------------------------------------------------------
(* The sweep *)

\* The ids are read once; the rows are not looked at again before they are
\* sent.  Nothing pending makes it a no-op.
Sweep(s) ==
    /\ todo[s] = {}
    /\ todo' = [todo EXCEPT ![s] = Oldest(Pending)]
    /\ UNCHANGED <<created, published, topic, reply, aborts>>

-----------------------------------------------------------------------------
(* PubSubPublisher.publish *)

SendAccepted(p) ==
    /\ reply[p] = "none"
    /\ \E e \in Event \ Poison :
          /\ PublishesNow(p, e)
          /\ topic' = topic \cup {e}
    /\ reply' = [reply EXCEPT ![p] = "accepted"]
    /\ UNCHANGED <<created, published, todo, aborts>>

\* Refused, or accepted with the answer lost: an exception either way.
SendFailed(p) ==
    /\ reply[p] = "none"
    /\ \E e \in Event :
          /\ PublishesNow(p, e)
          /\ topic' \in {topic} \cup {topic \cup {x} : x \in {e} \ Poison}
    /\ reply' = [reply EXCEPT ![p] = "error"]
    /\ UNCHANGED <<created, published, todo, aborts>>

\* Mutant: the handler of the exception does not return.
RecordErrorAndGoOn(p) ==
    /\ reply[p] = "error"
    /\ \E e \in Event :
          /\ PublishesNow(p, e)
          /\ todo' = [todo EXCEPT ![p] = @ \ {e}]
          /\ published' = published \cup {e}
    /\ reply' = [reply EXCEPT ![p] = "none"]
    /\ UNCHANGED <<created, topic, aborts>>

\* Mutant: the first failure ends the sweep.
RecordErrorAndStop(p) ==
    /\ reply[p] = "error"
    /\ todo' = [todo EXCEPT ![p] = {}]
    /\ reply' = [reply EXCEPT ![p] = "none"]
    /\ UNCHANGED <<created, published, topic, aborts>>

\* publish_error is written and published_at left null: the loop goes on.
RecordError(p) ==
    /\ reply[p] = "error"
    /\ \E e \in Event :
          /\ PublishesNow(p, e)
          /\ todo' = [todo EXCEPT ![p] = @ \ {e}]
    /\ reply' = [reply EXCEPT ![p] = "none"]
    /\ UNCHANGED <<created, published, topic, aborts>>

\* Mutant: the time is recorded in place of the row.
RecordTimeOnly(p) ==
    /\ reply[p] = "accepted"
    /\ \E e \in Event :
          /\ PublishesNow(p, e)
          /\ published' = published \cup {created[e]}
          /\ todo' = [todo EXCEPT ![p] = @ \ {e}]
    /\ reply' = [reply EXCEPT ![p] = "none"]
    /\ UNCHANGED <<created, topic, aborts>>

RecordPublished(p) ==
    /\ reply[p] = "accepted"
    /\ \E e \in Event :
          /\ PublishesNow(p, e)
          /\ published' = published \cup {e}
          /\ todo' = [todo EXCEPT ![p] = @ \ {e}]
    /\ reply' = [reply EXCEPT ![p] = "none"]
    /\ UNCHANGED <<created, topic, aborts>>

\* The process dies, or the commit of the outcome fails: the rest of the
\* selection is not attempted.
Abort(p) ==
    /\ aborts < MaxAborts
    /\ todo[p] # {}
    /\ todo' = [todo EXCEPT ![p] = {}]
    /\ reply' = [reply EXCEPT ![p] = "none"]
    /\ aborts' = aborts + 1
    /\ UNCHANGED <<created, published, topic>>

-----------------------------------------------------------------------------
Publish(p) == SendAccepted(p) \/ SendFailed(p) \/ RecordError(p) \/ RecordPublished(p)

OutboxNext ==
    \/ \E e \in Event : Approve(e)
    \/ \E s \in Sweeper : Sweep(s)
    \/ \E p \in Publisher : SendAccepted(p)
    \/ \E p \in Publisher : SendFailed(p)
    \/ \E p \in Publisher : RecordError(p)
    \/ \E p \in Publisher : RecordPublished(p)
    \/ \E p \in Publisher : Abort(p)

\* The scheduler calls again and again, a publisher that runs goes on, and
\* Pub/Sub does not fail for ever.
OutboxFairness ==
    /\ \A s \in Sweeper : WF_outboxVars(Sweep(s))
    /\ \A p \in Publisher : WF_outboxVars(Publish(p))
    /\ \A p \in Publisher : SF_outboxVars(SendAccepted(p))

OutboxSpec == OutboxInit /\ [][OutboxNext]_outboxVars /\ OutboxFairness

-----------------------------------------------------------------------------
(* Properties *)

\* A row recorded as published was accepted by Pub/Sub: whatever send failed,
\* whoever retried it, no event is given up as delivered
\* (PubSubPublisher.publish).
PublishedWasAccepted == published \subseteq topic

\* Subscribers never hear of a promotion that is not committed
\* (approve_promotion publishes after its commit).
AcceptedWasCommitted == topic \subseteq Committed

\* Every committed event that Pub/Sub can accept is published in the end,
\* whichever attempts fail or die, as long as the sweep's window is larger
\* than the number of events that are always refused
\* (sweep_unpublished_outbox_events).
EventIsPublished ==
    \A e \in Event \ Poison : (e \in Committed) ~> (e \in published)
=============================================================================
