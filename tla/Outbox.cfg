\* Three approvals, one of them with an event that is never accepted, one
\* sweeper of two rows, one publisher that dies.
SPECIFICATION OutboxSpec
CONSTANTS
    Event = {e1, e2, e3}
    Sweeper = {s1}
    Poison = {e1}
    Limit = 2
    MaxAborts = 1
INVARIANTS
    OutboxTypeOK
    PublishedWasAccepted
    AcceptedWasCommitted
PROPERTY EventIsPublished
