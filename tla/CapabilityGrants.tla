-------------------------- MODULE CapabilityGrants --------------------------
(***************************************************************************)
(* grant_capability and revoke_capability (services/capability_grants.py)  *)
(* handler by handler, on the versions that Publication creates.  Each     *)
(* reads first and writes later, without a lock.  Evidence takes each of   *)
(* them as one step; this module shows that it may.                        *)
(***************************************************************************)
EXTENDS Publication

CONSTANTS
    Grant,        \* grant requests, a row being the request that inserted it
    GrantVersion, \* the version each request is about
    GrantTool,    \* the tool
    Revocation,   \* calls of revoke_capability
    NoRevocation, \* a row whose revoked_by and revoked_at are null
    NoGrant       \* a call that is not running

ASSUME GrantsAssumption ==
    /\ GrantVersion \in [Grant -> Attempt]
    /\ GrantTool \in [Grant -> Tool]
    /\ NoRevocation \notin Revocation
    /\ NoGrant \notin Grant

VARIABLES
    row,      \* agent_capability_grants rows
    revoked,  \* revoked[g]: the call whose name and time the row bears
    granting, \* granting[g]: the handler of a grant request
    revoking, \* revoking[c]: the row a revocation has found active
    audited   \* capability.revoked audit events: the row and the call

grantVars == <<row, revoked, granting, revoking, audited>>

registryVars == <<publicationVars, grantVars>>

-----------------------------------------------------------------------------
RegistryTypeOK ==
    /\ PublicationTypeOK
    /\ row \subseteq Grant
    /\ revoked \in [Grant -> Revocation \cup {NoRevocation}]
    /\ granting \in [Grant -> {"idle", "checked", "done"}]
    /\ revoking \in [Revocation -> Grant \cup {NoGrant}]
    /\ audited \subseteq Grant \X Revocation

RegistryInit ==
    /\ PublicationInit
    /\ row = {}
    /\ revoked = [g \in Grant |-> NoRevocation]
    /\ granting = [g \in Grant |-> "idle"]
    /\ revoking = [c \in Revocation |-> NoGrant]
    /\ audited = {}

Active(g) == g \in row /\ revoked[g] = NoRevocation

\* Mutant: two grants clash only if they are one row.
HasActiveRow(g) == Active(g)

\* The rows uq_one_active_grant_per_version_tool forbids a second one of.
HasActiveGrant(g) ==
    \E h \in Grant :
        /\ Active(h)
        /\ GrantVersion[h] = GrantVersion[g]
        /\ GrantTool[h] = GrantTool[g]

-----------------------------------------------------------------------------
(* grant_capability *)

BeginGrant(g) ==
    /\ granting[g] = "idle"
    /\ GrantVersion[g] \in version
    /\ GrantTool[g] \in registered
    /\ ~HasActiveGrant(g)
    /\ granting' = [granting EXCEPT ![g] = "checked"]
    /\ UNCHANGED <<publicationVars, row, revoked, revoking, audited>>

CommitGrant(g) ==
    /\ granting[g] = "checked"
    /\ ~HasActiveGrant(g)
    /\ row' = row \cup {g}
    /\ granting' = [granting EXCEPT ![g] = "done"]
    /\ UNCHANGED <<publicationVars, revoked, revoking, audited>>

\* The index refuses the row, or the process dies.
LoseGrant(g) ==
    /\ granting[g] = "checked"
    /\ granting' = [granting EXCEPT ![g] = "done"]
    /\ UNCHANGED <<publicationVars, row, revoked, revoking, audited>>

-----------------------------------------------------------------------------
(* revoke_capability *)

\* The row is active.  A call that has revoked one is over.
BeginRevocation(c, g) ==
    /\ revoking[c] = NoGrant
    /\ \A h \in Grant : <<h, c>> \notin audited
    /\ Active(g)
    /\ revoking' = [revoking EXCEPT ![c] = g]
    /\ UNCHANGED <<publicationVars, row, revoked, granting, audited>>

\* Mutant: the audit event is left to the caller.
CommitRevocationUnaudited(c) ==
    LET g == revoking[c] IN
    /\ g # NoGrant
    /\ revoked' = [revoked EXCEPT ![g] = c]
    /\ revoking' = [revoking EXCEPT ![c] = NoGrant]
    /\ UNCHANGED <<publicationVars, row, granting, audited>>

\* Mutant: the row is deleted.
CommitRevocationDeleting(c) ==
    LET g == revoking[c] IN
    /\ g # NoGrant
    /\ row' = row \ {g}
    /\ audited' = audited \cup {<<g, c>>}
    /\ revoking' = [revoking EXCEPT ![c] = NoGrant]
    /\ UNCHANGED <<publicationVars, revoked, granting>>

\* The UPDATE is keyed on the row alone: whether it is still active is not
\* asked again.
CommitRevocation(c) ==
    LET g == revoking[c] IN
    /\ g # NoGrant
    /\ revoked' = [revoked EXCEPT ![g] = c]
    /\ audited' = audited \cup {<<g, c>>}
    /\ revoking' = [revoking EXCEPT ![c] = NoGrant]
    /\ UNCHANGED <<publicationVars, row, granting>>

LoseRevocation(c) ==
    /\ revoking[c] # NoGrant
    /\ revoking' = [revoking EXCEPT ![c] = NoGrant]
    /\ UNCHANGED <<publicationVars, row, revoked, granting, audited>>

-----------------------------------------------------------------------------
GrantsNext ==
    \/ \E g \in Grant : BeginGrant(g) \/ CommitGrant(g) \/ LoseGrant(g)
    \/ \E c \in Revocation, g \in Grant : BeginRevocation(c, g)
    \/ \E c \in Revocation : CommitRevocation(c) \/ LoseRevocation(c)

RegistryNext ==
    \/ GrantsNext
    \/ PublicationNext /\ UNCHANGED grantVars

RegistrySpec == RegistryInit /\ [][RegistryNext]_registryVars

-----------------------------------------------------------------------------
(* Properties *)

\* A version has at most one active grant of a tool, however requests overlap
\* with each other and with revocations: revoking it withdraws the tool
\* (migration 0009).
OneActiveGrant ==
    \A g, h \in Grant :
        /\ Active(g) /\ Active(h)
        /\ GrantVersion[g] = GrantVersion[h]
        /\ GrantTool[g] = GrantTool[h]
        => g = h

\* Whatever a grant or a version refers to is there: the version a grant is
\* for, its tool, and all that the manifest of a version names.
ReferencesResolve ==
    /\ \A g \in row : GrantVersion[g] \in version /\ GrantTool[g] \in registered
    /\ \A p \in version : AttemptRefs[p] \subseteq registered

\* A row is revoked exactly when a revocation of it is in the audit trail, the
\* one the row bears being among those.
RevocationIsAudited ==
    \A g \in Grant :
        IF revoked[g] = NoRevocation
        THEN \A c \in Revocation : <<g, c>> \notin audited
        ELSE g \in row /\ <<g, revoked[g]>> \in audited

\* The state of each row as Evidence sees it.  What else Evidence has does not
\* move here.
GrantStates ==
    [g \in Grant |-> IF g \notin row THEN "none"
                     ELSE IF Active(g) THEN "active" ELSE "revoked"]

Rows == INSTANCE Evidence WITH
    Version <- Attempt,
    MaxPolicy <- 1,
    EvaluatorVersion <- {0},
    RequiredEvaluator <- [p \in 1..1 |-> 0],
    DatasetVersion <- {0},
    grant <- GrantStates,
    policy <- 1,
    evaluator <- 0,
    dataset <- 0

\* Seen by the evaluations, grants are the ones of Evidence: a row becomes
\* active once and is revoked once and for good, in single steps.
ImplementsEvidence == Rows!EvidenceInit /\ [][Rows!EvidenceNext]_(Rows!evidenceVars)
=============================================================================
