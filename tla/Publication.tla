----------------------------- MODULE Publication -----------------------------
(***************************************************************************)
(* How the versions of one agent come to be: create_agent_version          *)
(* (services/agents.py), called by a person or by the CI of the agent      *)
(* (api/ci_publish.py), and resolve_manifest (services/manifest.py), which *)
(* accepts a manifest only if everything it names is registered.           *)
(*                                                                         *)
(* A call looks up the commit, the label and the references first and      *)
(* inserts the version later; no lock is taken, and the unique constraint  *)
(* on the label is what the insert meets.  Versions, skill versions and    *)
(* tools are never deleted.                                                *)
(***************************************************************************)
EXTENDS Naturals, FiniteSets

CONSTANTS
    Attempt,      \* calls that publish a version, a version being its attempt
    Label,        \* version labels
    AttemptLabel, \* the label in the manifest of each attempt
    Commit,       \* commits of the agent's repository
    NoCommit,     \* published by a person
    AttemptCommit,\* the commit each attempt publishes
    SkillVersion, \* skill versions a manifest may pin
    Tool,         \* MCP tools a manifest may declare
    AttemptRefs,  \* the skill versions and tools in each manifest
    CiOnly,       \* requires_ci_provenance of the agent
    NoAttempt     \* not answered

\* Nothing makes the manifests of one commit alike: a retry may differ, in its
\* label too.
ASSUME PublicationAssumption ==
    /\ AttemptLabel \in [Attempt -> Label]
    /\ NoCommit \notin Commit
    /\ AttemptCommit \in [Attempt -> Commit \cup {NoCommit}]
    /\ AttemptRefs \in [Attempt -> SUBSET (SkillVersion \cup Tool)]
    /\ CiOnly \in BOOLEAN
    /\ NoAttempt \notin Attempt

VARIABLES
    registered, \* skill versions and tools that are registered
    version,    \* versions of the agent
    attempt,    \* where each attempt is
    answer      \* the version each caller was answered with

publicationVars == <<registered, version, attempt, answer>>

-----------------------------------------------------------------------------
PublicationTypeOK ==
    /\ registered \subseteq SkillVersion \cup Tool
    /\ version \subseteq Attempt
    /\ attempt \in [Attempt -> {"idle", "resolved", "done"}]
    /\ answer \in [Attempt -> Attempt \cup {NoAttempt}]

PublicationInit ==
    /\ registered = {}
    /\ version = {}
    /\ attempt = [p \in Attempt |-> "idle"]
    /\ answer = [p \in Attempt |-> NoAttempt]

ByCi(p) == AttemptCommit[p] # NoCommit

SameCommit(p, q) == ByCi(p) /\ AttemptCommit[p] = AttemptCommit[q]

\* Whom create_agent_version lets through: anyone, or the CI alone.
MayPublish(p) == CiOnly => ByCi(p)

VersionsOfCommit(p) ==
    {q \in version : SameCommit(p, q)}

\* Mutant: the unique constraint is on the row alone.
LabelUnconstrained(p) == p \in version

\* uq_agent_version_label.
LabelTaken(p) == \E q \in version : AttemptLabel[q] = AttemptLabel[p]

-----------------------------------------------------------------------------
PublishSkillVersion(s) ==
    /\ s \notin registered
    /\ registered' = registered \cup {s}
    /\ UNCHANGED <<version, attempt, answer>>

RegisterMcpTool(t) ==
    /\ t \notin registered
    /\ registered' = registered \cup {t}
    /\ UNCHANGED <<version, attempt, answer>>

\* Mutant: the caller is answered with the commit.
AnswerWithCommit(p) ==
    /\ attempt[p] = "idle"
    /\ MayPublish(p)
    /\ VersionsOfCommit(p) # {}
    /\ answer' = [answer EXCEPT ![p] = AttemptCommit[p]]
    /\ attempt' = [attempt EXCEPT ![p] = "done"]
    /\ UNCHANGED <<registered, version>>

\* A retry of the CI finds its commit published.  It fails if it finds the
\* commit published twice (scalar_one_or_none).
AnswerPublished(p) ==
    /\ attempt[p] = "idle"
    /\ MayPublish(p)
    /\ \E q \in version :
          /\ VersionsOfCommit(p) = {q}
          /\ answer' = [answer EXCEPT ![p] = q]
    /\ attempt' = [attempt EXCEPT ![p] = "done"]
    /\ UNCHANGED <<registered, version>>

\* Mutant: the references of the manifest are not looked up.
ResolveAnything(p) ==
    /\ attempt[p] = "idle"
    /\ MayPublish(p)
    /\ VersionsOfCommit(p) = {}
    /\ ~LabelTaken(p)
    /\ attempt' = [attempt EXCEPT ![p] = "resolved"]
    /\ UNCHANGED <<registered, version, answer>>

\* The commit and the label are new and the manifest resolves.  A manifest
\* refused for what it says, whatever is registered, is not an attempt.
ResolveManifest(p) ==
    /\ attempt[p] = "idle"
    /\ MayPublish(p)
    /\ VersionsOfCommit(p) = {}
    /\ ~LabelTaken(p)
    /\ AttemptRefs[p] \subseteq registered
    /\ attempt' = [attempt EXCEPT ![p] = "resolved"]
    /\ UNCHANGED <<registered, version, answer>>

\* The version, its pins and its draft lifecycle row are committed together.
CreateVersion(p) ==
    /\ attempt[p] = "resolved"
    /\ ~LabelTaken(p)
    /\ version' = version \cup {p}
    /\ answer' = [answer EXCEPT ![p] = p]
    /\ attempt' = [attempt EXCEPT ![p] = "done"]
    /\ UNCHANGED registered

\* The constraint refuses the insert, or the process dies.
LoseVersion(p) ==
    /\ attempt[p] = "resolved"
    /\ attempt' = [attempt EXCEPT ![p] = "done"]
    /\ UNCHANGED <<registered, version, answer>>

-----------------------------------------------------------------------------
PublicationNext ==
    \/ \E s \in SkillVersion : PublishSkillVersion(s)
    \/ \E t \in Tool : RegisterMcpTool(t)
    \/ \E p \in Attempt : AnswerPublished(p) \/ ResolveManifest(p)
    \/ \E p \in Attempt : CreateVersion(p) \/ LoseVersion(p)

PublicationSpec == PublicationInit /\ [][PublicationNext]_publicationVars

-----------------------------------------------------------------------------
(* Properties *)

\* The calls for a commit whose manifests agree on the label are answered with
\* one version, of that commit, however they overlap: the look-up of the commit
\* is not protected, but the label is (create_agent_version).
RetriesAgree ==
    \A p, q \in Attempt :
        /\ SameCommit(p, q)
        /\ answer[p] # NoAttempt /\ answer[q] # NoAttempt
        => /\ SameCommit(p, answer[p])
           /\ \/ answer[p] = answer[q]
              \/ \E o \in Attempt :
                    SameCommit(o, p) /\ AttemptLabel[o] # AttemptLabel[p]

\* Stated by create_agent_version ("a CI retry for the same commit must never
\* create a duplicate version") and docs/phase-notes/phase-8.md ("even if the
\* manifest content differs on retry"): a commit is published as one version.
OneVersionPerCommit ==
    \A p, q \in version : SameCommit(p, q) => p = q
=============================================================================
