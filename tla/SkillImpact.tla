----------------------------- MODULE SkillImpact -----------------------------
(***************************************************************************)
(* Who depends on a skill: the agent versions that pin versions of it, and *)
(* what get_skill_impact (services/skills.py) says about the agents that   *)
(* are behind, beside the reviews of SkillReview.                          *)
(*                                                                         *)
(* A pin is set when an agent version is created and never changed.  The   *)
(* views are recomputed at each call from the rows there are then.         *)
(***************************************************************************)
EXTENDS SkillReview, Sequences

CONSTANTS
    Agent,       \* agents
    MaxConsumers \* a bound on the agent versions created

ASSUME ImpactAssumption == MaxConsumers \in Nat

VARIABLES
    created,   \* skill versions in the order of created_at
    consumers, \* agent versions in the order of created_at
    retired    \* the positions in consumers whose stage is deprecated

impactVars == <<skillVars, created, consumers, retired>>

AgentVersion == [agent : Agent, pins : SUBSET Version]

ImpactTypeOK ==
    /\ created \in Seq(Version)
    /\ consumers \in Seq(AgentVersion)
    /\ retired \subseteq DOMAIN consumers

ImpactInit ==
    /\ SkillInit
    /\ created = <<>>
    /\ consumers = <<>>
    /\ retired = {}

-----------------------------------------------------------------------------
(* get_skill_impact, for skill s *)

Published(s) == {i \in DOMAIN created : VersionSkill[created[i]] = s}

\* Mutant: the version to be on is the recommended one.
VersionToBeOn(s) == Recommended(s)

\* list_skill_versions(...)[-1], as a set.
LatestVersion(s) ==
    {created[i] : i \in {j \in Published(s) : \A k \in Published(s) : k <= j}}

OlderVersions(s) == {created[i] : i \in Published(s)} \ LatestVersion(s)

\* historical_consumers: every pin of an older version there ever was.
HistoricalConsumers(s) ==
    {c \in (DOMAIN consumers) \X OlderVersions(s) : c[2] \in consumers[c[1]].pins}

\* latest_by_agent: the newest agent version that is not deprecated.
NewestInUse(a) ==
    LET inUse == {i \in DOMAIN consumers \ retired : consumers[i].agent = a}
    IN  {i \in inUse : \A j \in inUse : j <= i}

\* current_impact.
CurrentImpact(s) ==
    {c \in HistoricalConsumers(s) : c[1] \in NewestInUse(consumers[c[1]].agent)}

\* agents_on_older_version of the dashboard counts these.
AgentsBehind(s) == {consumers[c[1]].agent : c \in CurrentImpact(s)}

-----------------------------------------------------------------------------
\* create_skill_version, or its unique constraint.
PublishSkillVersion(v) ==
    /\ CreateSkillVersion(v)
    /\ created' = Append(created, v)
    /\ UNCHANGED <<consumers, retired>>

\* create_agent_version with a manifest that resolves.
PublishAgentVersion(a, pins) ==
    /\ Len(consumers) < MaxConsumers
    /\ \A v \in pins : stage[v] # "absent"
    /\ consumers' = Append(consumers, [agent |-> a, pins |-> pins])
    /\ UNCHANGED <<skillVars, created, retired>>

\* An approval deprecates the agent version, or recommends it again.
RetireAgentVersion(i) ==
    /\ i \in DOMAIN consumers \ retired
    /\ retired' = retired \cup {i}
    /\ UNCHANGED <<skillVars, created, consumers>>

RestoreAgentVersion(i) ==
    /\ i \in retired
    /\ retired' = retired \ {i}
    /\ UNCHANGED <<skillVars, created, consumers>>

-----------------------------------------------------------------------------
(* Properties *)

\* No agent is upgraded silently: once shown to be behind, an agent stays so
\* until one of its own versions is published, deprecated or recommended again,
\* whatever is published, reviewed or rolled back on the side of the skill
\* ("consumers aren't auto-upgraded").
NoSilentUpgrade ==
    [][\A s \in Skill :
         UNCHANGED <<consumers, retired>>
             => AgentsBehind(s) \subseteq AgentsBehind(s)']_impactVars
=============================================================================
