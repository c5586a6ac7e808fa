----------------------- MODULE CapabilityGrants_proofs -----------------------
(***************************************************************************)
(* Publications and grants, for any number of versions, commits, labels,   *)
(* references, requests and revocations; and that the handlers of grants   *)
(* implement the single steps of Evidence.                                 *)
(***************************************************************************)
EXTENDS CapabilityGrants, TLAPS

\* What the constraint on the label gives.
LabelsAreUnique ==
    \A p, q \in version : AttemptLabel[p] = AttemptLabel[q] => p = q

\* A caller is answered with the version it created or with one of its commit.
AnswerIsOfCommit ==
    \A p \in Attempt :
        answer[p] # NoAttempt =>
            /\ answer[p] \in version
            /\ answer[p] = p \/ SameCommit(p, answer[p])

\* What a handler found it may rely on when it writes: nothing is deleted.
HandlersResolve ==
    /\ \A p \in Attempt :
          attempt[p] = "resolved" => AttemptRefs[p] \subseteq registered
    /\ \A g \in Grant :
          granting[g] = "checked" =>
              GrantVersion[g] \in version /\ GrantTool[g] \in registered

\* A request inserts its row once, and a row that is being revoked is there.
RowsAreInserted ==
    /\ \A g \in row : granting[g] = "done"
    /\ \A c \in Revocation : revoking[c] # NoGrant => revoking[c] \in row

RegistryInv ==
    /\ RegistryTypeOK
    /\ LabelsAreUnique
    /\ AnswerIsOfCommit
    /\ ReferencesResolve
    /\ HandlersResolve
    /\ RowsAreInserted
    /\ OneActiveGrant
    /\ RevocationIsAudited

-----------------------------------------------------------------------------
\* At first nothing is registered, published or granted.
LEMMA InitInv == RegistryInit => RegistryInv
<1> SUFFICES ASSUME RegistryInit PROVE RegistryInv
    OBVIOUS
<1> USE PublicationAssumption, GrantsAssumption
        DEF RegistryInit, PublicationInit
<1>1. RegistryTypeOK
    BY DEF RegistryTypeOK, PublicationTypeOK
<1>2. LabelsAreUnique /\ AnswerIsOfCommit
    BY DEF LabelsAreUnique, AnswerIsOfCommit
<1>3. ReferencesResolve /\ HandlersResolve /\ RowsAreInserted
    BY DEF ReferencesResolve, HandlersResolve, RowsAreInserted
<1>4. OneActiveGrant /\ RevocationIsAudited
    BY DEF OneActiveGrant, RevocationIsAudited, Active
<1> QED BY <1>1, <1>2, <1>3, <1>4 DEF RegistryInv

\* No step of a publication touches the grants, and none takes back what
\* they refer to.
LEMMA PublicationKeepsInv ==
    ASSUME RegistryInv, PublicationNext, UNCHANGED grantVars
    PROVE  RegistryInv'
<1> USE PublicationAssumption, GrantsAssumption
        DEF RegistryInv, RegistryTypeOK, PublicationTypeOK, grantVars
<1>1. ASSUME version' = version, registered \subseteq registered',
             registered' \subseteq SkillVersion \cup Tool,
             attempt' = attempt, answer' = answer
      PROVE  RegistryInv'
    BY <1>1 DEF LabelsAreUnique, AnswerIsOfCommit, ReferencesResolve,
        HandlersResolve, RowsAreInserted, OneActiveGrant, RevocationIsAudited,
        Active
<1>2. ASSUME NEW s \in SkillVersion, PublishSkillVersion(s) PROVE RegistryInv'
    BY <1>1, <1>2 DEF PublishSkillVersion
<1>3. ASSUME NEW t \in Tool, RegisterMcpTool(t) PROVE RegistryInv'
    BY <1>1, <1>3 DEF RegisterMcpTool
<1>4. ASSUME NEW p \in Attempt, AnswerPublished(p) PROVE RegistryInv'
  <2>1. PICK q \in version : /\ VersionsOfCommit(p) = {q}
                             /\ answer' = [answer EXCEPT ![p] = q]
    BY <1>4 DEF AnswerPublished
  <2>2. SameCommit(p, q)
    BY <2>1 DEF VersionsOfCommit
  <2>3. AnswerIsOfCommit'
    BY <1>4, <2>1, <2>2 DEF AnswerPublished, AnswerIsOfCommit
  <2> QED
    BY <1>4, <2>1, <2>3 DEF AnswerPublished, LabelsAreUnique,
        ReferencesResolve, HandlersResolve, RowsAreInserted, OneActiveGrant,
        RevocationIsAudited, Active
<1>5. ASSUME NEW p \in Attempt, ResolveManifest(p) PROVE RegistryInv'
    BY <1>5 DEF ResolveManifest, LabelsAreUnique, AnswerIsOfCommit,
        ReferencesResolve, HandlersResolve, RowsAreInserted, OneActiveGrant,
        RevocationIsAudited, Active
<1>6. ASSUME NEW p \in Attempt, CreateVersion(p) PROVE RegistryInv'
  <2>1. RegistryTypeOK' /\ AnswerIsOfCommit'
    BY <1>6 DEF CreateVersion, AnswerIsOfCommit
  <2>2. LabelsAreUnique'
    BY <1>6 DEF CreateVersion, LabelTaken, LabelsAreUnique
  <2>3. ReferencesResolve' /\ HandlersResolve'
    BY <1>6 DEF CreateVersion, ReferencesResolve, HandlersResolve
  <2>4. RowsAreInserted' /\ OneActiveGrant' /\ RevocationIsAudited'
    BY <1>6 DEF CreateVersion, RowsAreInserted, OneActiveGrant,
        RevocationIsAudited, Active
  <2> QED BY <2>1, <2>2, <2>3, <2>4
<1>7. ASSUME NEW p \in Attempt, LoseVersion(p) PROVE RegistryInv'
    BY <1>7 DEF LoseVersion, LabelsAreUnique, AnswerIsOfCommit,
        ReferencesResolve, HandlersResolve, RowsAreInserted, OneActiveGrant,
        RevocationIsAudited, Active
<1> QED
    BY <1>2, <1>3, <1>4, <1>5, <1>6, <1>7 DEF PublicationNext

\* A step of a grant or a revocation leaves the versions alone.
LEMMA GrantsKeepInv ==
    ASSUME RegistryInv, GrantsNext
    PROVE  RegistryInv'
<1> USE PublicationAssumption, GrantsAssumption
        DEF RegistryInv, RegistryTypeOK, PublicationTypeOK, publicationVars
<1>1. ASSUME UNCHANGED publicationVars
      PROVE  LabelsAreUnique' /\ AnswerIsOfCommit'
    BY <1>1 DEF LabelsAreUnique, AnswerIsOfCommit
<1>2. ASSUME NEW g \in Grant, BeginGrant(g) \/ LoseGrant(g) PROVE RegistryInv'
    BY <1>1, <1>2 DEF BeginGrant, LoseGrant, ReferencesResolve,
        HandlersResolve, RowsAreInserted, OneActiveGrant, RevocationIsAudited,
        Active
<1>3. ASSUME NEW g \in Grant, CommitGrant(g) PROVE RegistryInv'
  <2>1. RegistryTypeOK' /\ UNCHANGED publicationVars
    BY <1>3 DEF CommitGrant
  <2>2. ReferencesResolve' /\ HandlersResolve' /\ RowsAreInserted'
    BY <1>3 DEF CommitGrant, ReferencesResolve, HandlersResolve,
        RowsAreInserted
  <2>3. OneActiveGrant'
    BY <1>3 DEF CommitGrant, HasActiveGrant, OneActiveGrant, Active
  <2>4. RevocationIsAudited'
    BY <1>3 DEF CommitGrant, RevocationIsAudited
  <2> QED BY <1>1, <2>1, <2>2, <2>3, <2>4
<1>4. ASSUME NEW c \in Revocation, NEW g \in Grant, BeginRevocation(c, g)
      PROVE  RegistryInv'
    BY <1>1, <1>4 DEF BeginRevocation, ReferencesResolve, HandlersResolve,
        RowsAreInserted, OneActiveGrant, RevocationIsAudited, Active
<1>5. ASSUME NEW c \in Revocation, CommitRevocation(c) PROVE RegistryInv'
  <2> DEFINE g == revoking[c]
  <2>1. g \in row /\ g \in Grant
    BY <1>5 DEF CommitRevocation, RowsAreInserted
  <2>2. /\ revoked' = [revoked EXCEPT ![g] = c]
        /\ audited' = audited \cup {<<g, c>>}
        /\ revoking' = [revoking EXCEPT ![c] = NoGrant]
        /\ UNCHANGED <<publicationVars, row, granting>>
    BY <1>5 DEF CommitRevocation
  <2> HIDE DEF g
  <2>3. RegistryTypeOK'
    BY <2>1, <2>2
  <2>4. ReferencesResolve' /\ HandlersResolve' /\ RowsAreInserted'
    BY <2>1, <2>2 DEF ReferencesResolve, HandlersResolve, RowsAreInserted
  <2>5. OneActiveGrant'
    BY <2>1, <2>2 DEF OneActiveGrant, Active
  <2>6. RevocationIsAudited'
    BY <2>1, <2>2 DEF RevocationIsAudited
  <2> QED BY <1>1, <2>2, <2>3, <2>4, <2>5, <2>6
<1>6. ASSUME NEW c \in Revocation, LoseRevocation(c) PROVE RegistryInv'
    BY <1>1, <1>6 DEF LoseRevocation, ReferencesResolve, HandlersResolve,
        RowsAreInserted, OneActiveGrant, RevocationIsAudited, Active
<1> QED
    BY <1>2, <1>3, <1>4, <1>5, <1>6 DEF GrantsNext

\* The inductive invariant of publications and grants.
THEOREM RegistryInvariant == RegistrySpec => []RegistryInv
<1>1. RegistryInv /\ UNCHANGED registryVars => RegistryInv'
    BY DEF registryVars, publicationVars, grantVars, RegistryInv,
        RegistryTypeOK, PublicationTypeOK, LabelsAreUnique, AnswerIsOfCommit,
        ReferencesResolve, HandlersResolve, RowsAreInserted, OneActiveGrant,
        RevocationIsAudited, Active
<1>2. RegistryInv /\ [RegistryNext]_registryVars => RegistryInv'
    BY <1>1, PublicationKeepsInv, GrantsKeepInv DEF RegistryNext
<1> QED BY InitInv, <1>2, PTL DEF RegistrySpec

-----------------------------------------------------------------------------
(* The properties *)

\* Types, for any number of publications, requests and revocations.
THEOREM RegistryTypeCorrect == RegistrySpec => []RegistryTypeOK
BY RegistryInvariant, PTL DEF RegistryInv

\* A version has at most one active grant of a tool, for any number of
\* overlapping requests and revocations.
THEOREM ActiveGrantIsUnique == RegistrySpec => []OneActiveGrant
BY RegistryInvariant, PTL DEF RegistryInv

\* Grants and versions refer to what is there.
THEOREM ReferencesAreResolved == RegistrySpec => []ReferencesResolve
BY RegistryInvariant, PTL DEF RegistryInv

\* Revoked rows and the audit trail agree.
THEOREM RevocationsAreAudited == RegistrySpec => []RevocationIsAudited
BY RegistryInvariant, PTL DEF RegistryInv

\* Callers that publish one commit under one label are told of one version.
THEOREM RetriesAreAnsweredAlike == RegistrySpec => []RetriesAgree
<1>1. RegistryInv => RetriesAgree
  <2> SUFFICES ASSUME RegistryInv, NEW p \in Attempt, NEW q \in Attempt,
                      SameCommit(p, q), answer[p] # NoAttempt,
                      answer[q] # NoAttempt
               PROVE  /\ SameCommit(p, answer[p])
                      /\ \/ answer[p] = answer[q]
                         \/ \E o \in Attempt :
                               /\ SameCommit(o, p)
                               /\ AttemptLabel[o] # AttemptLabel[p]
    BY DEF RetriesAgree
  <2> USE DEF SameCommit, ByCi
  <2>1. /\ answer[p] \in version /\ SameCommit(p, answer[p])
        /\ answer[q] \in version /\ SameCommit(q, answer[q])
    BY DEF RegistryInv, AnswerIsOfCommit
  <2>2. version \subseteq Attempt
    BY DEF RegistryInv, RegistryTypeOK, PublicationTypeOK
  <2>3. CASE AttemptLabel[answer[p]] = AttemptLabel[answer[q]]
    BY <2>1, <2>3 DEF RegistryInv, LabelsAreUnique
  <2>4. CASE AttemptLabel[answer[p]] # AttemptLabel[answer[q]]
    <3>1. SameCommit(answer[p], p) /\ SameCommit(answer[q], p)
      BY <2>1
    <3> QED BY <2>1, <2>2, <2>4, <3>1
  <2> QED BY <2>1, <2>3, <2>4
<1> QED BY <1>1, RegistryInvariant, PTL

-----------------------------------------------------------------------------
(* One commit, one version: what is left of the claim *)

\* The publications of a commit agree on the label, as those of a CI do that
\* retries with the manifest it sent before.
OneLabelPerCommit ==
    \A p, q \in Attempt : SameCommit(p, q) => AttemptLabel[p] = AttemptLabel[q]

\* All callers who publish a commit are answered with one version.
OneAnswerPerCommit ==
    \A p, q \in Attempt :
        /\ SameCommit(p, q)
        /\ answer[p] # NoAttempt /\ answer[q] # NoAttempt
        => answer[p] = answer[q]

\* A commit is published a second time only under a second label: the look-up of
\* create_agent_version alone does not prevent it, the constraint on the label
\* does, however the calls overlap.
THEOREM SecondVersionHasOtherLabel ==
    RegistrySpec =>
        [](\A p, q \in version :
              SameCommit(p, q) /\ p # q => AttemptLabel[p] # AttemptLabel[q])
<1>1. RegistryInv =>
         \A p, q \in version :
            SameCommit(p, q) /\ p # q => AttemptLabel[p] # AttemptLabel[q]
  BY DEF RegistryInv, LabelsAreUnique
<1> QED BY <1>1, RegistryInvariant, PTL

\* What create_agent_version promises of the retries of a CI holds as long as
\* they send the label they sent before: the commit has one version, and all of
\* them are told of it.
THEOREM CommitIsPublishedOnce ==
    OneLabelPerCommit =>
        (RegistrySpec => [](OneVersionPerCommit /\ OneAnswerPerCommit))
<1>1. ASSUME OneLabelPerCommit, RegistryInv
      PROVE  OneVersionPerCommit /\ OneAnswerPerCommit
  <2>1. version \subseteq Attempt
    BY <1>1 DEF RegistryInv, RegistryTypeOK, PublicationTypeOK
  <2>2. OneVersionPerCommit
    BY <1>1, <2>1
       DEF RegistryInv, LabelsAreUnique, OneLabelPerCommit, OneVersionPerCommit
  <2>3. ASSUME NEW p \in Attempt, NEW q \in Attempt, SameCommit(p, q),
               answer[p] # NoAttempt, answer[q] # NoAttempt
        PROVE  answer[p] = answer[q]
    <3>1. /\ answer[p] \in version /\ SameCommit(p, answer[p])
          /\ answer[q] \in version /\ SameCommit(q, answer[q])
      BY <1>1, <2>3 DEF RegistryInv, AnswerIsOfCommit, SameCommit, ByCi
    <3>2. SameCommit(answer[p], answer[q])
      BY <2>3, <3>1 DEF SameCommit, ByCi
    <3> QED BY <2>2, <3>1, <3>2 DEF OneVersionPerCommit
  <2> QED BY <2>2, <2>3 DEF OneAnswerPerCommit
<1>2. OneLabelPerCommit => (RegistryInv => OneVersionPerCommit /\ OneAnswerPerCommit)
  BY <1>1
<1>3. SUFFICES ASSUME OneLabelPerCommit
               PROVE  RegistrySpec => [](OneVersionPerCommit /\ OneAnswerPerCommit)
  OBVIOUS
<1>4. RegistryInv => OneVersionPerCommit /\ OneAnswerPerCommit
  BY <1>2, <1>3
<1> QED BY <1>4, RegistryInvariant, PTL

-----------------------------------------------------------------------------
(* Nothing is taken back *)

\* Answers, versions, rows and audit events stay; a revoked row stays revoked.
NothingTakenBack ==
    /\ registered \subseteq registered'
    /\ version \subseteq version'
    /\ \A p \in Attempt : answer[p] # NoAttempt => answer'[p] = answer[p]
    /\ row \subseteq row'
    /\ audited \subseteq audited'
    /\ \A g \in Grant : revoked[g] # NoRevocation => revoked'[g] # NoRevocation

\* A caller is answered once, when its attempt is over.
AnsweredIsDone ==
    \A p \in Attempt : answer[p] # NoAttempt => attempt[p] = "done"

\* No step takes anything back.
LEMMA KeepingStep ==
    ASSUME RegistryInv, AnsweredIsDone, [RegistryNext]_registryVars
    PROVE  NothingTakenBack /\ AnsweredIsDone'
<1> DEFINE Kept == NothingTakenBack /\ AnsweredIsDone'
<1> USE PublicationAssumption, GrantsAssumption
        DEF RegistryInv, RegistryTypeOK, PublicationTypeOK, NothingTakenBack,
            AnsweredIsDone
<1>1. CASE UNCHANGED registryVars
  BY <1>1 DEF registryVars, publicationVars, grantVars
<1>2. ASSUME PublicationNext, UNCHANGED grantVars PROVE Kept
  BY <1>2 DEF PublicationNext, grantVars, PublishSkillVersion, RegisterMcpTool,
              AnswerPublished, ResolveManifest, CreateVersion, LoseVersion
<1>3. ASSUME NEW g \in Grant, BeginGrant(g) \/ CommitGrant(g) \/ LoseGrant(g)
      PROVE  Kept
  BY <1>3 DEF publicationVars, BeginGrant, CommitGrant, LoseGrant
<1>4. ASSUME NEW c \in Revocation, NEW g \in Grant, BeginRevocation(c, g)
      PROVE  Kept
  BY <1>4 DEF publicationVars, BeginRevocation
<1>5. ASSUME NEW c \in Revocation, CommitRevocation(c) \/ LoseRevocation(c)
      PROVE  Kept
  BY <1>5 DEF publicationVars, CommitRevocation, LoseRevocation
<1> QED BY <1>1, <1>2, <1>3, <1>4, <1>5 DEF RegistryNext, GrantsNext

\* What a version pins, what a caller was told and what the audit trail says is
\* never taken back, whichever other calls are under way; a grant that is
\* withdrawn never comes back (a new one is a new row).
THEOREM RegistryOnlyGrows == RegistrySpec => [][NothingTakenBack]_registryVars
<1>1. RegistryInit => AnsweredIsDone
  BY DEF RegistryInit, PublicationInit, AnsweredIsDone
<1>2. RegistryInv /\ AnsweredIsDone /\ [RegistryNext]_registryVars => AnsweredIsDone'
  BY KeepingStep
<1>3. RegistryInv /\ AnsweredIsDone /\ [RegistryNext]_registryVars
         => [NothingTakenBack]_registryVars
  BY KeepingStep
<1> QED BY <1>1, <1>2, <1>3, RegistryInvariant, PTL DEF RegistrySpec

-----------------------------------------------------------------------------
(* The refinement *)

\* At first no row is there.
LEMMA InitMaps == RegistryInit => Rows!EvidenceInit
BY DEF RegistryInit, Rows!EvidenceInit, GrantStates

\* Every step of the registry gives a grant, revokes one for good, or leaves
\* the states of the rows as they are.
LEMMA StepMaps ==
    ASSUME RegistryInv, [RegistryNext]_registryVars
    PROVE  [Rows!EvidenceNext]_(Rows!evidenceVars)
<1> USE GrantsAssumption DEF RegistryInv, RegistryTypeOK
<1>1. ASSUME row' = row, revoked' = revoked
      PROVE  UNCHANGED Rows!evidenceVars
  <2>1. GrantStates' = GrantStates
    BY <1>1 DEF GrantStates, Active
  <2> QED BY <2>1 DEF Rows!evidenceVars
<1>2. ASSUME NEW g \in Grant, CommitGrant(g) PROVE Rows!GrantCapability(g)
  <2>1. g \notin row /\ revoked[g] = NoRevocation
    BY <1>2 DEF CommitGrant, RowsAreInserted, RevocationIsAudited
  <2>2. GrantStates' = [GrantStates EXCEPT ![g] = "active"]
    BY <1>2, <2>1 DEF CommitGrant, GrantStates, Active
  <2> QED BY <2>1, <2>2 DEF Rows!GrantCapability, GrantStates
<1>3. ASSUME NEW c \in Revocation, CommitRevocation(c)
      PROVE  \/ UNCHANGED Rows!evidenceVars
             \/ \E g \in Grant : Rows!RevokeCapability(g)
  <2>1. PICK g \in Grant : /\ g \in row
                           /\ revoked' = [revoked EXCEPT ![g] = c]
                           /\ row' = row
    BY <1>3 DEF CommitRevocation, RowsAreInserted
  <2>2. GrantStates' = [GrantStates EXCEPT ![g] = "revoked"]
    BY <2>1 DEF GrantStates, Active
  <2>3. CASE revoked[g] = NoRevocation
    BY <2>1, <2>2, <2>3 DEF Rows!RevokeCapability, GrantStates, Active
  <2>4. CASE revoked[g] # NoRevocation
    <3>1. GrantStates' = GrantStates
      BY <2>1, <2>2, <2>4 DEF GrantStates, Active
    <3> QED BY <3>1 DEF Rows!evidenceVars
  <2> QED BY <2>1, <2>3, <2>4
<1>4. CASE PublicationNext /\ UNCHANGED grantVars
    BY <1>1, <1>4 DEF grantVars
<1>5. CASE UNCHANGED registryVars
    BY <1>1, <1>5 DEF registryVars, grantVars
<1>6. ASSUME NEW g \in Grant, BeginGrant(g) \/ LoseGrant(g)
      PROVE  UNCHANGED Rows!evidenceVars
    BY <1>1, <1>6 DEF BeginGrant, LoseGrant
<1>7. ASSUME NEW c \in Revocation,
             LoseRevocation(c) \/ \E g \in Grant : BeginRevocation(c, g)
      PROVE  UNCHANGED Rows!evidenceVars
    BY <1>1, <1>7 DEF BeginRevocation, LoseRevocation
<1>8. CASE GrantsNext
    BY <1>2, <1>3, <1>6, <1>7, <1>8 DEF GrantsNext, Rows!EvidenceNext
<1> HIDE DEF RegistryInv
<1> QED
    BY <1>4, <1>5, <1>8 DEF RegistryNext

\* The handlers of grants and revocations, each of which reads first and
\* writes later, implement the grants that the evaluations are modelled with.
THEOREM GrantsImplementEvidence == RegistrySpec => ImplementsEvidence
<1>1. RegistryInv /\ [RegistryNext]_registryVars
         => [Rows!EvidenceNext]_(Rows!evidenceVars)
    BY StepMaps
<1> QED
    BY InitMaps, <1>1, RegistryInvariant, PTL DEF RegistrySpec, ImplementsEvidence
=============================================================================
