----------------------------- MODULE PublicDemo -----------------------------
(***************************************************************************)
(* reset_demo_environment (services/demo.py), started by the scheduler and *)
(* by admins (api/demo.py, api/tasks.py), beside the reviews of            *)
(* PromotionReview.                                                        *)
(*                                                                         *)
(* A reset looks for stale pending requests of the demo agent once, then   *)
(* rejects them one transaction at a time through reject_promotion, and in *)
(* the end creates a fresh draft.  Whatever stops one rejection stops the  *)
(* reset.                                                                  *)
(***************************************************************************)
EXTENDS PromotionReview

CONSTANTS
    DemoAgent, \* the agent of the demo team
    System,    \* the system actor, an admin
    Reset,     \* resets
    ResetCall  \* the call of reject_promotion each reset makes, one at a time

ASSUME DemoAssumption ==
    /\ DemoAgent \in Agent
    /\ System \in Reviewer
    /\ \A p \in Promo : PromoRequester[p] # System
    /\ ResetCall \in [Reset -> Call]
    /\ \A s, t \in Reset : ResetCall[s] = ResetCall[t] => s = t

VARIABLES
    reset, \* reset[s]: the handler of a reset
    draft  \* the versions resets have created, each by its reset

demoVars == <<reset, draft>>

demoAllVars == <<allVars, demoVars>>

-----------------------------------------------------------------------------
\* found: the stale requests it selected; closed: the ones it has rejected.
ResetState ==
    [pc : {"idle", "closing", "rejecting", "done", "failed"},
     found : SUBSET Promo, closed : SUBSET Promo]

DemoTypeOK ==
    /\ ReviewTypeOK
    /\ reset \in [Reset -> ResetState]
    /\ draft \subseteq Reset

DemoInit ==
    /\ ReviewInit
    /\ reset = [s \in Reset |-> [pc |-> "idle", found |-> {}, closed |-> {}]]
    /\ draft = {}

DemoPending ==
    {p \in Promo : LockOf(p) = DemoAgent /\ promo[p].status = "PENDING"}

Left(s) == reset[s].found \ reset[s].closed

Goto(s, pc) == reset' = [reset EXCEPT ![s].pc = pc]

-----------------------------------------------------------------------------
\* The pending requests older than two hours may be any of them.
BeginReset(s) ==
    /\ reset[s].pc = "idle"
    /\ \E stale \in SUBSET DemoPending :
          reset' = [reset EXCEPT
                      ![s] = [pc |-> "closing", found |-> stale, closed |-> {}]]
    /\ UNCHANGED <<allVars, draft>>

\* The system actor may decide whatever it did not request.
BeginClosing(s) ==
    /\ reset[s].pc = "closing"
    /\ \E p \in Left(s) : BeginRejection(ResetCall[s], p)
    /\ Goto(s, "rejecting")
    /\ UNCHANGED draft

FinishClosing(s) ==
    /\ reset[s].pc = "rejecting"
    /\ CommitRejection(ResetCall[s])
    /\ reset' = [reset EXCEPT
                   ![s].pc = "closing",
                   ![s].closed = @ \cup {call[ResetCall[s]].promo}]
    /\ UNCHANGED draft

\* Mutant: a request that was decided meanwhile is counted as closed.
CountDecided(s) ==
    /\ reset[s].pc = "closing"
    /\ \E p \in Left(s) :
          /\ lock[LockOf(p)] = NoCall
          /\ promo[p].status # "PENDING"
          /\ reset' = [reset EXCEPT ![s].closed = @ \cup {p}]
    /\ UNCHANGED <<allVars, draft>>

\* Under the lock, a request turns out to be decided meanwhile: ConflictError,
\* which the reset does not catch.
FailOnDecided(s) ==
    /\ reset[s].pc = "closing"
    /\ \E p \in Left(s) :
          lock[LockOf(p)] = NoCall /\ promo[p].status # "PENDING"
    /\ Goto(s, "failed")
    /\ UNCHANGED <<allVars, draft>>

CreateDraft(s) ==
    /\ reset[s].pc = "closing"
    /\ Left(s) = {}
    /\ Goto(s, "done")
    /\ draft' = draft \cup {s}
    /\ UNCHANGED allVars

\* agent-eval is down for a rejection, or the process dies.
FailReset(s) ==
    /\ \/ reset[s].pc = "closing" /\ UNCHANGED allVars
       \/ reset[s].pc = "rejecting" /\ AbandonCall(ResetCall[s])
    /\ Goto(s, "failed")
    /\ UNCHANGED draft

ResetStep(s) ==
    \/ BeginReset(s)
    \/ BeginClosing(s)
    \/ FinishClosing(s)
    \/ FailOnDecided(s)
    \/ CreateDraft(s)
    \/ FailReset(s)

-----------------------------------------------------------------------------
VisitorCall == Call \ {ResetCall[s] : s \in Reset}

VisitorStep ==
    \/ \E p \in Promo : BeginFiling(p) \/ CommitFiling(p) \/ RefuseFiling(p)
    \/ \E c \in VisitorCall, p \in Promo : BeginApproval(c, p) \/ BeginRejection(c, p)
    \/ \E c \in VisitorCall : CallStep(c)
    \/ PipelineNext /\ UNCHANGED reviewVars

DemoNext ==
    \/ \E s \in Reset : ResetStep(s)
    \/ VisitorStep /\ UNCHANGED demoVars

DemoSpec == DemoInit /\ [][DemoNext]_demoAllVars

-----------------------------------------------------------------------------
(* Properties *)

\* What a reset answers with is what it did: the stale requests it found are
\* rejected, by it and not by another reset, none of them having been approved
\* meanwhile (closed_stale_requests of reset_demo_environment); and a reset that
\* failed half way has not put up the fresh version of an environment it cleaned.
ResetAnswerIsTrue ==
    /\ \A s \in Reset, p \in Promo :
          p \in reset[s].closed \/ (reset[s].pc = "done" /\ p \in reset[s].found)
              => promo[p].status = "REJECTED"
    /\ \A s, t \in Reset : s # t => reset[s].closed \cap reset[t].closed = {}
    /\ \A s \in draft : reset[s].pc = "done" /\ Left(s) = {}
=============================================================================
