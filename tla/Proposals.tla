----------------------------- MODULE Proposals -----------------------------
(***************************************************************************)
(* The self-improvement pipeline: the daily analysis of                    *)
(* mercury.services.hermes stores proposals and announces them in one      *)
(* event; mercury.services.learning backtests the batch inside that event; *)
(* people approve (CLI processes, commands on the mesh thread), which      *)
(* deploys a version.  All proposals here target one strategy: versions of *)
(* different strategies are numbered apart.                                *)
(*                                                                         *)
(* Every database session is one step, but for the approval, which is      *)
(* split where PostgreSQL lets another session in: the SELECT takes no     *)
(* lock, the UPDATE that autoflush sends before max(version) is read does. *)
(***************************************************************************)
EXTENDS Naturals, FiniteSets

CONSTANTS
  Proposals,    \* ids of the proposals table
  Actors,       \* callers of approve_proposal
  NoProposal,   \* "no proposal is being backtested"
  Faults        \* "raise": a step raises (database, data file, bad config)
                \* "crash": the process dies

ASSUME ProposalsAssumption ==
  /\ IsFiniteSet(Proposals) /\ IsFiniteSet(Actors)
  /\ NoProposal \notin Proposals
  /\ Faults \subseteq {"raise", "crash"}

VARIABLES
  status,    \* ProposalRecord.status; "none" before the insert
  versions,  \* the strategy_versions table
  phase,     \* where the daily job is: idle, summary, create, backtest
  created,   \* ids the analysis in progress has stored
  batch,     \* ids _on_proposals has still to look at
  current,   \* the id being backtested
  pc,        \* where each approver is
  claim,     \* the version row its open transaction holds
  dropped,   \* ids an aborted pass had still to deal with (history)
  raced      \* ids two approvers were at once (history)

daily == <<phase, created, batch, current>>
approvers == <<pc, claim, raced>>
vars == <<status, versions, daily, approvers, dropped>>

Status == {"none", "proposed", "backtesting", "awaiting_human", "rejected",
           "approved_paper", "promoted"}
Approved == {"approved_paper", "promoted"}
Stages == {"paper", "live"}
NoClaim == [proposal |-> NoProposal, version |-> 0, stage |-> "paper"]
Rows == [proposal : Proposals, version : Nat \ {0}, stage : Stages]

Numbers == {v.version : v \in versions}

Init ==
  /\ status = [p \in Proposals |-> "none"]
  /\ versions = {}
  /\ phase = "idle" /\ created = {} /\ batch = {} /\ current = NoProposal
  /\ pc = [a \in Actors |-> "idle"]
  /\ claim = [a \in Actors |-> NoClaim]
  /\ dropped = {} /\ raced = {}

(***************************************************************************)
(* run_daily_analysis, one job at a time.                                  *)
(***************************************************************************)
StartAnalysis ==
  /\ phase = "idle" /\ phase' = "summary"
  /\ UNCHANGED <<status, versions, created, batch, current, approvers, dropped>>

\* The job raises: the scheduler logs it, rows stored so far stay.
Abort ==
  /\ phase' = "idle" /\ created' = {} /\ batch' = {} /\ current' = NoProposal
  /\ dropped' = dropped \cup created \cup batch \cup ({current} \ {NoProposal})
  /\ UNCHANGED <<status, versions, approvers>>

\* As the code stands the summary always raises: compute_metrics returns a
\* dict, of which it reads the attribute metrics.
AnalysisRaises == phase \in {"summary", "create"} /\ "raise" \in Faults /\ Abort

Summarise ==
  /\ phase = "summary" /\ phase' = "create"
  /\ UNCHANGED <<status, versions, created, batch, current, approvers, dropped>>

\* One ProposalRecord, in a session of its own.
Propose(p) ==
  /\ phase = "create" /\ status[p] = "none"
  /\ status' = [status EXCEPT ![p] = "proposed"]
  /\ created' = created \cup {p}
  /\ UNCHANGED <<versions, phase, batch, current, approvers, dropped>>

\* bus.publish awaits learning's handler: the batch runs inside the job.
Announce ==
  /\ phase = "create" /\ created # {}
  /\ phase' = "backtest" /\ batch' = created /\ created' = {}
  /\ UNCHANGED <<status, versions, current, approvers, dropped>>

NothingProposed ==
  /\ phase = "create" /\ created = {} /\ phase' = "idle"
  /\ UNCHANGED <<status, versions, created, batch, current, approvers, dropped>>

(***************************************************************************)
(* _on_proposals and _backtest_proposal.                                   *)
(***************************************************************************)
NextProposal(p) == phase = "backtest" /\ current = NoProposal /\ p \in batch

\* BACKTESTING is committed before the backtest.
Begin(p) ==
  /\ NextProposal(p)
  /\ status' = [status EXCEPT ![p] = "backtesting"]
  /\ batch' = batch \ {p} /\ current' = p
  /\ UNCHANGED <<versions, phase, created, approvers, dropped>>

\* The target strategy is not configured.
RejectTarget(p) ==
  /\ NextProposal(p)
  /\ status' = [status EXCEPT ![p] = "rejected"]
  /\ batch' = batch \ {p}
  /\ UNCHANGED <<versions, phase, created, current, approvers, dropped>>

\* mutated: what the backtest refuses stays marked as running
VerdictLost(verdict) == IF verdict = "rejected" THEN "backtesting" ELSE verdict

\* the status written after the backtest
Verdict(verdict) == verdict

Conclude(verdict) ==
  /\ current # NoProposal
  /\ status' = [status EXCEPT ![current] = Verdict(verdict)]
  /\ current' = NoProposal
  /\ UNCHANGED <<versions, phase, created, batch, approvers, dropped>>

\* Fewer than 100 candles, or the backtest raised.
RejectData == Conclude("rejected")

\* The paper gate.
Judge == \E verdict \in {"awaiting_human", "rejected"} : Conclude(verdict)

\* Outside the try: nothing is written and the rest of the batch is not
\* looked at.  As the code stands every backtest that succeeds ends here:
\* _passes_paper_gate, which it calls next, is defined nowhere.
BatchRaises ==
  /\ phase = "backtest"
  /\ "raise" \in Faults /\ (current # NoProposal \/ batch # {})
  /\ Abort

BatchDone ==
  /\ phase = "backtest" /\ current = NoProposal /\ batch = {} /\ phase' = "idle"
  /\ UNCHANGED <<status, versions, created, batch, current, approvers, dropped>>

(***************************************************************************)
(* approve_proposal.                                                       *)
(***************************************************************************)
\* mutated: the status is not looked at
ApprovableAny(p) == status[p] # "none"

Approvable(p) == status[p] = "awaiting_human"

\* The SELECT; a refusal returns False and changes nothing.
Ask(a, p, stage) ==
  /\ pc[a] = "idle" /\ Approvable(p)
  /\ pc' = [pc EXCEPT ![a] = "asked"]
  /\ claim' = [claim EXCEPT ![a] = [proposal |-> p, version |-> 0, stage |-> stage]]
  /\ raced' = IF \E b \in Actors : claim[b].proposal = p THEN raced \cup {p} ELSE raced
  /\ UNCHANGED <<status, versions, daily, dropped>>

\* mutated: max(version) of an empty table counts as 1
NextVersionSkips == 1 + CHOOSE n \in Numbers \cup {1} : \A m \in Numbers : m <= n

\* (max(version) or 0) + 1
NextVersion == 1 + CHOOSE n \in Numbers \cup {0} : \A m \in Numbers : m <= n

\* The flushed UPDATE locks the proposal's row until the transaction ends;
\* max(version) sees what is committed by then.
Claim(a) ==
  /\ pc[a] = "asked"
  /\ \A b \in Actors : pc[b] = "claimed" => claim[b].proposal # claim[a].proposal
  /\ pc' = [pc EXCEPT ![a] = "claimed"]
  /\ claim' = [claim EXCEPT ![a].version = NextVersion]
  /\ UNCHANGED <<status, versions, daily, dropped, raced>>

Return(a) ==
  /\ pc' = [pc EXCEPT ![a] = "idle"]
  /\ claim' = [claim EXCEPT ![a] = NoClaim]

ApprovedStatus(stage) == IF stage = "paper" THEN "approved_paper" ELSE "promoted"

Deploy(a) ==
  /\ pc[a] = "claimed" /\ claim[a].version \notin Numbers
  /\ versions' = versions \cup {claim[a]}
  /\ status' = [status EXCEPT ![claim[a].proposal] = ApprovedStatus(claim[a].stage)]
  /\ Return(a)
  /\ UNCHANGED <<daily, dropped, raced>>

\* uq_strategy_version: another proposal took the number; or the approver
\* dies before the commit.  All is rolled back.
DeployFails(a) ==
  /\ pc[a] = "claimed" /\ (claim[a].version \in Numbers \/ "crash" \in Faults)
  /\ Return(a)
  /\ UNCHANGED <<status, versions, daily, dropped, raced>>

\* The trading process dies.  Nothing looks for half-processed proposals at
\* the next start.
Die == "crash" \in Faults /\ phase # "idle" /\ Abort

Daily ==
  \/ StartAnalysis \/ AnalysisRaises \/ Summarise \/ Announce \/ NothingProposed
  \/ RejectData \/ Judge \/ BatchRaises \/ BatchDone
  \/ \E p \in Proposals : Propose(p) \/ Begin(p) \/ RejectTarget(p)

Next ==
  \/ Daily \/ Die
  \/ \E a \in Actors :
       \/ \E p \in Proposals, stage \in Stages : Ask(a, p, stage)
       \/ Claim(a) \/ Deploy(a) \/ DeployFails(a)

Spec == Init /\ [][Next]_vars

\* The scheduler runs the daily job and the job runs to its end or raises.
FairSpec == Spec /\ WF_vars(Daily)

-----------------------------------------------------------------------------
TypeOK ==
  /\ status \in [Proposals -> Status]
  /\ versions \subseteq Rows
  /\ phase \in {"idle", "summary", "create", "backtest"}
  /\ created \subseteq Proposals /\ batch \subseteq Proposals
  /\ current \in Proposals \cup {NoProposal}
  /\ pc \in [Actors -> {"idle", "asked", "claimed"}]
  /\ \A a \in Actors : claim[a].version \in Nat /\ claim[a].stage \in Stages
  /\ dropped \subseteq Proposals /\ raced \subseteq Proposals

\* The versions of a strategy are numbered 1, 2, 3, ... with no gap and no
\* repetition, however approvals overlap or lose the race (_new_version).
VersionsDense == Numbers = 1..Cardinality(versions)

\* A proposal is approved exactly when a version was deployed for it, and its
\* status names the stage of the last one (approve_proposal, one transaction).
ApprovedIsDeployed ==
  \A p \in Proposals :
    LET mine == {v \in versions : v.proposal = p} IN
    /\ status[p] \in Approved <=> mine # {}
    /\ \A v \in mine : (\A w \in mine : w.version <= v.version)
                         => (v.stage = "live" <=> status[p] = "promoted")

\* The human gate opens once: only approvals of the same proposal that
\* overlap between the check and the locking UPDATE deploy it twice.
ApprovedOnce ==
  \A p \in Proposals \ raced : Cardinality({v \in versions : v.proposal = p}) <= 1

\* Versions and statuses fit together, and nothing is deployed twice.
DeploymentInv == TypeOK /\ VersionsDense /\ ApprovedIsDeployed /\ ApprovedOnce

\* No version is deployed of a proposal whose backtest did not put it before
\* a person, and an approved proposal never goes back.
HumanGate ==
  [][\A p \in Proposals :
       /\ status'[p] \in Approved => status[p] \in Approved \cup {"awaiting_human"}
       /\ status[p] \in Approved => status'[p] \in Approved]_vars

\* Every proposal the analysis stores gets a verdict, unless the pass raised
\* or died with that proposal still to deal with.
DecidedOrDropped ==
  \A p \in Proposals :
    (status[p] = "proposed")
      ~> (status[p] \notin {"proposed", "backtesting"} \/ p \in dropped)

=============================================================================
