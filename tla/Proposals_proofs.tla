-------------------------- MODULE Proposals_proofs --------------------------
(***************************************************************************)
(* Theorems about module Proposals, for any number of proposals and        *)
(* approvers.  The daily job only touches proposals that are proposed or   *)
(* under backtest, an approver only those that are past it, so neither     *)
(* invalidates what the other has read; and a number that was free and is  *)
(* not taken at the commit is the next one.                                *)
(***************************************************************************)
EXTENDS Proposals, Integers, FiniteSetTheorems, TLAPS

Claims == [proposal : Proposals \cup {NoProposal}, version : Nat, stage : Stages]

Typed ==
  /\ status \in [Proposals -> Status]
  /\ versions \in SUBSET Rows /\ IsFiniteSet(versions)
  /\ phase \in {"idle", "summary", "create", "backtest"}
  /\ created \in SUBSET Proposals /\ batch \in SUBSET Proposals
  /\ current \in Proposals \cup {NoProposal}
  /\ pc \in [Actors -> {"idle", "asked", "claimed"}]
  /\ claim \in [Actors -> Claims]
  /\ dropped \in SUBSET Proposals /\ raced \in SUBSET Proposals

\* What the daily job has in hand has not been before a person.
Underway ==
  /\ \A p \in created \cup batch : status[p] = "proposed"
  /\ current # NoProposal => status[current] = "backtesting"
  /\ phase # "create" => created = {}

Shown == Approved \cup {"awaiting_human"}

\* What an approver has read stays true until it commits; the number it holds is
\* taken or the next one.
Held(a) ==
  /\ pc[a] = "idle" <=> claim[a].proposal = NoProposal
  /\ pc[a] # "idle" => status[claim[a].proposal] \in Shown
  /\ pc[a] = "claimed" => claim[a].version \in 1..(Cardinality(versions) + 1)

AllHeld == \A a \in Actors : Held(a)

\* A proposal two approvers never had at once has one of them at most, and none
\* once it is approved.
Alone(p) ==
  /\ \A a, b \in Actors : claim[a].proposal = p /\ claim[b].proposal = p => a = b
  /\ status[p] \in Approved => \A a \in Actors : claim[a].proposal # p
  /\ \A v, w \in versions : v.proposal = p /\ w.proposal = p => v = w

AllAlone == \A p \in Proposals \ raced : Alone(p)

\* ApprovedIsDeployed of one proposal.
Deployed(p) ==
  LET mine == {v \in versions : v.proposal = p} IN
  /\ status[p] \in Approved <=> mine # {}
  /\ \A v \in mine : (\A w \in mine : w.version <= v.version)
                       => (v.stage = "live" <=> status[p] = "promoted")

ProposalsInv ==
  /\ Typed /\ Underway /\ AllHeld /\ AllAlone /\ VersionsDense
  /\ \A p \in Proposals : Deployed(p)

-----------------------------------------------------------------------------
(* Version numbers.                                                          *)

\* The largest of 1, ..., n, or 0, plus one.
LEMMA NextOf ==
  ASSUME NEW n \in Nat, Numbers = 1..n
  PROVE  NextVersion = n + 1
<1>1. n \in Numbers \cup {0} /\ \A m \in Numbers \cup {0} : m \in Nat /\ m <= n
      OBVIOUS
<1>2. \A x \in Numbers \cup {0} : (\A m \in Numbers : m <= x) => x = n
      BY <1>1
<1>3. \A m \in Numbers : m <= n
      BY <1>1
<1> DEFINE top == CHOOSE x \in Numbers \cup {0} : \A m \in Numbers : m <= x
<1>4. top \in Numbers \cup {0} /\ \A m \in Numbers : m <= top
      BY <1>1, <1>3
<1>5. top = n
      BY <1>2, <1>4
<1>6. NextVersion = 1 + top
      BY DEF NextVersion
<1> HIDE DEF top
<1>7. QED
  BY <1>5, <1>6

\* A free number that was the next one, or one taken since, is the next one.
LEMMA OneMore ==
  ASSUME IsFiniteSet(versions), versions \in SUBSET Rows, VersionsDense,
         NEW c \in Rows, c.version \in 1..(Cardinality(versions) + 1), c.version \notin Numbers,
         versions' = versions \cup {c}
  PROVE  /\ IsFiniteSet(versions') /\ VersionsDense'
         /\ Cardinality(versions) \in Nat /\ Cardinality(versions') = Cardinality(versions) + 1
         /\ \A v \in versions : v.version < c.version
<1> DEFINE n == Cardinality(versions)
<1>1. n \in Nat
      BY FS_CardinalityType
<1>2. Numbers = 1..n
      BY DEF VersionsDense
<1>3. c \notin versions
      BY DEF Numbers
<1>4. IsFiniteSet(versions') /\ Cardinality(versions') = n + 1
      BY <1>3, FS_AddElement
<1> HIDE DEF n
<1>5. c.version = n + 1
      BY <1>1, <1>2 DEF n
<1>6. Numbers' = Numbers \cup {n + 1}
      BY <1>5 DEF Numbers
<1>7. Numbers' = 1..(n + 1)
      BY <1>1, <1>2, <1>6
<1>8. VersionsDense'
      BY <1>4, <1>7 DEF VersionsDense
<1>9. \A v \in versions : v.version \in Numbers
      BY DEF Numbers
<1>10. \A v \in versions : v.version < c.version
      BY <1>1, <1>2, <1>5, <1>9
<1>11. QED
  BY <1>1, <1>4, <1>8, <1>10 DEF n

-----------------------------------------------------------------------------
(* The daily job.                                                            *)

Before == {"none", "proposed", "backtesting"}

\* What it writes, it writes where no person has looked.
Unseen ==
  \A p \in Proposals :
    status'[p] # status[p] => status[p] \in Before /\ status'[p] \notin Approved

Gate ==
  \A p \in Proposals :
    /\ status'[p] \in Approved => status[p] \in Shown
    /\ status[p] \in Approved => status'[p] \in Approved

LEMMA DailyKeeps ==
  ASSUME ProposalsInv, UNCHANGED <<versions, approvers>>, Typed', Underway', Unseen
  PROVE  ProposalsInv' /\ Gate
<1> USE DEF ProposalsInv
<1>0. UNCHANGED <<pc, claim, raced, versions>>
      BY DEF approvers
<1>1. \A p \in Proposals : /\ status[p] \in Shown => status'[p] = status[p]
                           /\ status'[p] \in Approved => status'[p] = status[p]
      BY DEF Unseen, Before, Shown, Approved
<1>2. Gate
      BY <1>1 DEF Gate, Shown
<1>3. AllHeld'
  <2>1. ASSUME NEW a \in Actors PROVE Held(a)'
    <3>1. Held(a)
          BY DEF AllHeld
    <3>2. pc[a] # "idle" => claim[a].proposal \in Proposals
          BY <3>1 DEF Held, Typed, Claims
    <3>3. QED
          BY <1>0, <1>1, <3>1, <3>2 DEF Held
  <2>2. QED
        BY <2>1 DEF AllHeld
<1>4. AllAlone'
      BY <1>0, <1>1 DEF AllAlone, Alone, Shown
<1>5. VersionsDense'
      BY <1>0 DEF VersionsDense, Numbers
<1>6. ASSUME NEW p \in Proposals PROVE Deployed(p)'
  <2>1. status'[p] \in Approved <=> status[p] \in Approved
        BY <1>1 DEF Shown
  <2>2. status'[p] = "promoted" <=> status[p] = "promoted"
        BY <1>1 DEF Shown, Approved
  <2>3. QED
        BY <1>0, <2>1, <2>2 DEF Deployed
<1>7. QED
  BY <1>2, <1>3, <1>4, <1>5, <1>6

\* One proposal in hand gets another status.
LEMMA OneWritten ==
  ASSUME ProposalsInv, NEW p \in Proposals, status[p] \in Before, NEW s \in Status,
         s \notin Approved, status' = [status EXCEPT ![p] = s]
  PROVE  Unseen /\ status' \in [Proposals -> Status]
BY DEF ProposalsInv, Typed, Unseen

\* The pass ends early: what it had in hand is dropped as it is.
LEMMA AbortKeeps ==
  ASSUME ProposalsInv, Abort
  PROVE  ProposalsInv' /\ Gate
<1>1. Typed'
      BY DEF Abort, ProposalsInv, Typed, approvers
<1>2. Underway' /\ Unseen
      BY DEF Abort, Underway, Unseen
<1>3. QED
  BY <1>1, <1>2, DailyKeeps DEF Abort

LEMMA ConcludeKeeps ==
  ASSUME ProposalsInv, NEW verdict \in {"awaiting_human", "rejected"}, Conclude(verdict)
  PROVE  ProposalsInv' /\ Gate
<1> USE DEF ProposalsInv
<1>1. current \in Proposals /\ status[current] = "backtesting"
      BY DEF Conclude, Typed, Underway
<1>2. /\ status' = [status EXCEPT ![current] = verdict] /\ current' = NoProposal
      /\ UNCHANGED <<versions, phase, created, batch, approvers, dropped>>
      BY DEF Conclude, Verdict
<1>3. Unseen /\ status' \in [Proposals -> Status]
      BY <1>1, <1>2, OneWritten DEF Before, Status, Approved
<1>4. Typed'
      BY <1>2, <1>3 DEF Typed, approvers
<1>5. Underway'
      BY <1>1, <1>2 DEF Typed, Underway
<1>6. QED
  BY <1>2, <1>3, <1>4, <1>5, DailyKeeps

\* Every step of the daily job, one by one.
LEMMA DailyStep == ProposalsInv /\ (Daily \/ Die) => ProposalsInv' /\ Gate
<1> SUFFICES ASSUME ProposalsInv, Daily \/ Die PROVE ProposalsInv' /\ Gate
    OBVIOUS
<1> USE DEF ProposalsInv
<1>1. CASE StartAnalysis \/ Summarise \/ Announce \/ NothingProposed \/ BatchDone
  <2>1. UNCHANGED <<status, versions, current, approvers, dropped>>
        BY <1>1 DEF StartAnalysis, Summarise, Announce, NothingProposed, BatchDone
  <2>2. Typed' /\ Underway'
        BY <1>1, <2>1 DEF StartAnalysis, Summarise, Announce, NothingProposed, BatchDone,
           Typed, Underway, approvers
  <2>3. Unseen
        BY <2>1 DEF Unseen
  <2>4. QED
        BY <2>1, <2>2, <2>3, DailyKeeps
<1>2. CASE AnalysisRaises \/ BatchRaises \/ Die
      BY <1>2, AbortKeeps DEF AnalysisRaises, BatchRaises, Die
<1>3. CASE RejectData \/ Judge
      BY <1>3, ConcludeKeeps DEF RejectData, Judge
<1>4. ASSUME NEW p \in Proposals, Propose(p) PROVE ProposalsInv' /\ Gate
  <2>1. /\ phase = "create" /\ status[p] = "none"
        /\ status' = [status EXCEPT ![p] = "proposed"] /\ created' = created \cup {p}
        /\ UNCHANGED <<versions, phase, batch, current, approvers, dropped>>
        BY <1>4 DEF Propose
  <2>2. Unseen /\ status' \in [Proposals -> Status]
        BY <2>1, OneWritten DEF Before, Status, Approved
  <2>3. Typed'
        BY <2>1, <2>2 DEF Typed, approvers
  <2>4. Underway'
        BY <2>1 DEF Typed, Underway
  <2>5. QED
        BY <2>1, <2>2, <2>3, <2>4, DailyKeeps
<1>5. ASSUME NEW p \in Proposals, Begin(p) \/ RejectTarget(p) PROVE ProposalsInv' /\ Gate
  <2>1. /\ phase = "backtest" /\ current = NoProposal /\ p \in batch
        /\ batch' = batch \ {p}
        /\ UNCHANGED <<versions, phase, created, approvers, dropped>>
        BY <1>5 DEF Begin, RejectTarget, NextProposal
  <2>2. \/ status' = [status EXCEPT ![p] = "backtesting"] /\ current' = p
        \/ status' = [status EXCEPT ![p] = "rejected"] /\ current' = current
        BY <1>5 DEF Begin, RejectTarget
  <2>3. status[p] = "proposed" /\ created = {}
        BY <2>1 DEF Underway
  <2>4. Unseen /\ status' \in [Proposals -> Status]
        BY <2>2, <2>3, OneWritten DEF Before, Status, Approved
  <2>5. Typed'
        BY <2>1, <2>2, <2>4 DEF Typed, approvers
  <2>6. Underway'
        BY <2>1, <2>2, <2>3 DEF Typed, Underway
  <2>7. QED
        BY <2>1, <2>4, <2>5, <2>6, DailyKeeps
<1>6. QED
  BY <1>1, <1>2, <1>3, <1>4, <1>5 DEF Daily

-----------------------------------------------------------------------------
(* The approvers.                                                            *)

LEMMA NoClaimTyped == NoClaim \in Claims /\ NoClaim.proposal = NoProposal
BY DEF NoClaim, Claims, Stages

\* Another approver reads the same proposal, or one nobody else has.
LEMMA AskStep ==
  ASSUME ProposalsInv, NEW a \in Actors, NEW p \in Proposals, NEW stage \in Stages,
         Ask(a, p, stage)
  PROVE  ProposalsInv' /\ Gate
<1> USE DEF ProposalsInv
<1> DEFINE mine == [proposal |-> p, version |-> 0, stage |-> stage]
<1>1. /\ pc[a] = "idle" /\ status[p] = "awaiting_human"
      /\ pc' = [pc EXCEPT ![a] = "asked"] /\ claim' = [claim EXCEPT ![a] = mine]
      /\ raced' = IF \E b \in Actors : claim[b].proposal = p THEN raced \cup {p} ELSE raced
      /\ UNCHANGED <<status, versions, phase, created, batch, current, dropped>>
      BY DEF Ask, Approvable, daily
<1>2. mine \in Claims /\ mine.proposal = p
      BY DEF Claims
<1> HIDE DEF mine
<1>3. Typed'
      BY <1>1, <1>2 DEF Typed
<1>4. Underway'
      BY <1>1 DEF Underway
<1>5. ASSUME NEW b \in Actors PROVE Held(b)'
  <2>1. CASE b = a
    <3>1. pc'[b] = "asked" /\ claim'[b] = mine
          BY <1>1, <2>1 DEF Typed
    <3>2. QED
          BY <1>1, <1>2, <3>1, ProposalsAssumption DEF Held, Shown
  <2>2. CASE b # a
    <3>1. pc'[b] = pc[b] /\ claim'[b] = claim[b]
          BY <1>1, <2>2 DEF Typed
    <3>2. QED
          BY <1>1, <3>1 DEF AllHeld, Held
  <2>3. QED
        BY <2>1, <2>2
<1>6. ASSUME NEW q \in Proposals \ raced' PROVE Alone(q)'
  <2>1. Alone(q)
        BY <1>1, <1>6 DEF AllAlone
  <2>2. \A b \in Actors : claim'[b].proposal = IF b = a THEN p ELSE claim[b].proposal
        BY <1>1, <1>2 DEF Typed
  <2>3. CASE q = p
    <3>1. \A b \in Actors : claim[b].proposal # p
          BY <1>1, <1>6, <2>3
    <3>2. QED
          BY <1>1, <2>1, <2>2, <2>3, <3>1 DEF Alone, Approved
  <2>4. CASE q # p
        BY <1>1, <2>1, <2>2, <2>4 DEF Alone
  <2>5. QED
        BY <2>3, <2>4
<1>7. VersionsDense' /\ \A q \in Proposals : Deployed(q)'
      BY <1>1 DEF VersionsDense, Numbers, Deployed
<1>8. QED
  BY <1>1, <1>3, <1>4, <1>5, <1>6, <1>7 DEF AllHeld, AllAlone, Gate, Shown

\* It holds the next number.
LEMMA ClaimStep ==
  ASSUME ProposalsInv, NEW a \in Actors, Claim(a)
  PROVE  ProposalsInv' /\ Gate
<1> USE DEF ProposalsInv
<1>1. /\ pc[a] = "asked" /\ pc' = [pc EXCEPT ![a] = "claimed"]
      /\ claim' = [claim EXCEPT ![a].version = NextVersion]
      /\ UNCHANGED <<status, versions, phase, created, batch, current, dropped, raced>>
      BY DEF Claim, daily
<1> DEFINE n == Cardinality(versions)
<1>2. n \in Nat
      BY FS_CardinalityType DEF Typed
<1>3. NextVersion = n + 1
      BY <1>2, NextOf DEF VersionsDense
<1>4. claim'[a] = [claim[a] EXCEPT !.version = n + 1] /\ claim[a] \in Claims
      BY <1>1, <1>3 DEF Typed
<1>5. claim'[a] \in Claims /\ claim'[a].proposal = claim[a].proposal /\ claim'[a].version = n + 1
      BY <1>2, <1>4 DEF Claims
<1>6. \A b \in Actors \ {a} : pc'[b] = pc[b] /\ claim'[b] = claim[b]
      BY <1>1 DEF Typed
<1>7. claim' \in [Actors -> Claims]
  <2>1. DOMAIN claim' = Actors /\ claim' = [b \in Actors |-> claim'[b]]
        BY <1>1 DEF Typed
  <2>2. \A b \in Actors : claim'[b] \in Claims
        BY <1>5, <1>6 DEF Typed
  <2>3. QED
        BY <2>1, <2>2
<1> HIDE DEF n
<1>8. Typed' /\ Underway'
      BY <1>1, <1>7 DEF Typed, Underway
<1>9. ASSUME NEW b \in Actors PROVE Held(b)'
  <2>1. CASE b = a
    <3>1. pc'[b] = "claimed" /\ n + 1 \in 1..(n + 1) /\ Cardinality(versions)' = n
          BY <1>1, <1>2, <2>1 DEF Typed, n
    <3>2. QED
          BY <1>1, <1>5, <2>1, <3>1 DEF AllHeld, Held
  <2>2. CASE b # a
        BY <1>1, <1>6, <2>2 DEF AllHeld, Held
  <2>3. QED
        BY <2>1, <2>2
<1>10. \A b \in Actors : claim'[b].proposal = claim[b].proposal
      BY <1>5, <1>6
<1>11. AllAlone'
      BY <1>1, <1>10 DEF AllAlone, Alone
<1>12. VersionsDense' /\ \A q \in Proposals : Deployed(q)'
      BY <1>1 DEF VersionsDense, Numbers, Deployed
<1>13. QED
  BY <1>1, <1>8, <1>9, <1>11, <1>12 DEF AllHeld, Gate, Shown

\* The transaction of an approver ends.
LEMMA ReturnClaims ==
  ASSUME ProposalsInv, NEW a \in Actors, Return(a)
  PROVE  /\ pc' \in [Actors -> {"idle", "asked", "claimed"}] /\ claim' \in [Actors -> Claims]
         /\ pc'[a] = "idle" /\ claim'[a].proposal = NoProposal
         /\ \A b \in Actors \ {a} : pc'[b] = pc[b] /\ claim'[b] = claim[b]
BY NoClaimTyped DEF ProposalsInv, Typed, Return

\* A loser changes nothing.
LEMMA FailStep ==
  ASSUME ProposalsInv, NEW a \in Actors, DeployFails(a)
  PROVE  ProposalsInv' /\ Gate
<1> USE DEF ProposalsInv
<1>1. /\ UNCHANGED <<status, versions, phase, created, batch, current, dropped, raced>>
      /\ Return(a)
      BY DEF DeployFails, daily
<1>2. /\ pc' \in [Actors -> {"idle", "asked", "claimed"}] /\ claim' \in [Actors -> Claims]
      /\ pc'[a] = "idle" /\ claim'[a].proposal = NoProposal
      /\ \A b \in Actors \ {a} : pc'[b] = pc[b] /\ claim'[b] = claim[b]
      BY <1>1, ReturnClaims
<1>3. Typed' /\ Underway'
      BY <1>1, <1>2 DEF Typed, Underway
<1>4. AllHeld'
      BY <1>1, <1>2 DEF AllHeld, Held
<1>5. AllAlone'
  <2>1. \A b \in Actors, p \in Proposals : claim'[b].proposal = p => claim[b].proposal = p
        BY <1>2, ProposalsAssumption
  <2>2. QED
        BY <1>1, <2>1 DEF AllAlone, Alone
<1>6. VersionsDense' /\ \A q \in Proposals : Deployed(q)'
      BY <1>1 DEF VersionsDense, Numbers, Deployed
<1>7. QED
  BY <1>1, <1>3, <1>4, <1>5, <1>6 DEF Gate, Shown

\* The winner adds the next version, and it is the proposal's last.
LEMMA DeployStep ==
  ASSUME ProposalsInv, NEW a \in Actors, Deploy(a)
  PROVE  ProposalsInv' /\ Gate
<1> USE DEF ProposalsInv
<1> DEFINE c == claim[a]
           p == claim[a].proposal
           n == Cardinality(versions)
<1>1. /\ pc[a] = "claimed" /\ c.version \notin Numbers
      /\ versions' = versions \cup {c}
      /\ status' = [status EXCEPT ![p] = ApprovedStatus(c.stage)]
      /\ Return(a)
      /\ UNCHANGED <<phase, created, batch, current, dropped, raced>>
      BY DEF Deploy, daily
<1>2. /\ pc' \in [Actors -> {"idle", "asked", "claimed"}] /\ claim' \in [Actors -> Claims]
      /\ pc'[a] = "idle" /\ claim'[a].proposal = NoProposal
      /\ \A b \in Actors \ {a} : pc'[b] = pc[b] /\ claim'[b] = claim[b]
      BY <1>1, ReturnClaims
<1>3. Held(a)
      BY DEF AllHeld
<1>4. p \in Proposals /\ c.stage \in Stages /\ status[p] \in Shown /\ c.version \in 1..(n + 1)
  <2>1. c \in Claims
        BY DEF Typed
  <2>2. QED
        BY <1>1, <1>3, <2>1 DEF Held, Claims
<1>5. c \in Rows
  <2>1. c \in Claims /\ n \in Nat
        BY FS_CardinalityType DEF Typed
  <2>2. c.version \in Nat \ {0}
        BY <1>4, <2>1
  <2>3. QED
        BY <1>4, <2>1, <2>2 DEF Claims, Rows
<1>6. /\ IsFiniteSet(versions') /\ VersionsDense'
      /\ n \in Nat /\ Cardinality(versions') = n + 1
      /\ \A v \in versions : v.version < c.version
      BY <1>1, <1>4, <1>5, OneMore DEF Typed
<1>7. /\ status'[p] = ApprovedStatus(c.stage)
      /\ \A q \in Proposals \ {p} : status'[q] = status[q]
      BY <1>1, <1>4 DEF Typed
<1>8. ApprovedStatus(c.stage) \in Approved /\ (ApprovedStatus(c.stage) = "promoted" <=> c.stage = "live")
      BY <1>4 DEF ApprovedStatus, Approved, Stages
<1> HIDE DEF c, p, n
<1>9. Typed'
  <2>1. status' \in [Proposals -> Status]
        BY <1>1, <1>8 DEF Typed, Approved, Status
  <2>2. QED
        BY <1>1, <1>2, <1>5, <1>6, <2>1 DEF Typed
<1>10. Underway'
  <2>1. \A q \in Proposals : status[q] \in {"proposed", "backtesting"} => q # p
        BY <1>4 DEF Shown, Approved
  <2>2. QED
        BY <1>1, <1>7, <2>1 DEF Underway, Typed
<1>11. ASSUME NEW b \in Actors PROVE Held(b)'
  <2>1. CASE b = a
        BY <1>2, <2>1 DEF Held
  <2>2. CASE b # a
    <3>1. pc'[b] = pc[b] /\ claim'[b] = claim[b] /\ Held(b)
          BY <1>2, <2>2 DEF AllHeld
    <3>2. pc[b] # "idle" => claim[b].proposal \in Proposals
          BY <3>1 DEF Held, Typed, Claims
    <3>3. pc[b] # "idle" => status'[claim[b].proposal] \in Shown
          BY <1>7, <1>8, <3>1, <3>2 DEF Held, Shown
    <3>4. pc[b] = "claimed" => claim[b].version \in 1..(Cardinality(versions') + 1)
      <4>1. pc[b] = "claimed" => claim[b].version \in 1..(n + 1)
            BY <3>1 DEF Held, n
      <4>2. QED
            BY <1>6, <4>1
    <3>5. QED
          BY <3>1, <3>3, <3>4 DEF Held
  <2>3. QED
        BY <2>1, <2>2
<1>12. ASSUME NEW q \in Proposals \ raced' PROVE Alone(q)'
  <2>1. Alone(q)
        BY <1>1, <1>12 DEF AllAlone
  <2>2. \A b \in Actors : claim'[b].proposal = q => b # a /\ claim[b].proposal = q
        BY <1>2, <1>12, ProposalsAssumption
  <2>3. CASE q = p
    <3>1. \A b \in Actors : claim'[b].proposal # q
          BY <2>1, <2>2, <2>3 DEF Alone, p
    <3>2. status[p] \notin Approved
          BY <2>1, <2>3 DEF Alone, p
    <3>3. \A v \in versions : v.proposal # p
          BY <1>4, <3>2 DEF Deployed
    <3>4. QED
          BY <1>1, <2>3, <3>1, <3>3 DEF Alone
  <2>4. CASE q # p
    <3>1. c.proposal # q
          BY <2>4 DEF c, p
    <3>2. QED
          BY <1>1, <1>7, <1>12, <2>1, <2>2, <2>4, <3>1 DEF Alone
  <2>5. QED
        BY <2>3, <2>4
<1>13. ASSUME NEW q \in Proposals PROVE Deployed(q)'
  <2>1. CASE q = p
    <3>1. c.proposal = p /\ c \in versions'
          BY <1>1 DEF c, p
    <3>2. ASSUME NEW v \in versions', v.proposal = p, \A w \in versions' : w.proposal = p => w.version <= v.version
          PROVE  v = c
      <4>1. c.version <= v.version
            BY <3>1, <3>2
      <4>2. CASE v \in versions
        <5>1. v.version < c.version /\ v.version \in Nat /\ c.version \in Nat
              BY <1>5, <1>6, <4>2 DEF Typed, Rows
        <5>2. QED
              BY <4>1, <5>1
      <4>3. QED
            BY <1>1, <4>2
    <3>3. QED
          BY <1>7, <1>8, <2>1, <3>1, <3>2 DEF Deployed
  <2>2. CASE q # p
    <3>1. {v \in versions' : v.proposal = q} = {v \in versions : v.proposal = q}
          BY <1>1, <2>2 DEF c, p
    <3>2. status'[q] = status[q] /\ Deployed(q)
          BY <1>7, <2>2
    <3>3. QED
          BY <3>1, <3>2 DEF Deployed
  <2>3. QED
        BY <2>1, <2>2
<1>14. Gate
      BY <1>4, <1>7, <1>8 DEF Gate, Shown
<1>15. QED
  BY <1>6, <1>9, <1>10, <1>11, <1>12, <1>13, <1>14 DEF AllHeld, AllAlone

-----------------------------------------------------------------------------
LEMMA StartInv == Init => ProposalsInv
<1> SUFFICES ASSUME Init PROVE ProposalsInv
    OBVIOUS
<1> USE DEF Init
<1>1. Cardinality({}) = 0 /\ IsFiniteSet({})
      BY FS_EmptySet
<1>2. Typed
      BY <1>1, NoClaimTyped DEF Typed, Status
<1>3. Underway /\ AllAlone /\ \A p \in Proposals : Deployed(p)
      BY NoClaimTyped, ProposalsAssumption DEF Underway, AllAlone, Alone, Approved, Deployed
<1>4. AllHeld
      BY NoClaimTyped DEF AllHeld, Held
<1>5. VersionsDense
      BY <1>1 DEF VersionsDense, Numbers
<1>6. QED
  BY <1>2, <1>3, <1>4, <1>5 DEF ProposalsInv

LEMMA StepInv == ProposalsInv /\ [Next]_vars => ProposalsInv' /\ Gate
<1> SUFFICES ASSUME ProposalsInv, [Next]_vars PROVE ProposalsInv' /\ Gate
    OBVIOUS
<1>1. CASE Daily \/ Die
      BY <1>1, DailyStep
<1>2. ASSUME NEW a \in Actors,
             \/ \E p \in Proposals, stage \in Stages : Ask(a, p, stage)
             \/ Claim(a) \/ Deploy(a) \/ DeployFails(a)
      PROVE  ProposalsInv' /\ Gate
      BY <1>2, AskStep, ClaimStep, DeployStep, FailStep
<1>3. CASE UNCHANGED vars
  <2>1. UNCHANGED <<status, versions, phase, created, batch, current, approvers, dropped>>
        BY <1>3 DEF vars, daily
  <2>2. Typed' /\ Underway' /\ Unseen
        BY <2>1 DEF ProposalsInv, Typed, Underway, Unseen, approvers
  <2>3. QED
        BY <2>1, <2>2, DailyKeeps
<1>4. QED
  BY <1>1, <1>2, <1>3 DEF Next

THEOREM ProposalsInvariant == Spec => []ProposalsInv
BY StartInv, StepInv, PTL DEF Spec

\* However many approvers overlap, lose races or die, versions are numbered
\* without gaps, statuses say what is deployed, and a proposal that was never
\* in two hands is deployed once.
THEOREM DeploymentHolds == Spec => []DeploymentInv
<1>1. ProposalsInv => DeploymentInv
  <2> SUFFICES ASSUME ProposalsInv PROVE DeploymentInv
      OBVIOUS
  <2> USE DEF ProposalsInv
  <2>1. TypeOK
    <3>1. \A a \in Actors : claim[a] \in Claims
          BY DEF Typed
    <3>2. QED
          BY <3>1 DEF Typed, TypeOK, Claims
  <2>2. ApprovedIsDeployed
        BY DEF Deployed, ApprovedIsDeployed
  <2>3. ASSUME NEW p \in Proposals \ raced
        PROVE  Cardinality({v \in versions : v.proposal = p}) <= 1
    <3> DEFINE mine == {v \in versions : v.proposal = p}
    <3>1. \A v, w \in mine : v = w
          BY DEF AllAlone, Alone
    <3>2. CASE mine = {}
          BY <3>2, FS_EmptySet
    <3>3. CASE mine # {}
      <4>1. PICK v \in mine : mine = {v}
            BY <3>1, <3>3
      <4> HIDE DEF mine
      <4>2. Cardinality(mine) = 1
            BY <4>1, FS_Singleton
      <4>3. QED
            BY <4>2 DEF mine
    <3>4. QED
          BY <3>2, <3>3
  <2>4. QED
        BY <2>1, <2>2, <2>3 DEF DeploymentInv, ApprovedOnce
<1>2. QED
  BY <1>1, ProposalsInvariant, PTL

\* Nothing is deployed that a backtest did not put before a person, and no
\* approval is taken back.
THEOREM HumanGateHolds == Spec => HumanGate
<1>1. ProposalsInv /\ [Next]_vars =>
        [\A p \in Proposals :
           /\ status'[p] \in Approved => status[p] \in Approved \cup {"awaiting_human"}
           /\ status[p] \in Approved => status'[p] \in Approved]_vars
      BY StepInv DEF Gate, Shown
<1>2. QED
  BY <1>1, ProposalsInvariant, PTL DEF Spec, HumanGate

=============================================================================
