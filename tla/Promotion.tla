----------------------------- MODULE Promotion -----------------------------
(***************************************************************************)
(* mercury.services.promotion for one strategy (the rows of different      *)
(* strategies are independent): its strategy_lifecycle row, the newest row *)
(* of its strategy_promotions audit, and the actors that move it - CLI     *)
(* processes and commands on the mesh thread - beside the event loop, which*)
(* asks stage_guard before an order.  A transition reads the stage in one  *)
(* session and writes it in another.                                       *)
(***************************************************************************)
EXTENDS Naturals

CONSTANTS
  Actors,   \* callers of promote and demote
  Live      \* deployment_mode = "live": the guard is enforced

ASSUME PromotionAssumption == Live \in BOOLEAN /\ "order" \notin Actors

VARIABLES
  stage,    \* strategy_lifecycle.stage as a rank of _ORDER; NoRow when absent
  audit,    \* newest row of strategy_promotions
  pc,       \* where each actor is
  move,     \* the transition it has decided on
  order,    \* the event loop between stage_guard and the order
  late,     \* callers, and the order path, that acted on a stage another
            \* transition has replaced meanwhile (history)
  lapsed    \* a late caller has committed (history)

history == <<late, lapsed>>
vars == <<stage, audit, pc, move, order, history>>

Draft == 0
Approved == 4
LiveStage == 5
Ranks == Draft..LiveStage     \* draft, paper, demo, review, approved, live
NoRow == 6                    \* no lifecycle row: reads as draft
OrderPath == "order"          \* the event loop's name in late
NoMove == [from |-> Draft, to |-> Draft, signed |-> TRUE]
Moves == [from : Ranks, to : Ranks, signed : BOOLEAN]
HumanGated == {Approved, LiveStage}

\* get_stage
Stage == IF stage = NoRow THEN Draft ELSE stage

\* mutated: any later stage may be promoted to
AllowedForwardAny(from, to) == to > from

\* _ALLOWED_FORWARD
AllowedForward(from, to) == to = from + 1

Allowed(m) ==
  \/ AllowedForward(m.from, m.to) /\ (m.to \in HumanGated => m.signed)
  \/ m.to < m.from

Init ==
  /\ stage = NoRow
  /\ audit = NoMove
  /\ pc = [a \in Actors |-> "idle"]
  /\ move = [a \in Actors |-> NoMove]
  /\ order = FALSE
  /\ late = {} /\ lapsed = FALSE

\* promote and demote up to _transition: the stage is read in a session of
\* its own and the move checked against it.  The metrics gates refuse or
\* pass; a refusal raises and changes nothing.
Decide(a, to, signed) ==
  /\ pc[a] = "idle"
  /\ LET m == [from |-> Stage, to |-> to, signed |-> signed] IN
     Allowed(m) /\ move' = [move EXCEPT ![a] = m]
  /\ pc' = [pc EXCEPT ![a] = "load"]
  /\ UNCHANGED <<stage, audit, order, history>>

\* _transition loads the row: an update leaves out a column whose new value
\* is the loaded one, so only updated_at is written ("touch").
Load(a) ==
  /\ pc[a] = "load"
  /\ \/ stage = NoRow /\ pc' = [pc EXCEPT ![a] = "insert"]
     \/ stage = move[a].to /\ pc' = [pc EXCEPT ![a] = "touch"]
     \/ stage \notin {NoRow, move[a].to} /\ pc' = [pc EXCEPT ![a] = "update"]
  /\ UNCHANGED <<stage, audit, move, order, history>>

Return(a) ==
  /\ pc' = [pc EXCEPT ![a] = "idle"]
  /\ move' = [move EXCEPT ![a] = NoMove]

Busy == {a \in Actors : pc[a] # "idle"}

\* mutated: the two stages of the audit row are swapped
AuditRowSwapped(m) == [m EXCEPT !.from = m.to, !.to = m.from]

\* the strategy_promotions row
AuditRow(m) == m

\* The stage and its audit row are committed together.
Commit(a) ==
  /\ pc[a] \in {"update", "touch"} \/ (pc[a] = "insert" /\ stage = NoRow)
  /\ stage' = IF pc[a] = "touch" THEN stage ELSE move[a].to
  /\ audit' = AuditRow(move[a])
  /\ Return(a)
  /\ late' = (late \cup Busy \cup (IF order THEN {OrderPath} ELSE {})) \ {a}
  /\ lapsed' = (lapsed \/ a \in late)
  /\ UNCHANGED order

\* Another actor inserted the row first: the transaction is rolled back and
\* the caller gets the IntegrityError.
InsertConflict(a) ==
  /\ pc[a] = "insert" /\ stage # NoRow
  /\ Return(a)
  /\ late' = late \ {a}
  /\ UNCHANGED <<stage, audit, order, lapsed>>

\* mutated: the guard asks for one stage less
StageGuardLow == ~Live \/ Stage >= Approved - 1

\* stage_guard
StageGuard == ~Live \/ Stage >= Approved

\* _on_signal_approved asks the guard, then places the order.  The mesh
\* thread and other processes do not wait for it.
AskGuard ==
  /\ ~order /\ StageGuard
  /\ order' = TRUE
  /\ UNCHANGED <<stage, audit, pc, move, history>>

PlaceOrder ==
  /\ order /\ order' = FALSE
  /\ late' = late \ {OrderPath}
  /\ UNCHANGED <<stage, audit, pc, move, lapsed>>

Next ==
  \/ AskGuard \/ PlaceOrder
  \/ \E a \in Actors :
       \/ \E to \in Ranks, signed \in BOOLEAN : Decide(a, to, signed)
       \/ Load(a) \/ Commit(a) \/ InsertConflict(a)

Spec == Init /\ [][Next]_vars

-----------------------------------------------------------------------------
TypeOK ==
  /\ stage \in Ranks \cup {NoRow}
  /\ audit \in Moves
  /\ pc \in [Actors -> {"idle", "load", "insert", "update", "touch"}]
  /\ move \in [Actors -> Moves]
  /\ order \in BOOLEAN
  /\ late \subseteq Actors \cup {OrderPath} /\ lapsed \in BOOLEAN

\* Whoever races whom, the stage moves only together with an audit row that
\* names the new one (_transition, one transaction).
MovesAudited == [][stage' # stage => audit'.to = stage']_vars

\* Every audited move is one stage forward or a roll-back, and a move up to
\* approved or live carries an actor and a reason (promote, _HUMAN_GATED).
AuditLegal ==
  /\ audit.to <= audit.from + 1
  /\ audit.from < audit.to /\ audit.to \in HumanGated => audit.signed

\* "A strategy may only move one stage forward at a time (no skipping)" is not
\* true of overlapping transitions: a stage is skipped, but only by a caller
\* that decided on a stage another has replaced before it wrote (promote and
\* _transition are two sessions).
OnlyLateSkips ==
  [][Stage' > Stage + 1 => \E a \in late \cap Busy : pc'[a] = "idle"]_vars

\* "Promotions are audited ...; the current stage lives in strategy_lifecycle":
\* until a late caller commits, the newest audit row names the stage the
\* strategy is in, and each row starts where the one before it ended.
AuditTellsStage == ~lapsed => audit.to = Stage
AuditChains == [][audit' # audit /\ ~lapsed' => audit'.from = audit.to]_vars

\* The newest audit row is legal, and names the stage until a late commit.
AuditInv == TypeOK /\ AuditLegal /\ AuditTellsStage

\* The audit is a trail: no move without a row, and no gap between two rows
\* until a late commit.
AuditTrail == MovesAudited /\ AuditChains

\* In live mode an order goes out only while its strategy is approved, unless
\* a transition is committed between stage_guard and the order.
OrderApproved ==
  [][Live /\ order /\ ~order' => Stage >= Approved \/ OrderPath \in late]_vars

=============================================================================
