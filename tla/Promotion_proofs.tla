-------------------------- MODULE Promotion_proofs --------------------------
(***************************************************************************)
(* Theorems about module Promotion, for any number of callers.  One        *)
(* inductive invariant carries all of them: a decision nobody has          *)
(* overtaken is still about the stage the strategy is in.                  *)
(***************************************************************************)
EXTENDS Promotion, TLAPS

\* A busy caller's move was legal when decided; until another transition is
\* committed its "from" is the stage of the strategy.  Only a late caller can
\* find the stage already at its target.
Decided ==
  \A a \in Actors : pc[a] # "idle" =>
    /\ Allowed(move[a])
    /\ a \notin late => move[a].from = Stage /\ pc[a] # "touch"

\* The order path has asked the guard of a stage nobody has replaced.
Guarded == order => StageGuard \/ OrderPath \in late

\* The newest audit row is a legal move, or there is none yet.
Audited == Allowed(audit) \/ audit = NoMove

PromotionInv == TypeOK /\ Decided /\ Guarded /\ Audited /\ AuditTellsStage

-----------------------------------------------------------------------------
(* Type correctness. *)

LEMMA MoveTyped ==
  ASSUME NEW from \in Ranks, NEW to \in Ranks, NEW signed \in BOOLEAN
  PROVE  [from |-> from, to |-> to, signed |-> signed] \in Moves
BY DEF Moves

LEMMA StageTyped == TypeOK => Stage \in Ranks
BY DEF TypeOK, Stage, Ranks, NoRow, Draft, LiveStage

LEMMA TypeInit == Init => TypeOK
<1> SUFFICES ASSUME Init PROVE TypeOK
    OBVIOUS
<1>1. NoMove \in Moves
      BY DEF NoMove, Moves, Ranks, Draft, LiveStage
<1>2. order \in BOOLEAN /\ lapsed \in BOOLEAN
      BY Zenon DEF Init
<1>3. QED
      BY <1>1, <1>2 DEF Init, TypeOK

LEMMA TypeStep == TypeOK /\ [Next]_vars => TypeOK'
<1> SUFFICES ASSUME TypeOK, [Next]_vars PROVE TypeOK'
    OBVIOUS
<1> USE DEF TypeOK, history
<1>1. NoMove \in Moves
      BY DEF NoMove, Moves, Ranks, Draft, LiveStage
<1>2. CASE AskGuard
  <2>1. order' \in BOOLEAN
        BY <1>2, Zenon DEF AskGuard
  <2>2. QED
        BY <1>2, <2>1 DEF AskGuard
<1>3. CASE PlaceOrder
  <2>1. order' \in BOOLEAN
        BY <1>3, Zenon DEF PlaceOrder
  <2>2. QED
        BY <1>3, <2>1 DEF PlaceOrder
<1>4. ASSUME NEW a \in Actors, NEW to \in Ranks, NEW signed \in BOOLEAN, Decide(a, to, signed)
      PROVE  TypeOK'
      BY <1>4, StageTyped, MoveTyped DEF Decide
<1>5. ASSUME NEW a \in Actors, Load(a) PROVE TypeOK'
      BY <1>5 DEF Load
<1>6. ASSUME NEW a \in Actors, Commit(a) PROVE TypeOK'
  <2>1. move[a].to \in Ranks
        BY DEF Moves
  <2>2. lapsed' \in BOOLEAN
        BY <1>6, Zenon DEF Commit
  <2>3. late' \subseteq Actors \cup {OrderPath}
        BY <1>6 DEF Commit, Busy
  <2>4. QED
        BY <1>1, <1>6, <2>1, <2>2, <2>3 DEF Commit, Return, AuditRow
<1>7. ASSUME NEW a \in Actors, InsertConflict(a) PROVE TypeOK'
      BY <1>1, <1>7 DEF InsertConflict, Return
<1>8. CASE UNCHANGED vars
      BY <1>8 DEF vars
<1>9. QED
      BY <1>2, <1>3, <1>4, <1>5, <1>6, <1>7, <1>8 DEF Next

\* Every variable keeps its type.
THEOREM TypeCorrect == Spec => []TypeOK
BY TypeInit, TypeStep, PTL DEF Spec

-----------------------------------------------------------------------------
(* The inductive invariant. *)

\* A legal move goes somewhere else.
LEMMA AllowedMoves ==
  ASSUME NEW m \in Moves, Allowed(m)
  PROVE  m.to # m.from
BY DEF Allowed, AllowedForward, Moves, Ranks, Draft, LiveStage

\* What a caller that has not been overtaken commits.
LEMMA TimelyCommit ==
  ASSUME TypeOK, Decided, NEW a \in Actors, Commit(a), a \notin late
  PROVE  stage' = move[a].to /\ move[a].from = Stage
BY DEF Decided, Commit

LEMMA InvInit == Init => PromotionInv
<1> SUFFICES ASSUME Init PROVE PromotionInv
    OBVIOUS
<1>1. Decided
      BY DEF Init, Decided
<1>2. Guarded /\ Audited /\ AuditTellsStage
      BY DEF Init, Guarded, Audited, AuditTellsStage, NoMove, Stage
<1>3. QED
      BY <1>1, <1>2, TypeInit DEF PromotionInv

LEMMA InvStep == PromotionInv /\ [Next]_vars => PromotionInv'
<1> SUFFICES ASSUME PromotionInv, [Next]_vars PROVE PromotionInv'
    OBVIOUS
<1>1. TypeOK /\ TypeOK'
      BY TypeStep DEF PromotionInv
<1>2. CASE AskGuard
  <2>1. Stage' = Stage /\ StageGuard' = StageGuard
        BY <1>2 DEF AskGuard, Stage, StageGuard
  <2>2. Decided'
        BY <1>2, <2>1 DEF PromotionInv, Decided, AskGuard, history
  <2>3. Guarded'
        BY <1>2, <2>1, Zenon DEF AskGuard, Guarded
  <2>4. QED
        BY <1>1, <1>2, <2>1, <2>2, <2>3 DEF PromotionInv, AskGuard, history, Audited, AuditTellsStage
<1>3. CASE PlaceOrder
  <2>1. Stage' = Stage
        BY <1>3 DEF PlaceOrder, Stage
  <2>2. Decided'
        BY <1>3, <2>1, PromotionAssumption DEF PromotionInv, Decided, PlaceOrder, OrderPath
  <2>3. QED
        BY <1>1, <1>3, <2>1, <2>2
           DEF PromotionInv, PlaceOrder, Guarded, Audited, AuditTellsStage
<1>4. ASSUME NEW a \in Actors, NEW to \in Ranks, NEW signed \in BOOLEAN, Decide(a, to, signed)
      PROVE  PromotionInv'
  <2>1. Stage' = Stage /\ StageGuard' = StageGuard
        BY <1>4 DEF Decide, Stage, StageGuard
  <2>2. Decided'
        BY <1>1, <1>4, <2>1 DEF PromotionInv, Decided, Decide, history, TypeOK
  <2>3. QED
        BY <1>1, <1>4, <2>1, <2>2
           DEF PromotionInv, Decide, history, Guarded, Audited, AuditTellsStage
<1>5. ASSUME NEW a \in Actors, Load(a) PROVE PromotionInv'
  <2>1. Stage' = Stage /\ StageGuard' = StageGuard
        BY <1>5 DEF Load, Stage, StageGuard
  <2>2. ASSUME a \notin late PROVE stage = NoRow \/ stage # move[a].to
    <3>1. Allowed(move[a]) /\ move[a].from = Stage /\ move[a] \in Moves
          BY <1>1, <1>5, <2>2 DEF PromotionInv, Decided, Load, TypeOK
    <3>2. QED
          BY <3>1, AllowedMoves DEF Stage
  <2>3. stage = NoRow => stage # move[a].to
        BY <1>1 DEF TypeOK, Moves, Ranks, NoRow, Draft, LiveStage
  <2>4. Decided'
        BY <1>1, <1>5, <2>1, <2>2, <2>3 DEF PromotionInv, Decided, Load, history, TypeOK
  <2>5. QED
        BY <1>1, <1>5, <2>1, <2>4
           DEF PromotionInv, Load, history, Guarded, Audited, AuditTellsStage
<1>6. ASSUME NEW a \in Actors, Commit(a) PROVE PromotionInv'
  <2>1. pc[a] # "idle" /\ Allowed(move[a]) /\ move[a] \in Moves
        BY <1>1, <1>6 DEF PromotionInv, Decided, Commit, TypeOK
  <2>2. \A b \in Actors : b # a => pc'[b] = pc[b] /\ move'[b] = move[b]
        BY <1>1, <1>6 DEF Commit, Return, TypeOK
  <2>3. pc'[a] = "idle"
        BY <1>1, <1>6 DEF Commit, Return, TypeOK
  <2>4. \A b \in Actors : b # a /\ pc[b] # "idle" => b \in late'
        BY <1>6 DEF Commit, Busy
  <2>5. Decided'
        BY <2>2, <2>3, <2>4, <1>1, <1>6 DEF PromotionInv, Decided
  <2>6. Guarded'
        BY <1>6, PromotionAssumption DEF Commit, Guarded, OrderPath
  <2>7. Audited'
        BY <1>6, <2>1 DEF Commit, AuditRow, Audited, Allowed, AllowedForward
  <2>8. ASSUME ~lapsed' PROVE audit'.to = Stage'
    <3>1. a \notin late
          BY <1>6, <2>8 DEF Commit
    <3>2. stage' = move[a].to /\ audit' = move[a]
          BY <1>1, <1>6, <3>1, TimelyCommit DEF PromotionInv, Commit, AuditRow
    <3>3. QED
          BY <2>1, <3>2 DEF Stage, Moves, Ranks, NoRow, Draft, LiveStage
  <2>9. QED
        BY <1>1, <2>5, <2>6, <2>7, <2>8 DEF PromotionInv, AuditTellsStage
<1>7. ASSUME NEW a \in Actors, InsertConflict(a) PROVE PromotionInv'
  <2>1. Stage' = Stage /\ StageGuard' = StageGuard
        BY <1>7 DEF InsertConflict, Stage, StageGuard
  <2>2. \A b \in Actors : b # a => pc'[b] = pc[b] /\ move'[b] = move[b]
        BY <1>1, <1>7 DEF InsertConflict, Return, TypeOK
  <2>3. pc'[a] = "idle"
        BY <1>1, <1>7 DEF InsertConflict, Return, TypeOK
  <2>4. Decided'
        BY <1>1, <1>7, <2>1, <2>2, <2>3 DEF PromotionInv, Decided, InsertConflict
  <2>5. Guarded'
        BY <1>7, <2>1, PromotionAssumption DEF PromotionInv, InsertConflict, Guarded, OrderPath
  <2>6. QED
        BY <1>1, <1>7, <2>1, <2>4, <2>5
           DEF PromotionInv, InsertConflict, Audited, AuditTellsStage
<1>8. CASE UNCHANGED vars
      BY <1>1, <1>8 DEF PromotionInv, vars, history, Decided, Guarded, Audited,
                         AuditTellsStage, Stage, StageGuard
<1>9. QED
      BY <1>2, <1>3, <1>4, <1>5, <1>6, <1>7, <1>8 DEF Next

LEMMA PromotionInvariant == Spec => []PromotionInv
BY InvInit, InvStep, PTL DEF Spec

-----------------------------------------------------------------------------
(* What follows from it. *)

\* Every audited move is legal, however many callers overlap.
THEOREM AuditIsLegal == Spec => []AuditLegal
<1>1. PromotionInv => AuditLegal
  <2> SUFFICES ASSUME PromotionInv PROVE AuditLegal
      OBVIOUS
  <2>1. audit \in Moves /\ Audited
        BY DEF PromotionInv, TypeOK
  <2>2. QED
        BY <2>1 DEF Audited, AuditLegal, Allowed, AllowedForward, NoMove, Moves, Ranks, Draft, LiveStage
<1>2. QED
  BY <1>1, PromotionInvariant, PTL

\* Until a late caller commits, the newest audit row names the stage.
THEOREM AuditNamesStage == Spec => []AuditTellsStage
<1>1. PromotionInv => AuditTellsStage
      BY DEF PromotionInv
<1>2. QED
  BY <1>1, PromotionInvariant, PTL

\* The stage moves only together with an audit row that names the new one.
THEOREM StageMovesAudited == Spec => MovesAudited
<1>1. [Next]_vars => [stage' # stage => audit'.to = stage']_vars
      BY DEF Next, AskGuard, PlaceOrder, Decide, Load, Commit, InsertConflict, AuditRow, vars
<1>2. QED
  BY <1>1, PTL DEF Spec, MovesAudited

\* Each audit row starts where the one before it ended, until a late caller
\* commits.
THEOREM AuditRowsChain == Spec => AuditChains
<1>1. PromotionInv /\ [Next]_vars => [audit' # audit /\ ~lapsed' => audit'.from = audit.to]_vars
  <2> SUFFICES ASSUME PromotionInv, Next, audit' # audit, ~lapsed'
               PROVE  audit'.from = audit.to
      OBVIOUS
  <2>1. PICK a \in Actors : Commit(a)
        BY DEF Next, AskGuard, PlaceOrder, Decide, Load, InsertConflict
  <2>2. a \notin late /\ ~lapsed /\ audit' = move[a]
        BY <2>1 DEF Commit, AuditRow
  <2>3. move[a].from = Stage
        BY <2>1, <2>2, TimelyCommit DEF PromotionInv
  <2>4. QED
        BY <2>2, <2>3 DEF PromotionInv, AuditTellsStage
<1>2. QED
  BY <1>1, PromotionInvariant, PTL DEF Spec, AuditChains

\* The newest audit row is legal, and names the stage until a late commit
\* (module Promotion, AuditInv).
THEOREM AuditHolds == Spec => []AuditInv
<1>1. TypeOK /\ AuditLegal /\ AuditTellsStage => AuditInv
      BY DEF AuditInv
<1>2. QED
  BY <1>1, TypeCorrect, AuditIsLegal, AuditNamesStage, PTL

\* No move without a row and no gap between rows (module Promotion,
\* AuditTrail).
THEOREM AuditIsATrail == Spec => AuditTrail
<1>1. QED
  BY StageMovesAudited, AuditRowsChain DEF AuditTrail

\* A stage is skipped only by a caller another transition has overtaken.
THEOREM OnlyOvertakenCallersSkip == Spec => OnlyLateSkips
<1>1. PromotionInv /\ [Next]_vars
        => [Stage' > Stage + 1 => \E a \in late \cap Busy : pc'[a] = "idle"]_vars
  <2> SUFFICES ASSUME PromotionInv, Next, Stage' > Stage + 1
               PROVE  \E a \in late \cap Busy : pc'[a] = "idle"
      OBVIOUS
  <2>1. Stage \in Ranks /\ Stage + 1 > Stage
        BY StageTyped DEF PromotionInv, Ranks, Draft, LiveStage
  <2>2. stage' # stage
        BY <2>1 DEF Stage, Ranks, Draft, LiveStage
  <2>3. PICK a \in Actors : Commit(a)
        BY <2>2 DEF Next, AskGuard, PlaceOrder, Decide, Load, InsertConflict
  <2>4. pc'[a] = "idle" /\ a \in Busy
        BY <2>3 DEF PromotionInv, TypeOK, Commit, Return, Busy
  <2>5. ASSUME a \notin late PROVE FALSE
    <3>1. stage' = move[a].to /\ move[a].from = Stage /\ Allowed(move[a]) /\ move[a] \in Moves
          BY <2>3, <2>4, <2>5, TimelyCommit DEF PromotionInv, Decided, TypeOK, Busy
    <3>2. stage' <= Stage + 1 /\ stage' \in Ranks
          BY <3>1, <2>1 DEF Allowed, AllowedForward, Moves, Ranks, Draft, LiveStage
    <3>3. Stage' = stage'
          BY <3>2 DEF Stage, Ranks, NoRow, Draft, LiveStage
    <3>4. QED
          BY <3>2, <3>3, <2>1 DEF Ranks, Draft, LiveStage
  <2>6. QED
        BY <2>4, <2>5
<1>2. QED
  BY <1>1, PromotionInvariant, PTL DEF Spec, OnlyLateSkips

\* In live mode an order of a strategy that is not approved means that a
\* transition was committed behind the guard.
THEOREM OrdersAreApproved == Spec => OrderApproved
<1>1. PromotionInv /\ [Next]_vars
        => [Live /\ order /\ ~order' => Stage >= Approved \/ OrderPath \in late]_vars
      BY DEF PromotionInv, Guarded, StageGuard
<1>2. QED
  BY <1>1, PromotionInvariant, PTL DEF Spec, OrderApproved

=============================================================================
