-------------------------- MODULE Strategies_proofs --------------------------
(***************************************************************************)
(* The invariants and action properties of module Strategies, for all      *)
(* prices, periods, limits and histories: what the ICT tracker counts,     *)
(* that the cached lines are those of the history, that a signal is sound, *)
(* that the walk of detect_bos and the direct definition of a break agree, *)
(* that nothing looks ahead, and when a settled line appears or            *)
(* disappears.                                                             *)
(***************************************************************************)
EXTENDS Strategies, WellFoundedInduction, FiniteSetTheorems, SequenceTheorems, TLAPS

-----------------------------------------------------------------------------
(* AttemptInv of module IctTracker. It is inductive: a level is charged    *)
(* one attempt per sweep because a setup that is active holds the one      *)
(* attempt not yet counted, and a sweep opens a setup only where an        *)
(* attempt is left.                                                        *)

\* The part of the state that the steps of advance() hand on.
State == [setup : Setups, attempts : [Levels -> 0..MaxAttempts]]

\* Attempts of a level, the one its active setup will cost included.
Charge(s, l) == s.attempts[l] + (IF s.setup.level = l THEN 1 ELSE 0)

Within(s) == \A l \in Levels : Charge(s, l) <= MaxAttempts

\* What the assumption says of the constants, one by one.
LEMMA Constants ==
  /\ MaxPrice \in Nat /\ MaxAttempts \in Nat /\ FreshBars \in Nat /\ LookbackBars \in Nat
  /\ Levels \subseteq 1..MaxPrice
<1>1. \A n \in {FreshBars, LookbackBars, MaxDistance, MaxAttempts, Zone, Buffer, MinRR} : n \in Nat
      BY IctTrackerAssumption
<1>2. QED
  BY <1>1, IctTrackerAssumption

-----------------------------------------------------------------------------
(* Of the levels a candle has swept one is nearest to its close.           *)

\* Of the levels that were swept one is worse than none.
LEMMA NearestExists ==
  ASSUME NEW T \in SUBSET Levels, T # {}
  PROVE  \E l \in T : \A k \in T : ~Worse(l, k)
<1> DEFINE better(l) == {p \in Prices : Worse(l, p)}
           all == {better(l) : l \in T}
<1>1. T \subseteq Prices /\ Prices \subseteq Nat /\ IsFiniteSet(Prices)
  <2>1. 1 \in Int /\ MaxPrice \in Int
        BY Constants
  <2>2. IsFiniteSet(1..MaxPrice)
        BY <2>1, FS_Interval
  <2>3. QED
        BY <2>2, Constants DEF Prices
<1>2. IsWellFoundedOn(StrictSubsetOrdering(Prices), SUBSET Prices)
      BY <1>1, FS_StrictSubsetOrderingWellFounded, FS_FiniteSubsetsOfFinite
<1>3. all \subseteq SUBSET Prices /\ all # {}
      OBVIOUS
<1> HIDE DEF all
<1>4. \E x \in all : \A y \in all : <<y, x>> \notin StrictSubsetOrdering(Prices)
      BY <1>2, <1>3, WFMin
<1>5. PICK l \in T : \A k \in T : <<better(k), better(l)>> \notin StrictSubsetOrdering(Prices)
      BY <1>4 DEF all
<1>6. ASSUME NEW k \in T, Worse(l, k) PROVE FALSE
  <2>1. \A p \in Prices : Worse(k, p) => Worse(l, p)
        BY <1>1, <1>6 DEF Worse
  <2>2. k \in better(l) /\ k \notin better(k)
        BY <1>1, <1>6 DEF Worse
  <2>3. <<better(k), better(l)>> \in StrictSubsetOrdering(Prices)
        BY <2>1, <2>2 DEF StrictSubsetOrdering
  <2>4. QED
        BY <2>3, <1>5
<1>7. QED
  BY <1>6

-----------------------------------------------------------------------------
(* The steps of advance().                                                 *)

\* No setup is at no level.
LEMMA SetupLevels ==
  ASSUME NEW u \in Setups
  PROVE  /\ u.level \in Nat /\ u.age \in 0..(FreshBars + 1)
         /\ u = NoSetup <=> u.level \notin Levels
<1>1. CASE u = NoSetup
      BY <1>1, Constants DEF NoSetup
<1>2. CASE u \in [level : Levels, age : 0..(FreshBars + 1)]
  <2>1. u.level \in Levels /\ u.age \in 0..(FreshBars + 1)
        BY <1>2
  <2>2. NoSetup.level \notin Levels
        BY Constants DEF NoSetup
  <2>3. u # NoSetup
        BY <2>1, <2>2
  <2>4. \A l \in Levels : l \in Nat
        BY Constants
  <2>5. u.level \in Nat
        BY <2>1, <2>4
  <2>6. QED
        BY <2>1, <2>3, <2>5
<1>3. QED
  BY <1>1, <1>2 DEF Setups

\* Ending a setup pays for it.
LEMMA EndedPays ==
  ASSUME NEW s \in State, Within(s), Active(s)
  PROVE  /\ Ended(s) \in State /\ ~Active(Ended(s))
         /\ \A l \in Levels : Charge(Ended(s), l) = Charge(s, l)
<1> DEFINE at == s.setup.level
<1>1. at \in Levels
      BY SetupLevels DEF State, Active
<1>2. s.attempts[at] + 1 \in 0..MaxAttempts
  <2>1. s.attempts \in [Levels -> 0..MaxAttempts]
        BY DEF State
  <2>2. Charge(s, at) <= MaxAttempts /\ Charge(s, at) = s.attempts[at] + 1
        BY <1>1 DEF Within, Charge
  <2>3. s.attempts[at] \in 0..MaxAttempts
        BY <1>1, <2>1
  <2> HIDE DEF at
  <2>4. QED
        BY <2>2, <2>3, Constants
<1>3. Ended(s).setup = NoSetup
      BY DEF Ended
<1>4. Ended(s).attempts = [s.attempts EXCEPT ![at] = @ + 1]
      BY DEF Ended
<1>5. Ended(s).attempts \in [Levels -> 0..MaxAttempts]
      BY <1>1, <1>2, <1>4 DEF State
<1>6. Ended(s) \in State
      BY <1>3, <1>5 DEF State, Ended, Setups
<1>7. NoSetup.level \notin Levels
      BY SetupLevels DEF Setups
<1>8. ASSUME NEW l \in Levels PROVE Charge(Ended(s), l) = Charge(s, l)
      BY <1>1, <1>3, <1>4, <1>7 DEF Charge, State
<1>9. QED
  BY <1>3, <1>6, <1>8 DEF Active

\* Expiry keeps the charges, and leaves no setup that is too old.
LEMMA ExpiredKeeps ==
  ASSUME NEW s \in State, Within(s)
  PROVE  /\ Expired(s) \in State /\ Within(Expired(s))
         /\ \A l \in Levels : Charge(Expired(s), l) = Charge(s, l)
         /\ Active(Expired(s)) => Expired(s).setup.age <= FreshBars
<1>1. CASE Active(s) /\ TooOld(s)
  <2>1. Expired(s) = Ended(s)
        BY <1>1 DEF Expired
  <2>2. QED
        BY <2>1, <1>1, EndedPays DEF Within
<1>2. CASE ~(Active(s) /\ TooOld(s))
  <2>1. Expired(s) = s
        BY <1>2 DEF Expired
  <2>2. s.setup.age \in 0..(FreshBars + 1) /\ FreshBars \in Nat
        BY SetupLevels, Constants DEF State
  <2>3. QED
        BY <2>1, <2>2, <1>2 DEF TooOld
<1>3. QED
  BY <1>1, <1>2

\* A sweep opens a setup where an attempt is left, or changes nothing.
LEMMA OpenedHasAttempt ==
  ASSUME NEW s \in State, Within(s), NEW c, NEW pools \in SUBSET Levels
  PROVE  \/ Opened(s, c, pools) = s
         \/ \E l \in Levels :
              /\ Opened(s, c, pools) = [s EXCEPT !.setup = [level |-> l, age |-> 0]]
              /\ ~Active(s) /\ s.attempts[l] < MaxAttempts
<1> DEFINE swept == SweptLevels(c, pools)
           nearest == CHOOSE l \in swept : \A k \in swept : ~Worse(l, k)
<1>1. CASE ~Active(s) /\ swept # {} /\ MayAttempt(s, nearest)
  <2>1. swept \in SUBSET Levels
        BY DEF SweptLevels
  <2>2. \E l \in swept : \A k \in swept : ~Worse(l, k)
        BY <2>1, <1>1, NearestExists
  <2>3. nearest \in Levels
        BY <2>1, <2>2
  <2>4. Opened(s, c, pools) = [s EXCEPT !.setup = [level |-> nearest, age |-> 0]]
        BY <1>1 DEF Opened
  <2>5. QED
        BY <2>3, <2>4, <1>1 DEF MayAttempt
<1>2. CASE ~(~Active(s) /\ swept # {} /\ MayAttempt(s, nearest))
      BY <1>2 DEF Opened
<1>3. QED
  BY <1>1, <1>2

-----------------------------------------------------------------------------
(* The candles.                                                            *)

Aging == [setup |-> Aged, attempts |-> attempts]

\* A setup gets older, up to one candle beyond its freshness.
LEMMA AgingKeeps ==
  ASSUME AttemptInv
  PROVE  /\ Aging \in State /\ Within(Aging)
         /\ \A l \in Levels : Charge(Aging, l) = sweeps[l]
         /\ setup = NoSetup => Aged = NoSetup
<1> USE DEF AttemptInv, TypeOK
<1>1. Aged.level = setup.level
  <2>1. CASE setup = NoSetup
        BY <2>1 DEF Aged
  <2>2. CASE setup # NoSetup
        BY <2>2 DEF Aged, Setups
  <2>3. QED
        BY <2>1, <2>2
<1>2. Aged \in Setups
  <2>1. CASE setup = NoSetup
        BY <2>1 DEF Aged, Setups
  <2>2. CASE setup # NoSetup
    <3>1. setup \in [level : Levels, age : 0..(FreshBars + 1)]
          BY <2>2 DEF Setups
    <3> DEFINE older == IF setup.age > FreshBars THEN setup.age ELSE setup.age + 1
    <3>2. older \in 0..(FreshBars + 1)
          BY <3>1, Constants
    <3>3. Aged = [setup EXCEPT !.age = older]
          BY <2>2, <3>1 DEF Aged
    <3> HIDE DEF older
    <3>4. Aged \in [level : Levels, age : 0..(FreshBars + 1)]
          BY <3>1, <3>2, <3>3
    <3>5. QED
          BY <3>4 DEF Setups
  <2>3. QED
        BY <2>1, <2>2
<1>3. Aging \in State
      BY <1>2 DEF Aging, State
<1>4. \A l \in Levels : Charge(Aging, l) = sweeps[l]
      BY <1>1 DEF Aging, Charge, SweepsPaid
<1>5. Within(Aging)
      BY <1>4 DEF Within, AttemptsBounded
<1>6. QED
  BY <1>3, <1>4, <1>5 DEF Aged

\* What a sweep adds to the charges it adds to the history.
LEMMA SweepCharges ==
  ASSUME NEW s \in State, Within(s), Active(s) => s.setup.age <= FreshBars,
         NEW c, NEW pools \in SUBSET Levels, NEW o, o = Opened(s, c, pools)
  PROVE  /\ o \in State /\ Within(o) /\ o.setup.age <= FreshBars
         /\ o # s => o.setup.level \in Levels
         /\ \A l \in Levels :
              Charge(o, l) = Charge(s, l) + (IF o # s /\ o.setup.level = l THEN 1 ELSE 0)
<1>0. \A l \in Levels : Charge(s, l) \in Nat
  <2>1. s.attempts \in [Levels -> 0..MaxAttempts]
        BY DEF State
  <2>2. QED
        BY <2>1, Constants DEF Charge
<1>1. CASE o = s
  <2>1. o.setup.age <= FreshBars
        BY <1>1, Constants DEF Active, NoSetup
  <2>2. QED
        BY <1>0, <1>1, <2>1
<1>2. CASE o # s
  <2>1. PICK at \in Levels : /\ o = [s EXCEPT !.setup = [level |-> at, age |-> 0]]
                             /\ ~Active(s) /\ s.attempts[at] < MaxAttempts
        BY <1>2, OpenedHasAttempt
  <2>2. o.setup = [level |-> at, age |-> 0] /\ o.attempts = s.attempts
        BY <2>1 DEF State
  <2>3. o.setup \in Setups
        BY <2>2, Constants DEF Setups
  <2>4. o \in State
        BY <2>1, <2>3 DEF State
  <2>5. s.setup.level \notin Levels
        BY <2>1, SetupLevels DEF Active, State
  <2>6. s.attempts \in [Levels -> 0..MaxAttempts]
        BY DEF State
  <2>7. \A l \in Levels : /\ Charge(s, l) = s.attempts[l]
                          /\ Charge(o, l) = s.attempts[l] + (IF at = l THEN 1 ELSE 0)
        BY <2>2, <2>5, <2>6, Constants DEF Charge
  <2>8. \A l \in Levels : Charge(o, l) <= MaxAttempts
        BY <2>1, <2>6, <2>7, Constants
  <2>9. o.setup.age <= FreshBars
        BY <2>2, Constants
  <2>10. QED
        BY <1>2, <2>2, <2>4, <2>7, <2>8, <2>9 DEF Within
<1>3. QED
  BY <1>1, <1>2

\* Outside the sessions only ages change.
LEMMA IdleStep ==
  ASSUME AttemptInv, NEW c \in Candles, NEW new \in Confirms(c), Idle(c, new)
  PROVE  AttemptInv'
<1>0. \A l \in Levels : Charge(Aging, l) = sweeps[l]
      BY AgingKeeps
<1>1. \A l \in Levels : attempts[l] + (IF Aged.level = l THEN 1 ELSE 0) = sweeps[l]
      BY <1>0 DEF Aging, Charge
<1>2. Aged \in Setups
      BY AgingKeeps DEF Aging, State
<1>3. targets' \subseteq Prices
      BY DEF Idle, Confirms, AttemptInv, TypeOK
<1>4. TypeOK' /\ AttemptsBounded'
      BY <1>2, <1>3 DEF Idle, AttemptInv, TypeOK, AttemptsBounded
<1>5. SweepsPaid'
      BY <1>1 DEF Idle, SweepsPaid, AttemptInv, TypeOK
<1>6. SignalInTime' /\ NoStaleSetup'
      BY DEF Idle, SignalInTime, NoStaleSetup
<1>7. QED
  BY <1>4, <1>5, <1>6 DEF AttemptInv

\* A signal has liquidity beyond it that was confirmed behind its sweep, so the
\* sweep is not on the same candle.
LEMMA SignalAge ==
  ASSUME NEW s \in State, NEW c, NEW edge, NEW known, InTime(s),
         Built(s, c, edge, known) # NoSignal
  PROVE  Built(s, c, edge, known).age \in 1..LookbackBars
<1>1. Beyond(c, Known(s, known)) # {} /\ Built(s, c, edge, known).age = s.setup.age
      BY DEF Built
<1>2. s.setup.age # 0
      BY <1>1 DEF Known, Beyond
<1>3. s.setup.age \in Nat /\ s.setup.age <= LookbackBars
      BY SetupLevels, Constants DEF State, InTime
<1>4. QED
  BY <1>1, <1>2, <1>3, Constants

\* In a session: whatever ends the setup, its attempt is counted once.
LEMMA AdvanceStep ==
  ASSUME AttemptInv, NEW c \in Candles, NEW new \in Confirms(c), Advance(c, new)
  PROVE  AttemptInv'
<1> DEFINE known == targets \cup new
           aged == Expired(Aging)
<1>1. /\ aged \in State /\ Within(aged)
      /\ Active(aged) => aged.setup.age <= FreshBars
      /\ \A l \in Levels : Charge(aged, l) = sweeps[l]
      BY AgingKeeps, ExpiredKeeps
<1>2. PICK pools \in Pools(aged) :
        LET s == Opened(aged, c, pools)
            fresh == s # aged
        IN \E edge \in (IF Active(s) /\ InTime(s) THEN Edges(s.setup.level) ELSE {NoEdge}) :
             LET end == IF Confirmed(s, c, edge) \/ Invalid(s, c) THEN Ended(s) ELSE s
             IN /\ setup' = end.setup /\ attempts' = end.attempts
                /\ inside' = TRUE
                /\ signal' = IF Confirmed(s, c, edge) THEN Built(s, c, edge, known) ELSE NoSignal
                /\ targets' = IF ~Active(end) \/ fresh THEN {} ELSE known
                /\ sweeps' = IF fresh THEN [sweeps EXCEPT ![s.setup.level] = @ + 1] ELSE sweeps
                /\ UNCHANGED direction
      BY DEF Advance, Aging
<1> HIDE DEF aged
<1> DEFINE s == Opened(aged, c, pools)
           fresh == s # aged
<1>3. pools \in SUBSET Levels
      BY <1>2 DEF Pools
<1>4. /\ s \in State /\ Within(s) /\ s.setup.age <= FreshBars
      /\ fresh => s.setup.level \in Levels
      /\ \A l \in Levels :
           Charge(s, l) = Charge(aged, l) + (IF fresh /\ s.setup.level = l THEN 1 ELSE 0)
      BY <1>1, <1>3, SweepCharges
<1> HIDE DEF s
<1>5. PICK edge \in (IF Active(s) /\ InTime(s) THEN Edges(s.setup.level) ELSE {NoEdge}) :
        LET end == IF Confirmed(s, c, edge) \/ Invalid(s, c) THEN Ended(s) ELSE s
        IN /\ setup' = end.setup /\ attempts' = end.attempts
           /\ inside' = TRUE
           /\ signal' = IF Confirmed(s, c, edge) THEN Built(s, c, edge, known) ELSE NoSignal
           /\ targets' = IF ~Active(end) \/ fresh THEN {} ELSE known
           /\ sweeps' = IF fresh THEN [sweeps EXCEPT ![s.setup.level] = @ + 1] ELSE sweeps
           /\ UNCHANGED direction
      BY <1>2 DEF s
<1> DEFINE end == IF Confirmed(s, c, edge) \/ Invalid(s, c) THEN Ended(s) ELSE s
<1>6. /\ end \in State /\ end.setup.age <= FreshBars
      /\ \A l \in Levels : Charge(end, l) = Charge(s, l)
  <2>1. CASE Confirmed(s, c, edge) \/ Invalid(s, c)
    <3>1. Active(s) /\ end = Ended(s)
          BY <2>1 DEF Confirmed, Invalid
    <3>2. Ended(s).setup.age <= FreshBars
          BY Constants DEF Ended, NoSetup
    <3>3. QED
          BY <3>1, <3>2, <1>4, EndedPays
  <2>2. CASE ~(Confirmed(s, c, edge) \/ Invalid(s, c))
        BY <2>2, <1>4
  <2>3. QED
        BY <2>1, <2>2
<1>7. setup' = end.setup /\ attempts' = end.attempts
      BY <1>5
<1> HIDE DEF end
<1>8. /\ sweeps' \in [Levels -> Nat]
      /\ \A l \in Levels : sweeps'[l] = sweeps[l] + (IF fresh /\ s.setup.level = l THEN 1 ELSE 0)
  <2>1. sweeps \in [Levels -> Nat]
        BY DEF AttemptInv, TypeOK
  <2>2. sweeps' = IF fresh THEN [sweeps EXCEPT ![s.setup.level] = @ + 1] ELSE sweeps
        BY <1>5
  <2>3. QED
        BY <2>1, <2>2, <1>4
<1>9. \A l \in Levels : Charge(end, l) = sweeps'[l]
      BY <1>1, <1>4, <1>6, <1>8
<1>10. SweepsPaid'
      BY <1>7, <1>9 DEF SweepsPaid, Charge
<1>11. AttemptsBounded'
      BY <1>4, <1>6, <1>9 DEF AttemptsBounded, Within
<1>12. TypeOK'
  <2>1. new \subseteq Prices
        BY DEF Confirms
  <2>2. targets' \subseteq Prices /\ inside' \in BOOLEAN /\ direction' = direction
        BY <1>5, <2>1 DEF AttemptInv, TypeOK
  <2>3. setup' \in Setups /\ attempts' \in [Levels -> 0..MaxAttempts]
        BY <1>6, <1>7 DEF State
  <2>4. QED
        BY <2>2, <2>3, <1>8 DEF TypeOK, AttemptInv
<1>13. NoStaleSetup'
      BY <1>6, <1>7 DEF NoStaleSetup
<1>14. SignalInTime'
  <2>1. CASE Confirmed(s, c, edge)
    <3>1. InTime(s)
          BY <2>1, <1>5 DEF Confirmed
    <3>2. signal' = Built(s, c, edge, known)
          BY <2>1, <1>5
    <3>3. QED
          BY <3>1, <3>2, <1>4, SignalAge DEF SignalInTime
  <2>2. CASE ~Confirmed(s, c, edge)
        BY <2>2, <1>5 DEF SignalInTime
  <2>3. QED
        BY <2>1, <2>2
<1>15. QED
  BY <1>10, <1>11, <1>12, <1>13, <1>14 DEF AttemptInv

\* Before the first candle nothing was swept and nothing is charged.
LEMMA AttemptsBegin == Init => AttemptInv
<1> SUFFICES ASSUME Init PROVE AttemptInv
    OBVIOUS
<1>1. NoSetup.level \notin Levels /\ NoSetup.age = 0
      BY Constants DEF NoSetup
<1>2. TypeOK
  <2>1. inside \in BOOLEAN
        BY Zenon DEF Init
  <2>2. attempts \in [Levels -> 0..MaxAttempts] /\ sweeps \in [Levels -> Nat]
    <3>1. 0 \in 0..MaxAttempts /\ 0 \in Nat
          BY Constants
    <3>2. QED
          BY <3>1, Zenon DEF Init
  <2>3. setup \in Setups /\ targets \subseteq Prices /\ direction \in {"long", "short"}
        BY DEF Init, Setups
  <2>4. QED
        BY <2>1, <2>2, <2>3 DEF TypeOK
<1>3. SweepsPaid /\ AttemptsBounded /\ NoStaleSetup /\ SignalInTime
      BY <1>1, Constants DEF Init, SweepsPaid, AttemptsBounded, NoStaleSetup, SignalInTime
<1>4. QED
      BY <1>2, <1>3 DEF AttemptInv

\* Every candle, session and snapshot keeps the charges.
LEMMA AttemptsKept == AttemptInv /\ [Next]_vars => AttemptInv'
<1> SUFFICES ASSUME AttemptInv, [Next]_vars PROVE AttemptInv'
    OBVIOUS
<1>1. CASE Outside
      BY <1>1, IdleStep DEF Outside
<1>2. CASE Inside
      BY <1>2, AdvanceStep DEF Inside
<1>3. CASE UNCHANGED vars
      BY <1>3 DEF vars, AttemptInv, TypeOK, SweepsPaid, AttemptsBounded, SignalInTime,
         NoStaleSetup
<1>4. QED
      BY <1>1, <1>2, <1>3 DEF Next

\* Attempts are counted once and bounded, and ages respected, along every
\* sequence of candles, sessions and snapshots of one walk (module IctTracker, AttemptInv).
THEOREM AttemptsHold == StrategiesSpec => []AttemptInv
<1>1. StrategiesInit => AttemptInv
      BY AttemptsBegin DEF StrategiesInit
<1>2. AttemptInv /\ [StrategiesNext]_strategyVars => AttemptInv'
  <2>1. [StrategiesNext]_strategyVars => [Next]_vars
        BY DEF StrategiesNext, Ict, Trend, strategyVars
  <2>2. QED
        BY <2>1, AttemptsKept
<1>3. QED
  BY <1>1, <1>2, PTL DEF StrategiesSpec

-----------------------------------------------------------------------------
(* Induction, recursion and sums.                                          *)

\* Induction over an interval, for a set.
LEMMA UpTo ==
  ASSUME NEW a \in Int, NEW b \in Int, NEW S, a \in S,
         \A i \in a..(b - 1) : i \in S => i + 1 \in S
  PROVE  a..b \subseteq S
<1> DEFINE bad == (a..b) \ S
           below(i) == a..i
           all == {below(i) : i \in bad}
<1> SUFFICES ASSUME bad # {} PROVE FALSE
    OBVIOUS
<1>1. IsFiniteSet(a..b)
      BY FS_Interval
<1>2. IsWellFoundedOn(StrictSubsetOrdering(a..b), SUBSET (a..b))
      BY <1>1, FS_StrictSubsetOrderingWellFounded, FS_FiniteSubsetsOfFinite
<1>3. all \subseteq SUBSET (a..b) /\ all # {}
      OBVIOUS
<1> HIDE DEF all
<1>4. \E x \in all : \A y \in all : <<y, x>> \notin StrictSubsetOrdering(a..b)
      BY <1>2, <1>3, WFMin
<1>5. PICK i \in bad : \A j \in bad : <<below(j), below(i)>> \notin StrictSubsetOrdering(a..b)
      BY <1>4 DEF all
<1>6. i # a /\ i \in a..b /\ i - 1 \in a..(b - 1) /\ (i - 1) + 1 = i
      OBVIOUS
<1>7. i - 1 \in bad
      BY <1>6
<1>8. below(i - 1) \subseteq below(i) /\ i \in below(i) /\ i \notin below(i - 1)
      BY <1>6
<1>9. <<below(i - 1), below(i)>> \in StrictSubsetOrdering(a..b)
      BY <1>6, <1>8 DEF StrictSubsetOrdering
<1>10. QED
  BY <1>5, <1>7, <1>9

\* g has the first value base, and each other value is a step from the one before.
StepsIn(D, V, Step) == \A i \in D, v \in V : Step[i][v] \in V
Follows(g, a, b, base, Step) ==
  \A i \in a..b : g[i] = IF i = a THEN base ELSE Step[i][g[i - 1]]

\* A function on an interval may be defined by its first value and a step.
LEMMA Recursion ==
  ASSUME NEW a \in Int, NEW b \in Int, NEW V, NEW base \in V, NEW Step,
         StepsIn(a..b, V, Step)
  PROVE  \E g \in [a..b -> V] : Follows(g, a, b, base, Step)
<1> USE DEF StepsIn, Follows
<1> DEFINE Good(n, g) == \A i \in a..n : g[i] = IF i = a THEN base ELSE Step[i][g[i - 1]]
           S == {n \in a..b : \E g \in [a..n -> V] : Good(n, g)}
<1>0. CASE a > b
  <2>1. a..b = {}
        BY <1>0
  <2>2. [i \in a..b |-> base] \in [a..b -> V]
        OBVIOUS
  <2>3. QED
        BY <2>1, <2>2
<1>1. CASE a <= b
  <2>1. a \in S
    <3>1. [i \in a..a |-> base] \in [a..a -> V] /\ Good(a, [i \in a..a |-> base])
          OBVIOUS
    <3>2. \E g \in [a..a -> V] : Good(a, g)
          BY <3>1
    <3>3. a \in a..b
          BY <1>1
    <3> HIDE DEF Good
    <3>4. QED
          BY <3>2, <3>3
  <2>2. ASSUME NEW n \in a..(b - 1), n \in S PROVE n + 1 \in S
    <3>1. PICK g \in [a..n -> V] : Good(n, g)
          BY <2>2
    <3> DEFINE h == [i \in a..(n + 1) |-> IF i = n + 1 THEN Step[n + 1][g[n]] ELSE g[i]]
    <3>2. g[n] \in V /\ n + 1 \in a..b
          OBVIOUS
    <3>3. Step[n + 1][g[n]] \in V
          BY <3>2
    <3>4. \A i \in a..(n + 1) : i # n + 1 => i \in a..n
          OBVIOUS
    <3>5. h \in [a..(n + 1) -> V]
          BY <3>3, <3>4
    <3>6. Good(n + 1, h)
      <4> SUFFICES ASSUME NEW i \in a..(n + 1)
                   PROVE h[i] = IF i = a THEN base ELSE Step[i][h[i - 1]]
          OBVIOUS
      <4>1. CASE i = n + 1
        <5>1. i # a /\ i - 1 = n /\ n \in a..(n + 1) /\ n # n + 1
              BY <4>1
        <5>2. h[i] = Step[i][g[n]] /\ h[n] = g[n]
              BY <4>1, <5>1
        <5>3. QED
              BY <5>1, <5>2
      <4>2. CASE i # n + 1
        <5>1. i \in a..n
              BY <4>2
        <5>2. h[i] = g[i]
              BY <4>2
        <5>3. i # a => i - 1 \in a..(n + 1) /\ i - 1 # n + 1
              BY <5>1
        <5>4. i # a => h[i - 1] = g[i - 1]
              BY <5>3
        <5>5. QED
              BY <5>1, <5>2, <5>4, <3>1
      <4>3. QED
            BY <4>1, <4>2
    <3> HIDE DEF h
    <3>7. n + 1 \in a..b
          OBVIOUS
    <3> HIDE DEF Good
    <3>8. \E x \in [a..(n + 1) -> V] : Good(n + 1, x)
          BY <3>5, <3>6
    <3>9. QED
          BY <3>7, <3>8
  <2> HIDE DEF S
  <2>3. a..b \subseteq S
        BY <2>1, <2>2, UpTo
  <2>4. b \in S
        BY <1>1, <2>3
  <2>5. QED
        BY <2>4 DEF S
<1>2. QED
  BY <1>0, <1>1

Iterated(f) == CHOOSE iter : iter = [s \in SUBSET DOMAIN f |->
    IF s = {} THEN 0 ELSE f[CHOOSE x \in s : TRUE] + iter[s \ {CHOOSE x \in s : TRUE}]]

\* The sum of a function is the value its iteration has for the whole domain.
LEMMA SumIterates == \A f : SumFunction(f) = Iterated(f)[DOMAIN f]
<1> SUFFICES ASSUME NEW f PROVE SumFunction(f) = Iterated(f)[DOMAIN f]
    OBVIOUS
<1>1. QED
  BY DEF SumFunction, SumFunctionOnSet, FoldFunctionOnSet, MapThenFoldSet, Iterated

Pick(s) == CHOOSE x \in s : TRUE
Adds(f, D, it) ==
  /\ it \in [SUBSET D -> Int]
  /\ \A s \in SUBSET D : it[s] = IF s = {} THEN 0 ELSE f[Pick(s)] + it[s \ {Pick(s)}]

\* A sum of integers adds them one by one, in some order.
LEMMA SumAdds ==
  ASSUME NEW D, IsFiniteSet(D), NEW f \in [D -> Int]
  PROVE  \E it : Adds(f, D, it) /\ SumFunction(f) = it[D]
<1> DEFINE Small(n) == {s \in SUBSET D : Cardinality(s) <= n}
           pick(s) == Pick(s)
           Good(n, g) == \A s \in Small(n) :
                           g[s] = IF s = {} THEN 0 ELSE f[pick(s)] + g[s \ {pick(s)}]
           N == Cardinality(D)
           S == {n \in 0..N : \E g \in [Small(n) -> Int] : Good(n, g)}
<1>1. N \in Nat
      BY FS_CardinalityType
<1>2. \A s \in SUBSET D : /\ IsFiniteSet(s) /\ Cardinality(s) \in 0..N
                          /\ Cardinality(s) = 0 <=> s = {}
      BY FS_Subset, FS_CardinalityType, FS_EmptySet
<1>3. \A s \in SUBSET D : s # {} => /\ pick(s) \in s /\ s \ {pick(s)} \in SUBSET D
                                    /\ Cardinality(s \ {pick(s)}) = Cardinality(s) - 1
  <2> SUFFICES ASSUME NEW s \in SUBSET D, s # {}
               PROVE  /\ pick(s) \in s /\ s \ {pick(s)} \in SUBSET D
                      /\ Cardinality(s \ {pick(s)}) = Cardinality(s) - 1
      OBVIOUS
  <2>1. pick(s) \in s
        BY DEF Pick
  <2>2. QED
        BY <2>1, <1>2, FS_RemoveElement
<1> HIDE DEF pick, N
<1>4. 0 \in S
  <2>1. [s \in Small(0) |-> 0] \in [Small(0) -> Int] /\ Good(0, [s \in Small(0) |-> 0])
        BY <1>2
  <2> HIDE DEF Good
  <2>2. \E g \in [Small(0) -> Int] : Good(0, g)
        BY <2>1
  <2>3. 0 \in 0..N
        BY <1>1
  <2>4. QED
        BY <2>2, <2>3
<1>5. ASSUME NEW n \in 0..(N - 1), n \in S PROVE n + 1 \in S
  <2>1. PICK g \in [Small(n) -> Int] : Good(n, g)
        BY <1>5
  <2> DEFINE h == [s \in Small(n + 1) |->
                     IF s = {} THEN 0 ELSE f[pick(s)] + g[s \ {pick(s)}]]
  <2>2. \A s \in Small(n + 1) : s # {} => s \ {pick(s)} \in Small(n)
        BY <1>1, <1>2, <1>3
  <2>3. \A s \in Small(n + 1) : s # {} => f[pick(s)] + g[s \ {pick(s)}] \in Int
        BY <2>2, <1>3
  <2>4. h \in [Small(n + 1) -> Int]
        BY <2>3
  <2>5. Small(n) \subseteq Small(n + 1)
        BY <1>1, <1>2
  <2>6. \A s \in Small(n) : h[s] = g[s]
        BY <2>1, <2>5
  <2>7. Good(n + 1, h)
        BY <2>2, <2>6
  <2> HIDE DEF h, Good
  <2>8. \E x \in [Small(n + 1) -> Int] : Good(n + 1, x)
        BY <2>4, <2>7
  <2>9. n + 1 \in 0..N
        BY <1>1
  <2>10. QED
        BY <2>8, <2>9
<1>6. N \in S
  <2> HIDE DEF S
  <2>1. 0..N \subseteq S
        BY <1>1, <1>4, <1>5, UpTo
  <2>2. QED
        BY <1>1, <2>1
<1>7. PICK g \in [Small(N) -> Int] : Good(N, g)
      BY <1>6
<1>8. Small(N) = SUBSET D
      BY <1>1, <1>2
<1>9. g = [s \in SUBSET D |-> IF s = {} THEN 0 ELSE f[pick(s)] + g[s \ {pick(s)}]]
      BY <1>7, <1>8
<1> DEFINE it == Iterated(f)
<1>10. it = [s \in SUBSET D |-> IF s = {} THEN 0 ELSE f[pick(s)] + it[s \ {pick(s)}]]
  <2> DEFINE Is(x) == x = [s \in SUBSET D |-> IF s = {} THEN 0 ELSE f[pick(s)] + x[s \ {pick(s)}]]
  <2>1. DOMAIN f = D
        OBVIOUS
  <2>2. it = CHOOSE x : Is(x)
        BY <2>1 DEF Iterated, pick, Pick
  <2>3. Is(g)
        BY <1>9
  <2> HIDE DEF Is, it
  <2>4. Is(it)
        BY <2>2, <2>3
  <2>5. QED
        BY <2>4 DEF Is
<1> HIDE DEF it
<1> DEFINE R == {n \in 0..N : \A s \in Small(n) : it[s] \in Int}
<1>11. 0 \in R
       BY <1>1, <1>2, <1>10
<1>12. ASSUME NEW n \in 0..(N - 1), n \in R PROVE n + 1 \in R
  <2>1. \A s \in Small(n + 1) : s # {} => s \ {pick(s)} \in Small(n)
        BY <1>1, <1>2, <1>3
  <2>2. \A s \in Small(n + 1) : s # {} => f[pick(s)] \in Int /\ it[s \ {pick(s)}] \in Int
        BY <2>1, <1>3, <1>12
  <2>3. ASSUME NEW s \in Small(n + 1) PROVE it[s] \in Int
    <3>1. it[s] = IF s = {} THEN 0 ELSE f[pick(s)] + it[s \ {pick(s)}]
          BY <1>10
    <3>2. CASE s = {}
          BY <3>1, <3>2
    <3>3. CASE s # {}
      <4> DEFINE u == f[pick(s)]
                 v == it[s \ {pick(s)}]
      <4>1. u \in Int /\ v \in Int /\ it[s] = u + v
            BY <2>2, <3>1, <3>3
      <4> HIDE DEF u, v
      <4>2. QED
            BY <4>1
    <3>4. QED
          BY <3>2, <3>3
  <2>4. QED
        BY <2>3, <1>1
<1>13. N \in R
  <2> HIDE DEF R
  <2>1. 0..N \subseteq R
        BY <1>1, <1>11, <1>12, UpTo
  <2>2. QED
        BY <1>1, <2>1
<1>14. D \in Small(N) /\ DOMAIN f = D
       BY <1>8
<1>15. it \in [SUBSET D -> Int]
  <2>1. \A s \in SUBSET D : it[s] \in Int
        BY <1>8, <1>13
  <2>2. QED
        BY <2>1, <1>10
<1>16. SumFunction(f) = it[D]
       BY <1>14, SumIterates DEF it
<1>17. Adds(f, D, it)
       BY <1>10, <1>15 DEF Adds, pick
<1>18. QED
  BY <1>16, <1>17

\* So it is one itself.
LEMMA SumType ==
  ASSUME NEW D, IsFiniteSet(D), NEW f \in [D -> Int]
  PROVE  SumFunction(f) \in Int
<1>1. PICK it : Adds(f, D, it) /\ SumFunction(f) = it[D]
      BY SumAdds
<1>2. QED
  BY <1>1 DEF Adds

\* What holds of no elements and of one element more holds of all.
LEMMA OneByOne ==
  ASSUME NEW D, IsFiniteSet(D), NEW good, {} \in good,
         \A s \in SUBSET D : s # {} /\ s \ {Pick(s)} \in good => s \in good
  PROVE  D \in good
<1> DEFINE N == Cardinality(D)
           R == {n \in 0..N : \A s \in SUBSET D : Cardinality(s) <= n => s \in good}
<1>1. N \in Nat
      BY FS_CardinalityType
<1>2. \A s \in SUBSET D : /\ IsFiniteSet(s) /\ Cardinality(s) \in 0..N
                          /\ Cardinality(s) = 0 <=> s = {}
      BY FS_Subset, FS_CardinalityType, FS_EmptySet
<1> HIDE DEF N
<1>3. ASSUME NEW s \in SUBSET D, s # {}
      PROVE  s \ {Pick(s)} \in SUBSET D /\ Cardinality(s \ {Pick(s)}) = Cardinality(s) - 1
  <2>1. Pick(s) \in s
        BY <1>3 DEF Pick
  <2>2. QED
        BY <2>1, <1>2, FS_RemoveElement
<1>4. 0 \in R
      BY <1>1, <1>2
<1>5. ASSUME NEW n \in 0..(N - 1), n \in R PROVE n + 1 \in R
  <2>1. ASSUME NEW s \in SUBSET D, Cardinality(s) <= n + 1 PROVE s \in good
    <3>1. CASE s = {}
          BY <3>1
    <3>2. CASE s # {}
      <4>1. s \ {Pick(s)} \in SUBSET D /\ Cardinality(s \ {Pick(s)}) <= n
            BY <1>2, <1>3, <2>1, <3>2
      <4>2. s \ {Pick(s)} \in good
            BY <4>1, <1>5
      <4>3. QED
            BY <4>2, <3>2
    <3>3. QED
          BY <3>1, <3>2
  <2>2. n + 1 \in 0..N
        BY <1>1
  <2>3. QED
        BY <2>1, <2>2
<1> HIDE DEF R
<1>6. 0..N \subseteq R
  <2>1. 0 \in Int /\ N \in Int
        BY <1>1
  <2>2. QED
        BY <2>1, <1>4, <1>5, UpTo
<1>7. N \in R
      BY <1>1, <1>6
<1>8. QED
  BY <1>7 DEF R, N

\* A sum of negated numbers is the negated sum.
LEMMA SumNegated ==
  ASSUME NEW D, IsFiniteSet(D), NEW f \in [D -> Int], NEW g \in [D -> Int],
         \A x \in D : g[x] = -f[x]
  PROVE  SumFunction(f) \in Int /\ SumFunction(g) = -SumFunction(f)
<1>1. PICK u : Adds(f, D, u) /\ SumFunction(f) = u[D]
      BY SumAdds
<1>2. PICK v : Adds(g, D, v) /\ SumFunction(g) = v[D]
      BY SumAdds
<1> DEFINE good == {s \in SUBSET D : v[s] = -u[s]}
<1>3. {} \in good
  <2>1. u[{}] = 0 /\ v[{}] = 0
        BY <1>1, <1>2 DEF Adds
  <2>2. QED
        BY <2>1
<1>4. ASSUME NEW s \in SUBSET D, s # {}, s \ {Pick(s)} \in good PROVE s \in good
  <2>1. Pick(s) \in D
        BY <1>4 DEF Pick
  <2>2. PICK a \in Int, b \in Int : a = f[Pick(s)] /\ b = u[s \ {Pick(s)}]
        BY <1>1, <2>1, <1>4 DEF Adds
  <2>3. g[Pick(s)] = -a /\ v[s \ {Pick(s)}] = -b
        BY <1>4, <2>1, <2>2
  <2>4. u[s] = a + b /\ v[s] = -a + -b
        BY <1>1, <1>2, <1>4, <2>2, <2>3 DEF Adds
  <2>5. QED
        BY <2>4
<1> HIDE DEF good
<1>5. D \in good
      BY <1>3, <1>4, OneByOne
<1>6. u[D] \in Int
      BY <1>1 DEF Adds
<1>7. QED
  BY <1>1, <1>2, <1>5, <1>6 DEF good

\* A sum of natural numbers is one, and 0 only when they all are.
LEMMA SumNatural ==
  ASSUME NEW D, IsFiniteSet(D), NEW f \in [D -> Nat]
  PROVE  SumFunction(f) \in Nat /\ (SumFunction(f) = 0 => \A x \in D : f[x] = 0)
<1>1. PICK u : Adds(f, D, u) /\ SumFunction(f) = u[D]
  <2>1. f \in [D -> Int]
        OBVIOUS
  <2>2. QED
        BY <2>1, SumAdds
<1> DEFINE good == {s \in SUBSET D : u[s] \in Nat /\ (u[s] = 0 => \A x \in s : f[x] = 0)}
<1>2. {} \in good
  <2>1. u[{}] = 0
        BY <1>1 DEF Adds
  <2>2. QED
        BY <2>1
<1>3. ASSUME NEW s \in SUBSET D, s # {}, s \ {Pick(s)} \in good PROVE s \in good
  <2>1. Pick(s) \in s /\ Pick(s) \in D
        BY <1>3 DEF Pick
  <2>2. PICK a \in Nat, b \in Nat : a = f[Pick(s)] /\ b = u[s \ {Pick(s)}]
        BY <2>1, <1>3
  <2>3. u[s] = a + b
        BY <1>1, <1>3, <2>2 DEF Adds
  <2>4. ASSUME u[s] = 0, NEW x \in s PROVE f[x] = 0
    <3>1. a = 0 /\ b = 0
          BY <2>3, <2>4
    <3>2. CASE x = Pick(s)
          BY <2>2, <3>1, <3>2
    <3>3. CASE x # Pick(s)
          BY <1>3, <2>2, <3>1, <3>3
    <3>4. QED
          BY <3>2, <3>3
  <2>5. QED
        BY <2>3, <2>4
<1> HIDE DEF good
<1>4. D \in good
      BY <1>2, <1>3, OneByOne
<1>5. QED
  BY <1>1, <1>4 DEF good

\* A sum of one number, again and again.
LEMMA SumConstant ==
  ASSUME NEW D, IsFiniteSet(D), NEW k \in Int, NEW f \in [D -> Int], \A x \in D : f[x] = k
  PROVE  SumFunction(f) = Cardinality(D) * k
<1>1. PICK u : Adds(f, D, u) /\ SumFunction(f) = u[D]
      BY SumAdds
<1> DEFINE good == {s \in SUBSET D : u[s] = Cardinality(s) * k}
<1>2. {} \in good
  <2>1. Cardinality({}) = 0 /\ u[{}] = 0
        BY <1>1, FS_EmptySet DEF Adds
  <2>2. QED
        BY <2>1
<1>3. ASSUME NEW s \in SUBSET D, s # {}, s \ {Pick(s)} \in good PROVE s \in good
  <2>1. Pick(s) \in s /\ Pick(s) \in D
        BY <1>3 DEF Pick
  <2>2. IsFiniteSet(s) /\ IsFiniteSet(s \ {Pick(s)})
        BY FS_Subset
  <2>3. PICK n \in Nat : n = Cardinality(s \ {Pick(s)}) /\ Cardinality(s) = n + 1
        BY <2>1, <2>2, FS_RemoveElement, FS_CardinalityType
  <2>4. u[s \ {Pick(s)}] = n * k
        BY <1>3, <2>3
  <2>5. u[s] = k + n * k
        BY <1>1, <1>3, <2>1, <2>4 DEF Adds
  <2>6. u[s] = (n + 1) * k
        BY <2>5
  <2>7. QED
        BY <2>3, <2>6
<1> HIDE DEF good
<1>4. D \in good
      BY <1>2, <1>3, OneByOne
<1>5. QED
  BY <1>1, <1>4 DEF good

-----------------------------------------------------------------------------
(* Histories and true ranges.                                              *)

Candle == {b \in [open : Int, high : Int, low : Int, close : Int] :
             b.low <= b.open /\ b.low <= b.close /\ b.open <= b.high /\ b.close <= b.high}
History == Seq(Candle)

\* d is the history c with later candles.
Extends(c, d) == Len(c) <= Len(d) /\ \A i \in 1..Len(c) : d[i] = c[i]

\* What a history holds: at every index a candle of whole numbers, in order.
LEMMA HistoryCandles ==
  ASSUME NEW c \in History
  PROVE  /\ Len(c) \in Nat /\ DOMAIN c = 1..Len(c)
         /\ \A i \in 1..Len(c) :
              /\ c[i] \in Candle
              /\ c[i].open \in Int /\ c[i].high \in Int /\ c[i].low \in Int /\ c[i].close \in Int
              /\ c[i].low <= c[i].close /\ c[i].close <= c[i].high
              /\ c[i].low <= c[i].open /\ c[i].open <= c[i].high
<1>1. Len(c) \in Nat /\ DOMAIN c = 1..Len(c) /\ \A i \in 1..Len(c) : c[i] \in Candle
      BY DEF History
<1>2. QED
  BY <1>1 DEF Candle

\* Induction over the indices of a history.
LEMMA Onward ==
  ASSUME NEW c \in History, NEW S, Len(c) # 0 => 1 \in S,
         \A i \in 1..(Len(c) - 1) : i \in S => i + 1 \in S
  PROVE  1..Len(c) \subseteq S
<1>1. PICK n \in Nat : n = Len(c)
      BY HistoryCandles
<1>2. CASE n = 0
      BY <1>1, <1>2
<1>3. CASE n # 0
  <2>1. 1 \in S /\ \A i \in 1..(n - 1) : i \in S => i + 1 \in S
        BY <1>1, <1>3
  <2>2. 1..n \subseteq S
        BY <2>1, UpTo
  <2>3. QED
        BY <1>1, <2>2
<1>4. QED
  BY <1>2, <1>3

\* Recursion over the indices of a history, with values in a set.
LEMMA Along ==
  ASSUME NEW c \in History, NEW V, NEW base, NEW Step, base \in V,
         StepsIn(1..Len(c), V, Step)
  PROVE  \E g \in [1..Len(c) -> V] : Follows(g, 1, Len(c), base, Step)
<1>1. PICK n \in Nat : n = Len(c)
      BY HistoryCandles
<1>2. StepsIn(1..n, V, Step)
      BY <1>1
<1>3. \E g \in [1..n -> V] : Follows(g, 1, n, base, Step)
      BY <1>2, Recursion
<1>4. QED
  BY <1>1, <1>3

\* The average true range has at least one candle.
LEMMA PeriodType == AtrPeriod \in Nat /\ AtrPeriod >= 1
BY IndicatorsAssumption

\* A floor division by a positive number has a whole result.
LEMMA Quotient ==
  ASSUME NEW a \in Int, NEW b \in Nat \ {0}
  PROVE  a \div b \in Int
OBVIOUS

\* The largest of three numbers is one of them.
LEMMA LargestOfThree ==
  ASSUME NEW a \in Int, NEW b \in Int, NEW d \in Int
  PROVE  Max({a, b, d}) \in {a, b, d}
<1>1. \E x \in {a, b, d} : \A y \in {a, b, d} : x >= y
  <2>1. CASE a >= b /\ a >= d
        BY <2>1
  <2>2. CASE b >= a /\ b >= d
        BY <2>2
  <2>3. CASE d >= a /\ d >= b
        BY <2>3
  <2>4. QED
        BY <2>1, <2>2, <2>3
<1>2. QED
  BY <1>1 DEF Max

\* A true range is a whole number.
LEMMA TrueRangeType ==
  ASSUME NEW c \in History, NEW i \in 1..Len(c)
  PROVE  TrueRange(c, i) \in Int
<1>1. \A j \in 1..Len(c) : c[j].high \in Int /\ c[j].low \in Int /\ c[j].close \in Int
      BY HistoryCandles
<1>2. CASE i = 1
      BY <1>1, <1>2 DEF TrueRange
<1>3. CASE i # 1
  <2>1. i - 1 \in 1..Len(c) /\ i \in 1..Len(c)
        BY <1>3, HistoryCandles
  <2> DEFINE u == c[i].high - c[i].low
             v == Abs(c[i].high - c[i - 1].close)
             w == Abs(c[i].low - c[i - 1].close)
  <2>2. /\ c[i].high \in Int /\ c[i].low \in Int /\ c[i - 1].close \in Int
        BY <1>1, <2>1
  <2>9. \A x \in Int, y \in Int : Abs(x - y) \in Int /\ x - y \in Int
        BY DEF Abs
  <2>10. u \in Int /\ v \in Int /\ w \in Int
        BY <2>2, <2>9
  <2>3. TrueRange(c, i) = Max({u, v, w})
        BY <1>3 DEF TrueRange
  <2> HIDE DEF u, v, w
  <2>4. QED
        BY <2>10, <2>3, LargestOfThree
<1>4. QED
  BY <1>2, <1>3

\* A true range looks at no later candle.
LEMMA TrueRangePrefix ==
  ASSUME NEW c \in History, NEW d \in History, Extends(c, d), NEW i \in 1..Len(c)
  PROVE  TrueRange(d, i) = TrueRange(c, i)
<1>1. d[i] = c[i] /\ d[1] = c[1] /\ (i # 1 => d[i - 1] = c[i - 1])
      BY HistoryCandles DEF Extends
<1>2. QED
  BY <1>1 DEF TrueRange

-----------------------------------------------------------------------------
(* The average true range.                                                 *)

FirstAverage(c) == SumFunction([j \in 1..AtrPeriod |-> TrueRange(c, j)]) \div AtrPeriod

NextAverage(c, i, before) ==
  IF i < AtrPeriod THEN NoAtr
  ELSE IF i = AtrPeriod THEN FirstAverage(c)
  ELSE (before * (AtrPeriod - 1) + TrueRange(c, i)) \div AtrPeriod

\* The first average is a whole number.
LEMMA FirstAverageType ==
  ASSUME NEW c \in History, AtrPeriod <= Len(c)
  PROVE  FirstAverage(c) \in Int
<1> DEFINE f == [j \in 1..AtrPeriod |-> TrueRange(c, j)]
<1>1. \A j \in 1..AtrPeriod : j \in 1..Len(c)
      BY PeriodType, HistoryCandles
<1>2. f \in [1..AtrPeriod -> Int]
      BY <1>1, TrueRangeType
<1>3. IsFiniteSet(1..AtrPeriod)
      BY PeriodType, FS_Interval
<1> HIDE DEF f
<1>4. SumFunction(f) \in Int
      BY <1>2, <1>3, SumType
<1>5. QED
  BY <1>4, PeriodType, Quotient DEF FirstAverage, f

\* So is each average after one.
LEMMA NextAverageType ==
  ASSUME NEW c \in History, NEW i \in 1..Len(c), NEW before \in Int
  PROVE  NextAverage(c, i, before) \in Int
<1>1. TrueRange(c, i) \in Int
      BY TrueRangeType
<1>2. i <= Len(c) /\ i \in Int /\ Len(c) \in Int
      BY HistoryCandles
<1>3. CASE i < AtrPeriod
      BY <1>3 DEF NextAverage, NoAtr
<1>4. CASE i = AtrPeriod
      BY <1>2, <1>4, FirstAverageType, PeriodType DEF NextAverage
<1>5. CASE i > AtrPeriod
  <2>1. before * (AtrPeriod - 1) + TrueRange(c, i) \in Int
        BY <1>1, PeriodType
  <2>2. (before * (AtrPeriod - 1) + TrueRange(c, i)) \div AtrPeriod \in Int
        BY <2>1, PeriodType, Quotient
  <2>3. QED
        BY <2>2, <1>5, <1>2, PeriodType DEF NextAverage
<1>6. QED
  BY <1>2, <1>3, <1>4, <1>5, PeriodType

\* Atr is the function its definition describes, with whole numbers as values.
LEMMA AtrDefined ==
  ASSUME NEW c \in History
  PROVE  /\ Atr(c) \in [1..Len(c) -> Int]
         /\ \A i \in 1..Len(c) : Atr(c)[i] = NextAverage(c, i, Atr(c)[i - 1])
<1> DEFINE Is(g) == g = [i \in DOMAIN c |->
             CASE i < AtrPeriod -> NoAtr
               [] i = AtrPeriod -> SumFunction([j \in 1..i |-> TrueRange(c, j)]) \div AtrPeriod
               [] OTHER -> (g[i - 1] * (AtrPeriod - 1) + TrueRange(c, i)) \div AtrPeriod]
           Step == [i \in 1..Len(c) |-> [v \in Int |-> NextAverage(c, i, v)]]
           base == NextAverage(c, 1, 0)
<1>0. DOMAIN c = 1..Len(c) /\ Len(c) \in Nat
      BY HistoryCandles
<1>1. CASE Len(c) = 0
  <2>1. Is([i \in DOMAIN c |-> 0])
        BY <1>0, <1>1
  <2>2. Atr(c) = CHOOSE g : Is(g)
        BY DEF Atr
  <2> HIDE DEF Is
  <2>3. Is(Atr(c))
        BY <2>1, <2>2
  <2>4. Atr(c) \in [1..Len(c) -> Int]
        BY <2>3, <1>0, <1>1 DEF Is
  <2>5. QED
        BY <2>4, <1>1
<1>2. CASE Len(c) # 0
  <2>1. base \in Int
        BY <1>0, <1>2, NextAverageType
  <2>2. \A i \in 1..Len(c), v \in Int : Step[i][v] = NextAverage(c, i, v)
        OBVIOUS
  <2> HIDE DEF base, Step
  <2>3. \A i \in 1..Len(c), v \in Int : Step[i][v] \in Int
        BY <2>2, NextAverageType
  <2>4. PICK V : V = Int
        OBVIOUS
  <2>5. PICK g \in [1..Len(c) -> V] :
          \A i \in 1..Len(c) : g[i] = IF i = 1 THEN base ELSE Step[i][g[i - 1]]
    <3>1. base \in V /\ StepsIn(1..Len(c), V, Step)
          BY <2>1, <2>3, <2>4 DEF StepsIn
    <3>2. \E g \in [1..Len(c) -> V] : Follows(g, 1, Len(c), base, Step)
          BY <3>1, Along
    <3>3. QED
          BY <3>2 DEF Follows
  <2>6. \A i \in 1..Len(c) : g[i] = NextAverage(c, i, g[i - 1])
    <3> SUFFICES ASSUME NEW i \in 1..Len(c) PROVE g[i] = NextAverage(c, i, g[i - 1])
        OBVIOUS
    <3>1. CASE i = 1
          BY <2>5, <3>1, PeriodType DEF base, NextAverage
    <3>2. CASE i # 1
      <4>1. i - 1 \in 1..Len(c)
            BY <1>0, <3>2
      <4>2. g[i - 1] \in Int
            BY <2>4, <2>5, <4>1
      <4>3. g[i] = Step[i][g[i - 1]]
            BY <2>5, <3>2
      <4>4. QED
            BY <2>2, <4>2, <4>3
    <3>3. QED
          BY <3>1, <3>2
  <2>7. \A x : Is(x) <=> x = [i \in 1..Len(c) |-> NextAverage(c, i, x[i - 1])]
    <3> SUFFICES ASSUME NEW x
                 PROVE  Is(x) <=> x = [i \in 1..Len(c) |-> NextAverage(c, i, x[i - 1])]
        OBVIOUS
    <3>1. \A i \in DOMAIN c :
            NextAverage(c, i, x[i - 1]) =
              CASE i < AtrPeriod -> NoAtr
                [] i = AtrPeriod -> SumFunction([j \in 1..i |-> TrueRange(c, j)]) \div AtrPeriod
                [] OTHER -> (x[i - 1] * (AtrPeriod - 1) + TrueRange(c, i)) \div AtrPeriod
          BY <1>0, PeriodType DEF NextAverage, FirstAverage
    <3>2. QED
          BY <1>0, <3>1
  <2>8. Atr(c) = CHOOSE x : Is(x)
        BY DEF Atr
  <2>9. g = [i \in 1..Len(c) |-> NextAverage(c, i, g[i - 1])]
        BY <2>6
  <2> HIDE DEF Is
  <2>10. Atr(c) = [i \in 1..Len(c) |-> NextAverage(c, i, Atr(c)[i - 1])]
        BY <2>7, <2>8, <2>9
  <2> DEFINE S == {i \in 1..Len(c) : Atr(c)[i] \in Int}
  <2>11. 1 \in S
    <3>1. 1 \in 1..Len(c) /\ Atr(c)[1] = NextAverage(c, 1, Atr(c)[1 - 1])
          BY <1>0, <1>2, <2>10
    <3>2. NextAverage(c, 1, Atr(c)[1 - 1]) = base
          BY PeriodType DEF base, NextAverage
    <3>3. QED
          BY <2>1, <3>1, <3>2
  <2>12. ASSUME NEW i \in 1..(Len(c) - 1), i \in S PROVE i + 1 \in S
    <3>1. i + 1 \in 1..Len(c) /\ (i + 1) - 1 = i
          BY <1>0
    <3>2. Atr(c)[i + 1] = NextAverage(c, i + 1, Atr(c)[i])
          BY <2>10, <3>1
    <3>3. QED
          BY <2>12, <3>1, <3>2, NextAverageType
  <2> HIDE DEF S
  <2>13. 1..Len(c) \subseteq S
        BY <2>11, <2>12, Onward
  <2>14. QED
        BY <2>10, <2>13 DEF S
<1>3. QED
  BY <1>1, <1>2

\* Later candles do not change the average of an earlier one.
LEMMA AtrPrefix ==
  ASSUME NEW c \in History, NEW d \in History, Extends(c, d)
  PROVE  \A i \in 1..Len(c) : Atr(d)[i] = Atr(c)[i]
<1> DEFINE S == {i \in 1..Len(c) : Atr(d)[i] = Atr(c)[i]}
<1>0. Len(c) \in Nat /\ Len(d) \in Nat /\ Len(c) <= Len(d)
      BY HistoryCandles DEF Extends
<1>1. \A i \in 1..Len(c) : i \in 1..Len(d)
      BY <1>0
<1>2. \A i \in 1..Len(c) : \A v : NextAverage(d, i, v) = NextAverage(c, i, v)
  <2> SUFFICES ASSUME NEW i \in 1..Len(c), NEW v PROVE NextAverage(d, i, v) = NextAverage(c, i, v)
      OBVIOUS
  <2>1. TrueRange(d, i) = TrueRange(c, i)
        BY TrueRangePrefix
  <2>2. i = AtrPeriod => FirstAverage(d) = FirstAverage(c)
    <3> SUFFICES ASSUME i = AtrPeriod PROVE FirstAverage(d) = FirstAverage(c)
        OBVIOUS
    <3>1. \A j \in 1..AtrPeriod : j \in 1..Len(c)
          BY <1>0, PeriodType
    <3>2. \A j \in 1..AtrPeriod : TrueRange(d, j) = TrueRange(c, j)
          BY <3>1, TrueRangePrefix
    <3>3. [j \in 1..AtrPeriod |-> TrueRange(d, j)] = [j \in 1..AtrPeriod |-> TrueRange(c, j)]
          BY <3>2
    <3>4. QED
          BY <3>3 DEF FirstAverage
  <2>3. QED
        BY <2>1, <2>2 DEF NextAverage
<1>3. CASE Len(c) = 0
      BY <1>3
<1>4. CASE Len(c) # 0
  <2>1. 1 \in S
    <3>1. 1 \in 1..Len(c)
          BY <1>0, <1>4
    <3>2. Atr(d)[1] = NextAverage(c, 1, Atr(d)[1 - 1]) /\ Atr(c)[1] = NextAverage(c, 1, Atr(c)[1 - 1])
          BY <1>1, <1>2, <3>1, AtrDefined
    <3>3. QED
          BY <3>1, <3>2, PeriodType DEF NextAverage
  <2>2. ASSUME NEW i \in 1..(Len(c) - 1), i \in S PROVE i + 1 \in S
    <3>1. i + 1 \in 1..Len(c) /\ (i + 1) - 1 = i
          BY <1>0
    <3>2. Atr(d)[i + 1] = NextAverage(c, i + 1, Atr(d)[i]) /\ Atr(c)[i + 1] = NextAverage(c, i + 1, Atr(c)[i])
          BY <1>1, <1>2, <3>1, AtrDefined
    <3>3. QED
          BY <2>2, <3>1, <3>2
  <2> HIDE DEF S
  <2>3. 1..Len(c) \subseteq S
        BY <2>1, <2>2, Onward
  <2>4. QED
        BY <2>3 DEF S
<1>5. QED
  BY <1>3, <1>4

-----------------------------------------------------------------------------
(* Lines.                                                                  *)

\* Swings have two candles on either side.
LEMMA SwingsInside ==
  ASSUME NEW c \in History, NEW kind
  PROVE  /\ SwingHighs(c) \subseteq Middles(c) /\ SwingLows(c) \subseteq Middles(c)
         /\ Swings(c, kind) \subseteq Middles(c) /\ Middles(c) \subseteq 1..Len(c)
<1>1. Len(c) \in Nat
      BY HistoryCandles
<1>2. Middles(c) \subseteq 1..Len(c)
      BY <1>1 DEF Middles
<1>3. SwingHighs(c) \subseteq Middles(c) /\ SwingLows(c) \subseteq Middles(c)
      BY DEF SwingHighs, SwingLows
<1>4. QED
  BY <1>2, <1>3 DEF Swings

\* A chained line goes through the wicks of two swings, with the trend.
LEMMA ChainedLine ==
  ASSUME NEW c \in History, NEW line \in ChainedLines(c)
  PROVE  /\ line.type \in Kinds
         /\ line.a \in Swings(c, line.type) /\ line.b \in Swings(c, line.type)
         /\ line.a \in 1..Len(c) /\ line.b \in 1..Len(c) /\ line.a < line.b
         /\ line = Line(c, line.type, line.a, line.b)
         /\ line.start = Wick(c, line.type, line.a) /\ line.end = Wick(c, line.type, line.b)
         /\ line.start \in Int /\ line.end \in Int
         /\ WithTrend(line)
<1>0. PICK kind \in Kinds :
        \E p \in Swings(c, kind) \X Swings(c, kind) :
          /\ line = Line(c, kind, p[1], p[2]) /\ Consecutive(Swings(c, kind), p[1], p[2])
          /\ WithTrend(line)
      BY DEF ChainedLines
<1>1. PICK a \in Swings(c, kind), b \in Swings(c, kind) :
        line = Line(c, kind, a, b) /\ Consecutive(Swings(c, kind), a, b) /\ WithTrend(line)
      BY <1>0
<1>2. line.type = kind /\ line.a = a /\ line.b = b
      BY <1>1 DEF Line
<1>3. line.start = Wick(c, kind, a) /\ line.end = Wick(c, kind, b)
      BY <1>1 DEF Line
<1>4. a \in 1..Len(c) /\ b \in 1..Len(c)
      BY SwingsInside
<1>5. Wick(c, kind, a) \in Int /\ Wick(c, kind, b) \in Int
      BY <1>4, HistoryCandles DEF Wick
<1>6. a < b
      BY <1>1 DEF Consecutive
<1>7. QED
  BY <1>1, <1>2, <1>3, <1>4, <1>5, <1>6

-----------------------------------------------------------------------------
(* The cache of the trend strategy.                                        *)

\* Rows are a history, of the candles each hour may have.
RowsOK ==
  /\ rows \in History /\ Len(rows) <= Hours
  /\ \A h \in 1..Len(rows) : rows[h] \in Shapes[h]

\* What is kept was drawn from candles that end with the hour it is kept by.
DrawnTo(c, k, result) == \E first \in 1..k : result = Drawn(SubSeq(c, first, k))

CacheDrawn ==
  /\ RowsOK
  /\ DOMAIN cache \subseteq 1..Len(rows)
  /\ \A k \in DOMAIN cache : DrawnTo(rows, k, cache[k])
  /\ \/ answer = NoAnswer
     \/ answer.hour \in 2..(Len(rows) + 1) /\ DrawnTo(rows, answer.hour - 1, answer.result)

\* The candles an hour may bring are candles of a history.
LEMMA ShapesAreCandles == \A h \in 1..Hours : Shapes[h] \subseteq Candle
BY TrendConfluenceAssumption DEF Candle

\* A new hour leaves the candles before it as they were.
LEMMA DrawnStays ==
  ASSUME NEW c \in History, NEW b \in Candle, NEW k \in 1..Len(c), NEW first \in 1..k
  PROVE  SubSeq(Append(c, b), first, k) = SubSeq(c, first, k)
<1>1. c \in Seq(Candle) /\ Len(c) \in Nat /\ k <= Len(c) /\ k \in Int /\ first \in Int
      BY HistoryCandles DEF History
<1>2. QED
  BY <1>1

\* The part of a history between two of its candles.
LEMMA Part ==
  ASSUME NEW c \in History, NEW k \in 1..Len(c), NEW first \in 1..k
  PROVE  /\ SubSeq(c, first, k) \in History /\ Len(SubSeq(c, first, k)) = k - first + 1
         /\ \A i \in 1..(k - first + 1) : SubSeq(c, first, k)[i] = c[first - 1 + i]
<1>1. c \in Seq(Candle) /\ Len(c) \in Nat /\ k <= Len(c) /\ k \in Int /\ first \in Int
      BY HistoryCandles DEF History
<1>2. QED
  BY <1>1 DEF History

\* The invariant of the cache holds before the first hour.
LEMMA CacheBegins == TrendInit => CacheDrawn
<1> SUFFICES ASSUME TrendInit PROVE CacheDrawn
    OBVIOUS
<1>1. rows = <<>> /\ cache = <<>> /\ answer = NoAnswer
      BY DEF TrendInit
<1>2. <<>> \in History /\ Len(<<>>) = 0
      BY DEF History
<1>3. Hours \in Nat
      BY TrendConfluenceAssumption
<1>4. DOMAIN cache = {}
      BY <1>1
<1>5. RowsOK
      BY <1>1, <1>2, <1>3 DEF RowsOK
<1>6. QED
  BY <1>1, <1>4, <1>5 DEF CacheDrawn

\* A new hour leaves what is cached as it was drawn, on a history that has grown.
LEMMA HourStep ==
  ASSUME CacheDrawn, HourBegins
  PROVE  CacheDrawn'
<1>1. PICK b \in Shapes[Len(rows) + 1] : rows' = Append(rows, b)
      BY DEF HourBegins
<1>2. PICK n \in Nat : n = Len(rows) /\ n < Hours
      BY HistoryCandles DEF CacheDrawn, RowsOK, HourBegins
<1>3. Hours \in Nat /\ n + 1 \in 1..Hours
      BY <1>2, TrendConfluenceAssumption
<1>4. b \in Candle
      BY <1>1, <1>2, <1>3, ShapesAreCandles
<1>5. rows \in Seq(Candle)
      BY DEF CacheDrawn, RowsOK, History
<1>6. /\ rows' \in Seq(Candle) /\ Len(rows') = n + 1 /\ rows'[n + 1] = b
      /\ \A h \in 1..n : rows'[h] = rows[h]
      BY <1>1, <1>2, <1>4, <1>5
<1>7. \A h \in 1..(n + 1) : h = n + 1 \/ h \in 1..n
      BY <1>2
<1>8. RowsOK'
  <2>1. rows' \in History /\ Len(rows') <= Hours
        BY <1>2, <1>3, <1>6 DEF History
  <2>2. \A h \in 1..(n + 1) : rows'[h] \in Shapes[h]
        BY <1>1, <1>2, <1>6, <1>7 DEF CacheDrawn, RowsOK
  <2>3. QED
        BY <2>1, <2>2, <1>6 DEF RowsOK
<1>9. ASSUME NEW k \in 1..n, NEW result, DrawnTo(rows, k, result)
      PROVE  DrawnTo(rows', k, result)
  <2>1. PICK first \in 1..k : result = Drawn(SubSeq(rows, first, k))
        BY <1>9 DEF DrawnTo
  <2>2. SubSeq(rows', first, k) = SubSeq(rows, first, k)
        BY <1>1, <1>2, <1>4, DrawnStays DEF CacheDrawn, RowsOK
  <2>3. QED
        BY <2>1, <2>2 DEF DrawnTo
<1>10. cache' = cache /\ answer' = answer
      BY DEF HourBegins
<1>11. DOMAIN cache \subseteq 1..n /\ 1..n \subseteq 1..(n + 1) /\ 2..(n + 1) \subseteq 2..(n + 2)
      BY <1>2 DEF CacheDrawn
<1>12. \A k \in DOMAIN cache : DrawnTo(rows', k, cache[k])
      BY <1>2, <1>9, <1>11 DEF CacheDrawn
<1>13. \/ answer = NoAnswer
       \/ answer.hour \in 2..(n + 2) /\ DrawnTo(rows', answer.hour - 1, answer.result)
  <2>1. CASE answer = NoAnswer
        BY <2>1
  <2>2. CASE answer.hour \in 2..(n + 1) /\ DrawnTo(rows, answer.hour - 1, answer.result)
    <3>1. answer.hour - 1 \in 1..n
          BY <2>2, <1>2
    <3>2. QED
          BY <2>2, <3>1, <1>9, <1>11
  <2>3. QED
        BY <2>1, <2>2, <1>2 DEF CacheDrawn
<1>14. DOMAIN cache' \subseteq 1..Len(rows')
      BY <1>6, <1>10, <1>11
<1>15. Len(rows') + 1 = n + 2
      BY <1>2, <1>6
<1>16. QED
  BY <1>8, <1>10, <1>12, <1>13, <1>14, <1>15 DEF CacheDrawn, NoAnswer
\* An answer comes from the cache or from the rows that have closed.
LEMMA AskStep ==
  ASSUME CacheDrawn, NEW h \in 2..(Len(rows) + 1), Ask(h)
  PROVE  CacheDrawn'
<1>1. PICK n \in Nat : n = Len(rows)
      BY HistoryCandles DEF CacheDrawn, RowsOK
<1>2. rows' = rows
      BY DEF Ask
<1>3. RowsOK'
      BY <1>2 DEF CacheDrawn, RowsOK
<1>4. CASE Len(ClosedBefore(h)) < MinLineBars \/ AtrRaises(ClosedBefore(h))
      BY <1>2, <1>3, <1>4 DEF Ask, CacheDrawn, NoAnswer
<1>5. CASE ~(Len(ClosedBefore(h)) < MinLineBars \/ AtrRaises(ClosedBefore(h)))
  <2> DEFINE key == CacheKey(h)
             result == IF key \in DOMAIN cache THEN cache[key] ELSE Drawn(ClosedBefore(h))
  <2>1. key \in 1..n /\ key = h - 1 /\ h \in 2..(n + 1)
        BY <1>1 DEF CacheKey
  <2>2. FirstRow \in 1..key
    <3>1. FirstRow \in Nat /\ FirstRow >= 1
      <4> DEFINE x == n - Bars + 1
      <4>1. x \in Int
            BY <1>1, TrendConfluenceAssumption
      <4>2. FirstRow = Max({1, x})
            BY <1>1 DEF FirstRow
      <4> HIDE DEF x
      <4>3. \E y \in {1, x} : \A z \in {1, x} : y >= z
        <5>1. CASE x >= 1
              BY <4>1, <5>1
        <5>2. CASE x < 1
              BY <4>1, <5>2
        <5>3. QED
              BY <4>1, <5>1, <5>2
      <4>4. Max({1, x}) \in {1, x} /\ Max({1, x}) >= 1
            BY <4>3 DEF Max
      <4>5. QED
            BY <4>1, <4>2, <4>4
    <3>2. Len(ClosedBefore(h)) >= MinLineBars
      <4>1. ClosedBefore(h) = SubSeq(rows, FirstRow, h - 1)
            BY DEF ClosedBefore
      <4>2. Len(ClosedBefore(h)) \in Nat
            BY <4>1, <2>1, <3>1, <1>1 DEF CacheDrawn, RowsOK, History
      <4>3. QED
            BY <4>2, <1>5 DEF MinLineBars
    <3>3. ASSUME FirstRow > key PROVE FALSE
      <4>1. ClosedBefore(h) = <<>>
            BY <3>1, <3>3, <2>1 DEF ClosedBefore
      <4>2. QED
            BY <4>1, <3>2 DEF MinLineBars
    <3>4. QED
          BY <3>1, <3>3, <2>1
  <2>3. DrawnTo(rows, key, Drawn(ClosedBefore(h)))
        BY <2>1, <2>2 DEF DrawnTo, ClosedBefore
  <2>4. DrawnTo(rows, key, result)
        BY <2>3 DEF CacheDrawn
  <2>5. /\ answer' = [hour |-> h, result |-> result]
        /\ cache' = [k \in DOMAIN cache \cup {key} |-> IF k = key THEN result ELSE cache[k]]
        BY <1>5 DEF Ask
  <2> HIDE DEF key, result
  <2>6. DOMAIN cache' \subseteq 1..n
        BY <2>1, <2>5, <1>1 DEF CacheDrawn
  <2>7. \A k \in DOMAIN cache' : DrawnTo(rows, k, cache'[k])
        BY <2>4, <2>5 DEF CacheDrawn
  <2>8. answer'.hour = h /\ answer'.result = result /\ answer'.hour - 1 = key
        BY <2>1, <2>5
  <2>9. answer'.hour \in 2..(n + 1) /\ DrawnTo(rows, answer'.hour - 1, answer'.result)
        BY <2>1, <2>4, <2>8
  <2>10. QED
        BY <1>1, <1>2, <1>3, <2>6, <2>7, <2>9 DEF CacheDrawn
<1>6. QED
  BY <1>4, <1>5

\* What is kept has the lines of the closed candles it ends with.
LEMMA CacheInductive ==
  ASSUME CacheDrawn, [TrendNext]_trendVars
  PROVE  CacheDrawn'
<1>1. CASE HourBegins
      BY <1>1, HourStep
<1>2. CASE Fresh
  <2>1. rows' = rows /\ cache' = <<>> /\ answer' = NoAnswer
        BY <1>2 DEF Fresh
  <2>2. DOMAIN cache' = {}
        BY <2>1
  <2>3. QED
        BY <2>1, <2>2 DEF CacheDrawn, RowsOK, NoAnswer
<1>3. CASE \E h \in 2..(Len(rows) + 1) : Ask(h)
      BY <1>3, AskStep
<1>4. CASE UNCHANGED trendVars
      BY <1>4 DEF trendVars, CacheDrawn, RowsOK, NoAnswer
<1>5. QED
  BY <1>1, <1>2, <1>3, <1>4 DEF TrendNext

-----------------------------------------------------------------------------
(* What follows for the answers.                                           *)

\* A product grows with its factor.
LEMMA Steeper ==
  ASSUME NEW u \in Int, NEW x \in Int, NEW y \in Int, x < y
  PROVE  (u > 0 => u * x < u * y) /\ (u < 0 => u * x > u * y)
<1>1. y - x \in Nat \ {0}
      OBVIOUS
<1>2. u * y - u * x = u * (y - x)
      OBVIOUS
<1>3. u > 0 => u * (y - x) > 0
      BY <1>1
<1>4. u < 0 => u * (y - x) < 0
      BY <1>1
<1>5. u * x \in Int /\ u * y \in Int
      OBVIOUS
<1>6. QED
  BY <1>2, <1>3, <1>4, <1>5

\* A line goes on in its direction.
LEMMA LineGoesOn ==
  ASSUME NEW line, line.start \in Int, line.end \in Int, line.a \in Int, line.b \in Int,
         NEW x \in Int, NEW y \in Int, x < y
  PROVE  /\ line.start < line.end => Value(line, x) < Value(line, y)
         /\ line.start > line.end => Value(line, x) > Value(line, y)
<1> DEFINE u == line.end - line.start
           p == x - line.a
           q == y - line.a
           base == line.start * (line.b - line.a)
<1>1. u \in Int /\ p \in Int /\ q \in Int /\ p < q /\ base \in Int
      OBVIOUS
<1>2. Value(line, x) = base + u * p /\ Value(line, y) = base + u * q
      BY DEF Value, Length
<1>3. (line.start < line.end <=> u > 0) /\ (line.start > line.end <=> u < 0)
      OBVIOUS
<1> HIDE DEF u, p, q, base
<1>4. (u > 0 => u * p < u * q) /\ (u < 0 => u * p > u * q)
      BY <1>1, Steeper
<1>5. u * p \in Int /\ u * q \in Int
      BY <1>1
<1>6. QED
  BY <1>1, <1>2, <1>3, <1>4, <1>5

\* The same line of two parts of a history lies further with every candle.
LEMMA LaterIsTighter ==
  ASSUME NEW c \in History, NEW k \in 1..Len(c), NEW l \in 1..Len(c), k < l,
         NEW f \in 1..k, NEW g \in 1..l,
         NEW line \in ChainedLines(SubSeq(c, f, k)), NEW other \in ChainedLines(SubSeq(c, g, l)),
         line.type = other.type,
         f - 1 + line.a = g - 1 + other.a, f - 1 + line.b = g - 1 + other.b
  PROVE  IF line.type = "support"
         THEN Value(line, k - f + 1) < Value(other, l - g + 1)
         ELSE Value(line, k - f + 1) > Value(other, l - g + 1)
<1> DEFINE old == SubSeq(c, f, k)
           new == SubSeq(c, g, l)
<1>1. /\ old \in History /\ Len(old) = k - f + 1 /\ new \in History /\ Len(new) = l - g + 1
      /\ \A i \in 1..(k - f + 1) : old[i] = c[f - 1 + i]
      /\ \A i \in 1..(l - g + 1) : new[i] = c[g - 1 + i]
      BY Part
<1>2. k \in Int /\ l \in Int /\ f \in Int /\ g \in Int
      OBVIOUS
<1>3. line \in ChainedLines(old) /\ other \in ChainedLines(new)
      OBVIOUS
<1> HIDE DEF old, new
<1>4. /\ line.a \in 1..(k - f + 1) /\ line.b \in 1..(k - f + 1)
      /\ line.start = Wick(old, line.type, line.a) /\ line.end = Wick(old, line.type, line.b)
      /\ line.start \in Int /\ line.end \in Int /\ WithTrend(line)
      BY <1>1, <1>3, ChainedLine
<1>5. /\ other.a \in 1..(l - g + 1) /\ other.b \in 1..(l - g + 1)
      /\ other.start = Wick(new, other.type, other.a) /\ other.end = Wick(new, other.type, other.b)
      BY <1>1, <1>3, ChainedLine
<1>6. old[line.a] = new[other.a] /\ old[line.b] = new[other.b]
      BY <1>1, <1>4, <1>5
<1>7. other.start = line.start /\ other.end = line.end
      BY <1>4, <1>5, <1>6 DEF Wick
<1> DEFINE last == l - f + 1
<1>8. /\ last \in Int /\ k - f + 1 \in Int /\ k - f + 1 < last
      /\ line.a \in Int /\ line.b \in Int
      /\ last - line.a = (l - g + 1) - other.a /\ line.b - line.a = other.b - other.a
  <2>0. \A i : i \in 1..(k - f + 1) \/ i \in 1..(l - g + 1) => i \in Int
        BY <1>2
  <2>1. line.a \in Int /\ line.b \in Int /\ other.a \in Int /\ other.b \in Int
        BY <2>0, <1>4, <1>5, Zenon
  <2> DEFINE xa == line.a
             xb == line.b
             ya == other.a
             yb == other.b
  <2>2. /\ xa \in Int /\ xb \in Int /\ ya \in Int /\ yb \in Int
        /\ f - 1 + xa = g - 1 + ya /\ f - 1 + xb = g - 1 + yb
        BY <2>1, Zenon
  <2> HIDE DEF xa, xb, ya, yb
  <2>3. /\ last \in Int /\ k - f + 1 \in Int /\ k - f + 1 < last
        /\ last - xa = (l - g + 1) - ya /\ xb - xa = yb - ya
        BY <2>2, <1>2
  <2>4. QED
        BY <2>1, <2>3 DEF xa, xb, ya, yb
<1>9. Value(other, l - g + 1) = Value(line, last)
      BY <1>7, <1>8 DEF Value, Length
<1> HIDE DEF last
<1>10. /\ line.start < line.end => Value(line, k - f + 1) < Value(line, last)
       /\ line.start > line.end => Value(line, k - f + 1) > Value(line, last)
       BY <1>4, <1>8, LineGoesOn
<1>11. QED
  BY <1>4, <1>9, <1>10 DEF WithTrend

\* What is drawn are the lines and the number of the candles.
LEMMA DrawnIs == \A c : Drawn(c).lines = ChainedLines(c) /\ Drawn(c).last = Len(c)
BY DEF Drawn

\* CacheInv follows from what is kept.
LEMMA CacheTrusted == CacheDrawn => CacheInv
<1> SUFFICES ASSUME CacheDrawn PROVE CacheInv
    OBVIOUS
<1>1. PICK n \in Nat : n = Len(rows) /\ rows \in History
      BY HistoryCandles DEF CacheDrawn, RowsOK
<1>2. TrendTypeOK
  <2>1. \A h \in DOMAIN rows : rows[h] \in Shapes[h]
        BY <1>1, HistoryCandles DEF CacheDrawn, RowsOK
  <2>2. answer.hour \in 0..(n + 1)
    <3>1. CASE answer = NoAnswer
          BY <3>1, <1>1 DEF NoAnswer
    <3>2. CASE answer.hour \in 2..(n + 1)
          BY <3>2
    <3>3. QED
          BY <3>1, <3>2, <1>1 DEF CacheDrawn
  <2>3. QED
        BY <2>1, <2>2, <1>1 DEF CacheDrawn, TrendTypeOK
<1>3. AnswersCurrent
  <2> SUFFICES ASSUME answer # NoAnswer
               PROVE  \E first \in 1..answer.hour :
                        answer.result = Drawn(SubSeq(rows, first, answer.hour - 1))
      BY DEF AnswersCurrent
  <2>1. answer.hour \in 2..(n + 1) /\ DrawnTo(rows, answer.hour - 1, answer.result)
        BY <1>1 DEF CacheDrawn
  <2>2. 1..(answer.hour - 1) \subseteq 1..answer.hour
        BY <2>1, <1>1
  <2>3. QED
        BY <2>1, <2>2 DEF DrawnTo
<1>4. SafetyAdvances
  <2> SUFFICES ASSUME NEW k \in DOMAIN cache, NEW l \in DOMAIN cache, k < l,
                      NEW line \in cache[k].lines, NEW other \in cache[l].lines,
                      SameLine(k, line, l, other)
               PROVE  LET earlier == Value(line, cache[k].last)
                          later == Value(other, cache[l].last)
                      IN IF line.type = "support" THEN earlier < later ELSE earlier > later
      BY DEF SafetyAdvances
  <2>1. k \in 1..n /\ l \in 1..n
        BY <1>1 DEF CacheDrawn
  <2>2. PICK f \in 1..k : cache[k] = Drawn(SubSeq(rows, f, k))
        BY DEF CacheDrawn, DrawnTo
  <2>3. PICK g \in 1..l : cache[l] = Drawn(SubSeq(rows, g, l))
        BY DEF CacheDrawn, DrawnTo
  <2>4. /\ cache[k].last = Len(SubSeq(rows, f, k)) /\ cache[k].lines = ChainedLines(SubSeq(rows, f, k))
        /\ cache[l].last = Len(SubSeq(rows, g, l)) /\ cache[l].lines = ChainedLines(SubSeq(rows, g, l))
        BY <2>2, <2>3, DrawnIs
  <2>5. cache[k].last = k - f + 1 /\ cache[l].last = l - g + 1
        BY <2>1, <2>4, <1>1, Part
  <2>6. /\ SubSeq(rows, f, k) \in History /\ SubSeq(rows, g, l) \in History
        BY <2>1, <1>1, Part
  <2>7. line.a \in Int /\ line.b \in Int /\ other.a \in Int /\ other.b \in Int
        BY <2>4, <2>6, ChainedLine
  <2>8. /\ line.type = other.type
        /\ f - 1 + line.a = g - 1 + other.a /\ f - 1 + line.b = g - 1 + other.b
        BY <2>1, <2>5, <2>7 DEF SameLine
  <2>9. QED
        BY <1>1, <2>1, <2>4, <2>5, <2>8, LaterIsTighter
<1>5. QED
  BY <1>2, <1>3, <1>4 DEF CacheInv

\* What is cached was drawn on the history, in every reachable state.
LEMMA CacheAlways == StrategiesSpec => []CacheDrawn
<1>1. StrategiesInit => CacheDrawn
      BY CacheBegins DEF StrategiesInit
<1>2. CacheDrawn /\ [StrategiesNext]_strategyVars => CacheDrawn'
  <2> SUFFICES ASSUME CacheDrawn, [StrategiesNext]_strategyVars PROVE CacheDrawn'
      OBVIOUS
  <2>1. [TrendNext]_trendVars
        BY DEF StrategiesNext, Ict, Trend, strategyVars
  <2>2. QED
        BY <2>1, CacheInductive
<1>3. QED
  BY <1>1, <1>2, PTL DEF StrategiesSpec

\* Whatever hours begin and are asked about, and whenever the cache is lost, an
\* answer is drawn from the closed candles up to the hour before, and a line seen
\* again is the tighter stop (module TrendConfluence, CacheInv).
THEOREM CacheHolds == StrategiesSpec => []CacheInv
BY CacheAlways, CacheTrusted, PTL

-----------------------------------------------------------------------------
(* Greatest and least elements.                                            *)

\* A set of whole numbers between two bounds has a greatest element.
LEMMA Highest ==
  ASSUME NEW a \in Int, NEW b \in Int, NEW S \in SUBSET (a..b), S # {}
  PROVE  \E x \in S : \A y \in S : y <= x
<1> DEFINE upto(i) == S \cap (a..i)
           T == {i \in a..b : upto(i) = {} \/ \E x \in upto(i) : \A y \in upto(i) : y <= x}
<1>0. a <= b
  <2>1. PICK s \in S : s \in a..b
        OBVIOUS
  <2>2. QED
        BY <2>1
<1>1. a \in T
  <2>1. upto(a) = {} \/ upto(a) = {a}
        OBVIOUS
  <2>2. QED
        BY <2>1, <1>0
<1>2. ASSUME NEW i \in a..(b - 1), i \in T PROVE i + 1 \in T
  <2>1. upto(i + 1) = upto(i) \/ upto(i + 1) = upto(i) \cup {i + 1}
        OBVIOUS
  <2>2. \A y \in upto(i) : y \in Int /\ y <= i + 1
        OBVIOUS
  <2>3. i + 1 \in a..b /\ i + 1 \in Int
        OBVIOUS
  <2> HIDE DEF upto
  <2>4. CASE upto(i + 1) = upto(i)
        BY <2>3, <2>4, <1>2
  <2>5. CASE upto(i + 1) = upto(i) \cup {i + 1}
    <3>1. \A y \in upto(i + 1) : y <= i + 1
          BY <2>2, <2>3, <2>5
    <3>2. i + 1 \in upto(i + 1)
          BY <2>5
    <3>3. QED
          BY <2>3, <3>1, <3>2
  <2>6. QED
        BY <2>1, <2>4, <2>5
<1> HIDE DEF T
<1>3. a..b \subseteq T
      BY <1>1, <1>2, UpTo
<1>4. b \in T /\ upto(b) = S
  <2>1. b \in a..b
        BY <1>0
  <2>2. QED
        BY <2>1, <1>3
<1>5. QED
  BY <1>4 DEF T

\* And a least one.
LEMMA Lowest ==
  ASSUME NEW a \in Int, NEW b \in Int, NEW S \in SUBSET (a..b), S # {}
  PROVE  \E x \in S : \A y \in S : x <= y
<1> DEFINE T == {-x : x \in S}
<1>0. \A x \in S : x \in Int /\ a <= x /\ x <= b
      OBVIOUS
<1>00. \A x \in S : -x \in (-b)..(-a)
      BY <1>0
<1>1. T \in SUBSET ((-b)..(-a)) /\ T # {}
      BY <1>00
<1> HIDE DEF T
<1>2. PICK lo \in Int, hi \in Int : lo = -b /\ hi = -a
      OBVIOUS
<1>20. T \in SUBSET (lo..hi)
      BY <1>1, <1>2
<1>21. \E t \in T : \A u \in T : u <= t
      BY <1>1, <1>20, Highest
<1>22. PICK t \in T : \A u \in T : u <= t
      BY <1>21
<1>3. PICK x \in S : t = -x
      BY DEF T
<1>4. \A y \in S : -y \in T
      BY DEF T
<1>5. \A y \in S : -y <= -x
      BY <1>22, <1>3, <1>4
<1>6. \A y \in S : x <= y
      BY <1>0, <1>5
<1>7. QED
  BY <1>6

\* Max and Min of such a set are these elements.
LEMMA MaxOfBounded ==
  ASSUME NEW a \in Int, NEW b \in Int, NEW S \in SUBSET (a..b), S # {}
  PROVE  Max(S) \in S /\ \A y \in S : y <= Max(S)
<1>1. \E x \in S : \A y \in S : x >= y
  <2>1. PICK x \in S : \A y \in S : y <= x
        BY Highest
  <2>2. \A y \in S : x >= y
        BY <2>1
  <2>3. QED
        BY <2>2
<1>2. Max(S) \in S /\ \A y \in S : Max(S) >= y
      BY <1>1 DEF Max
<1>3. QED
  BY <1>2

\* Min is the least element of a set of whole numbers between two bounds.
LEMMA MinOfBounded ==
  ASSUME NEW a \in Int, NEW b \in Int, NEW S \in SUBSET (a..b), S # {}
  PROVE  Min(S) \in S /\ \A y \in S : Min(S) <= y
<1>1. \E x \in S : \A y \in S : x <= y
      BY Lowest
<1>2. QED
  BY <1>1 DEF Min

-----------------------------------------------------------------------------
(* Signals of the trend confluence strategy.                               *)

\* The line established last is one of the lines, and none ends after it.
LEMMA LastLineIs ==
  ASSUME NEW c \in History, NEW kind, OfKind(ChainedLines(c), kind) # {}
  PROVE  /\ LastLine(ChainedLines(c), kind) \in OfKind(ChainedLines(c), kind)
         /\ \A m \in OfKind(ChainedLines(c), kind) : m.b <= LastLine(ChainedLines(c), kind).b
<1> DEFINE lines == OfKind(ChainedLines(c), kind)
           ends == {l.b : l \in lines}
<1>1. PICK n \in Nat : n = Len(c)
      BY HistoryCandles
<1>2. ASSUME NEW l \in lines PROVE l.b \in 1..n
  <2>1. l \in ChainedLines(c)
        BY DEF OfKind
  <2>2. l.b \in 1..Len(c)
        BY <2>1, ChainedLine, Zenon
  <2>3. QED
        BY <1>1, <2>2
<1>3. ends \in SUBSET (1..n) /\ ends # {}
      BY <1>2
<1> HIDE DEF ends, lines
<1>4. PICK e \in ends : \A f \in ends : f <= e
  <2>1. 1 \in Int /\ n \in Int
        OBVIOUS
  <2>2. \E e \in ends : \A f \in ends : f <= e
        BY <2>1, <1>3, Highest
  <2>3. QED
        BY <2>2
<1>5. PICK l \in lines : e = l.b
      BY DEF ends
<1>6. \A m \in lines : m.b <= l.b
      BY <1>4, <1>5 DEF ends
<1>7. LastLine(ChainedLines(c), kind) = CHOOSE x \in lines : \A m \in lines : m.b <= x.b
      BY DEF LastLine, lines
<1>8. QED
  BY <1>6, <1>7 DEF lines

\* A line in whole numbers, with a length.
Proper(line) ==
  /\ line.start \in Int /\ line.end \in Int /\ line.a \in Int /\ line.b \in Int
  /\ Length(line) \in Nat \ {0}

\* The last line of a kind joins two swings, the earlier one first.
LEMMA LastLineProper ==
  ASSUME NEW c \in History, NEW kind, OfKind(ChainedLines(c), kind) # {}
  PROVE  Proper(LastLine(ChainedLines(c), kind))
<1> DEFINE line == LastLine(ChainedLines(c), kind)
<1>1. line \in ChainedLines(c)
      BY LastLineIs DEF OfKind
<1> HIDE DEF line
<1>2. PICK n \in Nat : n = Len(c)
      BY HistoryCandles
<1>3. /\ line.start \in Int /\ line.end \in Int
      /\ line.a \in 1..n /\ line.b \in 1..n /\ line.a < line.b
      BY <1>1, <1>2, ChainedLine
<1>4. \A x \in 1..n, y \in 1..n : x < y => x \in Int /\ y \in Int /\ y - x \in Nat \ {0}
      OBVIOUS
<1>5. line.a \in Int /\ line.b \in Int /\ line.b - line.a \in Nat \ {0}
      BY <1>3, <1>4, Zenon
<1>6. QED
  BY <1>3, <1>5 DEF Proper, Length, line

\* A price is on one side of a line only.
LEMMA OneSide ==
  ASSUME NEW line, Proper(line), NEW k \in Int, NEW price \in Int
  PROVE  ~(Below(line, k, price) /\ Above(line, k, price))
<1> DEFINE v == Value(line, k)
           p == price * Length(line)
<1>1. v \in Int
  <2>1. k - line.a \in Int /\ line.end - line.start \in Int /\ line.start \in Int
        /\ Length(line) \in Int
        BY DEF Proper
  <2> DEFINE x == k - line.a
             y == line.end - line.start
             z == line.start
             w == Length(line)
  <2>2. x \in Int /\ y \in Int /\ z \in Int /\ w \in Int /\ v = z * w + y * x
        BY <2>1 DEF Value
  <2> HIDE DEF x, y, z, w, v
  <2>3. QED
        BY <2>2
<1>2. p \in Int
  <2>1. Length(line) \in Int
        BY DEF Proper
  <2> DEFINE w == Length(line)
  <2>2. w \in Int /\ p = price * w
        BY <2>1
  <2> HIDE DEF w, p
  <2>3. QED
        BY <2>2
<1>3. (Below(line, k, price) <=> p < v) /\ (Above(line, k, price) <=> p > v)
      BY DEF Below, Above
<1> HIDE DEF p, v
<1>4. QED
  BY <1>1, <1>2, <1>3

\* The stop leaves more room than the line.
LEMMA StopBehind ==
  ASSUME NEW line, Proper(line), NEW k \in Int, NEW price \in Int, NEW average \in Int,
         average > 0
  PROVE  /\ Above(line, k, price) =>
              100 * price * Length(line) - Stop(line, k, average, "long") > 0
         /\ Below(line, k, price) =>
              100 * price * Length(line) - Stop(line, k, average, "short") < 0
<1> DEFINE v == Value(line, k)
           w == Length(line)
           p == price * w
           buffer == SlBuffer * average * w
<1>1. w \in Nat \ {0} /\ SlBuffer \in Nat /\ average \in Nat
      BY TrendConfluenceAssumption DEF Proper
<1>2. v \in Int
  <2>1. k - line.a \in Int /\ line.end - line.start \in Int /\ line.start \in Int
        BY DEF Proper
  <2> DEFINE x == k - line.a
             y == line.end - line.start
             z == line.start
  <2>2. x \in Int /\ y \in Int /\ z \in Int /\ w \in Int /\ v = z * w + y * x
        BY <2>1, <1>1 DEF Value
  <2> HIDE DEF x, y, z, w, v
  <2>3. QED
        BY <2>2
<1>3. /\ Stop(line, k, average, "long") = 100 * v + (-buffer)
      /\ Stop(line, k, average, "short") = 100 * v + buffer
      BY DEF Stop
<1>4. (Below(line, k, price) <=> p < v) /\ (Above(line, k, price) <=> p > v)
      BY DEF Below, Above
<1>5. 100 * price * Length(line) = 100 * price * w
      OBVIOUS
<1> HIDE DEF v, w
<1>6. p \in Int /\ 100 * price * w = 100 * p
      BY <1>1
<1>7. buffer \in Nat
  <2>1. SlBuffer * average \in Nat
        BY <1>1
  <2> DEFINE s == SlBuffer * average
  <2>2. s \in Nat /\ buffer = s * w
        BY <2>1
  <2> HIDE DEF s
  <2>3. s * w \in Nat
        BY <2>2, <1>1
  <2>4. QED
        BY <2>2, <2>3
<1> HIDE DEF p, buffer
<1>8. QED
  BY <1>2, <1>3, <1>4, <1>5, <1>6, <1>7

\* A signal is drawn from lines of both kinds, and its close is beyond both.
LEMMA SignalNeeds ==
  ASSUME NEW result, NEW close
  PROVE  /\ Signals(result, {}, close, "long") =>
              /\ OfKind(result.lines, "resistance") # {} /\ OfKind(result.lines, "support") # {}
              /\ Above(LastLine(result.lines, "resistance"), result.last, close)
              /\ Above(LastLine(result.lines, "support"), result.last, close)
         /\ Signals(result, {}, close, "short") =>
              /\ OfKind(result.lines, "resistance") # {} /\ OfKind(result.lines, "support") # {}
              /\ Below(LastLine(result.lines, "support"), result.last, close)
              /\ Below(LastLine(result.lines, "resistance"), result.last, close)
BY DEF Signals, ActionKind, SafetyKind, SafeSide, Gained

\* An answer that was computed from lines drawn on the history is sound.
LEMMA SoundOfDrawn ==
  ASSUME CacheDrawn, answer # NoAnswer
  PROVE  SignalSound
<1> SUFFICES ASSUME NEW k \in DOMAIN rows
             PROVE
    LET close == rows[k].close
        given(d) == Signals(answer.result, {}, close, d)
        safety(d) == LastLine(answer.result.lines, SafetyKind(d))
        room(d) == 100 * close * Length(safety(d))
                     - Stop(safety(d), answer.result.last, Finite(Atr(rows)[k]), d)
    IN /\ ~(given("long") /\ given("short"))
       /\ \A d \in Directions : given(d) =>
            /\ ~SafetyExit(answer.result, close, d)
            /\ IF d = "long" THEN room(d) > 0 ELSE room(d) < 0
    BY DEF SignalSound
<1> DEFINE close == rows[k].close
           result == answer.result
           average == Finite(Atr(rows)[k])
           up == LastLine(result.lines, "support")
           down == LastLine(result.lines, "resistance")
<1>1. rows \in History /\ k \in 1..Len(rows)
      BY HistoryCandles DEF CacheDrawn, RowsOK
<1>2. close \in Int
      BY <1>1, HistoryCandles
<1>3. average \in Int /\ average > 0
  <2>1. Atr(rows)[k] \in Int
        BY <1>1, AtrDefined
  <2>2. QED
        BY <2>1 DEF Finite
<1>4. PICK c \in History : result.lines = ChainedLines(c) /\ result.last = Len(c)
  <2>1. answer.hour - 1 \in 1..Len(rows) /\ DrawnTo(rows, answer.hour - 1, result)
    <3>1. PICK n \in Nat : n = Len(rows)
          BY <1>1, HistoryCandles
    <3>2. QED
          BY <3>1 DEF CacheDrawn
  <2>2. PICK f \in 1..(answer.hour - 1) : result = Drawn(SubSeq(rows, f, answer.hour - 1))
        BY <2>1 DEF DrawnTo
  <2>3. SubSeq(rows, f, answer.hour - 1) \in History
        BY <1>1, <2>1, Part
  <2>4. QED
        BY <2>2, <2>3, DrawnIs
<1>5. result.last \in Int
      BY <1>4, HistoryCandles
<1> HIDE DEF close, result, average
<1>6. /\ OfKind(result.lines, "support") # {} => Proper(up)
      /\ OfKind(result.lines, "resistance") # {} => Proper(down)
      BY <1>4, LastLineProper
<1> HIDE DEF up, down
<1>7. ASSUME Signals(result, {}, close, "long")
      PROVE  /\ ~Signals(result, {}, close, "short")
             /\ ~SafetyExit(result, close, "long")
             /\ 100 * close * Length(up) - Stop(up, result.last, average, "long") > 0
  <2>1. /\ Proper(up) /\ Proper(down)
        /\ Above(up, result.last, close) /\ Above(down, result.last, close)
        BY <1>6, <1>7, SignalNeeds DEF up, down
  <2>2. ~Below(up, result.last, close) /\ ~Below(down, result.last, close)
        BY <2>1, <1>2, <1>5, OneSide
  <2>3. ~Signals(result, {}, close, "short")
        BY <2>2, SignalNeeds DEF up, down
  <2>4. ~SafetyExit(result, close, "long")
        BY <2>2 DEF SafetyExit, SafetyKind, Lost, up
  <2>5. QED
        BY <2>1, <2>3, <2>4, <1>2, <1>3, <1>5, StopBehind
<1>8. ASSUME Signals(result, {}, close, "short")
      PROVE  /\ ~SafetyExit(result, close, "short")
             /\ 100 * close * Length(down) - Stop(down, result.last, average, "short") < 0
  <2>1. /\ Proper(down) /\ Below(down, result.last, close)
        BY <1>6, <1>8, SignalNeeds DEF up, down
  <2>2. ~Above(down, result.last, close)
        BY <2>1, <1>2, <1>5, OneSide
  <2>3. ~SafetyExit(result, close, "short")
        BY <2>2 DEF SafetyExit, SafetyKind, Lost, down
  <2>4. QED
        BY <2>1, <2>3, <1>2, <1>3, <1>5, StopBehind
<1>9. up = LastLine(result.lines, SafetyKind("long")) /\ down = LastLine(result.lines, SafetyKind("short"))
      BY DEF up, down, SafetyKind
<1>10. QED
  BY <1>7, <1>8, <1>9 DEF Directions, close, result, average

\* No lines, no signal.
LEMMA SoundOfNothing ==
  ASSUME answer = NoAnswer
  PROVE  SignalSound
<1>1. answer.result.lines = {}
      BY DEF NoAnswer, NoLines
<1>2. \A close, d : ~Signals(answer.result, {}, close, d)
      BY <1>1 DEF Signals, OfKind
<1>3. QED
  BY <1>2 DEF SignalSound

\* Whatever the lines and the close, a candle never gives a long and a short, and
\* the trade of a signal is not over at its own close (module TrendConfluence,
\* SignalSound).
THEOREM SignalsSound == StrategiesSpec => []SignalSound
<1>1. CacheDrawn => SignalSound
      BY SoundOfDrawn, SoundOfNothing
<1>2. QED
  BY <1>1, CacheAlways, PTL

-----------------------------------------------------------------------------
(* The walk of detect_bos.                                                 *)

References == [known : BOOLEAN, level : Int]
WalkStates == [top : References, floor : References,
               events : SUBSET [direction : {"bull", "bear"}, idx : Int, level : Int]]

Begun == [top |-> NoReference, floor |-> NoReference, events |-> {}]

TopAt(c, k, ref) == IF k \in SwingHighs(c) THEN Raised(ref, c[k].high) ELSE ref
FloorAt(c, k, ref) == IF k \in SwingLows(c) THEN Lowered(ref, c[k].low) ELSE ref

\* Candle i, after what was known before.
Walked(c, i, before) ==
  Closed(i, c[i].close, TopAt(c, i - Lag, before.top), FloorAt(c, i - Lag, before.floor),
         before.events)

IsWalk(c, w) == /\ w \in [0..Len(c) -> WalkStates] /\ w[0] = Begun
                /\ \A i \in 1..Len(c) : w[i] = Walked(c, i, w[i - 1])

\* A reference that was set is known, at its level.
LEMMA ReferenceType ==
  ASSUME NEW level \in Int
  PROVE  /\ Reference(level) \in References
         /\ Reference(level).known = TRUE /\ Reference(level).level = level
BY DEF Reference, References

\* Looking at a swing leaves a reference.
LEMMA TopType ==
  ASSUME NEW c \in History, NEW k, NEW ref \in References
  PROVE  TopAt(c, k, ref) \in References /\ FloorAt(c, k, ref) \in References
<1>1. k \in SwingHighs(c) => c[k].high \in Int
      BY SwingsInside, HistoryCandles
<1>2. k \in SwingLows(c) => c[k].low \in Int
      BY SwingsInside, HistoryCandles
<1>3. TopAt(c, k, ref) = ref \/ (k \in SwingHighs(c) /\ TopAt(c, k, ref) = Reference(c[k].high))
      BY DEF TopAt, Raised
<1>4. FloorAt(c, k, ref) = ref \/ (k \in SwingLows(c) /\ FloorAt(c, k, ref) = Reference(c[k].low))
      BY DEF FloorAt, Lowered
<1>5. QED
  BY <1>1, <1>2, <1>3, <1>4, ReferenceType

\* The parts of a candle's step.
LEMMA ClosedParts ==
  ASSUME NEW i, NEW close, NEW top, NEW floor, NEW events
  PROVE  LET after == Closed(i, close, top, floor, events)
         IN /\ after.top = IF Over(top, close) THEN Reference(close) ELSE top
            /\ after.floor = IF Under(floor, close) THEN Reference(close) ELSE floor
            /\ after.events = events \cup (IF Over(top, close) THEN {Break("bull", i, top)} ELSE {})
                                     \cup (IF Under(floor, close) THEN {Break("bear", i, floor)} ELSE {})
            /\ after = [top |-> after.top, floor |-> after.floor, events |-> after.events]
BY DEF Closed

\* A step of the walk leaves a state of the walk.
LEMMA WalkedType ==
  ASSUME NEW c \in History, NEW i \in 1..Len(c), NEW before \in WalkStates
  PROVE  Walked(c, i, before) \in WalkStates
<1> DEFINE close == c[i].close
           top == TopAt(c, i - Lag, before.top)
           floor == FloorAt(c, i - Lag, before.floor)
           events == before.events
           after == Walked(c, i, before)
           Events == [direction : {"bull", "bear"}, idx : Int, level : Int]
<1>1. close \in Int /\ i \in Int
      BY HistoryCandles
<1>2. before.top \in References /\ before.floor \in References /\ events \in SUBSET Events
      BY DEF WalkStates
<1>3. top \in References /\ floor \in References
      BY <1>2, TopType
<1>4. after = Closed(i, close, top, floor, events)
      BY DEF Walked
<1> HIDE DEF close, top, floor, events, after
<1>5. /\ after.top = IF Over(top, close) THEN Reference(close) ELSE top
      /\ after.floor = IF Under(floor, close) THEN Reference(close) ELSE floor
      /\ after.events = events \cup (IF Over(top, close) THEN {Break("bull", i, top)} ELSE {})
                               \cup (IF Under(floor, close) THEN {Break("bear", i, floor)} ELSE {})
      /\ after = [top |-> after.top, floor |-> after.floor, events |-> after.events]
      BY <1>4, ClosedParts
<1>6. Reference(close) \in References
      BY <1>1, ReferenceType
<1>7. after.top \in References /\ after.floor \in References
      BY <1>3, <1>5, <1>6
<1>8. top.level \in Int /\ floor.level \in Int
      BY <1>3 DEF References
<1>9. Break("bull", i, top) \in Events /\ Break("bear", i, floor) \in Events
      BY <1>1, <1>8 DEF Break
<1>10. after.events \in SUBSET Events
       BY <1>2, <1>5, <1>9
<1>11. QED
  BY <1>5, <1>7, <1>10 DEF WalkStates, after

\* Breaks are the events at the end of that walk.
LEMMA BreaksWalk ==
  ASSUME NEW c \in History
  PROVE  \E w : IsWalk(c, w) /\ Breaks(c) = w[Len(c)].events
<1> DEFINE Is(g) == g = [i \in 0..Len(c) |-> IF i = 0 THEN Begun ELSE Walked(c, i, g[i - 1])]
           Step == [i \in 1..Len(c) |-> [v \in WalkStates |-> Walked(c, i, v)]]
<1>1. PICK n \in Nat : n = Len(c)
      BY HistoryCandles
<1>2. Begun \in WalkStates
      BY DEF Begun, NoReference, WalkStates, References
<1>3. \A i \in 1..Len(c), v \in WalkStates : Step[i][v] = Walked(c, i, v)
      OBVIOUS
<1> HIDE DEF Step
<1> DEFINE Shifted == [i \in 0..n |-> IF i = 0 THEN [v \in WalkStates |-> Begun] ELSE Step[i]]
<1>4. \A i \in 0..n, v \in WalkStates :
        Shifted[i][v] = IF i = 0 THEN Begun ELSE Walked(c, i, v)
      BY <1>1, <1>3
<1> HIDE DEF Shifted
<1>5. StepsIn(0..n, WalkStates, Shifted)
      BY <1>1, <1>2, <1>4, WalkedType DEF StepsIn
<1>6. PICK w \in [0..n -> WalkStates] : Follows(w, 0, n, Begun, Shifted)
  <2>1. 0 \in Int /\ n \in Int
        OBVIOUS
  <2>2. \E w \in [0..n -> WalkStates] : Follows(w, 0, n, Begun, Shifted)
        BY <2>1, <1>2, <1>5, Recursion
  <2>3. QED
        BY <2>2
<1>7. \A i \in 0..n : w[i] = IF i = 0 THEN Begun ELSE Walked(c, i, w[i - 1])
  <2> SUFFICES ASSUME NEW i \in 0..n PROVE w[i] = IF i = 0 THEN Begun ELSE Walked(c, i, w[i - 1])
      OBVIOUS
  <2>1. w[i] = IF i = 0 THEN Begun ELSE Shifted[i][w[i - 1]]
        BY <1>6 DEF Follows
  <2>2. i # 0 => w[i - 1] \in WalkStates
        OBVIOUS
  <2>3. QED
        BY <2>1, <2>2, <1>4
<1>8. Is(w)
      BY <1>1, <1>7
<1> DEFINE it == CHOOSE g : Is(g)
<1>10. Breaks(c) = it[Len(c)].events
       BY DEF Breaks, Begun, Walked, TopAt, FloorAt
<1> HIDE DEF Is
<1>11. Is(it)
       BY <1>8
<1> HIDE DEF it
<1>12. it = [i \in 0..n |-> IF i = 0 THEN Begun ELSE Walked(c, i, it[i - 1])]
       BY <1>1, <1>11 DEF Is
<1> DEFINE T == {i \in 0..n : it[i] = w[i]}
<1>13. 0 \in T
       BY <1>7, <1>12
<1>14. ASSUME NEW i \in 0..(n - 1), i \in T PROVE i + 1 \in T
  <2>1. i + 1 \in 0..n /\ i + 1 # 0 /\ (i + 1) - 1 = i
        OBVIOUS
  <2>2. QED
        BY <2>1, <1>7, <1>12, <1>14
<1> HIDE DEF T
<1>15. 0..n \subseteq T
  <2>1. 0 \in Int /\ n \in Int
        OBVIOUS
  <2>2. QED
        BY <2>1, <1>13, <1>14, UpTo
<1>16. it[n] = w[n]
       BY <1>15 DEF T
<1>17. IsWalk(c, w)
       BY <1>1, <1>6, <1>7 DEF IsWalk
<1>18. QED
  BY <1>1, <1>10, <1>16, <1>17

-----------------------------------------------------------------------------
(* One side of the walk: closes beyond the highs are bull, below the lows  *)
(* bear.                                                                   *)

Past(dir, x, y) == IF dir = "bull" THEN x > y ELSE x < y
Marks(c, dir) == IF dir = "bull" THEN SwingHighs(c) ELSE SwingLows(c)
Mark(c, dir, k) == IF dir = "bull" THEN c[k].high ELSE c[k].low
Side(dir, s) == IF dir = "bull" THEN s.top ELSE s.floor
EventsOf(dir, s) == {e \in s.events : e.direction = dir}

\* The swings confirmed by candle i, and a close beyond all of them.
SeenBy(c, dir, i) == {s \in Marks(c, dir) : s <= i - Lag}
Crosses(c, dir, i) ==
  /\ SeenBy(c, dir, i) # {}
  /\ \A s \in SeenBy(c, dir, i) : Past(dir, c[i].close, Mark(c, dir, s))

\* The reference with the swing that candle i confirms.
Referred(c, dir, i, ref) ==
  IF i - Lag \in Marks(c, dir) /\ ~(ref.known /\ ~Past(dir, Mark(c, dir, i - Lag), ref.level))
  THEN Reference(Mark(c, dir, i - Lag)) ELSE ref

Broken(dir, ref, close) == ref.known /\ Past(dir, close, ref.level)

SideNames == {"bull", "bear"}

\* A step of the walk, seen from one side.
LEMMA SideStep ==
  ASSUME NEW c \in History, NEW i \in 1..Len(c), NEW s \in WalkStates, NEW dir \in SideNames
  PROVE  LET ref == Referred(c, dir, i, Side(dir, s))
             after == Walked(c, i, s)
         IN /\ Side(dir, after) = IF Broken(dir, ref, c[i].close) THEN Reference(c[i].close) ELSE ref
            /\ EventsOf(dir, after) =
                 EventsOf(dir, s) \cup (IF Broken(dir, ref, c[i].close) THEN {Break(dir, i, ref)} ELSE {})
<1> DEFINE close == c[i].close
           top == TopAt(c, i - Lag, s.top)
           floor == FloorAt(c, i - Lag, s.floor)
           after == Walked(c, i, s)
           ref == Referred(c, dir, i, Side(dir, s))
<1>0. s.top \in References /\ s.floor \in References
      BY DEF WalkStates
<1>1. dir = "bull" => ref = top
  <2> SUFFICES ASSUME dir = "bull" PROVE ref = top
      OBVIOUS
  <2>1. Side(dir, s) = s.top /\ Marks(c, dir) = SwingHighs(c) /\ Mark(c, dir, i - Lag) = c[i - Lag].high
        BY DEF Side, Marks, Mark
  <2>2. CASE i - Lag \in SwingHighs(c)
    <3>1. c[i - Lag].high \in Int
          BY <2>2, SwingsInside, HistoryCandles
    <3>2. s.top.level \in Int
          BY <1>0 DEF References
    <3>3. Past(dir, c[i - Lag].high, s.top.level) <=> ~(s.top.level >= c[i - Lag].high)
          BY <3>1, <3>2 DEF Past
    <3>4. QED
          BY <2>1, <2>2, <3>3 DEF TopAt, Raised, Referred
  <2>3. CASE i - Lag \notin SwingHighs(c)
        BY <2>1, <2>3 DEF TopAt, Referred
  <2>4. QED
        BY <2>2, <2>3
<1>2. dir = "bear" => ref = floor
  <2> SUFFICES ASSUME dir = "bear" PROVE ref = floor
      OBVIOUS
  <2>1. Side(dir, s) = s.floor /\ Marks(c, dir) = SwingLows(c) /\ Mark(c, dir, i - Lag) = c[i - Lag].low
        BY DEF Side, Marks, Mark
  <2>2. CASE i - Lag \in SwingLows(c)
    <3>1. c[i - Lag].low \in Int
          BY <2>2, SwingsInside, HistoryCandles
    <3>2. s.floor.level \in Int
          BY <1>0 DEF References
    <3>3. Past(dir, c[i - Lag].low, s.floor.level) <=> ~(s.floor.level <= c[i - Lag].low)
          BY <3>1, <3>2 DEF Past
    <3>4. QED
          BY <2>1, <2>2, <3>3 DEF FloorAt, Lowered, Referred
  <2>3. CASE i - Lag \notin SwingLows(c)
        BY <2>1, <2>3 DEF FloorAt, Referred
  <2>4. QED
        BY <2>2, <2>3
<1>3. after = Closed(i, close, top, floor, s.events)
      BY DEF Walked
<1> HIDE DEF close, top, floor, after, ref
<1>4. /\ after.top = IF Over(top, close) THEN Reference(close) ELSE top
      /\ after.floor = IF Under(floor, close) THEN Reference(close) ELSE floor
      /\ after.events = s.events \cup (IF Over(top, close) THEN {Break("bull", i, top)} ELSE {})
                                 \cup (IF Under(floor, close) THEN {Break("bear", i, floor)} ELSE {})
      BY <1>3, ClosedParts
<1>5. \A d, r : Break(d, i, r).direction = d
      BY DEF Break
<1>6. CASE dir = "bull"
  <2>1. Broken(dir, ref, close) <=> Over(top, close)
        BY <1>1, <1>6 DEF Broken, Over, Past
  <2>2. EventsOf(dir, after) =
          EventsOf(dir, s) \cup (IF Over(top, close) THEN {Break("bull", i, top)} ELSE {})
        BY <1>4, <1>5, <1>6 DEF EventsOf
  <2>3. QED
        BY <1>1, <1>4, <1>6, <2>1, <2>2 DEF Side, ref, after, close
<1>7. CASE dir = "bear"
  <2>1. Broken(dir, ref, close) <=> Under(floor, close)
        BY <1>2, <1>7 DEF Broken, Under, Past
  <2>2. EventsOf(dir, after) =
          EventsOf(dir, s) \cup (IF Under(floor, close) THEN {Break("bear", i, floor)} ELSE {})
        BY <1>4, <1>5, <1>7 DEF EventsOf
  <2>3. QED
        BY <1>2, <1>4, <1>7, <2>1, <2>2 DEF Side, ref, after, close
<1>8. QED
  BY <1>6, <1>7 DEF SideNames

\* Past is a strict order.
LEMMA PastOrder ==
  ASSUME NEW dir \in SideNames
  PROVE  /\ \A x \in Int : ~Past(dir, x, x)
         /\ \A x \in Int, y \in Int, z \in Int :
              /\ Past(dir, x, y) /\ Past(dir, y, z) => Past(dir, x, z)
              /\ ~Past(dir, x, y) /\ ~Past(dir, y, z) => ~Past(dir, x, z)
              /\ Past(dir, x, y) /\ ~Past(dir, z, y) => Past(dir, x, z)
         /\ \A x \in Int, y \in Int : Past(dir, x, y) => ~Past(dir, y, x)
BY DEF Past, SideNames

\* A swing is marked by a whole price.
LEMMA MarkType ==
  ASSUME NEW c \in History, NEW dir, NEW s \in Marks(c, dir)
  PROVE  s \in 1..Len(c) /\ s \in Int /\ Mark(c, dir, s) \in Int
<1>1. s \in 1..Len(c)
      BY SwingsInside DEF Marks
<1>2. QED
  BY <1>1, HistoryCandles DEF Mark

\* What is known of a side after candle i.
SideKept(c, dir, i, s) ==
  LET ref == Side(dir, s)
      swings == SeenBy(c, dir, i)
      events == EventsOf(dir, s)
  IN /\ ref.known <=> swings # {}
     /\ ref.known => /\ \A k \in swings : ~Past(dir, Mark(c, dir, k), ref.level)
                     /\ i # 0 => ~Past(dir, c[i].close, ref.level)
     /\ \A e \in events : e.idx \in 1..i
     /\ \A e, f \in events : e.idx = f.idx => e = f
     /\ events = {} =>
          /\ ref.known => \E k \in swings : ref.level = Mark(c, dir, k)
          /\ \A k \in 1..i : ~Crosses(c, dir, k)
     /\ events # {} =>
          \E e \in events : /\ Crosses(c, dir, e.idx)
                            /\ \A f \in events : e.idx <= f.idx
                            /\ \A k \in 1..(e.idx - 1) : ~Crosses(c, dir, k)

\* Nothing is seen and nothing is referred to before the first candle.
LEMMA SideBegins ==
  ASSUME NEW c \in History, NEW dir \in SideNames
  PROVE  SideKept(c, dir, 0, Begun)
<1>1. Side(dir, Begun).known = FALSE
      BY DEF Begun, Side, NoReference
<1>2. EventsOf(dir, Begun) = {}
      BY DEF EventsOf, Begun
<1>3. SeenBy(c, dir, 0) = {}
  <2> SUFFICES ASSUME NEW k \in Marks(c, dir), k <= 0 - Lag PROVE FALSE
      BY DEF SeenBy
  <2>1. k \in 1..Len(c)
        BY MarkType
  <2>2. PICK n \in Nat : n = Len(c)
        BY HistoryCandles
  <2>3. QED
        BY <2>1, <2>2 DEF Lag
<1>4. 1..0 = {}
      OBVIOUS
<1>5. QED
  BY <1>1, <1>2, <1>3, <1>4 DEF SideKept

\* The reference a candle is compared with is known when a swing was seen, is the
\* furthest of those seen, and while nothing broke it is one of them.
LEMMA ReferredKept ==
  ASSUME NEW c \in History, NEW dir \in SideNames, NEW i \in 1..Len(c), NEW s \in WalkStates,
         SideKept(c, dir, i - 1, s), NEW ref, ref = Referred(c, dir, i, Side(dir, s))
  PROVE  /\ ref \in References
         /\ ref.known <=> SeenBy(c, dir, i) # {}
         /\ ref.known => \A k \in SeenBy(c, dir, i) : ~Past(dir, Mark(c, dir, k), ref.level)
         /\ EventsOf(dir, s) = {} /\ ref.known =>
              \E k \in SeenBy(c, dir, i) : ref.level = Mark(c, dir, k)
<1> DEFINE old == Side(dir, s)
           was == SeenBy(c, dir, i - 1)
           now == SeenBy(c, dir, i)
           new == i - Lag
<1>0. i \in Int
      BY HistoryCandles
<1>1. old \in References
      BY DEF Side, WalkStates
<1>2. now = IF new \in Marks(c, dir) THEN was \cup {new} ELSE was
  <2>1. \A k \in Marks(c, dir) : k \in Int
        BY MarkType
  <2>2. \A k \in Int : k <= i - Lag <=> k <= i - 1 - Lag \/ k = i - Lag
        BY <1>0 DEF Lag
  <2>3. QED
        BY <2>1, <2>2 DEF SeenBy
<1>3. was \subseteq Marks(c, dir) /\ \A k \in was : Mark(c, dir, k) \in Int
      BY MarkType DEF SeenBy
<1>4. /\ old.known <=> was # {}
      /\ old.known => \A k \in was : ~Past(dir, Mark(c, dir, k), old.level)
      /\ EventsOf(dir, s) = {} /\ old.known => \E k \in was : old.level = Mark(c, dir, k)
      BY DEF SideKept
<1>5. old.level \in Int
      BY <1>1 DEF References
<1> HIDE DEF old, was, now, new
<1>6. CASE new \notin Marks(c, dir)
  <2>1. ref = old /\ now = was
        BY <1>2, <1>6 DEF Referred, old, new
  <2>2. QED
        BY <2>1, <1>1, <1>4 DEF now
<1>7. CASE new \in Marks(c, dir)
  <2>1. now = was \cup {new} /\ Mark(c, dir, new) \in Int
        BY <1>2, <1>7, MarkType
  <2>2. CASE old.known /\ ~Past(dir, Mark(c, dir, new), old.level)
    <3>1. ref = old
          BY <1>7, <2>2 DEF Referred, old, new
    <3>2. QED
          BY <3>1, <2>1, <2>2, <1>1, <1>4 DEF now
  <2>3. CASE ~(old.known /\ ~Past(dir, Mark(c, dir, new), old.level))
    <3>1. ref = Reference(Mark(c, dir, new))
          BY <1>7, <2>3 DEF Referred, old, new
    <3>2. ref \in References /\ ref.known = TRUE /\ ref.level = Mark(c, dir, new)
          BY <3>1, <2>1, ReferenceType
    <3>3. ASSUME NEW k \in now PROVE ~Past(dir, Mark(c, dir, k), Mark(c, dir, new))
      <4>1. CASE k = new
            BY <4>1, <2>1, PastOrder
      <4>2. CASE k \in was
        <5>1. old.known /\ ~Past(dir, Mark(c, dir, k), old.level)
              BY <4>2, <1>4
        <5>2. Past(dir, Mark(c, dir, new), old.level)
              BY <5>1, <2>3
        <5>3. ~Past(dir, old.level, Mark(c, dir, new))
              BY <5>2, <2>1, <1>5, PastOrder
        <5>4. QED
              BY <5>1, <5>3, <4>2, <2>1, <1>3, <1>5, PastOrder
      <4>3. QED
            BY <4>1, <4>2, <2>1
    <3>4. new \in now
          BY <2>1
    <3>5. QED
          BY <3>2, <3>3, <3>4 DEF now
  <2>4. QED
        BY <2>2, <2>3
<1>8. QED
  BY <1>6, <1>7

\* A candle keeps what is known of a side.
LEMMA SideWalks ==
  ASSUME NEW c \in History, NEW dir \in SideNames, NEW i \in 1..Len(c), NEW s \in WalkStates,
         SideKept(c, dir, i - 1, s)
  PROVE  SideKept(c, dir, i, Walked(c, i, s))
<1> DEFINE close == c[i].close
           ref == Referred(c, dir, i, Side(dir, s))
           after == Walked(c, i, s)
           old == EventsOf(dir, s)
           now == SeenBy(c, dir, i)
           broken == Broken(dir, ref, close)
           event == Break(dir, i, ref)
           last == Side(dir, after)
           events == EventsOf(dir, after)
<1>0. i \in Int /\ i # 0 /\ close \in Int
  <2>1. PICK n \in Nat : n = Len(c)
        BY HistoryCandles
  <2>2. QED
        BY <2>1, HistoryCandles
<1>1. /\ ref \in References
      /\ ref.known <=> now # {}
      /\ ref.known => \A k \in now : ~Past(dir, Mark(c, dir, k), ref.level)
      /\ old = {} /\ ref.known => \E k \in now : ref.level = Mark(c, dir, k)
      BY ReferredKept
<1>2. /\ last = IF broken THEN Reference(close) ELSE ref
      /\ events = old \cup (IF broken THEN {event} ELSE {})
      BY SideStep
<1>3. /\ \A e \in old : e.idx \in 1..(i - 1)
      /\ \A e, f \in old : e.idx = f.idx => e = f
      /\ old = {} => \A k \in 1..(i - 1) : ~Crosses(c, dir, k)
      /\ old # {} =>
           \E e \in old : /\ Crosses(c, dir, e.idx)
                          /\ \A f \in old : e.idx <= f.idx
                          /\ \A k \in 1..(e.idx - 1) : ~Crosses(c, dir, k)
      BY DEF SideKept
<1>4. ref.level \in Int /\ \A k \in now : Mark(c, dir, k) \in Int
      BY <1>1, MarkType DEF References, SeenBy
<1>5. event.idx = i
      BY DEF Break
<1>6. broken <=> ref.known /\ Past(dir, close, ref.level)
      BY DEF Broken
<1>7. Crosses(c, dir, i) <=> now # {} /\ \A k \in now : Past(dir, close, Mark(c, dir, k))
      BY DEF Crosses
<1>8. Reference(close).known = TRUE /\ Reference(close).level = close
      BY <1>0, ReferenceType
<1> HIDE DEF close, ref, after, old, now, broken, event, last, events
<1>9. /\ last.known <=> now # {}
      /\ last.known => /\ \A k \in now : ~Past(dir, Mark(c, dir, k), last.level)
                       /\ ~Past(dir, close, last.level)
  <2>1. CASE broken
    <3>1. last.known = TRUE /\ last.level = close /\ ref.known /\ Past(dir, close, ref.level)
          BY <2>1, <1>2, <1>6, <1>8
    <3>2. ~Past(dir, ref.level, close)
          BY <3>1, <1>0, <1>4, PastOrder
    <3>3. \A k \in now : ~Past(dir, Mark(c, dir, k), close)
          BY <3>1, <3>2, <1>0, <1>1, <1>4, PastOrder
    <3>4. ~Past(dir, close, close)
          BY <1>0, PastOrder
    <3>5. QED
          BY <3>1, <3>3, <3>4, <1>1
  <2>2. CASE ~broken
        BY <2>2, <1>1, <1>2, <1>6
  <2>3. QED
        BY <2>1, <2>2
<1>10. old = {} => (broken <=> Crosses(c, dir, i))
  <2> SUFFICES ASSUME old = {} PROVE broken <=> Crosses(c, dir, i)
      OBVIOUS
  <2>1. ASSUME broken PROVE Crosses(c, dir, i)
    <3>1. ref.known /\ Past(dir, close, ref.level)
          BY <2>1, <1>6
    <3>2. \A k \in now : Past(dir, close, Mark(c, dir, k))
          BY <3>1, <1>0, <1>1, <1>4, PastOrder
    <3>3. QED
          BY <3>1, <3>2, <1>1, <1>7
  <2>2. ASSUME Crosses(c, dir, i) PROVE broken
    <3>1. ref.known /\ \E k \in now : ref.level = Mark(c, dir, k)
          BY <2>2, <1>1, <1>7
    <3>2. QED
          BY <3>1, <2>2, <1>6, <1>7
  <2>3. QED
        BY <2>1, <2>2
<1>11. \A e \in events : e \in old \/ (broken /\ e = event)
       BY <1>2
<1>12. \A e \in events : e.idx \in 1..i
  <2>1. 1..(i - 1) \subseteq 1..i /\ i \in 1..i
        BY <1>0, HistoryCandles
  <2>2. QED
        BY <2>1, <1>3, <1>5, <1>11
<1>13. i \notin 1..(i - 1) /\ 1..i = 1..(i - 1) \cup {i}
       BY <1>0, HistoryCandles
<1>14. \A e, f \in events : e.idx = f.idx => e = f
       BY <1>3, <1>5, <1>11, <1>13
<1>15. ASSUME events = {}
       PROVE  /\ last.known => \E k \in now : last.level = Mark(c, dir, k)
              /\ \A k \in 1..i : ~Crosses(c, dir, k)
  <2>1. old = {} /\ ~broken /\ last = ref
        BY <1>2, <1>15
  <2>2. QED
        BY <2>1, <1>1, <1>3, <1>10, <1>13
<1>16. ASSUME events # {}
       PROVE  \E e \in events : /\ Crosses(c, dir, e.idx)
                                /\ \A f \in events : e.idx <= f.idx
                                /\ \A k \in 1..(e.idx - 1) : ~Crosses(c, dir, k)
  <2>1. CASE old = {}
    <3>1. broken /\ events = {event}
          BY <2>1, <1>2, <1>16
    <3>2. Crosses(c, dir, event.idx) /\ \A k \in 1..(event.idx - 1) : ~Crosses(c, dir, k)
          BY <3>1, <2>1, <1>3, <1>5, <1>10
    <3>3. \A f \in events : event.idx <= f.idx
          BY <3>1, <1>0, <1>5
    <3>4. QED
          BY <3>1, <3>2, <3>3
  <2>2. CASE old # {}
    <3>1. PICK e \in old : /\ Crosses(c, dir, e.idx)
                           /\ \A f \in old : e.idx <= f.idx
                           /\ \A k \in 1..(e.idx - 1) : ~Crosses(c, dir, k)
          BY <2>2, <1>3
    <3>2. e.idx <= i
          BY <3>1, <1>0, <1>3
    <3>3. \A f \in events : e.idx <= f.idx
          BY <3>1, <3>2, <1>5, <1>11
    <3>4. e \in events
          BY <3>1, <1>2
    <3>5. QED
          BY <3>1, <3>3, <3>4
  <2>3. QED
        BY <2>1, <2>2
<1>17. QED
  BY <1>0, <1>9, <1>12, <1>14, <1>15, <1>16 DEF SideKept, last, now, events, after, close

\* A known reference is not before the close of the candle before.
LEMMA ReferredBehind ==
  ASSUME NEW c \in History, NEW dir \in SideNames, NEW i \in 1..Len(c), NEW s \in WalkStates,
         SideKept(c, dir, i - 1, s), NEW ref, ref = Referred(c, dir, i, Side(dir, s)), ref.known
  PROVE  /\ i - 1 \in 1..Len(c) /\ ref.level \in Int
         /\ ~Past(dir, c[i - 1].close, ref.level)
<1> DEFINE new == i - Lag
<1>1. PICK n \in Nat : n = Len(c) /\ i \in 1..n
      BY HistoryCandles
<1>2. ref \in References /\ ref.level \in Int
      BY ReferredKept DEF References
<1>3. i - 1 \in 1..Len(c)
  <2>1. PICK k \in SeenBy(c, dir, i) : TRUE
        BY ReferredKept
  <2>2. k \in Middles(c) /\ k <= i - Lag
        BY <2>1, SwingsInside DEF SeenBy, Marks
  <2>3. QED
        BY <2>2, <1>1 DEF Lag, Middles
<1>4. c[i - 1].close \in Int /\ c[i - 1].high \in Int /\ c[i - 1].low \in Int
      BY <1>3, HistoryCandles
<1>5. CASE ref = Side(dir, s)
  <2>1. i - 1 # 0
        BY <1>1, <1>3
  <2>2. QED
        BY <2>1, <1>2, <1>3, <1>5 DEF SideKept
<1>6. CASE ref # Side(dir, s)
  <2>1. new \in Marks(c, dir) /\ ref = Reference(Mark(c, dir, new))
        BY <1>6 DEF Referred, new
  <2>2. ref.level = Mark(c, dir, new) /\ Mark(c, dir, new) \in Int
        BY <2>1, MarkType, ReferenceType
  <2>3. i - 1 \in Neighbours(new)
        BY <1>1 DEF Neighbours, Window, Lag
  <2>4. Past(dir, Mark(c, dir, new), Mark(c, dir, i - 1))
    <3>1. CASE dir = "bull"
      <4>1. c[new].high > c[i - 1].high
            BY <2>1, <2>3, <3>1 DEF Marks, SwingHighs
      <4>2. QED
            BY <4>1, <3>1 DEF Past, Mark
    <3>2. CASE dir = "bear"
      <4>1. c[new].low < c[i - 1].low
            BY <2>1, <2>3, <3>2 DEF Marks, SwingLows
      <4>2. QED
            BY <4>1, <3>2 DEF Past, Mark
    <3>3. QED
          BY <3>1, <3>2 DEF SideNames
  <2>5. ~Past(dir, c[i - 1].close, Mark(c, dir, i - 1)) /\ Mark(c, dir, i - 1) \in Int
    <3>1. c[i - 1].low <= c[i - 1].close /\ c[i - 1].close <= c[i - 1].high
          BY <1>3, HistoryCandles
    <3>2. CASE dir = "bull"
          BY <3>1, <3>2, <1>4 DEF Past, Mark
    <3>3. CASE dir = "bear"
          BY <3>1, <3>3, <1>4 DEF Past, Mark
    <3>4. QED
          BY <3>2, <3>3 DEF SideNames
  <2>6. Past(dir, Mark(c, dir, new), c[i - 1].close)
        BY <2>2, <2>4, <2>5, <1>4, PastOrder
  <2>7. ~Past(dir, c[i - 1].close, Mark(c, dir, new))
        BY <2>2, <2>6, <1>4, PastOrder
  <2>8. QED
        BY <2>2, <2>7, <1>2, <1>3
<1>7. QED
  BY <1>5, <1>6

\* No candle breaks the structure both ways.
OneWay(s) == \A e \in EventsOf("bull", s), f \in EventsOf("bear", s) : e.idx # f.idx

WalkKept(c, i, s) ==
  s \in WalkStates /\ SideKept(c, "bull", i, s) /\ SideKept(c, "bear", i, s) /\ OneWay(s)

\* Both sides of the walk keep their invariant over a candle.
LEMMA WalkKeeps ==
  ASSUME NEW c \in History, NEW i \in 1..Len(c), NEW s, WalkKept(c, i - 1, s)
  PROVE  WalkKept(c, i, Walked(c, i, s))
<1> DEFINE top == Referred(c, "bull", i, Side("bull", s))
           floor == Referred(c, "bear", i, Side("bear", s))
           close == c[i].close
           after == Walked(c, i, s)
<1>0. "bull" \in SideNames /\ "bear" \in SideNames /\ s \in WalkStates
      BY DEF SideNames, WalkKept
<1>1. SideKept(c, "bull", i - 1, s) /\ SideKept(c, "bear", i - 1, s) /\ OneWay(s)
      BY DEF WalkKept
<1>2. /\ after \in WalkStates
      /\ SideKept(c, "bull", i, after) /\ SideKept(c, "bear", i, after)
      BY <1>0, <1>1, WalkedType, SideWalks
<1>3. ~(Broken("bull", top, close) /\ Broken("bear", floor, close))
  <2> SUFFICES ASSUME Broken("bull", top, close), Broken("bear", floor, close) PROVE FALSE
      OBVIOUS
  <2>1. top.known /\ Past("bull", close, top.level) /\ floor.known /\ Past("bear", close, floor.level)
        BY DEF Broken
  <2>2. /\ i - 1 \in 1..Len(c) /\ top.level \in Int
        /\ ~Past("bull", c[i - 1].close, top.level)
        BY <2>1, <1>0, <1>1, ReferredBehind
  <2>3. floor.level \in Int /\ ~Past("bear", c[i - 1].close, floor.level)
        BY <2>1, <1>0, <1>1, ReferredBehind
  <2>4. c[i - 1].close \in Int /\ close \in Int
        BY <2>2, HistoryCandles
  <2> HIDE DEF top, floor, close
  <2>5. QED
        BY <2>1, <2>2, <2>3, <2>4 DEF Past
<1>4. /\ EventsOf("bull", after) = EventsOf("bull", s) \cup
           (IF Broken("bull", top, close) THEN {Break("bull", i, top)} ELSE {})
      /\ EventsOf("bear", after) = EventsOf("bear", s) \cup
           (IF Broken("bear", floor, close) THEN {Break("bear", i, floor)} ELSE {})
      BY <1>0, SideStep
<1>5. Break("bull", i, top).idx = i /\ Break("bear", i, floor).idx = i
      BY DEF Break
<1>6. /\ \A e \in EventsOf("bull", s) : e.idx # i
      /\ \A e \in EventsOf("bear", s) : e.idx # i
  <2>1. i \notin 1..(i - 1)
        BY HistoryCandles
  <2>2. QED
        BY <2>1, <1>1 DEF SideKept
<1> HIDE DEF top, floor, close, after
<1>7. OneWay(after)
  <2> SUFFICES ASSUME NEW e \in EventsOf("bull", after), NEW f \in EventsOf("bear", after), e.idx = f.idx
               PROVE  FALSE
      BY DEF OneWay
  <2>1. e \in EventsOf("bull", s) \/ (Broken("bull", top, close) /\ e.idx = i)
        BY <1>4, <1>5
  <2>2. f \in EventsOf("bear", s) \/ (Broken("bear", floor, close) /\ f.idx = i)
        BY <1>4, <1>5
  <2>3. QED
        BY <2>1, <2>2, <1>1, <1>3, <1>6 DEF OneWay
<1>8. QED
  BY <1>2, <1>7 DEF WalkKept, after

\* What the breaks of a history are.
LEMMA BreaksKept ==
  ASSUME NEW c \in History
  PROVE  \E s : WalkKept(c, Len(c), s) /\ Breaks(c) = s.events
<1>1. PICK n \in Nat : n = Len(c)
      BY HistoryCandles
<1>2. PICK w : IsWalk(c, w) /\ Breaks(c) = w[n].events
      BY <1>1, BreaksWalk
<1> DEFINE T == {i \in 0..n : WalkKept(c, i, w[i])}
<1>3. 0 \in T
  <2>1. w[0] = Begun /\ w[0] \in WalkStates
        BY <1>1, <1>2 DEF IsWalk
  <2>2. EventsOf("bull", Begun) = {}
        BY DEF EventsOf, Begun
  <2>3. SideKept(c, "bull", 0, Begun) /\ SideKept(c, "bear", 0, Begun)
        BY SideBegins DEF SideNames
  <2>4. QED
        BY <2>1, <2>2, <2>3 DEF WalkKept, OneWay
<1>4. ASSUME NEW i \in 0..(n - 1), i \in T PROVE i + 1 \in T
  <2>1. i + 1 \in 1..n /\ (i + 1) - 1 = i /\ i + 1 \in 0..n
        OBVIOUS
  <2>2. w[i + 1] = Walked(c, i + 1, w[i])
        BY <2>1, <1>1, <1>2 DEF IsWalk
  <2>3. WalkKept(c, i + 1, Walked(c, i + 1, w[i]))
        BY <2>1, <1>1, <1>4, WalkKeeps
  <2>4. QED
        BY <2>1, <2>2, <2>3
<1> HIDE DEF T
<1>5. 0..n \subseteq T
  <2>1. 0 \in Int /\ n \in Int
        OBVIOUS
  <2>2. QED
        BY <2>1, <1>3, <1>4, UpTo
<1>6. WalkKept(c, n, w[n])
      BY <1>5 DEF T
<1>7. QED
  BY <1>1, <1>2, <1>6

-----------------------------------------------------------------------------
(* detect_opposite_bos against detect_bos.                                 *)

Crossing(c, dir) == {i \in 1..Len(c) : Crosses(c, dir, i)}

\* The first break against a side is the first candle that crosses a swing.
LEMMA FirstBreakIs ==
  ASSUME NEW c \in History
  PROVE  /\ FirstBreak(c, "long") =
              IF Crossing(c, "bear") = {} THEN Nothing ELSE Min(Crossing(c, "bear"))
         /\ FirstBreak(c, "short") =
              IF Crossing(c, "bull") = {} THEN Nothing ELSE Min(Crossing(c, "bull"))
<1>1. DOMAIN c = 1..Len(c)
      BY HistoryCandles
<1>2. \A i : Crosses(c, "bear", i) <=>
        LET known == {s \in SwingLows(c) : s <= i - Lag}
        IN known # {} /\ \A s \in known : c[i].close < c[s].low
      BY DEF Crosses, SeenBy, Marks, Mark, Past
<1>3. \A i : Crosses(c, "bull", i) <=>
        LET known == {s \in SwingHighs(c) : s <= i - Lag}
        IN known # {} /\ \A s \in known : c[i].close > c[s].high
      BY DEF Crosses, SeenBy, Marks, Mark, Past
<1>4. /\ Crossing(c, "bear") =
           {i \in DOMAIN c : LET known == {s \in SwingLows(c) : s <= i - Lag}
                             IN known # {} /\ \A s \in known : c[i].close < c[s].low}
      /\ Crossing(c, "bull") =
           {i \in DOMAIN c : LET known == {s \in SwingHighs(c) : s <= i - Lag}
                             IN known # {} /\ \A s \in known : c[i].close > c[s].high}
      BY <1>1, <1>2, <1>3 DEF Crossing
<1>5. QED
  BY <1>4 DEF FirstBreak

\* Least elements are unique.
LEMMA MinIs ==
  ASSUME NEW S, NEW x \in S, x \in Int, \A y \in S : y \in Int /\ x <= y
  PROVE  Min(S) = x
<1>1. PICK m : m = Min(S)
      OBVIOUS
<1>2. m \in S /\ \A y \in S : m <= y
      BY <1>1 DEF Min
<1>3. m \in Int /\ x <= m /\ m <= x
      BY <1>2
<1>4. m = x
      BY <1>3
<1>5. QED
  BY <1>1, <1>4

\* The first close beyond every swing is the first event of its direction.
LEMMA FirstEvent ==
  ASSUME NEW c \in History, NEW dir \in SideNames, NEW s, SideKept(c, dir, Len(c), s)
  PROVE  LET found == {e.idx : e \in EventsOf(dir, s)}
         IN (IF Crossing(c, dir) = {} THEN Nothing ELSE Min(Crossing(c, dir)))
              = IF found = {} THEN Nothing ELSE Min(found)
<1> DEFINE events == EventsOf(dir, s)
           found == {e.idx : e \in events}
<1>1. PICK n \in Nat : n = Len(c)
      BY HistoryCandles
<1>2. CASE events = {}
  <2>1. \A k \in 1..n : ~Crosses(c, dir, k)
        BY <1>1, <1>2 DEF SideKept
  <2>2. QED
        BY <2>1, <1>1, <1>2 DEF Crossing
<1>3. CASE events # {}
  <2>0. \A e \in events : e.idx \in 1..n
        BY <1>1 DEF SideKept
  <2>1. PICK e \in events : /\ Crosses(c, dir, e.idx)
                            /\ \A f \in events : e.idx <= f.idx
                            /\ \A k \in 1..(e.idx - 1) : ~Crosses(c, dir, k)
        BY <1>3 DEF SideKept
  <2> HIDE DEF events
  <2>2. PICK x : x = e.idx
        OBVIOUS
  <2>3. x \in 1..n /\ x \in Int /\ x \in found
        BY <2>0, <2>2
  <2>4. \A y \in found : y \in Int /\ x <= y
        BY <2>0, <2>1, <2>2
  <2>5. Min(found) = x
        BY <2>3, <2>4, MinIs
  <2>6. x \in Crossing(c, dir)
        BY <2>1, <2>2, <2>3, <1>1 DEF Crossing
  <2>7. ASSUME NEW y \in Crossing(c, dir) PROVE y \in Int /\ x <= y
    <3>1. y \in 1..n /\ Crosses(c, dir, y)
          BY <1>1 DEF Crossing
    <3>2. y \notin 1..(x - 1)
          BY <3>1, <2>1, <2>2
    <3>3. QED
          BY <3>1, <3>2, <2>3
  <2>8. Min(Crossing(c, dir)) = x
        BY <2>3, <2>6, <2>7, MinIs
  <2>9. found # {} /\ Crossing(c, dir) # {}
        BY <2>3, <2>6
  <2> HIDE DEF found
  <2>10. (IF Crossing(c, dir) = {} THEN Nothing ELSE Min(Crossing(c, dir)))
           = IF found = {} THEN Nothing ELSE Min(found)
         BY <2>5, <2>8, <2>9
  <2>11. QED
         BY <2>10 DEF found, events
<1>4. QED
  BY <1>2, <1>3

\* The two walks agree on every history.
LEMMA AgreeOnHistories == rows \in History => BreaksAgree
<1> SUFFICES ASSUME rows \in History PROVE BreaksAgree
    OBVIOUS
<1> DEFINE events == Breaks(rows)
           idxs(d) == {e.idx : e \in {f \in events : f.direction = d}}
<1>1. PICK s : WalkKept(rows, Len(rows), s) /\ events = s.events
      BY BreaksKept
<1>2. /\ s \in WalkStates /\ OneWay(s)
      /\ SideKept(rows, "bull", Len(rows), s) /\ SideKept(rows, "bear", Len(rows), s)
      BY <1>1 DEF WalkKept
<1>3. \A d : {f \in events : f.direction = d} = EventsOf(d, s)
      BY <1>1 DEF EventsOf
<1> HIDE DEF events
<1>4. /\ FirstBreak(rows, "long") = IF idxs("bear") = {} THEN Nothing ELSE Min(idxs("bear"))
      /\ FirstBreak(rows, "short") = IF idxs("bull") = {} THEN Nothing ELSE Min(idxs("bull"))
      BY <1>2, <1>3, FirstBreakIs, FirstEvent DEF SideNames
<1>5. ASSUME NEW e \in events, NEW f \in events, e.idx = f.idx PROVE e = f
  <2>1. e.direction \in {"bull", "bear"} /\ f.direction \in {"bull", "bear"}
        BY <1>1, <1>2 DEF WalkStates
  <2>2. CASE e.direction = f.direction
    <3>1. e \in EventsOf(e.direction, s) /\ f \in EventsOf(e.direction, s)
          BY <2>2, <1>1 DEF EventsOf
    <3>2. QED
          BY <3>1, <2>1, <1>2, <1>5 DEF SideKept
  <2>3. CASE e.direction # f.direction
    <3>1. /\ e \in EventsOf(e.direction, s) /\ f \in EventsOf(f.direction, s)
          BY <1>1 DEF EventsOf
    <3>2. QED
          BY <3>1, <2>1, <2>3, <1>2, <1>5 DEF OneWay
  <2>4. QED
        BY <2>2, <2>3
<1>6. QED
  BY <1>4, <1>5 DEF BreaksAgree, events

\* For every history, the exit rule finds the first event of the structure, and no
\* candle breaks it both ways (module TrendConfluence, BreaksAgree).
THEOREM WalksAgree == StrategiesSpec => []BreaksAgree
<1>1. CacheDrawn => BreaksAgree
      BY AgreeOnHistories DEF CacheDrawn, RowsOK
<1>2. QED
  BY <1>1, CacheAlways, PTL

-----------------------------------------------------------------------------
(* Later candles change nothing that was seen.                             *)

\* A history that extends another has its candles at the same indices.
LEMMA ExtendsRange ==
  ASSUME NEW c \in History, NEW d \in History, Extends(c, d)
  PROVE  /\ Len(c) \in Nat /\ Len(d) \in Nat /\ Len(c) <= Len(d)
         /\ 1..Len(c) \subseteq 1..Len(d) /\ \A i \in 1..Len(c) : d[i] = c[i]
<1>1. PICK n \in Nat, m \in Nat : n = Len(c) /\ m = Len(d)
      BY HistoryCandles
<1>2. QED
  BY <1>1 DEF Extends

\* A swing needs two more candles, and no later one.
LEMMA SwingsStay ==
  ASSUME NEW c \in History, NEW d \in History, Extends(c, d)
  PROVE  /\ SwingHighs(c) = {s \in SwingHighs(d) : s <= Len(c) - Lag}
         /\ SwingLows(c) = {s \in SwingLows(d) : s <= Len(c) - Lag}
<1>1. PICK n \in Nat, m \in Nat : n = Len(c) /\ m = Len(d) /\ n <= m
      BY ExtendsRange
<1>2. Middles(c) = {s \in Middles(d) : s <= n - Lag}
      BY <1>1 DEF Middles, Lag
<1>3. ASSUME NEW s \in Middles(c)
      PROVE  /\ Atr(d)[s] = Atr(c)[s] /\ d[s] = c[s]
             /\ \A j \in Window(s) : d[j] = c[j]
             /\ {d[j].low : j \in Window(s)} = {c[j].low : j \in Window(s)}
             /\ {d[j].high : j \in Window(s)} = {c[j].high : j \in Window(s)}
  <2>1. s \in Window(s) /\ \A j \in Window(s) : j \in 1..n
        BY <1>1 DEF Middles, Window
  <2>2. \A j \in Window(s) : d[j] = c[j]
        BY <2>1, <1>1 DEF Extends
  <2>3. Atr(d)[s] = Atr(c)[s]
        BY <2>1, <1>1, AtrPrefix
  <2>4. QED
        BY <2>1, <2>2, <2>3
<1>4. ASSUME NEW s \in Middles(c)
      PROVE  /\ s \in SwingHighs(d) <=> s \in SwingHighs(c)
             /\ s \in SwingLows(d) <=> s \in SwingLows(c)
  <2>1. s \in Middles(d)
        BY <1>2
  <2>2. \A j \in Neighbours(s) : d[j] = c[j]
        BY <1>3 DEF Neighbours
  <2>3. s \in SwingHighs(d) <=> s \in SwingHighs(c)
        BY <2>1, <2>2, <1>3 DEF SwingHighs
  <2>4. s \in SwingLows(d) <=> s \in SwingLows(c)
        BY <2>1, <2>2, <1>3 DEF SwingLows
  <2>5. QED
        BY <2>3, <2>4
<1>5. /\ SwingHighs(c) \subseteq Middles(c) /\ SwingHighs(d) \subseteq Middles(d)
      /\ SwingLows(c) \subseteq Middles(c) /\ SwingLows(d) \subseteq Middles(d)
      BY SwingsInside
<1>6. QED
  BY <1>1, <1>2, <1>4, <1>5

\* The same swings are confirmed by a candle of the past.
LEMMA SeenStay ==
  ASSUME NEW c \in History, NEW d \in History, Extends(c, d), NEW dir \in SideNames,
         NEW i \in 1..Len(c)
  PROVE  /\ SeenBy(d, dir, i) = SeenBy(c, dir, i)
         /\ \A k \in SeenBy(c, dir, i) : k \in 1..Len(c) /\ d[k] = c[k] /\ Mark(d, dir, k) = Mark(c, dir, k)
         /\ Crosses(d, dir, i) <=> Crosses(c, dir, i)
<1>1. Marks(c, dir) = {s \in Marks(d, dir) : s <= Len(c) - Lag}
      BY SwingsStay DEF Marks
<1>2. i <= Len(c) /\ i \in Int /\ Len(c) \in Int
      BY HistoryCandles
<1>3. \A s \in Marks(d, dir) : s \in Int
      BY MarkType
<1>4. SeenBy(d, dir, i) = SeenBy(c, dir, i)
      BY <1>1, <1>2, <1>3 DEF SeenBy, Lag
<1>5. \A k \in SeenBy(c, dir, i) : k \in 1..Len(c)
      BY MarkType DEF SeenBy
<1>6. d[i] = c[i] /\ \A k \in SeenBy(c, dir, i) : d[k] = c[k]
      BY <1>5 DEF Extends
<1>7. \A k \in SeenBy(c, dir, i) : Mark(d, dir, k) = Mark(c, dir, k)
      BY <1>6 DEF Mark
<1>8. QED
  BY <1>4, <1>5, <1>6, <1>7 DEF Crosses

\* A step of the walk looks at no later candle.
LEMMA WalkedStays ==
  ASSUME NEW c \in History, NEW d \in History, Extends(c, d), NEW i \in 1..Len(c), NEW s
  PROVE  Walked(d, i, s) = Walked(c, i, s)
<1>1. i <= Len(c) /\ i \in Int /\ Len(c) \in Int
      BY HistoryCandles
<1>2. i - Lag \in SwingHighs(d) <=> i - Lag \in SwingHighs(c)
      BY <1>1, SwingsStay DEF Lag
<1>3. i - Lag \in SwingLows(d) <=> i - Lag \in SwingLows(c)
      BY <1>1, SwingsStay DEF Lag
<1>4. i - Lag \in SwingHighs(c) \/ i - Lag \in SwingLows(c) => d[i - Lag] = c[i - Lag]
      BY SwingsInside DEF Extends
<1>5. d[i] = c[i]
      BY DEF Extends
<1>6. TopAt(d, i - Lag, s.top) = TopAt(c, i - Lag, s.top)
      BY <1>2, <1>4 DEF TopAt
<1>7. FloorAt(d, i - Lag, s.floor) = FloorAt(c, i - Lag, s.floor)
      BY <1>3, <1>4 DEF FloorAt
<1>8. QED
  BY <1>5, <1>6, <1>7 DEF Walked

\* One more candle adds breaks of its own only.
LEMMA BreaksStay ==
  ASSUME NEW c \in History, NEW d \in History, Extends(c, d), Len(d) = Len(c) + 1
  PROVE  Breaks(c) = {e \in Breaks(d) : e.idx <= Len(c)}
<1>1. PICK n \in Nat : n = Len(c) /\ Len(d) = n + 1
      BY HistoryCandles
<1>2. PICK v : IsWalk(c, v) /\ Breaks(c) = v[n].events
      BY <1>1, BreaksWalk
<1>3. PICK w : IsWalk(d, w) /\ Breaks(d) = w[n + 1].events
      BY <1>1, BreaksWalk
<1> DEFINE T == {i \in 0..n : w[i] = v[i] /\ WalkKept(c, i, v[i])}
<1>4. 0 \in T
  <2>1. v[0] = Begun /\ w[0] = Begun /\ v[0] \in WalkStates
        BY <1>1, <1>2, <1>3 DEF IsWalk
  <2>2. EventsOf("bull", Begun) = {}
        BY DEF EventsOf, Begun
  <2>3. SideKept(c, "bull", 0, Begun) /\ SideKept(c, "bear", 0, Begun)
        BY SideBegins DEF SideNames
  <2>4. QED
        BY <2>1, <2>2, <2>3 DEF WalkKept, OneWay
<1>5. ASSUME NEW i \in 0..(n - 1), i \in T PROVE i + 1 \in T
  <2>1. i + 1 \in 1..n /\ i + 1 \in 1..(n + 1) /\ (i + 1) - 1 = i /\ i + 1 \in 0..n
        OBVIOUS
  <2>2. v[i + 1] = Walked(c, i + 1, v[i]) /\ w[i + 1] = Walked(d, i + 1, w[i])
        BY <2>1, <1>1, <1>2, <1>3 DEF IsWalk
  <2>3. Walked(d, i + 1, w[i]) = Walked(c, i + 1, v[i])
        BY <2>1, <1>1, <1>5, WalkedStays
  <2>4. WalkKept(c, i + 1, Walked(c, i + 1, v[i]))
        BY <2>1, <1>1, <1>5, WalkKeeps
  <2>5. QED
        BY <2>1, <2>2, <2>3, <2>4
<1> HIDE DEF T
<1>6. 0..n \subseteq T
  <2>1. 0 \in Int /\ n \in Int
        OBVIOUS
  <2>2. QED
        BY <2>1, <1>4, <1>5, UpTo
<1>7. w[n] = v[n] /\ WalkKept(c, n, v[n])
      BY <1>6 DEF T
<1>8. n + 1 \in 1..Len(d) /\ w[n + 1] = Walked(d, n + 1, w[n])
  <2>1. n + 1 \in 1..(n + 1) /\ (n + 1) - 1 = n
        OBVIOUS
  <2>2. QED
        BY <2>1, <1>1, <1>3 DEF IsWalk
<1> DEFINE before == v[n]
           after == w[n + 1]
<1>9. /\ before \in WalkStates /\ after \in WalkStates
      /\ SideKept(c, "bull", n, before) /\ SideKept(c, "bear", n, before)
  <2>1. before \in WalkStates
        BY <1>7 DEF WalkKept
  <2>2. QED
        BY <2>1, <1>7, <1>8, WalkedType DEF WalkKept
<1>10. \A dir \in SideNames : \E more \in SUBSET EventsOf(dir, after) :
         /\ EventsOf(dir, after) = EventsOf(dir, before) \cup more
         /\ \A e \in more : e.idx = n + 1
  <2> SUFFICES ASSUME NEW dir \in SideNames
               PROVE  \E more \in SUBSET EventsOf(dir, after) :
                        /\ EventsOf(dir, after) = EventsOf(dir, before) \cup more
                        /\ \A e \in more : e.idx = n + 1
      OBVIOUS
  <2> DEFINE ref == Referred(d, dir, n + 1, Side(dir, before))
             more == IF Broken(dir, ref, d[n + 1].close) THEN {Break(dir, n + 1, ref)} ELSE {}
  <2>1. EventsOf(dir, after) = EventsOf(dir, before) \cup more
        BY <1>7, <1>8, <1>9, SideStep
  <2>2. \A e \in more : e.idx = n + 1
        BY DEF Break
  <2> HIDE DEF more
  <2>3. more \in SUBSET EventsOf(dir, after)
        BY <2>1
  <2>4. QED
        BY <2>1, <2>2, <2>3
<1>11. /\ before.events = EventsOf("bull", before) \cup EventsOf("bear", before)
       /\ after.events = EventsOf("bull", after) \cup EventsOf("bear", after)
       BY <1>9 DEF EventsOf, WalkStates
<1>12. \A dir \in SideNames : \A e \in EventsOf(dir, before) : e.idx \in 1..n
       BY <1>9 DEF SideKept, SideNames
<1> HIDE DEF before, after
<1>13. \A dir \in SideNames :
         EventsOf(dir, before) = {e \in EventsOf(dir, after) : e.idx <= n}
  <2> SUFFICES ASSUME NEW dir \in SideNames
               PROVE  EventsOf(dir, before) = {e \in EventsOf(dir, after) : e.idx <= n}
      OBVIOUS
  <2>1. PICK more : /\ EventsOf(dir, after) = EventsOf(dir, before) \cup more
                    /\ \A e \in more : e.idx = n + 1
        BY <1>10
  <2>2. \A e \in EventsOf(dir, before) : e.idx <= n
        BY <1>12
  <2>3. \A e \in more : ~(e.idx <= n)
        BY <2>1
  <2>4. QED
        BY <2>1, <2>2, <2>3
<1>14. before.events = {e \in after.events : e.idx <= n}
       BY <1>11, <1>13 DEF SideNames
<1>15. QED
  BY <1>1, <1>2, <1>3, <1>14 DEF before, after

\* The first break stays the first.
LEMMA FirstBreakStays ==
  ASSUME NEW c \in History, NEW d \in History, Extends(c, d), NEW dn \in Directions,
         FirstBreak(c, dn) # Nothing
  PROVE  FirstBreak(d, dn) = FirstBreak(c, dn)
<1> DEFINE dir == IF dn = "long" THEN "bear" ELSE "bull"
           old == Crossing(c, dir)
           new == Crossing(d, dir)
<1>1. PICK n \in Nat, m \in Nat : n = Len(c) /\ m = Len(d) /\ n <= m
      BY ExtendsRange
<1>2. dir \in SideNames
      BY DEF SideNames
<1>3. /\ FirstBreak(c, dn) = IF old = {} THEN Nothing ELSE Min(old)
      /\ FirstBreak(d, dn) = IF new = {} THEN Nothing ELSE Min(new)
      BY FirstBreakIs DEF Directions
<1>4. \A i \in 1..n : Crosses(d, dir, i) <=> Crosses(c, dir, i)
      BY <1>1, <1>2, SeenStay
<1>5. old = {i \in new : i <= n} /\ new \subseteq 1..m /\ old \subseteq 1..n
      BY <1>1, <1>4 DEF Crossing
<1> HIDE DEF old, new, dir
<1>6. old # {}
      BY <1>3
<1>7. PICK x : x = Min(old)
      OBVIOUS
<1>8. x \in old /\ \A y \in old : x <= y
  <2>1. 1 \in Int /\ n \in Int /\ old \in SUBSET (1..n)
        BY <1>5
  <2>2. QED
        BY <2>1, <1>6, <1>7, MinOfBounded
<1>9. x \in new /\ x \in Int /\ \A y \in new : y \in Int /\ x <= y
      BY <1>5, <1>8
<1>10. Min(new) = x
       BY <1>9, MinIs
<1>11. QED
  BY <1>3, <1>6, <1>7, <1>9, <1>10

-----------------------------------------------------------------------------
(* Order blocks.                                                           *)

\* Max of two numbers, one of them 1.
LEMMA AtLeastOne ==
  ASSUME NEW x \in Int
  PROVE  Max({x, 1}) \in Int /\ Max({x, 1}) >= 1 /\ Max({x, 1}) >= x
<1>1. \E y \in {x, 1} : \A z \in {x, 1} : y >= z
  <2>1. CASE x >= 1
        BY <2>1
  <2>2. CASE x < 1
        BY <2>2
  <2>3. QED
        BY <2>1, <2>2
<1>2. Max({x, 1}) \in {x, 1} /\ \A z \in {x, 1} : Max({x, 1}) >= z
      BY <1>1 DEF Max
<1>3. QED
  BY <1>2

\* What makes a displacement lies before it.
LEMMA DisplacesStays ==
  ASSUME NEW c \in History, NEW d \in History, Extends(c, d),
         NEW e \in (BodyPeriod + 1)..Len(c)
  PROVE  /\ Displaces(d, e) <=> Displaces(c, e)
         /\ Displaces(c, e) => (LeavesGap(d, e) <=> LeavesGap(c, e))
         /\ Opposite(d, e) = Opposite(c, e)
         /\ Opposite(c, e) \subseteq 1..Len(c)
         /\ Bullish(d[e]) <=> Bullish(c[e])
<1>1. PICK n \in Nat : n = Len(c)
      BY HistoryCandles
<1>2. BodyPeriod \in Nat \ {0} /\ BlockLookback \in Nat
      BY IndicatorsAssumption
<1>3. e \in 1..n /\ \A j \in (e - BodyPeriod)..(e - 1) : j \in 1..n
      BY <1>1, <1>2
<1>4. \A j \in 1..n : d[j] = c[j]
      BY <1>1 DEF Extends
<1>5. [j \in (e - BodyPeriod)..(e - 1) |-> Body(d[j])] = [j \in (e - BodyPeriod)..(e - 1) |-> Body(c[j])]
      BY <1>3, <1>4
<1>6. d[e] = c[e]
      BY <1>3, <1>4
<1>7. Displaces(d, e) <=> Displaces(c, e)
      BY <1>5, <1>6 DEF Displaces
<1>8. Displaces(c, e) => e >= 3
      BY DEF Displaces
<1>9. e >= 3 => d[e - 2] = c[e - 2]
  <2>1. e >= 3 => e - 2 \in 1..n
        BY <1>3
  <2>2. QED
        BY <2>1, <1>4
<1>10. Displaces(c, e) => (LeavesGap(d, e) <=> LeavesGap(c, e))
       BY <1>6, <1>8, <1>9 DEF LeavesGap
<1> DEFINE from == Max({e - BlockLookback, 1})
<1>11. from \in Int /\ from >= 1
  <2>1. e - BlockLookback \in Int
        BY <1>2, <1>3
  <2>2. QED
        BY <2>1, AtLeastOne
<1> HIDE DEF from
<1>12. \A j \in from..(e - 1) : j \in 1..n
       BY <1>3, <1>11
<1>13. Opposite(d, e) = Opposite(c, e) /\ Opposite(c, e) \subseteq from..(e - 1)
       BY <1>4, <1>6, <1>12 DEF Opposite, from
<1>14. QED
  BY <1>1, <1>6, <1>7, <1>10, <1>12, <1>13

\* A candle that makes a block, and the block.
Makes(c, e) ==
  e \in (BodyPeriod + 1)..Len(c) /\ Displaces(c, e) /\ LeavesGap(c, e) /\ Opposite(c, e) # {}
Block(c, e) ==
  [direction |-> IF Bullish(c[e]) THEN "bull" ELSE "bear", idx |-> Max(Opposite(c, e)), disp |-> e]

\* The order blocks are the blocks the displacement candles make.
LEMMA OrderBlocksAre == \A c, b : b \in OrderBlocks(c) <=> \E e : Makes(c, e) /\ b = Block(c, e)
BY DEF OrderBlocks, Makes, Block

\* Later candles add order blocks and mitigate some, and change no other.
LEMMA BlocksStay ==
  ASSUME NEW c \in History, NEW d \in History, Extends(c, d)
  PROVE  /\ OrderBlocks(c) = {b \in OrderBlocks(d) : b.disp <= Len(c)}
         /\ \A b \in OrderBlocks(c) : Mitigated(c, b) => Mitigated(d, b)
<1>1. PICK n \in Nat, m \in Nat : n = Len(c) /\ m = Len(d) /\ n <= m
      BY ExtendsRange
<1>2. BodyPeriod \in Nat
      BY IndicatorsAssumption
<1>3. \A e \in (BodyPeriod + 1)..n : (Makes(d, e) <=> Makes(c, e)) /\ Block(d, e) = Block(c, e)
  <2> SUFFICES ASSUME NEW e \in (BodyPeriod + 1)..n
               PROVE  (Makes(d, e) <=> Makes(c, e)) /\ Block(d, e) = Block(c, e)
      OBVIOUS
  <2>1. e \in (BodyPeriod + 1)..m
        BY <1>1, <1>2
  <2>2. /\ Displaces(d, e) <=> Displaces(c, e)
        /\ Displaces(c, e) => (LeavesGap(d, e) <=> LeavesGap(c, e))
        /\ Opposite(d, e) = Opposite(c, e)
        /\ Bullish(d[e]) <=> Bullish(c[e])
        BY <1>1, DisplacesStays
  <2>3. Makes(d, e) <=> Makes(c, e)
        BY <2>1, <2>2, <1>1 DEF Makes
  <2>4. Block(d, e) = Block(c, e)
        BY <2>2 DEF Block
  <2>5. QED
        BY <2>3, <2>4
<1>4. \A e : (Makes(c, e) => e \in (BodyPeriod + 1)..n) /\ (Makes(d, e) /\ e <= n => e \in (BodyPeriod + 1)..n)
  <2>1. \A e : (Makes(c, e) => e \in (BodyPeriod + 1)..n) /\ (Makes(d, e) => e \in (BodyPeriod + 1)..m)
        BY <1>1 DEF Makes
  <2>2. \A e \in (BodyPeriod + 1)..m : e <= n => e \in (BodyPeriod + 1)..n
        BY <1>1, <1>2
  <2>3. QED
        BY <2>1, <2>2
<1>5. \A x, e : Block(x, e).disp = e
      BY DEF Block
<1>6. ASSUME NEW b \in OrderBlocks(c) PROVE b \in OrderBlocks(d) /\ b.disp <= n
  <2>1. PICK e : Makes(c, e) /\ b = Block(c, e)
        BY <1>6, OrderBlocksAre
  <2>2. e \in (BodyPeriod + 1)..n
        BY <2>1, <1>4
  <2>3. Makes(d, e) /\ b = Block(d, e)
        BY <2>1, <2>2, <1>3
  <2>30. b.disp = e
        BY <2>1, <1>5
  <2>4. e <= n
        BY <2>2, <1>2
  <2>5. QED
        BY <2>3, <2>30, <2>4, OrderBlocksAre
<1>7. ASSUME NEW b \in OrderBlocks(d), b.disp <= n PROVE b \in OrderBlocks(c)
  <2>1. PICK e : Makes(d, e) /\ b = Block(d, e)
        BY <1>7, OrderBlocksAre
  <2>2. e <= n
        BY <2>1, <1>5, <1>7
  <2>3. e \in (BodyPeriod + 1)..n
        BY <2>1, <2>2, <1>4
  <2>4. Makes(c, e) /\ b = Block(c, e)
        BY <2>1, <2>3, <1>3
  <2>5. QED
        BY <2>4, OrderBlocksAre
<1>8. ASSUME NEW b \in OrderBlocks(c), Mitigated(c, b) PROVE Mitigated(d, b)
  <2>1. PICK e : Makes(c, e) /\ b = Block(c, e)
        BY <1>8, OrderBlocksAre
  <2>2. e \in (BodyPeriod + 1)..n /\ Opposite(c, e) # {}
        BY <2>1, <1>1 DEF Makes
  <2>3. Opposite(c, e) \in SUBSET (1..n)
        BY <2>2, <1>1, DisplacesStays
  <2>4. b.idx \in 1..n
    <3>1. 1 \in Int /\ n \in Int
          OBVIOUS
    <3>2. Max(Opposite(c, e)) \in Opposite(c, e)
          BY <3>1, <2>2, <2>3, MaxOfBounded
    <3>3. b.idx = Max(Opposite(c, e))
          BY <2>1 DEF Block
    <3>4. QED
          BY <3>2, <3>3, <2>3
  <2>5. PICK j \in (b.idx + 1)..n :
          IF b.direction = "bull"
          THEN c[j].close < Min({c[b.idx].open, c[b.idx].close})
          ELSE c[j].close > Max({c[b.idx].open, c[b.idx].close})
        BY <1>1, <1>8 DEF Mitigated
  <2>6. j \in 1..n /\ j \in (b.idx + 1)..m
        BY <2>4, <1>1
  <2>7. d[j] = c[j] /\ d[b.idx] = c[b.idx]
        BY <2>4, <2>6, <1>1 DEF Extends
  <2>8. QED
        BY <2>5, <2>6, <2>7, <1>1 DEF Mitigated
<1>9. QED
  BY <1>1, <1>6, <1>7, <1>8

\* All of it, for one more candle.
LEMMA StructureKept ==
  ASSUME rows \in History, rows' \in History, Extends(rows, rows'), Len(rows') = Len(rows) + 1
  PROVE  StructureStays
<1>1. PICK n \in Nat : n = Len(rows) /\ Len(rows') = n + 1
      BY HistoryCandles
<1>2. PICK c, d : c = rows /\ d = rows'
      OBVIOUS
<1>3. c \in History /\ d \in History /\ Extends(c, d) /\ Len(c) = n /\ Len(d) = n + 1
      BY <1>1, <1>2
<1>4. SwingHighs(c) = SwingHighs(d) \ {n - 1} /\ SwingLows(c) = SwingLows(d) \ {n - 1}
  <2>1. /\ SwingHighs(c) = {s \in SwingHighs(d) : s <= n - Lag}
        /\ SwingLows(c) = {s \in SwingLows(d) : s <= n - Lag}
        BY <1>3, SwingsStay
  <2>2. SwingHighs(d) \subseteq 3..(n - 1) /\ SwingLows(d) \subseteq 3..(n - 1)
    <3>1. Middles(d) \subseteq 3..(n - 1)
          BY <1>3 DEF Middles
    <3>2. QED
          BY <3>1, <1>3, SwingsInside
  <2>3. \A s \in 3..(n - 1) : s <= n - Lag <=> s # n - 1
        BY DEF Lag
  <2>4. QED
        BY <2>1, <2>2, <2>3
<1>5. Breaks(c) = {e \in Breaks(d) : e.idx <= n}
      BY <1>3, BreaksStay
<1>6. /\ OrderBlocks(c) = {b \in OrderBlocks(d) : b.disp <= n}
      /\ \A b \in OrderBlocks(c) : Mitigated(c, b) => Mitigated(d, b)
      BY <1>3, BlocksStay
<1>7. \A dn \in Directions : FirstBreak(c, dn) # Nothing => FirstBreak(d, dn) = FirstBreak(c, dn)
      BY <1>3, FirstBreakStays
<1>8. QED
  BY <1>1, <1>2, <1>4, <1>5, <1>6, <1>7 DEF StructureStays

-----------------------------------------------------------------------------
(* The trend following strategy.                                           *)

\* What the assumptions say of the constants of trend following.
LEMMA FollowingConstants ==
  /\ FastEma \in Nat \ {0} /\ SlowEma \in Nat \ {0} /\ TrendEma \in Nat \ {0}
  /\ RsiPeriod \in Nat \ {0} /\ MeanPeriod \in Nat \ {0} /\ AtrPeriod \in Nat \ {0}
  /\ MoreHistory \in Nat /\ Sides \subseteq Directions
BY TrendFollowingAssumption, IndicatorsAssumption DEF Directions

FirstEma(c, period) == SumFunction([j \in 1..period |-> c[j].close])
NextEma(c, period, i, before) ==
  Divided(2 * period * c[i].close + (period - 1) * before, period + 1)

\* The exponential averages are whole numbers.
LEMMA EmaType ==
  ASSUME NEW c \in History, NEW period \in Nat \ {0}
  PROVE  /\ period <= Len(c) => FirstEma(c, period) \in Int
         /\ \A i \in period..Len(c), v \in Int : NextEma(c, period, i, v) \in Int
<1>1. PICK n \in Nat : n = Len(c)
      BY HistoryCandles
<1>2. ASSUME period <= n PROVE FirstEma(c, period) \in Int
  <2> DEFINE f == [j \in 1..period |-> c[j].close]
  <2>1. \A j \in 1..period : j \in 1..Len(c)
        BY <1>1, <1>2
  <2>2. f \in [1..period -> Int]
        BY <2>1, HistoryCandles
  <2>3. IsFiniteSet(1..period)
        BY FS_Interval
  <2> HIDE DEF f
  <2>4. SumFunction(f) \in Int
        BY <2>2, <2>3, SumType
  <2>5. QED
        BY <2>4 DEF FirstEma, f
<1>3. ASSUME NEW i \in period..n, NEW v \in Int PROVE NextEma(c, period, i, v) \in Int
  <2>1. c[i].close \in Int
    <3>1. i \in 1..Len(c)
          BY <1>1
    <3>2. QED
          BY <3>1, HistoryCandles
  <2> DEFINE x == c[i].close
             y == 2 * period * x + (period - 1) * v
  <2>2. x \in Int
        BY <2>1
  <2>3. NextEma(c, period, i, v) = Divided(y, period + 1)
        BY DEF NextEma
  <2> HIDE DEF x
  <2>4. y \in Int /\ period + 1 \in Nat \ {0}
        BY <2>2
  <2> HIDE DEF y
  <2>5. -y \in Int /\ y \div (period + 1) \in Int /\ (-y) \div (period + 1) \in Int
        BY <2>4, Quotient
  <2>6. QED
        BY <2>3, <2>5 DEF Divided
<1>4. QED
  BY <1>1, <1>2, <1>3

\* Ema is the function its definition describes.
LEMMA EmaDefined ==
  ASSUME NEW c \in History, NEW period \in Nat \ {0}
  PROVE  \A i \in period..Len(c) :
           Ema(c, period)[i] = IF i = period THEN FirstEma(c, period)
                               ELSE NextEma(c, period, i, Ema(c, period)[i - 1])
<1>1. PICK n \in Nat : n = Len(c)
      BY HistoryCandles
<1> DEFINE Is(g) == g = [i \in period..n |-> IF i = period THEN FirstEma(c, period)
                                             ELSE NextEma(c, period, i, g[i - 1])]
           Step == [i \in period..n |-> [v \in Int |-> NextEma(c, period, i, v)]]
           it == CHOOSE g : Is(g)
<1>2. Ema(c, period) = it
      BY <1>1 DEF Ema, FirstEma, NextEma
<1>3. CASE period > n
      BY <1>1, <1>3
<1>4. CASE period <= n
  <2>1. PICK V : V = Int
        OBVIOUS
  <2>2. FirstEma(c, period) \in V
        BY <2>1, <1>1, <1>4, EmaType
  <2>3. StepsIn(period..n, V, Step)
        BY <2>1, <1>1, EmaType DEF StepsIn
  <2>4. \A i \in period..n, v \in Int : Step[i][v] = NextEma(c, period, i, v)
        OBVIOUS
  <2> HIDE DEF Step
  <2>5. PICK g \in [period..n -> V] : Follows(g, period, n, FirstEma(c, period), Step)
    <3>1. period \in Int /\ n \in Int
          OBVIOUS
    <3>2. \E g \in [period..n -> V] : Follows(g, period, n, FirstEma(c, period), Step)
          BY <3>1, <2>2, <2>3, Recursion
    <3>3. QED
          BY <3>2
  <2>6. \A i \in period..n : g[i] = IF i = period THEN FirstEma(c, period)
                                    ELSE NextEma(c, period, i, g[i - 1])
    <3> SUFFICES ASSUME NEW i \in period..n
                 PROVE  g[i] = IF i = period THEN FirstEma(c, period)
                               ELSE NextEma(c, period, i, g[i - 1])
        OBVIOUS
    <3>1. i # period => i - 1 \in period..n
          OBVIOUS
    <3>2. i # period => g[i - 1] \in Int
          BY <3>1, <2>1
    <3>3. QED
          BY <3>2, <2>4, <2>5 DEF Follows
  <2>7. Is(g)
        BY <2>6
  <2> HIDE DEF Is
  <2>8. Is(it)
        BY <2>7
  <2>9. QED
        BY <2>8, <1>1, <1>2 DEF Is
<1>5. QED
  BY <1>1, <1>3, <1>4

\* An average of the past stays.
LEMMA EmaStays ==
  ASSUME NEW c \in History, NEW d \in History, Extends(c, d), NEW period \in Nat \ {0}
  PROVE  \A i \in period..Len(c) : Ema(d, period)[i] = Ema(c, period)[i]
<1>1. PICK n \in Nat, m \in Nat : n = Len(c) /\ m = Len(d) /\ n <= m
      BY ExtendsRange
<1>2. CASE period > n
      BY <1>1, <1>2
<1>3. CASE period <= n
  <2> DEFINE T == {i \in period..n : Ema(d, period)[i] = Ema(c, period)[i]}
  <2>1. \A j \in 1..n : d[j] = c[j]
        BY <1>1 DEF Extends
  <2>2. period \in T
    <3>1. \A j \in 1..period : j \in 1..n
          BY <1>3
    <3>2. [j \in 1..period |-> d[j].close] = [j \in 1..period |-> c[j].close]
          BY <3>1, <2>1
    <3>3. FirstEma(d, period) = FirstEma(c, period)
          BY <3>2 DEF FirstEma
    <3>4. period \in period..n /\ period \in period..m
          BY <1>1, <1>3
    <3>5. QED
          BY <3>3, <3>4, <1>1, EmaDefined
  <2>3. ASSUME NEW i \in period..(n - 1), i \in T PROVE i + 1 \in T
    <3>1. i + 1 \in period..n /\ i + 1 \in period..m /\ i + 1 # period /\ (i + 1) - 1 = i /\ i + 1 \in 1..n
          BY <1>1, <1>3
    <3>2. /\ Ema(d, period)[i + 1] = NextEma(d, period, i + 1, Ema(d, period)[i])
          /\ Ema(c, period)[i + 1] = NextEma(c, period, i + 1, Ema(c, period)[i])
          BY <3>1, <1>1, EmaDefined
    <3>3. d[i + 1] = c[i + 1]
          BY <3>1, <2>1
    <3>4. QED
          BY <3>1, <3>2, <3>3, <2>3 DEF NextEma
  <2> HIDE DEF T
  <2>4. period..n \subseteq T
    <3>1. period \in Int /\ n \in Int
          OBVIOUS
    <3>2. QED
          BY <3>1, <2>2, <2>3, UpTo
  <2>5. QED
        BY <2>4, <1>1 DEF T
<1>4. QED
  BY <1>1, <1>2, <1>3

\* A smoothed sum depends on the changes up to its candle only.
LEMMA SmoothedSame ==
  ASSUME NEW n \in Nat, NEW a, NEW b, \A j \in 2..n : a[j] = b[j]
  PROVE  Smoothed(a, n) = Smoothed(b, n)
<1> DEFINE Sums(x, g) == [i \in (RsiPeriod + 1)..n |->
             IF i = RsiPeriod + 1 THEN SumFunction([j \in 2..i |-> x[j]])
             ELSE Decayed(g[i - 1] * (RsiPeriod - 1), RsiPeriod) + x[i]]
           Is(x, g) == g = Sums(x, g)
<1>1. RsiPeriod \in Nat \ {0}
      BY FollowingConstants
<1>2. ASSUME NEW i \in (RsiPeriod + 1)..n
      PROVE  a[i] = b[i] /\ [j \in 2..i |-> a[j]] = [j \in 2..i |-> b[j]]
  <2>1. i \in 2..n /\ \A j \in 2..i : j \in 2..n
        BY <1>1
  <2>2. QED
        BY <2>1
<1>3. \A g : Sums(a, g) = Sums(b, g)
      BY <1>2
<1>4. \A g : Is(a, g) <=> Is(b, g)
      BY <1>3
<1>5. /\ Smoothed(a, n) = (CHOOSE g : Is(a, g))[n]
      /\ Smoothed(b, n) = (CHOOSE g : Is(b, g))[n]
      BY DEF Smoothed
<1> HIDE DEF Is
<1>6. (CHOOSE g : Is(a, g)) = (CHOOSE g : Is(b, g))
      BY <1>4
<1>7. QED
  BY <1>5, <1>6

\* Rises and falls up to a candle stay, and so does the RSI.
LEMMA RsiStays ==
  ASSUME NEW c \in History, NEW d \in History, Extends(c, d), NEW i \in 1..Len(c), NEW limit
  PROVE  /\ RsiBelow(d, i, limit) <=> RsiBelow(c, i, limit)
         /\ RsiAbove(d, i, limit) <=> RsiAbove(c, i, limit)
<1>1. PICK n \in Nat, m \in Nat : n = Len(c) /\ m = Len(d) /\ n <= m
      BY ExtendsRange
<1>2. i \in Nat /\ i \in 1..n
      BY <1>1
<1>3. ASSUME NEW j \in 2..i PROVE Gains(d)[j] = Gains(c)[j] /\ Losses(d)[j] = Losses(c)[j]
  <2>1. j \in 1..n /\ j - 1 \in 1..n /\ j \in 2..n /\ j \in 2..m
        BY <1>1, <1>2
  <2>2. d[j] = c[j] /\ d[j - 1] = c[j - 1]
        BY <2>1, <1>1 DEF Extends
  <2>3. QED
        BY <2>1, <2>2, <1>1 DEF Gains, Losses
<1>4. Smoothed(Gains(d), i) = Smoothed(Gains(c), i)
      BY <1>2, <1>3, SmoothedSame
<1>5. Smoothed(Losses(d), i) = Smoothed(Losses(c), i)
      BY <1>2, <1>3, SmoothedSame
<1>6. QED
  BY <1>4, <1>5 DEF RsiBelow, RsiAbove

\* The largest of the periods, and two candles more, is behind a candle that may
\* signal.
LEMMA WarmupBehind ==
  /\ Warmup \in Int
  /\ Warmup >= SlowEma + 2 /\ Warmup >= TrendEma + 2 /\ Warmup >= AtrPeriod + 2
<1> DEFINE x == SlowEma
           y == TrendEma
           z == AtrPeriod
<1>1. x \in Nat /\ y \in Nat /\ z \in Nat
      BY FollowingConstants
<1>2. Warmup = Max({x, y, z}) + 2
      BY DEF Warmup
<1> HIDE DEF x, y, z
<1>3. \E u \in {x, y, z} : \A v \in {x, y, z} : u >= v
  <2>1. CASE x >= y /\ x >= z
        BY <2>1, <1>1
  <2>2. CASE y >= x /\ y >= z
        BY <2>2, <1>1
  <2>3. CASE z >= x /\ z >= y
        BY <2>3, <1>1
  <2>4. QED
        BY <2>1, <2>2, <2>3, <1>1
<1>4. Max({x, y, z}) \in {x, y, z} /\ \A v \in {x, y, z} : Max({x, y, z}) >= v
      BY <1>3 DEF Max
<1> DEFINE top == Max({x, y, z})
<1>5. top \in Nat /\ top >= x /\ top >= y /\ top >= z /\ Warmup = top + 2
      BY <1>1, <1>2, <1>4
<1> HIDE DEF top
<1>6. Warmup \in Int /\ Warmup >= x + 2 /\ Warmup >= y + 2 /\ Warmup >= z + 2
      BY <1>1, <1>5
<1>7. QED
  BY <1>6 DEF x, y, z

\* The larger of two periods.
LEMMA LargerPeriod ==
  ASSUME NEW a \in Nat, NEW b \in Nat
  PROVE  Max({a, b}) \in Nat /\ Max({a, b}) >= a /\ Max({a, b}) >= b
<1>1. \E u \in {a, b} : \A v \in {a, b} : u >= v
  <2>1. CASE a >= b
        BY <2>1
  <2>2. CASE b >= a
        BY <2>2
  <2>3. QED
        BY <2>1, <2>2
<1>2. Max({a, b}) \in {a, b} /\ \A v \in {a, b} : Max({a, b}) >= v
      BY <1>1 DEF Max
<1>3. QED
  BY <1>2

\* Later candles change no cross of the averages.
LEMMA CrossStays ==
  ASSUME NEW c \in History, NEW d \in History, Extends(c, d), NEW i \in 1..Len(c)
  PROVE  Cross(d, i) = Cross(c, i)
<1>1. PICK n \in Nat, m \in Nat : n = Len(c) /\ m = Len(d) /\ n <= m
      BY ExtendsRange
<1>2. FastEma \in Nat \ {0} /\ SlowEma \in Nat \ {0}
      BY FollowingConstants
<1> DEFINE top == Max({FastEma, SlowEma})
<1>3. top \in Nat /\ top >= FastEma /\ top >= SlowEma
      BY <1>2, LargerPeriod
<1>4. CASE i - 1 < top
      BY <1>4 DEF Cross
<1>5. CASE ~(i - 1 < top)
  <2> HIDE DEF top
  <2>1. /\ i \in FastEma..n /\ i - 1 \in FastEma..n /\ i \in SlowEma..n /\ i - 1 \in SlowEma..n
        BY <1>1, <1>2, <1>3, <1>5
  <2>2. /\ Ema(d, FastEma)[i] = Ema(c, FastEma)[i] /\ Ema(d, FastEma)[i - 1] = Ema(c, FastEma)[i - 1]
        /\ Ema(d, SlowEma)[i] = Ema(c, SlowEma)[i] /\ Ema(d, SlowEma)[i - 1] = Ema(c, SlowEma)[i - 1]
        BY <2>1, <1>1, <1>2, EmaStays
  <2>3. QED
        BY <2>2 DEF Cross
<1>6. QED
  BY <1>4, <1>5

\* Later candles change no extreme of the ATR.
LEMMA ExtremeStays ==
  ASSUME NEW c \in History, NEW d \in History, Extends(c, d), NEW i \in 1..Len(c)
  PROVE  Extreme(d, i) <=> Extreme(c, i)
<1>1. PICK n \in Nat, m \in Nat : n = Len(c) /\ m = Len(d) /\ n <= m
      BY ExtendsRange
<1>2. DOMAIN c = 1..n /\ DOMAIN d = 1..m
      BY <1>1, HistoryCandles
<1> DEFINE old == {j \in MeanWindow(c, i) \cap DOMAIN c : Atr(c)[j] # NoAtr}
           new == {j \in MeanWindow(d, i) \cap DOMAIN d : Atr(d)[j] # NoAtr}
<1>3. MeanWindow(d, i) = MeanWindow(c, i) /\ \A j \in MeanWindow(c, i) : j <= i /\ j \in Int
      BY FollowingConstants DEF MeanWindow
<1>4. \A j \in 1..n : Atr(d)[j] = Atr(c)[j]
      BY <1>1, AtrPrefix
<1>5. MeanWindow(c, i) \cap 1..m = MeanWindow(c, i) \cap 1..n
      BY <1>1, <1>3
<1>6. old = new /\ old \subseteq 1..n
      BY <1>2, <1>3, <1>4, <1>5
<1>7. [j \in new |-> Atr(d)[j]] = [j \in old |-> Atr(c)[j]]
      BY <1>4, <1>6
<1>8. Atr(d)[i] = Atr(c)[i]
      BY <1>1, <1>4
<1>9. /\ Extreme(c, i) <=> /\ i >= MeanPeriod
                           /\ 100 * Atr(c)[i] * Cardinality(old) > MaxAtr * SumFunction([j \in old |-> Atr(c)[j]])
      /\ Extreme(d, i) <=> /\ i >= MeanPeriod
                           /\ 100 * Atr(d)[i] * Cardinality(new) > MaxAtr * SumFunction([j \in new |-> Atr(d)[j]])
      BY DEF Extreme
<1> HIDE DEF old, new
<1>10. QED
  BY <1>6, <1>7, <1>8, <1>9

\* A signal of the past stays, and none is added to it.
LEMMA JustifiedStays ==
  ASSUME NEW c \in History, NEW d \in History, Extends(c, d), NEW i \in (Warmup + 1)..Len(c),
         NEW side
  PROVE  /\ Justified(d, i, side) <=> Justified(c, i, side)
         /\ Levels100(d, i, side) = Levels100(c, i, side)
<1>1. PICK n \in Nat, m \in Nat : n = Len(c) /\ m = Len(d) /\ n <= m
      BY ExtendsRange
<1>2. TrendEma \in Nat \ {0} /\ i \in 1..n /\ i \in TrendEma..n
  <2>1. TrendEma \in Nat \ {0} /\ Warmup \in Int /\ Warmup >= TrendEma + 2
        BY WarmupBehind, FollowingConstants
  <2>2. QED
        BY <2>1, <1>1
<1>3. d[i] = c[i]
      BY <1>1, <1>2 DEF Extends
<1>4. Ema(d, TrendEma)[i] = Ema(c, TrendEma)[i]
      BY <1>1, <1>2, EmaStays
<1>5. Atr(d)[i] = Atr(c)[i]
      BY <1>1, <1>2, AtrPrefix
<1>6. /\ Cross(d, i) = Cross(c, i)
      /\ Extreme(d, i) <=> Extreme(c, i)
      /\ RsiBelow(d, i, RsiBuyMax) <=> RsiBelow(c, i, RsiBuyMax)
      /\ RsiAbove(d, i, RsiSellMin) <=> RsiAbove(c, i, RsiSellMin)
      BY <1>1, <1>2, CrossStays, ExtremeStays, RsiStays
<1>7. Justified(d, i, side) <=> Justified(c, i, side)
      BY <1>3, <1>4, <1>6 DEF Justified
<1>8. Levels100(d, i, side) = Levels100(c, i, side)
      BY <1>3, <1>5 DEF Levels100
<1>9. QED
  BY <1>7, <1>8

Follow(c, side, i) == [direction |-> side, idx |-> i, levels |-> Levels100(c, i, side)]
MayFollow(c, side, i) ==
  side \in Sides /\ i \in (Warmup + 1)..Len(c) /\ HasRsi(i) /\ Justified(c, i, side)

\* The signals are those the candles that may be followed give.
LEMMA FollowedAre ==
  ASSUME NEW c, ~(Len(c) < TrendEma + MoreHistory)
  PROVE  \A s : s \in Followed(c) <=> \E side, i : MayFollow(c, side, i) /\ s = Follow(c, side, i)
<1> SUFFICES ASSUME NEW s
             PROVE  s \in Followed(c) <=> \E side, i : MayFollow(c, side, i) /\ s = Follow(c, side, i)
    OBVIOUS
<1>1. Followed(c) =
        {[direction |-> p[1], idx |-> p[2], levels |-> Levels100(c, p[2], p[1])] :
          p \in {q \in Sides \X ((Warmup + 1)..Len(c)) :
                   HasRsi(q[2]) /\ Justified(c, q[2], q[1])}}
      BY DEF Followed
<1>2. ASSUME s \in Followed(c) PROVE \E side, i : MayFollow(c, side, i) /\ s = Follow(c, side, i)
  <2>1. PICK p \in Sides \X ((Warmup + 1)..Len(c)) :
          /\ HasRsi(p[2]) /\ Justified(c, p[2], p[1])
          /\ s = [direction |-> p[1], idx |-> p[2], levels |-> Levels100(c, p[2], p[1])]
        BY <1>1, <1>2
  <2>2. MayFollow(c, p[1], p[2]) /\ s = Follow(c, p[1], p[2])
        BY <2>1 DEF MayFollow, Follow
  <2>3. QED
        BY <2>2
<1>3. ASSUME NEW side, NEW i, MayFollow(c, side, i), s = Follow(c, side, i) PROVE s \in Followed(c)
  <2>1. <<side, i>> \in {q \in Sides \X ((Warmup + 1)..Len(c)) : HasRsi(q[2]) /\ Justified(c, q[2], q[1])}
        BY <1>3 DEF MayFollow
  <2>2. s = [direction |-> <<side, i>>[1], idx |-> <<side, i>>[2],
             levels |-> Levels100(c, <<side, i>>[2], <<side, i>>[1])]
        BY <1>3 DEF Follow
  <2>3. QED
        BY <2>1, <2>2, <1>1
<1>4. QED
  BY <1>2, <1>3

\* Later candles add signals, behind those of the shorter history.
LEMMA FollowedStays ==
  ASSUME NEW c \in History, NEW d \in History, Extends(c, d), Len(c) >= TrendEma + MoreHistory
  PROVE  Followed(c) = {s \in Followed(d) : s.idx <= Len(c)}
<1>1. PICK n \in Nat, m \in Nat : n = Len(c) /\ m = Len(d) /\ n <= m
      BY ExtendsRange
<1>2. ~(Len(c) < TrendEma + MoreHistory) /\ ~(Len(d) < TrendEma + MoreHistory)
      BY <1>1, FollowingConstants
<1>3. \A i : /\ i \in (Warmup + 1)..n => i <= n /\ i \in (Warmup + 1)..m
             /\ i \in (Warmup + 1)..m /\ i <= n => i \in (Warmup + 1)..n
      BY <1>1, WarmupBehind
<1>4. ASSUME NEW i \in (Warmup + 1)..n, NEW side
      PROVE  (MayFollow(d, side, i) <=> MayFollow(c, side, i)) /\ Follow(d, side, i) = Follow(c, side, i)
  <2>1. (Justified(d, i, side) <=> Justified(c, i, side)) /\ Levels100(d, i, side) = Levels100(c, i, side)
        BY <1>1, JustifiedStays
  <2>2. QED
        BY <2>1, <1>1, <1>3 DEF MayFollow, Follow
<1>5. \A x, side, i : Follow(x, side, i).idx = i
      BY DEF Follow
<1>6. /\ \A side, i : MayFollow(c, side, i) => i \in (Warmup + 1)..n
      /\ \A side, i : MayFollow(d, side, i) => i \in (Warmup + 1)..m
      BY <1>1 DEF MayFollow
<1>7. ASSUME NEW s \in Followed(c) PROVE s \in Followed(d) /\ s.idx <= n
  <2>1. PICK side, i : MayFollow(c, side, i) /\ s = Follow(c, side, i)
        BY <1>2, FollowedAre
  <2>2. i \in (Warmup + 1)..n /\ i <= n
        BY <2>1, <1>3, <1>6
  <2>3. MayFollow(d, side, i) /\ s = Follow(d, side, i)
        BY <2>1, <2>2, <1>4
  <2>4. QED
        BY <2>1, <2>2, <2>3, <1>2, <1>5, FollowedAre
<1>8. ASSUME NEW s \in Followed(d), s.idx <= n PROVE s \in Followed(c)
  <2>1. PICK side, i : MayFollow(d, side, i) /\ s = Follow(d, side, i)
        BY <1>2, FollowedAre
  <2>2. i \in (Warmup + 1)..n
        BY <2>1, <1>3, <1>5, <1>6, <1>8
  <2>3. MayFollow(c, side, i) /\ s = Follow(c, side, i)
        BY <2>1, <2>2, <1>4
  <2>4. QED
        BY <2>3, <1>2, FollowedAre
<1>9. QED
  BY <1>1, <1>7, <1>8

\* Only a new hour changes the rows, by one candle.
LEMMA RowsGrow ==
  ASSUME CacheDrawn, [StrategiesNext]_strategyVars, Len(rows') > Len(rows)
  PROVE  /\ rows \in History /\ rows' \in History /\ Extends(rows, rows')
         /\ Len(rows') = Len(rows) + 1
<1>1. PICK n \in Nat : n = Len(rows) /\ rows \in History
      BY HistoryCandles DEF CacheDrawn, RowsOK
<1>2. rows' # rows
      BY <1>1
<1>3. HourBegins
      BY <1>2 DEF StrategiesNext, Ict, Trend, TrendNext, Ask, Fresh, strategyVars, trendVars
<1>4. CacheDrawn'
      BY <1>3, HourStep
<1>5. PICK b : rows' = Append(rows, b)
      BY <1>3 DEF HourBegins
<1>6. rows' \in History
      BY <1>4 DEF CacheDrawn, RowsOK
<1>7. rows \in Seq(Candle) /\ b \in Candle
  <2>1. rows \in Seq(Candle)
        BY <1>1 DEF History
  <2>2. b \in Candle
    <3>1. PICK x \in Shapes[n + 1] : rows' = Append(rows, x)
          BY <1>1, <1>3 DEF HourBegins
    <3>2. n + 1 \in 1..Hours
          BY <1>1, <1>3, TrendConfluenceAssumption DEF HourBegins
    <3>3. x \in Candle
          BY <3>2, ShapesAreCandles
    <3>4. Append(rows, x)[n + 1] = x /\ Append(rows, b)[n + 1] = b
          BY <1>1, <2>1
    <3>5. QED
          BY <3>1, <3>3, <3>4, <1>5
  <2>3. QED
        BY <2>1, <2>2
<1>8. Len(rows') = n + 1 /\ \A i \in 1..n : rows'[i] = rows[i]
      BY <1>1, <1>5, <1>7
<1>9. QED
  BY <1>1, <1>6, <1>8 DEF Extends

\* Along every sequence of hours, later candles change no swing, break, block or
\* signal of the past: what is said of a candle uses none after it (module
\* Strategies, HistoryFixed).
THEOREM NoLookahead == StrategiesSpec => HistoryFixed
<1> DEFINE Kept == Len(rows') > Len(rows) =>
                     /\ StructureStays
                     /\ Len(rows) >= TrendEma + MoreHistory =>
                          Followed(rows) = {s \in Followed(rows') : s.idx <= Len(rows)}
<1>1. CacheDrawn /\ [StrategiesNext]_strategyVars => Kept
  <2> SUFFICES ASSUME CacheDrawn, [StrategiesNext]_strategyVars, Len(rows') > Len(rows)
               PROVE  /\ StructureStays
                      /\ Len(rows) >= TrendEma + MoreHistory =>
                           Followed(rows) = {s \in Followed(rows') : s.idx <= Len(rows)}
      OBVIOUS
  <2>1. /\ rows \in History /\ rows' \in History /\ Extends(rows, rows')
        /\ Len(rows') = Len(rows) + 1
        BY RowsGrow
  <2>2. StructureStays
        BY <2>1, StructureKept
  <2>3. PICK c, d : c = rows /\ d = rows'
        OBVIOUS
  <2>4. Len(c) >= TrendEma + MoreHistory => Followed(c) = {s \in Followed(d) : s.idx <= Len(c)}
        BY <2>1, <2>3, FollowedStays
  <2>5. QED
        BY <2>2, <2>3, <2>4
<1>2. QED
  BY <1>1, CacheAlways, PTL DEF StrategiesSpec, HistoryFixed

-----------------------------------------------------------------------------
(* What becomes of the lines between known swings.                         *)

\* A line between two consecutive swings, whatever the candles between do.
Between(c, line) ==
  /\ line.type \in Kinds
  /\ line.a \in Swings(c, line.type) /\ line.b \in Swings(c, line.type)
  /\ Consecutive(Swings(c, line.type), line.a, line.b)
  /\ line = Line(c, line.type, line.a, line.b)

Valid(c, line, band) ==
  /\ WithTrend(line) /\ ~Violated(c, line, band)
  /\ Cardinality(Touches(c, line, band)) >= MinTouches

\* The chained lines are the valid ones between consecutive swings.
LEMMA ChainedLinesAre ==
  ASSUME NEW c, NEW line
  PROVE  line \in ChainedLines(c) <=>
           ~(Len(c) < MinLineBars) /\ Between(c, line) /\ Valid(c, line, MeanAtr(c))
<1>1. ASSUME line \in ChainedLines(c)
      PROVE  ~(Len(c) < MinLineBars) /\ Between(c, line) /\ Valid(c, line, MeanAtr(c))
  <2>1. ~(Len(c) < MinLineBars) /\ Valid(c, line, MeanAtr(c))
        BY <1>1 DEF ChainedLines, Valid
  <2>2. PICK kind \in Kinds :
          \E p \in Swings(c, kind) \X Swings(c, kind) :
            line = Line(c, kind, p[1], p[2]) /\ Consecutive(Swings(c, kind), p[1], p[2])
        BY <1>1 DEF ChainedLines
  <2>3. PICK a \in Swings(c, kind), b \in Swings(c, kind) :
          line = Line(c, kind, a, b) /\ Consecutive(Swings(c, kind), a, b)
        BY <2>2
  <2>4. line.type = kind /\ line.a = a /\ line.b = b
        BY <2>3 DEF Line
  <2>5. QED
        BY <2>1, <2>3, <2>4 DEF Between
<1>2. ASSUME ~(Len(c) < MinLineBars), Between(c, line), Valid(c, line, MeanAtr(c))
      PROVE  line \in ChainedLines(c)
  <2> DEFINE kind == line.type
             swings == Swings(c, kind)
             p == <<line.a, line.b>>
  <2>1. kind \in Kinds /\ p \in swings \X swings /\ Consecutive(swings, p[1], p[2])
        /\ line = Line(c, kind, p[1], p[2])
        BY <1>2 DEF Between
  <2> HIDE DEF p
  <2>2. line \in {Line(c, kind, q[1], q[2]) :
                    q \in {r \in swings \X swings : Consecutive(swings, r[1], r[2])}}
        BY <2>1
  <2>3. QED
        BY <2>1, <2>2, <1>2 DEF ChainedLines, Valid
<1>3. QED
  BY <1>1, <1>2

\* The band is a sum of whole numbers over their number.
LEMMA MeanAtrType ==
  ASSUME NEW c \in History
  PROVE  MeanAtr(c).sum \in Int /\ MeanAtr(c).count \in Nat
<1> DEFINE finite == {i \in DOMAIN c : Atr(c)[i] # NoAtr}
           f == [i \in finite |-> Atr(c)[i]]
<1>1. DOMAIN c = 1..Len(c) /\ Len(c) \in Nat
      BY HistoryCandles
<1>2. IsFiniteSet(finite)
  <2>1. IsFiniteSet(1..Len(c))
        BY <1>1, FS_Interval
  <2>2. finite \subseteq 1..Len(c)
        BY <1>1
  <2>3. QED
        BY <2>1, <2>2, FS_Subset
<1>3. f \in [finite -> Int]
      BY <1>1, AtrDefined
<1>4. MeanAtr(c).sum = SumFunction(f) /\ MeanAtr(c).count = Cardinality(finite)
      BY DEF MeanAtr
<1> HIDE DEF finite, f
<1>5. SumFunction(f) \in Int /\ Cardinality(finite) \in Nat
      BY <1>2, <1>3, SumType, FS_CardinalityType
<1>6. QED
  BY <1>4, <1>5

\* Where there is a swing there is a band.
LEMMA SwingHasBand ==
  ASSUME NEW c \in History, NEW kind, NEW s \in Swings(c, kind)
  PROVE  MeanAtr(c).count > 0
<1> DEFINE finite == {i \in DOMAIN c : Atr(c)[i] # NoAtr}
<1>1. DOMAIN c = 1..Len(c) /\ Len(c) \in Nat
      BY HistoryCandles
<1>2. s \in 1..Len(c) /\ Atr(c)[s] # NoAtr
      BY SwingsInside DEF Swings, SwingHighs, SwingLows, TallEnough
<1>3. s \in finite
      BY <1>1, <1>2
<1>4. IsFiniteSet(finite)
  <2>1. IsFiniteSet(1..Len(c))
        BY <1>1, FS_Interval
  <2>2. finite \subseteq 1..Len(c)
        BY <1>1
  <2>3. QED
        BY <2>1, <2>2, FS_Subset
<1>5. MeanAtr(c).count = Cardinality(finite)
      BY DEF MeanAtr
<1> HIDE DEF finite
<1>6. Cardinality(finite) \in Nat /\ Cardinality(finite) # 0
      BY <1>3, <1>4, FS_CardinalityType, FS_EmptySet
<1>7. QED
  BY <1>5, <1>6

\* A fraction over one bound and within another: the bound grew.
LEMMA FractionGrows ==
  ASSUME NEW A \in Int, NEW P \in Nat, NEW m \in Nat \ {0}, NEW n \in Nat \ {0},
         NEW s \in Int, NEW t \in Int, A * n <= P * t, A * m > P * s
  PROVE  t * m > s * n
<1>1. (A * n) * m <= (P * t) * m
  <2> DEFINE u == A * n
             v == P * t
  <2>1. u \in Int /\ v \in Int /\ u <= v
        OBVIOUS
  <2> HIDE DEF u, v
  <2>2. u * m <= v * m
        BY <2>1
  <2>3. QED
        BY <2>2 DEF u, v
<1>2. (A * m) * n > (P * s) * n
  <2> DEFINE u == A * m
             v == P * s
  <2>1. u \in Int /\ v \in Int /\ u > v
        OBVIOUS
  <2> HIDE DEF u, v
  <2>2. u * n > v * n
        BY <2>1
  <2>3. QED
        BY <2>2 DEF u, v
<1>3. (A * n) * m = (A * m) * n
      OBVIOUS
<1>4. (P * t) * m = P * (t * m) /\ (P * s) * n = P * (s * n)
      OBVIOUS
<1> DEFINE x == t * m
           y == s * n
           z == (A * m) * n
<1>5. x \in Int /\ y \in Int /\ z \in Int /\ P * x \in Int /\ P * y \in Int
      OBVIOUS
<1>6. P * x >= z /\ z > P * y
      BY <1>1, <1>2, <1>3, <1>4
<1> HIDE DEF x, y, z
<1>7. P * x > P * y
      BY <1>5, <1>6
<1>8. x > y
  <2> SUFFICES ASSUME x <= y PROVE FALSE
      BY <1>5
  <2>1. P * x <= P * y
        BY <1>5
  <2>2. QED
        BY <1>5, <1>7, <2>1
<1>9. QED
  BY <1>8 DEF x, y

\* A line in whole numbers, and how far a candle is off it.
LEMMA OffType ==
  ASSUME NEW c \in History, NEW line, Between(c, line), NEW k \in line.a..line.b
  PROVE  /\ line.a \in 1..Len(c) /\ line.b \in 1..Len(c) /\ k \in 1..Len(c)
         /\ Off(c, line, k) \in Int /\ Length(line) \in Nat \ {0}
<1>1. PICK n \in Nat : n = Len(c)
      BY HistoryCandles
<1>2. line.a \in 1..n /\ line.b \in 1..n /\ line.a < line.b
      BY <1>1, SwingsInside DEF Between, Consecutive
<1>3. PICK a \in 1..n, b \in 1..n : line.a = a /\ line.b = b /\ a < b
      BY <1>2
<1>4. k \in 1..n /\ b - a \in Nat \ {0} /\ k - a \in Int
      BY <1>3
<1>5. \A j \in 1..n : \A kind : Wick(c, kind, j) \in Int
      BY <1>1, HistoryCandles DEF Wick
<1>6. line.start = Wick(c, line.type, a) /\ line.end = Wick(c, line.type, b)
      BY <1>3 DEF Between, Line
<1> DEFINE w == Wick(c, line.type, k)
           l == b - a
           x == line.start
           y == line.end
           p == k - a
<1>7. w \in Int /\ l \in Int /\ x \in Int /\ y \in Int /\ p \in Int
      BY <1>4, <1>5, <1>6
<1>8. Off(c, line, k) = w * l - (x * l + (y - x) * p)
      BY <1>3 DEF Off, Value, Length
<1> HIDE DEF w, l, x, y, p
<1>9. Off(c, line, k) \in Int
      BY <1>7, <1>8
<1>10. Length(line) = b - a
       BY <1>3 DEF Length
<1>11. QED
  BY <1>1, <1>2, <1>4, <1>9, <1>10

\* A candle that a band holds and another one does not: the first is wider.
LEMMA NearGrows ==
  ASSUME NEW c \in History, NEW line, Between(c, line), NEW k \in line.a..line.b,
         NEW old, NEW new, old.sum \in Int, new.sum \in Int,
         old.count \in Nat \ {0}, new.count \in Nat \ {0},
         Near(c, line, new, k), ~Near(c, line, old, k)
  PROVE  BandGrows(old, new)
<1> DEFINE off == Off(c, line, k)
           x == Abs(off)
           l == Length(line)
           m == old.count
           n == new.count
           s == old.sum
           t == new.sum
           A == 100 * x
           P == Tolerance * l
<1>1. x \in Int /\ l \in Nat
  <2>1. off \in Int /\ l \in Nat
        BY OffType
  <2> HIDE DEF off
  <2>2. QED
        BY <2>1 DEF Abs
<1>2. Tolerance \in Nat
      BY IndicatorsAssumption
<1>3. m \in Nat \ {0} /\ n \in Nat \ {0} /\ s \in Int /\ t \in Int
      OBVIOUS
<1>4. 100 * n * x <= Tolerance * t * l /\ ~(100 * m * x <= Tolerance * s * l)
      BY DEF Near
<1> HIDE DEF x, l, m, n, s, t
<1>5. /\ 100 * n * x = A * n /\ 100 * m * x = A * m
      /\ Tolerance * t * l = P * t /\ Tolerance * s * l = P * s
      BY <1>1, <1>2, <1>3
<1>6. A \in Int /\ P \in Nat
      BY <1>1, <1>2
<1> HIDE DEF A, P
<1>7. A * m \in Int /\ P * s \in Int
      BY <1>3, <1>6
<1>8. A * n <= P * t /\ A * m > P * s
      BY <1>4, <1>5, <1>7
<1>9. t * m > s * n
      BY <1>3, <1>6, <1>8, FractionGrows
<1>10. QED
  BY <1>9 DEF BandGrows, m, n, s, t

\* A line that one band confirms and another one does not: the first is wider.
LEMMA ValidGrows ==
  ASSUME NEW c \in History, NEW line, Between(c, line),
         NEW old, NEW new, old.sum \in Int, new.sum \in Int,
         old.count \in Nat \ {0}, new.count \in Nat \ {0},
         Valid(c, line, new), ~Valid(c, line, old)
  PROVE  BandGrows(old, new)
<1>1. SUFFICES ASSUME \A k \in line.a..line.b : Near(c, line, new, k) => Near(c, line, old, k)
               PROVE  FALSE
      BY NearGrows
<1>2. ~Violated(c, line, old)
  <2>1. ~Violated(c, line, new)
        BY DEF Valid
  <2>2. QED
        BY <2>1, <1>1 DEF Violated
<1>3. Cardinality(Touches(c, line, old)) >= MinTouches
  <2>1. line.a \in Int /\ line.b \in Int
    <3>1. line.a \in 1..Len(c) /\ line.b \in 1..Len(c)
          BY SwingsInside DEF Between
    <3>2. PICK n \in Nat : n = Len(c)
          BY HistoryCandles
    <3>3. QED
          BY <3>1, <3>2
  <2>2. IsFiniteSet(line.a..line.b)
        BY <2>1, FS_Interval
  <2>3. /\ Touches(c, line, old) \subseteq line.a..line.b
        /\ Touches(c, line, new) \subseteq Touches(c, line, old)
        BY <1>1 DEF Touches
  <2>4. IsFiniteSet(Touches(c, line, old)) /\ IsFiniteSet(Touches(c, line, new))
        BY <2>2, <2>3, FS_Subset
  <2>5. /\ Cardinality(Touches(c, line, old)) \in Nat /\ Cardinality(Touches(c, line, new)) \in Nat
        /\ Cardinality(Touches(c, line, new)) <= Cardinality(Touches(c, line, old))
        BY <2>3, <2>4, FS_CardinalityType, FS_Subset
  <2>6. Cardinality(Touches(c, line, new)) >= MinTouches /\ MinTouches \in Nat
        BY IndicatorsAssumption DEF Valid
  <2>7. QED
        BY <2>5, <2>6
<1>4. QED
  BY <1>2, <1>3 DEF Valid

\* Between swings known in both histories it is the same line, and as valid.
LEMMA LineStays ==
  ASSUME NEW c \in History, NEW d \in History, Extends(c, d),
         NEW line, Between(d, line), line.b <= Len(c) - Lag
  PROVE  /\ Between(c, line)
         /\ \A band : Valid(d, line, band) <=> Valid(c, line, band)
<1>1. PICK n \in Nat, m \in Nat : n = Len(c) /\ m = Len(d) /\ n <= m
      BY ExtendsRange
<1> DEFINE kind == line.type
           a == line.a
           b == line.b
<1>2. /\ kind \in Kinds /\ a \in Swings(d, kind) /\ b \in Swings(d, kind)
      /\ Consecutive(Swings(d, kind), a, b) /\ line = Line(d, kind, a, b)
      /\ b <= n - Lag
      BY <1>1 DEF Between
<1>3. Swings(c, kind) = {s \in Swings(d, kind) : s <= n - Lag}
      BY <1>1, SwingsStay DEF Swings
<1>4. a \in 1..m /\ b \in 1..m /\ a < b
      BY <1>1, <1>2, SwingsInside DEF Consecutive
<1> HIDE DEF kind, a, b
<1>5. a <= n - Lag /\ \A k \in a..b : k \in 1..n
      BY <1>1, <1>2, <1>4 DEF Lag
<1>6. a \in Swings(c, kind) /\ b \in Swings(c, kind) /\ Consecutive(Swings(c, kind), a, b)
      BY <1>2, <1>3, <1>5 DEF Consecutive
<1>7. \A k \in a..b : Wick(c, kind, k) = Wick(d, kind, k)
  <2>1. \A k \in a..b : d[k] = c[k]
        BY <1>1, <1>5 DEF Extends
  <2>2. QED
        BY <2>1 DEF Wick
<1>8. a \in a..b /\ b \in a..b
      BY <1>4
<1>9. Line(d, kind, a, b) = Line(c, kind, a, b)
      BY <1>7, <1>8 DEF Line
<1>10. Between(c, line)
       BY <1>2, <1>6, <1>9 DEF Between, kind, a, b
<1>11. \A k \in a..b : Off(d, line, k) = Off(c, line, k)
       BY <1>7 DEF Off, kind
<1>12. \A band : \A k \in a..b : Near(d, line, band, k) <=> Near(c, line, band, k)
       BY <1>11 DEF Near
<1>13. \A band : Touches(d, line, band) = Touches(c, line, band)
       BY <1>12 DEF Touches, a, b
<1>14. \A band : Violated(d, line, band) <=> Violated(c, line, band)
       BY <1>11, <1>12 DEF Violated, a, b
<1>15. QED
  BY <1>10, <1>13, <1>14 DEF Valid

\* And a line of the shorter history is one of the longer.
LEMMA LineRemains ==
  ASSUME NEW c \in History, NEW d \in History, Extends(c, d), NEW line, Between(c, line)
  PROVE  Between(d, line) /\ line.b <= Len(c) - Lag
<1>1. PICK n \in Nat, m \in Nat : n = Len(c) /\ m = Len(d) /\ n <= m
      BY ExtendsRange
<1> DEFINE kind == line.type
           a == line.a
           b == line.b
<1>2. /\ kind \in Kinds /\ a \in Swings(c, kind) /\ b \in Swings(c, kind)
      /\ Consecutive(Swings(c, kind), a, b) /\ line = Line(c, kind, a, b)
      BY DEF Between
<1>3. Swings(c, kind) = {s \in Swings(d, kind) : s <= n - Lag}
      BY <1>1, SwingsStay DEF Swings
<1>4. a \in 1..n /\ b \in 1..n /\ a < b /\ b <= n - Lag /\ Swings(d, kind) \subseteq 1..m
      BY <1>1, <1>2, <1>3, SwingsInside DEF Consecutive
<1> HIDE DEF kind, a, b
<1>5. \A s \in 1..m : s < b => s <= n - Lag
      BY <1>1, <1>4 DEF Lag
<1>6. Consecutive(Swings(d, kind), a, b)
      BY <1>2, <1>3, <1>4, <1>5 DEF Consecutive
<1>7. d[a] = c[a] /\ d[b] = c[b]
      BY <1>1, <1>4 DEF Extends
<1>8. Line(d, kind, a, b) = Line(c, kind, a, b)
      BY <1>7 DEF Line, Wick
<1>9. QED
  BY <1>1, <1>2, <1>3, <1>4, <1>6, <1>8 DEF Between, kind, a, b

\* Only the band decides about a line between known swings.
LEMMA OnlyTheBand ==
  ASSUME NEW c \in History, NEW d \in History, Extends(c, d), ~(Len(c) < MinLineBars),
         NEW line, line.b <= Len(c) - Lag
  PROVE  /\ line \in ChainedLines(d) /\ line \notin ChainedLines(c) =>
              BandGrows(MeanAtr(c), MeanAtr(d))
         /\ line \in ChainedLines(c) /\ line \notin ChainedLines(d) =>
              BandGrows(MeanAtr(d), MeanAtr(c))
<1>1. ~(Len(d) < MinLineBars)
      BY ExtendsRange DEF MinLineBars
<1>2. /\ MeanAtr(c).sum \in Int /\ MeanAtr(c).count \in Nat
      /\ MeanAtr(d).sum \in Int /\ MeanAtr(d).count \in Nat
      BY MeanAtrType
<1>3. Between(c, line) <=> Between(d, line)
      BY LineStays, LineRemains
<1>4. ASSUME Between(c, line)
      PROVE  /\ MeanAtr(c).count \in Nat \ {0} /\ MeanAtr(d).count \in Nat \ {0}
             /\ \A band : Valid(d, line, band) <=> Valid(c, line, band)
  <2>1. Between(d, line)
        BY <1>3, <1>4
  <2>2. MeanAtr(c).count > 0 /\ MeanAtr(d).count > 0
        BY <1>4, <2>1, SwingHasBand DEF Between
  <2>3. QED
        BY <2>1, <2>2, <1>2, LineStays
<1>5. line \in ChainedLines(d) <=> Between(d, line) /\ Valid(d, line, MeanAtr(d))
      BY <1>1, ChainedLinesAre
<1>6. line \in ChainedLines(c) <=> Between(c, line) /\ Valid(c, line, MeanAtr(c))
      BY ChainedLinesAre
<1>7. QED
  BY <1>2, <1>3, <1>4, <1>5, <1>6, ValidGrows

\* Once both swings of a line are known, only a change of the mean average true
\* range lets it appear or vanish (module TrendConfluence, LinesSettled).
THEOREM LinesSettle == StrategiesSpec => LinesSettled
<1> DEFINE Kept ==
      Len(rows') > Len(rows) /\ Len(rows) >= MinLineBars =>
       LET before == Settled(ChainedLines(rows))
           after == Settled(ChainedLines(rows'))
       IN /\ after \ before # {} => BandGrows(MeanAtr(rows), MeanAtr(rows'))
          /\ before \ after # {} => BandGrows(MeanAtr(rows'), MeanAtr(rows))
<1>1. CacheDrawn /\ [StrategiesNext]_strategyVars => Kept
  <2> SUFFICES ASSUME CacheDrawn, [StrategiesNext]_strategyVars, Len(rows') > Len(rows),
                      Len(rows) >= MinLineBars
               PROVE
       LET before == Settled(ChainedLines(rows))
           after == Settled(ChainedLines(rows'))
       IN /\ after \ before # {} => BandGrows(MeanAtr(rows), MeanAtr(rows'))
          /\ before \ after # {} => BandGrows(MeanAtr(rows'), MeanAtr(rows))
      OBVIOUS
  <2>1. /\ rows \in History /\ rows' \in History /\ Extends(rows, rows')
        BY RowsGrow
  <2>2. PICK c, d : c = rows /\ d = rows'
        OBVIOUS
  <2>3. c \in History /\ d \in History /\ Extends(c, d) /\ Len(c) \in Nat /\ Len(c) >= MinLineBars
        BY <2>1, <2>2, HistoryCandles
  <2>4. ~(Len(c) < MinLineBars)
        BY <2>3 DEF MinLineBars
  <2>5. /\ Settled(ChainedLines(rows)) = {l \in ChainedLines(c) : l.b <= Len(c) - Lag}
        /\ Settled(ChainedLines(rows')) = {l \in ChainedLines(d) : l.b <= Len(c) - Lag}
        BY <2>2 DEF Settled
  <2> DEFINE before == {l \in ChainedLines(c) : l.b <= Len(c) - Lag}
             after == {l \in ChainedLines(d) : l.b <= Len(c) - Lag}
  <2>6. ASSUME after \ before # {} PROVE BandGrows(MeanAtr(c), MeanAtr(d))
    <3>1. PICK l \in after : l \notin before
          BY <2>6
    <3>2. QED
          BY <3>1, <2>3, <2>4, OnlyTheBand
  <2>7. ASSUME before \ after # {} PROVE BandGrows(MeanAtr(d), MeanAtr(c))
    <3>1. PICK l \in before : l \notin after
          BY <2>7
    <3>2. QED
          BY <3>1, <2>3, <2>4, OnlyTheBand
  <2>8. QED
        BY <2>2, <2>5, <2>6, <2>7
<1>2. QED
  BY <1>1, CacheAlways, PTL DEF StrategiesSpec, LinesSettled

-----------------------------------------------------------------------------
(* A history upside down.                                                  *)

\* d is the history c upside down, and c is d.
Reflects(c, d) ==
  /\ c \in History /\ d \in History /\ Len(d) = Len(c)
  /\ \A i \in 1..Len(c) : /\ d[i].open = -c[i].open /\ d[i].close = -c[i].close
                          /\ d[i].high = -c[i].low /\ d[i].low = -c[i].high

\* What it says of two histories, and of their candles.
LEMMA Reflection ==
  ASSUME NEW c, NEW d, Reflects(c, d)
  PROVE  /\ c \in History /\ d \in History /\ Len(c) \in Nat /\ Len(d) = Len(c)
         /\ DOMAIN c = 1..Len(c) /\ DOMAIN d = 1..Len(c)
         /\ \A i \in 1..Len(c) :
              /\ c[i].open \in Int /\ c[i].close \in Int /\ c[i].high \in Int /\ c[i].low \in Int
              /\ d[i].open = -c[i].open /\ d[i].close = -c[i].close
              /\ d[i].high = -c[i].low /\ d[i].low = -c[i].high
BY HistoryCandles DEF Reflects

\* Turned twice, it is the same.
LEMMA ReflectedBack ==
  ASSUME NEW c, NEW d, Reflects(c, d)
  PROVE  Reflects(d, c)
<1>1. PICK n \in Nat : n = Len(c) /\ n = Len(d)
      BY Reflection
<1>2. ASSUME NEW i \in 1..n
      PROVE  /\ c[i].open = -d[i].open /\ c[i].close = -d[i].close
             /\ c[i].high = -d[i].low /\ c[i].low = -d[i].high
  <2>1. /\ c[i].open \in Int /\ c[i].close \in Int /\ c[i].high \in Int /\ c[i].low \in Int
        /\ d[i].open = -c[i].open /\ d[i].close = -c[i].close
        /\ d[i].high = -c[i].low /\ d[i].low = -c[i].high
        BY <1>1, Reflection
  <2>2. \A x \in Int : x = -(-x)
        OBVIOUS
  <2>3. QED
        BY <2>1, <2>2
<1>3. QED
  BY <1>1, <1>2, Reflection DEF Reflects

\* Mirror turns a history.
LEMMA MirrorReflects ==
  ASSUME NEW c \in History
  PROVE  Reflects(c, Mirror(c))
<1>1. PICK n \in Nat : n = Len(c) /\ DOMAIN c = 1..n
      BY HistoryCandles
<1> DEFINE m == Mirror(c)
<1>2. m = [i \in 1..n |-> [open |-> -c[i].open, high |-> -c[i].low,
                           low |-> -c[i].high, close |-> -c[i].close]]
      BY <1>1 DEF Mirror
<1>3. ASSUME NEW i \in 1..n
      PROVE  /\ m[i] \in Candle
             /\ m[i].open = -c[i].open /\ m[i].close = -c[i].close
             /\ m[i].high = -c[i].low /\ m[i].low = -c[i].high
  <2>1. /\ c[i].open \in Int /\ c[i].high \in Int /\ c[i].low \in Int /\ c[i].close \in Int
        /\ c[i].low <= c[i].close /\ c[i].close <= c[i].high
        /\ c[i].low <= c[i].open /\ c[i].open <= c[i].high
        BY <1>1, HistoryCandles
  <2> DEFINE o == c[i].open
             h == c[i].high
             l == c[i].low
             x == c[i].close
  <2>2. m[i] = [open |-> -o, high |-> -l, low |-> -h, close |-> -x]
        BY <1>2
  <2>3. o \in Int /\ h \in Int /\ l \in Int /\ x \in Int /\ l <= x /\ x <= h /\ l <= o /\ o <= h
        BY <2>1
  <2> HIDE DEF o, h, l, x
  <2>4. /\ m[i] \in [open : Int, high : Int, low : Int, close : Int]
        /\ m[i].open = -o /\ m[i].close = -x /\ m[i].high = -l /\ m[i].low = -h
        BY <2>2, <2>3
  <2>5. m[i].low <= m[i].open /\ m[i].low <= m[i].close /\ m[i].open <= m[i].high /\ m[i].close <= m[i].high
        BY <2>3, <2>4
  <2>6. m[i] \in Candle
        BY <2>4, <2>5 DEF Candle
  <2>7. QED
        BY <2>4, <2>6 DEF o, h, l, x
<1> HIDE DEF m
<1>4. m \in [1..n -> Candle]
      BY <1>2, <1>3
<1>5. m \in History /\ Len(m) = n
      BY <1>4 DEF History
<1>6. QED
  BY <1>1, <1>3, <1>5 DEF Reflects, m

\* The true ranges are the same.
LEMMA RangeReflected ==
  ASSUME NEW c, NEW d, Reflects(c, d), NEW i \in 1..Len(c)
  PROVE  TrueRange(d, i) = TrueRange(c, i)
<1>1. \A x \in Int, y \in Int : -x - (-y) = y - x /\ Abs(-x - (-y)) = Abs(x - y)
      BY DEF Abs
<1>2. CASE i = 1
      BY <1>1, <1>2, Reflection DEF TrueRange
<1>3. CASE i # 1
  <2>1. i - 1 \in 1..Len(c) /\ i \in 1..Len(c)
        BY <1>3, Reflection
  <2> DEFINE u == c[i].high - c[i].low
             v == Abs(c[i].high - c[i - 1].close)
             w == Abs(c[i].low - c[i - 1].close)
  <2>2. /\ c[i].high \in Int /\ c[i].low \in Int /\ c[i - 1].close \in Int
        /\ d[i].high = -c[i].low /\ d[i].low = -c[i].high /\ d[i - 1].close = -c[i - 1].close
        BY <2>1, Reflection
  <2>3. /\ d[i].high - d[i].low = u
        /\ Abs(d[i].high - d[i - 1].close) = w
        /\ Abs(d[i].low - d[i - 1].close) = v
        BY <2>2, <1>1
  <2>4. TrueRange(c, i) = Max({u, v, w})
        BY <1>3 DEF TrueRange
  <2>5. TrueRange(d, i) = Max({d[i].high - d[i].low, Abs(d[i].high - d[i - 1].close),
                               Abs(d[i].low - d[i - 1].close)})
        BY <1>3 DEF TrueRange
  <2> HIDE DEF u, v, w
  <2>6. TrueRange(d, i) = Max({u, w, v})
        BY <2>3, <2>5
  <2>7. {u, w, v} = {u, v, w}
        OBVIOUS
  <2>8. QED
        BY <2>4, <2>6, <2>7
<1>4. QED
  BY <1>2, <1>3

\* And so are their averages and the mean of these.
LEMMA AtrReflected ==
  ASSUME NEW c, NEW d, Reflects(c, d)
  PROVE  Atr(d) = Atr(c) /\ MeanAtr(d) = MeanAtr(c)
<1> DEFINE S == {i \in 1..Len(c) : Atr(d)[i] = Atr(c)[i]}
<1>0. c \in History /\ d \in History /\ Len(c) \in Nat /\ Len(d) = Len(c)
      BY Reflection
<1>1. ASSUME NEW i \in 1..Len(c), NEW v PROVE NextAverage(d, i, v) = NextAverage(c, i, v)
  <2>1. TrueRange(d, i) = TrueRange(c, i)
        BY RangeReflected
  <2>2. ASSUME i = AtrPeriod PROVE FirstAverage(d) = FirstAverage(c)
    <3>1. \A j \in 1..AtrPeriod : j \in 1..Len(c)
          BY <1>0, <2>2, PeriodType
    <3>2. \A j \in 1..AtrPeriod : TrueRange(d, j) = TrueRange(c, j)
          BY <3>1, RangeReflected
    <3>3. [j \in 1..AtrPeriod |-> TrueRange(d, j)] = [j \in 1..AtrPeriod |-> TrueRange(c, j)]
          BY <3>2
    <3>4. QED
          BY <3>3 DEF FirstAverage
  <2>3. QED
        BY <2>1, <2>2 DEF NextAverage
<1>2. ASSUME NEW i \in 1..Len(c)
      PROVE  /\ Atr(d)[i] = NextAverage(c, i, Atr(d)[i - 1])
             /\ Atr(c)[i] = NextAverage(c, i, Atr(c)[i - 1])
  <2>1. i \in 1..Len(d)
        BY <1>0
  <2>2. QED
        BY <1>0, <1>1, <2>1, AtrDefined
<1>3. Len(c) # 0 => 1 \in S
  <2> SUFFICES ASSUME Len(c) # 0 PROVE 1 \in S
      OBVIOUS
  <2>1. 1 \in 1..Len(c)
        BY <1>0
  <2>2. Atr(d)[1] = NextAverage(c, 1, Atr(d)[1 - 1]) /\ Atr(c)[1] = NextAverage(c, 1, Atr(c)[1 - 1])
        BY <1>2, <2>1
  <2>3. QED
        BY <2>1, <2>2, PeriodType DEF NextAverage
<1>4. ASSUME NEW i \in 1..(Len(c) - 1), i \in S PROVE i + 1 \in S
  <2>1. i + 1 \in 1..Len(c) /\ (i + 1) - 1 = i
        BY <1>0
  <2>2. /\ Atr(d)[i + 1] = NextAverage(c, i + 1, Atr(d)[i])
        /\ Atr(c)[i + 1] = NextAverage(c, i + 1, Atr(c)[i])
        BY <1>2, <2>1
  <2>3. QED
        BY <1>4, <2>1, <2>2
<1> HIDE DEF S
<1>5. 1..Len(c) \subseteq S
      BY <1>0, <1>3, <1>4, Onward
<1>6. \A i \in 1..Len(c) : Atr(d)[i] = Atr(c)[i]
      BY <1>5 DEF S
<1>7. Atr(c) \in [1..Len(c) -> Int] /\ Atr(d) \in [1..Len(c) -> Int]
      BY <1>0, AtrDefined
<1>8. Atr(d) = Atr(c)
      BY <1>6, <1>7
<1>9. DOMAIN d = DOMAIN c
      BY Reflection
<1>10. QED
  BY <1>8, <1>9 DEF MeanAtr

-----------------------------------------------------------------------------
(* Swings upside down.                                                     *)

\* Greatest elements are unique.
LEMMA MaxIs ==
  ASSUME NEW S, NEW x \in S, x \in Int, \A y \in S : y \in Int /\ y <= x
  PROVE  Max(S) = x
<1>1. \E z \in S : \A y \in S : z >= y
      BY DEF Max
<1> DEFINE z == CHOOSE z \in S : \A y \in S : z >= y
<1>2. z \in S /\ \A y \in S : z >= y
      BY <1>1
<1>3. Max(S) = z
      BY DEF Max
<1> HIDE DEF z
<1>4. z \in Int /\ z >= x /\ z <= x
      BY <1>2
<1>5. QED
  BY <1>3, <1>4

\* A function on an interval has a greatest value.
LEMMA GreatestValue ==
  ASSUME NEW a \in Int, NEW b \in Int, a <= b, NEW f \in [a..b -> Int]
  PROVE  \E k \in a..b : \A j \in a..b : f[j] <= f[k]
<1> DEFINE T == {i \in a..b : \E k \in a..i : \A j \in a..i : f[j] <= f[k]}
<1>1. a \in T
  <2>1. a \in a..b /\ a \in a..a /\ \A j \in a..a : j = a
        OBVIOUS
  <2>2. f[a] <= f[a]
        BY <2>1
  <2>3. QED
        BY <2>1, <2>2
<1>2. ASSUME NEW i \in a..(b - 1), i \in T PROVE i + 1 \in T
  <2>1. PICK k \in a..i : \A j \in a..i : f[j] <= f[k]
        BY <1>2
  <2>2. i + 1 \in a..b /\ i + 1 \in a..(i + 1) /\ k \in a..(i + 1) /\ k \in a..b
        OBVIOUS
  <2>3. \A j \in a..(i + 1) : j \in a..i \/ j = i + 1
        OBVIOUS
  <2>4. f[k] \in Int /\ f[i + 1] \in Int
        BY <2>2
  <2>5. \A j \in a..i : f[j] \in Int
        OBVIOUS
  <2>6. CASE f[i + 1] <= f[k]
    <3>1. \A j \in a..(i + 1) : f[j] <= f[k]
          BY <2>1, <2>3, <2>6
    <3>2. QED
          BY <2>2, <3>1
  <2>7. CASE f[k] <= f[i + 1]
    <3>1. \A j \in a..i : f[j] <= f[i + 1]
          BY <2>1, <2>4, <2>5, <2>7
    <3>2. f[i + 1] <= f[i + 1]
          BY <2>4
    <3>3. \A j \in a..(i + 1) : f[j] <= f[i + 1]
          BY <2>3, <3>1, <3>2
    <3>4. QED
          BY <2>2, <3>3
  <2>8. QED
        BY <2>4, <2>6, <2>7
<1> HIDE DEF T
<1>3. a..b \subseteq T
      BY <1>1, <1>2, UpTo
<1>4. b \in T
      BY <1>3
<1>5. QED
  BY <1>4 DEF T

\* The least of the negatives is the negative of the greatest.
LEMMA LeastNegative ==
  ASSUME NEW S, NEW T, \E x \in S : \A y \in S : y \in Int /\ y <= x,
         \A y : y \in T <=> \E z \in S : y = -z
  PROVE  Max(S) \in Int /\ Min(T) = -Max(S)
<1>1. PICK x \in S : \A y \in S : y \in Int /\ y <= x
      OBVIOUS
<1>2. x \in Int /\ -x \in Int /\ -x \in T
      BY <1>1
<1>3. ASSUME NEW y \in T PROVE y \in Int /\ -x <= y
  <2>1. PICK z \in S : y = -z
        OBVIOUS
  <2>2. z \in Int /\ z <= x
        BY <1>1
  <2>3. QED
        BY <1>2, <2>1, <2>2
<1>4. Max(S) = x
      BY <1>1, MaxIs
<1>5. Min(T) = -x
      BY <1>2, <1>3, MinIs
<1>6. QED
  BY <1>2, <1>4, <1>5

\* Highs become lows.
LEMMA LowsReflected ==
  ASSUME NEW c, NEW d, Reflects(c, d)
  PROVE  SwingLows(d) = SwingHighs(c)
<1>1. PICK n \in Nat : n = Len(c) /\ n = Len(d)
      BY Reflection
<1>2. Atr(d) = Atr(c) /\ Middles(d) = Middles(c) /\ Middles(c) = 3..(n - 2)
      BY <1>1, AtrReflected DEF Middles
<1>3. ASSUME NEW i \in Middles(c)
      PROVE  /\ (\A j \in Neighbours(i) : d[i].low < d[j].low)
                  <=> (\A j \in Neighbours(i) : c[i].high > c[j].high)
             /\ Min({d[j].high : j \in Window(i)}) - d[i].low
                  = c[i].high - Max({c[j].low : j \in Window(i)})
  <2>1. i \in 1..n /\ i \in Int /\ \A j \in Window(i) : j \in 1..n
        BY <1>2 DEF Window
  <2>2. Neighbours(i) \subseteq Window(i)
        BY DEF Neighbours
  <2>3. ASSUME NEW j \in Neighbours(i) PROVE d[i].low < d[j].low <=> c[i].high > c[j].high
    <3>1. /\ c[i].high \in Int /\ c[j].high \in Int
          /\ d[i].low = -c[i].high /\ d[j].low = -c[j].high
          BY <2>1, <2>2, <1>1, Reflection
    <3>2. QED
          BY <3>1
  <2>4. PICK a \in Int, b \in Int : a <= b /\ Window(i) = a..b
        BY <2>1 DEF Window
  <2>5. \A j \in Window(i) : c[j].low \in Int /\ d[j].high = -c[j].low
        BY <2>1, <1>1, Reflection
  <2>6. PICK f \in [a..b -> Int] : \A j \in a..b : f[j] = c[j].low
    <3>1. [j \in a..b |-> c[j].low] \in [a..b -> Int]
          BY <2>4, <2>5
    <3>2. \A j \in a..b : [k \in a..b |-> c[k].low][j] = c[j].low
          OBVIOUS
    <3>3. QED
          BY <3>1, <3>2
  <2>7. PICK S, T : S = {c[j].low : j \in Window(i)} /\ T = {d[j].high : j \in Window(i)}
        OBVIOUS
  <2>8. Max(S) \in Int /\ Min(T) = -Max(S)
    <3>1. \A j \in a..b : f[j] \in Int
          OBVIOUS
    <3>2. PICK k \in a..b : \A j \in a..b : f[j] <= f[k]
          BY <2>4, GreatestValue
    <3>3. \E x \in S : \A y \in S : y \in Int /\ y <= x
      <4>1. \A y : y \in S <=> \E j \in a..b : y = f[j]
            BY <2>4, <2>6, <2>7
      <4>2. f[k] \in S /\ \A y \in S : y \in Int /\ y <= f[k]
            BY <3>1, <3>2, <4>1
      <4>3. QED
            BY <4>2
    <3>4. \A y : y \in T <=> \E z \in S : y = -z
          BY <2>5, <2>7
    <3>5. QED
          BY <3>3, <3>4, LeastNegative
  <2>9. c[i].high \in Int /\ d[i].low = -c[i].high
        BY <2>1, <1>1, Reflection
  <2>10. \A x \in Int, y \in Int : -x - (-y) = y - x
         OBVIOUS
  <2>11. PICK x \in Int, y \in Int :
           x = Max(S) /\ y = c[i].high /\ Min(T) = -x /\ d[i].low = -y
         BY <2>8, <2>9
  <2>12. Min(T) - d[i].low = y - x
         BY <2>10, <2>11
  <2>13. QED
         BY <2>3, <2>7, <2>11, <2>12
<1>4. \A i : i \in SwingLows(d) <=> i \in SwingHighs(c)
      BY <1>2, <1>3 DEF SwingLows, SwingHighs
<1>5. QED
  BY <1>4

\* And lows become highs.
LEMMA SwingsReflected ==
  ASSUME NEW c, NEW d, Reflects(c, d)
  PROVE  SwingLows(d) = SwingHighs(c) /\ SwingHighs(d) = SwingLows(c)
<1>1. SwingLows(d) = SwingHighs(c)
      BY LowsReflected
<1>2. Reflects(d, c)
      BY ReflectedBack
<1>3. SwingLows(c) = SwingHighs(d)
      BY <1>2, LowsReflected
<1>4. QED
  BY <1>1, <1>3

-----------------------------------------------------------------------------
(* Breaks upside down.                                                     *)

Negated(ref) == [known |-> ref.known, level |-> -ref.level]
FlippedWalk(s) ==
  [top |-> Negated(s.floor), floor |-> Negated(s.top), events |-> {FlippedBreak(e) : e \in s.events}]

\* A reference is what its two fields say.
LEMMA ReferenceIs ==
  ASSUME NEW ref \in References
  PROVE  /\ ref.known \in BOOLEAN /\ ref.level \in Int
         /\ ref = [known |-> ref.known, level |-> ref.level]
         /\ Negated(ref) \in References
         /\ Negated(ref).known = ref.known /\ Negated(ref).level = -ref.level
<1>1. ref.known \in BOOLEAN /\ ref.level \in Int /\ ref = [known |-> ref.known, level |-> ref.level]
      BY DEF References
<1>2. -ref.level \in Int
      BY <1>1
<1>3. QED
  BY <1>1, <1>2 DEF Negated, References

\* Raising a reference is lowering it upside down.
LEMMA RaisedNegated ==
  ASSUME NEW ref \in References, NEW x \in Int
  PROVE  /\ Raised(Negated(ref), -x) = Negated(Lowered(ref, x))
         /\ Lowered(Negated(ref), -x) = Negated(Raised(ref, x))
<1>1. PICK level, neg :
        level \in Int /\ neg = Negated(ref) /\ neg.known = ref.known /\ neg.level = -level /\ ref.level = level
  <2>1. ref.level \in Int /\ Negated(ref).known = ref.known /\ Negated(ref).level = -ref.level
        BY ReferenceIs
  <2>2. QED
        BY <2>1
<1>2. Negated(Reference(x)) = Reference(-x)
      BY DEF Negated, Reference
<1>3. Raised(neg, -x) = Negated(Lowered(ref, x))
  <2>1. CASE ref.known /\ level <= x
    <3>1. neg.known /\ neg.level >= -x
          BY <1>1, <2>1
    <3>2. QED
          BY <1>1, <2>1, <3>1 DEF Raised, Lowered
  <2>2. CASE ~(ref.known /\ level <= x)
    <3>1. ~(neg.known /\ neg.level >= -x)
          BY <1>1, <2>2
    <3>2. QED
          BY <1>1, <1>2, <2>2, <3>1 DEF Raised, Lowered
  <2>3. QED
        BY <2>1, <2>2
<1>4. Lowered(neg, -x) = Negated(Raised(ref, x))
  <2>1. CASE ref.known /\ level >= x
    <3>1. neg.known /\ neg.level <= -x
          BY <1>1, <2>1
    <3>2. QED
          BY <1>1, <2>1, <3>1 DEF Raised, Lowered
  <2>2. CASE ~(ref.known /\ level >= x)
    <3>1. ~(neg.known /\ neg.level <= -x)
          BY <1>1, <2>2
    <3>2. QED
          BY <1>1, <1>2, <2>2, <3>1 DEF Raised, Lowered
  <2>3. QED
        BY <2>1, <2>2
<1>5. QED
  BY <1>1, <1>3, <1>4

\* A swing raises one side where its mirror image lowers the other.
LEMMA SideReflected ==
  ASSUME NEW c, NEW d, Reflects(c, d), NEW k, NEW ref \in References
  PROVE  /\ TopAt(d, k, Negated(ref)) = Negated(FloorAt(c, k, ref))
         /\ FloorAt(d, k, Negated(ref)) = Negated(TopAt(c, k, ref))
<1>1. SwingLows(d) = SwingHighs(c) /\ SwingHighs(d) = SwingLows(c)
      BY SwingsReflected
<1>2. k \in SwingLows(c) \/ k \in SwingHighs(c) => k \in 1..Len(c)
      BY SwingsInside, Reflection
<1>3. k \in SwingLows(c) \/ k \in SwingHighs(c) =>
        /\ c[k].low \in Int /\ c[k].high \in Int
        /\ d[k].high = -c[k].low /\ d[k].low = -c[k].high
      BY <1>2, Reflection
<1>4. TopAt(d, k, Negated(ref)) = Negated(FloorAt(c, k, ref))
  <2>1. CASE k \in SwingLows(c)
        BY <1>1, <1>3, <2>1, RaisedNegated DEF TopAt, FloorAt
  <2>2. CASE k \notin SwingLows(c)
        BY <1>1, <2>2 DEF TopAt, FloorAt
  <2>3. QED
        BY <2>1, <2>2
<1>5. FloorAt(d, k, Negated(ref)) = Negated(TopAt(c, k, ref))
  <2>1. CASE k \in SwingHighs(c)
        BY <1>1, <1>3, <2>1, RaisedNegated DEF TopAt, FloorAt
  <2>2. CASE k \notin SwingHighs(c)
        BY <1>1, <2>2 DEF TopAt, FloorAt
  <2>3. QED
        BY <2>1, <2>2
<1>6. QED
  BY <1>4, <1>5

\* A break upside down is the break of the other side.
LEMMA FlippedIs ==
  ASSUME NEW i, NEW ref \in References
  PROVE  /\ FlippedBreak(Break("bull", i, ref)) = Break("bear", i, Negated(ref))
         /\ FlippedBreak(Break("bear", i, ref)) = Break("bull", i, Negated(ref))
<1>1. Flipped("bull") = "bear" /\ Flipped("bear") = "bull"
      BY DEF Flipped
<1>2. Negated(ref).level = -ref.level
      BY DEF Negated
<1>3. \A dir : FlippedBreak(Break(dir, i, ref)) = Break(Flipped(dir), i, Negated(ref))
      BY <1>2 DEF FlippedBreak, Break
<1>4. QED
  BY <1>1, <1>3

\* A close is over a reference where its negative is under the mirrored one.
LEMMA OverNegated ==
  ASSUME NEW ref \in References, NEW x \in Int
  PROVE  /\ Over(Negated(ref), -x) <=> Under(ref, x)
         /\ Under(Negated(ref), -x) <=> Over(ref, x)
<1>1. PICK level, neg :
        level \in Int /\ neg = Negated(ref) /\ neg.known = ref.known /\ neg.level = -level /\ ref.level = level
  <2>1. ref.level \in Int /\ Negated(ref).known = ref.known /\ Negated(ref).level = -ref.level
        BY ReferenceIs
  <2>2. QED
        BY <2>1
<1>2. /\ -x > -level <=> x < level
      /\ -x < -level <=> x > level
      BY <1>1
<1>3. QED
  BY <1>1, <1>2 DEF Over, Under

\* One candle of the walk, upside down.
LEMMA WalkedReflected ==
  ASSUME NEW c, NEW d, Reflects(c, d), NEW i \in 1..Len(c), NEW s \in WalkStates
  PROVE  Walked(d, i, FlippedWalk(s)) = FlippedWalk(Walked(c, i, s))
<1> DEFINE t == FlippedWalk(s)
           u == Walked(c, i, s)
           v == Walked(d, i, t)
<1>1. PICK x \in Int : x = c[i].close /\ d[i].close = -x
      BY Reflection
<1>2. s.top \in References /\ s.floor \in References
      BY DEF WalkStates
<1>3. /\ t.top = Negated(s.floor) /\ t.floor = Negated(s.top)
      /\ t.events = {FlippedBreak(e) : e \in s.events}
      BY DEF FlippedWalk
<1> HIDE DEF t
<1>4. PICK top \in References, floor \in References :
        top = TopAt(c, i - Lag, s.top) /\ floor = FloorAt(c, i - Lag, s.floor)
      BY <1>2, TopType, Reflection
<1>5. /\ TopAt(d, i - Lag, t.top) = Negated(floor)
      /\ FloorAt(d, i - Lag, t.floor) = Negated(top)
      BY <1>2, <1>3, <1>4, SideReflected
<1>6. /\ u = Closed(i, x, top, floor, s.events)
      /\ v = Closed(i, -x, Negated(floor), Negated(top), t.events)
      BY <1>1, <1>4, <1>5 DEF Walked
<1> HIDE DEF u, v
<1>7. /\ u.top = IF Over(top, x) THEN Reference(x) ELSE top
      /\ u.floor = IF Under(floor, x) THEN Reference(x) ELSE floor
      /\ u.events = s.events \cup (IF Over(top, x) THEN {Break("bull", i, top)} ELSE {})
                             \cup (IF Under(floor, x) THEN {Break("bear", i, floor)} ELSE {})
      BY <1>6, ClosedParts
<1>8. /\ v.top = IF Under(floor, x) THEN Reference(-x) ELSE Negated(floor)
      /\ v.floor = IF Over(top, x) THEN Reference(-x) ELSE Negated(top)
      /\ v.events = t.events
           \cup (IF Under(floor, x) THEN {Break("bull", i, Negated(floor))} ELSE {})
           \cup (IF Over(top, x) THEN {Break("bear", i, Negated(top))} ELSE {})
      /\ v = [top |-> v.top, floor |-> v.floor, events |-> v.events]
      BY <1>6, ClosedParts, OverNegated
<1>9. Negated(Reference(x)) = Reference(-x)
      BY DEF Negated, Reference
<1>10. v.top = Negated(u.floor) /\ v.floor = Negated(u.top)
       BY <1>7, <1>8, <1>9
<1>11. v.events = {FlippedBreak(e) : e \in u.events}
  <2>1. /\ FlippedBreak(Break("bull", i, top)) = Break("bear", i, Negated(top))
        /\ FlippedBreak(Break("bear", i, floor)) = Break("bull", i, Negated(floor))
        BY FlippedIs
  <2> HIDE DEF FlippedBreak
  <2>2. CASE Over(top, x) /\ Under(floor, x)
    <3>1. /\ u.events = s.events \cup {Break("bull", i, top), Break("bear", i, floor)}
          /\ v.events = t.events \cup {Break("bull", i, Negated(floor)), Break("bear", i, Negated(top))}
          BY <1>7, <1>8, <2>2
    <3>2. QED
          BY <1>3, <2>1, <3>1
  <2>3. CASE Over(top, x) /\ ~Under(floor, x)
    <3>1. /\ u.events = s.events \cup {Break("bull", i, top)}
          /\ v.events = t.events \cup {Break("bear", i, Negated(top))}
          BY <1>7, <1>8, <2>3
    <3>2. QED
          BY <1>3, <2>1, <3>1
  <2>4. CASE ~Over(top, x) /\ Under(floor, x)
    <3>1. /\ u.events = s.events \cup {Break("bear", i, floor)}
          /\ v.events = t.events \cup {Break("bull", i, Negated(floor))}
          BY <1>7, <1>8, <2>4
    <3>2. QED
          BY <1>3, <2>1, <3>1
  <2>5. CASE ~Over(top, x) /\ ~Under(floor, x)
        BY <1>3, <1>7, <1>8, <2>5
  <2>6. QED
        BY <2>2, <2>3, <2>4, <2>5
<1>12. QED
  BY <1>8, <1>10, <1>11 DEF FlippedWalk, t, u, v

\* Before the first candle there is nothing to turn.
LEMMA BegunFlipped == FlippedWalk(Begun) = Begun
<1>1. Begun.top = NoReference /\ Begun.floor = NoReference /\ Begun.events = {}
      BY DEF Begun
<1>2. NoReference.known = FALSE
      BY Zenon DEF NoReference
<1>3. NoReference.level = 0
      BY DEF NoReference
<1>4. \A x \in Int : x <= 0 /\ x >= 0 => -x = 0
      OBVIOUS
<1>5. -NoReference.level = 0
  <2>1. PICK x \in Int : x = NoReference.level /\ x <= 0 /\ x >= 0
        BY <1>3
  <2>2. -x = 0
        BY <1>4, <2>1
  <2>3. QED
        BY <2>1, <2>2
<1>6. Negated(NoReference) = [known |-> FALSE, level |-> 0]
      BY <1>2, <1>5, Zenon DEF Negated
<1>7. Negated(NoReference) = NoReference
      BY <1>6 DEF NoReference
<1>8. QED
  BY <1>1, <1>7 DEF FlippedWalk, Begun

\* The breaks upside down.
LEMMA BreaksReflected ==
  ASSUME NEW c, NEW d, Reflects(c, d)
  PROVE  Breaks(d) = {FlippedBreak(e) : e \in Breaks(c)}
<1>1. PICK n \in Nat : n = Len(c) /\ n = Len(d)
      BY Reflection
<1>2. PICK w : IsWalk(c, w) /\ Breaks(c) = w[n].events
      BY <1>1, Reflection, BreaksWalk
<1>3. PICK v : IsWalk(d, v) /\ Breaks(d) = v[n].events
      BY <1>1, Reflection, BreaksWalk
<1> DEFINE T == {i \in 0..n : v[i] = FlippedWalk(w[i])}
<1>4. 0 \in T
  <2>1. w[0] = Begun /\ v[0] = Begun
        BY <1>2, <1>3 DEF IsWalk
  <2>2. QED
        BY <2>1, BegunFlipped
<1>5. ASSUME NEW i \in 0..(n - 1), i \in T PROVE i + 1 \in T
  <2>1. i + 1 \in 1..n /\ (i + 1) - 1 = i /\ i + 1 \in 0..n /\ i \in 0..n
        OBVIOUS
  <2>2. w[i + 1] = Walked(c, i + 1, w[i]) /\ w[i] \in WalkStates
        BY <2>1, <1>1, <1>2 DEF IsWalk
  <2>3. v[i + 1] = Walked(d, i + 1, v[i])
        BY <2>1, <1>1, <1>3 DEF IsWalk
  <2>4. v[i] = FlippedWalk(w[i])
        BY <1>5
  <2>5. Walked(d, i + 1, FlippedWalk(w[i])) = FlippedWalk(Walked(c, i + 1, w[i]))
    <3>1. PICK s \in WalkStates, k \in 1..Len(c) : s = w[i] /\ k = i + 1
          BY <1>1, <2>1, <2>2
    <3>2. Walked(d, k, FlippedWalk(s)) = FlippedWalk(Walked(c, k, s))
          BY WalkedReflected
    <3>3. QED
          BY <3>1, <3>2
  <2>6. QED
        BY <2>1, <2>2, <2>3, <2>4, <2>5
<1> HIDE DEF T
<1>6. 0..n \subseteq T
  <2>1. 0 \in Int /\ n \in Int
        OBVIOUS
  <2>2. QED
        BY <2>1, <1>4, <1>5, UpTo
<1>7. v[n] = FlippedWalk(w[n])
      BY <1>6 DEF T
<1>8. QED
  BY <1>2, <1>3, <1>7 DEF FlippedWalk

\* The last break is the only one of its candle.
LEMMA LastBreak ==
  ASSUME NEW c \in History, Breaks(c) # {}
  PROVE  \E e \in Breaks(c) : \A f \in Breaks(c) : f.idx <= e.idx /\ (e.idx <= f.idx => f = e)
<1>1. PICK s : WalkKept(c, Len(c), s) /\ Breaks(c) = s.events
      BY BreaksKept
<1>2. PICK n \in Nat : n = Len(c)
      BY HistoryCandles
<1>3. \A e \in Breaks(c) : e.direction \in {"bull", "bear"}
      BY <1>1 DEF WalkKept, WalkStates
<1>4. Breaks(c) = EventsOf("bull", s) \cup EventsOf("bear", s)
      BY <1>1, <1>3 DEF EventsOf
<1>5. ASSUME NEW dir \in SideNames
      PROVE  /\ \A e \in EventsOf(dir, s) : e.idx \in 1..n
             /\ \A e, f \in EventsOf(dir, s) : e.idx = f.idx => e = f
      BY <1>1, <1>2 DEF WalkKept, SideKept, SideNames
<1>6. OneWay(s)
      BY <1>1 DEF WalkKept
<1>7. \A e \in Breaks(c) : e.idx \in 1..n
      BY <1>4, <1>5 DEF SideNames
<1>8. \A e, f \in Breaks(c) : e.idx = f.idx => e = f
      BY <1>4, <1>5, <1>6 DEF SideNames, OneWay
<1> DEFINE I == {e.idx : e \in Breaks(c)}
<1>9. I \in SUBSET (1..n) /\ I # {}
      BY <1>7
<1> HIDE DEF I
<1>10. PICK x \in I : \A y \in I : y <= x
  <2>1. 1 \in Int /\ n \in Int
        OBVIOUS
  <2>2. QED
        BY <1>9, <2>1, Highest
<1>11. PICK e \in Breaks(c) : e.idx = x
       BY DEF I
<1>12. ASSUME NEW f \in Breaks(c) PROVE f.idx <= e.idx /\ (e.idx <= f.idx => f = e)
  <2>1. f.idx \in I /\ f.idx \in Int /\ e.idx \in Int
        BY <1>7 DEF I
  <2>2. f.idx <= e.idx
        BY <2>1, <1>10, <1>11
  <2>3. e.idx <= f.idx => f.idx = e.idx
        BY <2>1, <2>2
  <2>4. QED
        BY <2>2, <2>3, <1>8
<1>13. QED
  BY <1>12

\* The bias of a timeframe is the direction of that break.
LEMMA BiasIs ==
  ASSUME NEW c, NEW e \in Breaks(c),
         \A f \in Breaks(c) : f.idx <= e.idx /\ (e.idx <= f.idx => f = e)
  PROVE  Bias(c) = IF e.direction = "bull" THEN "long" ELSE "short"
<1> DEFINE Is(l) == l \in Breaks(c) /\ \A f \in Breaks(c) : f.idx <= l.idx
           last == CHOOSE l \in Breaks(c) : \A f \in Breaks(c) : f.idx <= l.idx
<1>1. Bias(c) = IF last.direction = "bull" THEN "long" ELSE "short"
      BY DEF Bias
<1>2. last \in Breaks(c) /\ \A f \in Breaks(c) : f.idx <= last.idx
      OBVIOUS
<1> HIDE DEF last
<1>3. last = e
      BY <1>2
<1>4. QED
  BY <1>1, <1>3

\* The bias turns with the candles.
LEMMA BiasReflected ==
  ASSUME NEW c, NEW d, Reflects(c, d)
  PROVE  BiasAsOf(d) = Flipped(BiasAsOf(c))
<1>1. Breaks(d) = {FlippedBreak(e) : e \in Breaks(c)} /\ c \in History /\ Len(d) = Len(c)
      BY BreaksReflected, Reflection
<1>2. Flipped("none") = "none" /\ Flipped("long") = "short" /\ Flipped("short") = "long"
      BY DEF Flipped
<1>3. CASE Breaks(c) = {}
  <2>1. Bias(c) = "none" /\ Bias(d) = "none"
        BY <1>1, <1>3 DEF Bias
  <2>2. QED
        BY <1>1, <1>2, <2>1 DEF BiasAsOf
<1>4. CASE Breaks(c) # {}
  <2>1. PICK e \in Breaks(c) : \A f \in Breaks(c) : f.idx <= e.idx /\ (e.idx <= f.idx => f = e)
        BY <1>1, <1>4, LastBreak
  <2>2. \A f \in Breaks(c) :
          /\ FlippedBreak(f).idx = f.idx /\ FlippedBreak(f).direction = Flipped(f.direction)
          /\ f.direction \in {"bull", "bear"}
    <3>1. PICK s : WalkKept(c, Len(c), s) /\ Breaks(c) = s.events
          BY <1>1, BreaksKept
    <3>2. \A f \in Breaks(c) : f \in [direction : {"bull", "bear"}, idx : Int, level : Int]
          BY <3>1 DEF WalkKept, WalkStates
    <3>3. QED
          BY <3>2 DEF FlippedBreak
  <2> DEFINE g == FlippedBreak(e)
  <2>3. g \in Breaks(d) /\ g.direction = Flipped(e.direction)
        BY <1>1, <2>2
  <2>4. \A f \in Breaks(d) : f.idx <= g.idx /\ (g.idx <= f.idx => f = g)
        BY <1>1, <2>1, <2>2
  <2> HIDE DEF g
  <2>5. Bias(c) = IF e.direction = "bull" THEN "long" ELSE "short"
        BY <2>1, BiasIs
  <2>6. Bias(d) = IF g.direction = "bull" THEN "long" ELSE "short"
        BY <2>3, <2>4, BiasIs
  <2>7. Flipped("bull") = "bear" /\ Flipped("bear") = "bull"
        BY DEF Flipped
  <2>8. Bias(d) = Flipped(Bias(c))
        BY <1>2, <2>2, <2>3, <2>5, <2>6, <2>7
  <2>9. QED
        BY <1>1, <1>2, <2>8 DEF BiasAsOf
<1>5. QED
  BY <1>3, <1>4

-----------------------------------------------------------------------------
(* Order blocks upside down.                                               *)

\* A product of positive numbers is positive.
LEMMA PositiveProduct ==
  ASSUME NEW x \in Int, NEW y \in Int, x > 0, y > 0
  PROVE  x * y > 0
<1>1. x * y >= y
  <2>1. x - 1 >= 0 /\ (x - 1) * y = x * y - y
        OBVIOUS
  <2>2. (x - 1) * y >= 0
        BY <2>1
  <2>3. PICK p \in Int : p = x * y
        OBVIOUS
  <2>4. QED
        BY <2>1, <2>2
<1>2. QED
  BY <1>1

\* Bodies keep their size and change their colour.
LEMMA BodyReflected ==
  ASSUME NEW c, NEW d, Reflects(c, d), NEW i \in 1..Len(c)
  PROVE  /\ Body(d[i]) = Body(c[i]) /\ Body(c[i]) \in Nat
         /\ Bullish(d[i]) <=> Bearish(c[i])
         /\ Bearish(d[i]) <=> Bullish(c[i])
         /\ Body(c[i]) = 0 <=> ~Bullish(c[i]) /\ ~Bearish(c[i])
         /\ ~(Bullish(c[i]) /\ Bearish(c[i]))
<1>1. PICK x \in Int, y \in Int : x = c[i].open /\ y = c[i].close /\ d[i].open = -x /\ d[i].close = -y
      BY Reflection
<1>2. /\ Abs(-y - (-x)) = Abs(y - x) /\ Abs(y - x) \in Nat /\ (Abs(y - x) = 0 <=> x = y)
      /\ (-y > -x <=> y < x) /\ (-y < -x <=> y > x)
      BY DEF Abs
<1>3. Body(c[i]) = Abs(y - x) /\ Body(d[i]) = Abs(-y - (-x))
      BY <1>1 DEF Body
<1>4. /\ Bullish(c[i]) <=> y > x
      /\ Bearish(c[i]) <=> y < x
      /\ Bullish(d[i]) <=> -y > -x
      /\ Bearish(d[i]) <=> -y < -x
      BY <1>1 DEF Bullish, Bearish
<1>5. QED
  BY <1>2, <1>3, <1>4

\* A body that displaces is not empty, so it has a colour, and the mirrored candle
\* displaces with the other one.
LEMMA DisplacesReflected ==
  ASSUME BodyMult > 0, NEW c, NEW d, Reflects(c, d), NEW e \in (BodyPeriod + 1)..Len(c)
  PROVE  /\ Displaces(d, e) <=> Displaces(c, e)
         /\ Displaces(c, e) => /\ Bullish(c[e]) <=> ~Bullish(d[e])
                               /\ LeavesGap(d, e) <=> LeavesGap(c, e)
                               /\ Opposite(d, e) = Opposite(c, e)
         /\ Opposite(c, e) \in SUBSET (1..Len(c))
<1>1. PICK n \in Nat : n = Len(c) /\ n = Len(d)
      BY Reflection
<1>2. BodyPeriod \in Nat \ {0} /\ BlockLookback \in Nat /\ BodyMult \in Nat
      BY IndicatorsAssumption
<1>3. e \in 1..n /\ e \in Int /\ \A j \in (e - BodyPeriod)..(e - 1) : j \in 1..n
      BY <1>1, <1>2
<1>0. \A j \in 1..n : Body(d[j]) = Body(c[j]) /\ Body(c[j]) \in Int
  <2> SUFFICES ASSUME NEW j \in 1..Len(c) PROVE Body(d[j]) = Body(c[j]) /\ Body(c[j]) \in Int
      BY <1>1
  <2>1. QED
        BY BodyReflected
<1> DEFINE I == (e - BodyPeriod)..(e - 1)
           f == [j \in I |-> Body(c[j])]
           g == [j \in I |-> Body(d[j])]
<1>4. f = g /\ f \in [I -> Int]
  <2>1. \A j \in I : j \in 1..n
        BY <1>3
  <2>2. \A j \in I : Body(d[j]) = Body(c[j]) /\ Body(c[j]) \in Int
        BY <1>0, <2>1
  <2>3. QED
        BY <2>2
<1>5. IsFiniteSet(I)
  <2>1. e - BodyPeriod \in Int /\ e - 1 \in Int
        BY <1>2, <1>3
  <2>2. QED
        BY <2>1, FS_Interval
<1>6. /\ Displaces(c, e) <=> LET sum == SumFunction(f)
                             IN sum > 0 /\ 100 * BodyPeriod * Body(c[e]) >= BodyMult * sum /\ e >= 3
      /\ Displaces(d, e) <=> LET sum == SumFunction(g)
                             IN sum > 0 /\ 100 * BodyPeriod * Body(d[e]) >= BodyMult * sum /\ e >= 3
      BY DEF Displaces
<1> HIDE DEF f, g, I
<1>7. PICK sum \in Int : sum = SumFunction(f)
      BY <1>4, <1>5, SumType
<1>8. /\ Body(d[e]) = Body(c[e]) /\ Body(c[e]) \in Nat
      /\ Bullish(d[e]) <=> Bearish(c[e])
      /\ Bearish(d[e]) <=> Bullish(c[e])
      /\ Body(c[e]) = 0 <=> ~Bullish(c[e]) /\ ~Bearish(c[e])
      /\ ~(Bullish(c[e]) /\ Bearish(c[e]))
      BY <1>1, <1>3, BodyReflected
<1>9. Displaces(d, e) <=> Displaces(c, e)
      BY <1>4, <1>6, <1>8
<1>10. ASSUME Displaces(c, e) PROVE Bullish(c[e]) <=> ~Bullish(d[e])
  <2>1. PICK body \in Nat : body = Body(c[e])
        BY <1>8
  <2>2. sum > 0 /\ 100 * BodyPeriod * body >= BodyMult * sum
        BY <1>6, <1>7, <1>10, <2>1
  <2>3. BodyMult * sum > 0
        BY <1>2, <2>2, PositiveProduct
  <2>4. body # 0
    <3> SUFFICES ASSUME body = 0 PROVE FALSE
        OBVIOUS
    <3>1. 100 * BodyPeriod * body = 0
          BY <1>2
    <3>2. PICK p \in Int : p = BodyMult * sum
          BY <1>2
    <3>3. QED
          BY <2>2, <2>3, <3>1, <3>2
  <2>5. QED
        BY <1>8, <2>1, <2>4
<1>11. ASSUME Displaces(c, e) PROVE LeavesGap(d, e) <=> LeavesGap(c, e)
  <2>1. e >= 3 /\ e - 2 \in 1..n
        BY <1>3, <1>6, <1>11
  <2>2. PICK low \in Int, high \in Int :
          low = c[e].low /\ high = c[e].high /\ d[e].low = -high /\ d[e].high = -low
        BY <1>1, <1>3, Reflection
  <2>3. PICK l2 \in Int, h2 \in Int :
          l2 = c[e - 2].low /\ h2 = c[e - 2].high /\ d[e - 2].low = -h2 /\ d[e - 2].high = -l2
    <3>1. PICK k \in 1..Len(c) : k = e - 2
          BY <1>1, <2>1
    <3>2. c[k].low \in Int /\ c[k].high \in Int /\ d[k].low = -c[k].high /\ d[k].high = -c[k].low
          BY Reflection
    <3>3. QED
          BY <3>1, <3>2
  <2>4. /\ d[e].low > d[e - 2].high <=> high < l2
        /\ d[e].high < d[e - 2].low <=> low > h2
    <3>1. \A x, y \in Int : (-x > -y <=> x < y) /\ (-x < -y <=> x > y)
          OBVIOUS
    <3>2. (-high > -l2 <=> high < l2) /\ (-low < -h2 <=> low > h2)
          BY <3>1
    <3>3. QED
          BY <2>2, <2>3, <3>2, Zenon
  <2>5. QED
        BY <1>10, <1>11, <2>2, <2>3, <2>4 DEF LeavesGap
<1> DEFINE from == Max({e - BlockLookback, 1})
<1>12. from \in Int /\ from >= 1
  <2>1. e - BlockLookback \in Int
        BY <1>2, <1>3
  <2>2. QED
        BY <2>1, AtLeastOne
<1>13. /\ Opposite(c, e) = {j \in from..(e - 1) : IF Bullish(c[e]) THEN Bearish(c[j]) ELSE Bullish(c[j])}
       /\ Opposite(d, e) = {j \in from..(e - 1) : IF Bullish(d[e]) THEN Bearish(d[j]) ELSE Bullish(d[j])}
       BY DEF Opposite
<1> HIDE DEF from
<1>14. \A j \in from..(e - 1) : j \in 1..n
       BY <1>3, <1>12
<1>15. \A j \in from..(e - 1) : (Bullish(d[j]) <=> Bearish(c[j])) /\ (Bearish(d[j]) <=> Bullish(c[j]))
       BY <1>1, <1>14, BodyReflected
<1>16. ASSUME Displaces(c, e) PROVE Opposite(d, e) = Opposite(c, e)
       BY <1>10, <1>13, <1>15, <1>16
<1>17. Opposite(c, e) \in SUBSET (1..n)
       BY <1>13, <1>14
<1>18. QED
  BY <1>1, <1>9, <1>10, <1>11, <1>16, <1>17

\* A block begins at a candle of the history.
LEMMA BlockInside ==
  ASSUME BodyMult > 0, NEW c, NEW d, Reflects(c, d), NEW e, Makes(c, e)
  PROVE  Block(c, e).idx \in 1..Len(c)
<1>1. PICK n \in Nat : n = Len(c)
      BY Reflection
<1>2. e \in (BodyPeriod + 1)..n /\ Opposite(c, e) # {}
      BY <1>1 DEF Makes
<1>3. Opposite(c, e) \in SUBSET (1..n)
      BY <1>1, <1>2, DisplacesReflected
<1>4. 1 \in Int /\ n \in Int
      OBVIOUS
<1>5. Max(Opposite(c, e)) \in 1..n
      BY <1>2, <1>3, <1>4, MaxOfBounded
<1>6. QED
  BY <1>1, <1>5 DEF Block

\* What makes a block makes one upside down.
LEMMA MakesReflected ==
  ASSUME BodyMult > 0, NEW c, NEW d, Reflects(c, d), NEW e, Makes(c, e)
  PROVE  Makes(d, e) /\ Block(d, e) = FlippedBlock(Block(c, e))
<1>1. Len(d) = Len(c)
      BY Reflection
<1>2. e \in (BodyPeriod + 1)..Len(c) /\ Displaces(c, e) /\ LeavesGap(c, e) /\ Opposite(c, e) # {}
      BY DEF Makes
<1>3. /\ Displaces(d, e) /\ LeavesGap(d, e) /\ Opposite(d, e) = Opposite(c, e)
      /\ Bullish(c[e]) <=> ~Bullish(d[e])
      BY <1>2, DisplacesReflected
<1>4. Makes(d, e)
      BY <1>1, <1>2, <1>3 DEF Makes
<1>5. Flipped("bull") = "bear" /\ Flipped("bear") = "bull"
      BY DEF Flipped
<1>6. Block(d, e) = FlippedBlock(Block(c, e))
      BY <1>3, <1>5 DEF Block, FlippedBlock
<1>7. QED
  BY <1>4, <1>6

\* The order blocks upside down.
LEMMA BlocksReflected ==
  ASSUME BodyMult > 0, NEW c, NEW d, Reflects(c, d)
  PROVE  OrderBlocks(d) = {FlippedBlock(b) : b \in OrderBlocks(c)}
<1>1. Reflects(d, c)
      BY ReflectedBack
<1>2. ASSUME NEW b \in OrderBlocks(d) PROVE \E a \in OrderBlocks(c) : b = FlippedBlock(a)
  <2>1. PICK e : Makes(d, e) /\ b = Block(d, e)
        BY OrderBlocksAre
  <2>2. Makes(c, e)
        BY <1>1, <2>1, MakesReflected
  <2>3. Block(d, e) = FlippedBlock(Block(c, e))
        BY <2>2, MakesReflected
  <2>4. Block(c, e) \in OrderBlocks(c)
        BY <2>2, OrderBlocksAre
  <2>5. QED
        BY <2>1, <2>3, <2>4
<1>3. ASSUME NEW a \in OrderBlocks(c) PROVE FlippedBlock(a) \in OrderBlocks(d)
  <2>1. PICK e : Makes(c, e) /\ a = Block(c, e)
        BY OrderBlocksAre
  <2>2. Makes(d, e) /\ Block(d, e) = FlippedBlock(Block(c, e))
        BY <2>1, MakesReflected
  <2>3. QED
        BY <2>1, <2>2, OrderBlocksAre
<1>4. QED
  BY <1>2, <1>3

\* The larger of two numbers is the negative of the smaller of their negatives.
LEMMA EdgesReflected ==
  ASSUME NEW x \in Int, NEW y \in Int
  PROVE  /\ Min({-x, -y}) = -Max({x, y}) /\ Max({-x, -y}) = -Min({x, y})
         /\ Max({x, y}) \in Int /\ Min({x, y}) \in Int
<1>1. CASE x <= y
  <2>1. /\ y \in {x, y} /\ \A z \in {x, y} : z \in Int /\ z <= y
        /\ x \in {x, y} /\ \A z \in {x, y} : z \in Int /\ x <= z
        BY <1>1
  <2>2. Max({x, y}) = y /\ Min({x, y}) = x
        BY <2>1, MaxIs, MinIs
  <2>3. /\ -y \in {-x, -y} /\ \A z \in {-x, -y} : z \in Int /\ -y <= z
        /\ -x \in {-x, -y} /\ \A z \in {-x, -y} : z \in Int /\ z <= -x
        BY <1>1
  <2>4. -x \in Int /\ -y \in Int
        OBVIOUS
  <2>5. Min({-x, -y}) = -y /\ Max({-x, -y}) = -x
        BY <2>3, <2>4, MaxIs, MinIs
  <2>6. QED
        BY <2>2, <2>5
<1>2. CASE y <= x
  <2>1. /\ y \in {x, y} /\ \A z \in {x, y} : z \in Int /\ y <= z
        /\ x \in {x, y} /\ \A z \in {x, y} : z \in Int /\ z <= x
        BY <1>2
  <2>2. Max({x, y}) = x /\ Min({x, y}) = y
        BY <2>1, MaxIs, MinIs
  <2>3. /\ -y \in {-x, -y} /\ \A z \in {-x, -y} : z \in Int /\ z <= -y
        /\ -x \in {-x, -y} /\ \A z \in {-x, -y} : z \in Int /\ -x <= z
        BY <1>2
  <2>4. -x \in Int /\ -y \in Int
        OBVIOUS
  <2>5. Min({-x, -y}) = -x /\ Max({-x, -y}) = -y
        BY <2>3, <2>4, MaxIs, MinIs
  <2>6. QED
        BY <2>2, <2>5
<1>3. QED
  BY <1>1, <1>2

\* A block is mitigated where its mirror image is.
LEMMA MitigatedReflected ==
  ASSUME BodyMult > 0, NEW c, NEW d, Reflects(c, d), NEW b \in OrderBlocks(c)
  PROVE  Mitigated(c, b) = Mitigated(d, FlippedBlock(b))
<1>1. PICK n \in Nat : n = Len(c) /\ n = Len(d)
      BY Reflection
<1>2. PICK e : Makes(c, e) /\ b = Block(c, e)
      BY OrderBlocksAre
<1>3. b.idx \in 1..n /\ b.direction \in {"bull", "bear"}
  <2>1. b.idx \in 1..n
        BY <1>1, <1>2, BlockInside
  <2>2. QED
        BY <1>2, <2>1 DEF Block
<1>4. PICK idx \in 1..n : idx = b.idx /\ FlippedBlock(b).idx = idx
      BY <1>3 DEF FlippedBlock
<1>5. FlippedBlock(b).direction = "bull" <=> b.direction = "bear"
      BY <1>3 DEF FlippedBlock, Flipped
<1>6. PICK x \in Int, y \in Int :
        x = c[idx].open /\ y = c[idx].close /\ d[idx].open = -x /\ d[idx].close = -y
      BY <1>1, Reflection
<1>7. PICK low \in Int, high \in Int :
        /\ low = Min({x, y}) /\ high = Max({x, y})
        /\ Min({-x, -y}) = -high /\ Max({-x, -y}) = -low
      BY EdgesReflected
<1>8. ASSUME NEW j \in (idx + 1)..n
      PROVE  /\ d[j].close < -high <=> c[j].close > high
             /\ d[j].close > -low <=> c[j].close < low
  <2>1. j \in 1..n
        OBVIOUS
  <2>2. c[j].close \in Int /\ d[j].close = -c[j].close
        BY <1>1, <2>1, Reflection
  <2>3. QED
        BY <2>2
<1>9. Mitigated(c, b) = \E j \in (idx + 1)..n :
        IF b.direction = "bull" THEN c[j].close < low ELSE c[j].close > high
      BY <1>1, <1>4, <1>6, <1>7 DEF Mitigated
<1>10. Mitigated(d, FlippedBlock(b)) = \E j \in (idx + 1)..n :
         IF FlippedBlock(b).direction = "bull" THEN d[j].close < -high ELSE d[j].close > -low
       BY <1>1, <1>4, <1>6, <1>7 DEF Mitigated
<1>11. CASE b.direction = "bull"
       BY <1>5, <1>8, <1>9, <1>10, <1>11
<1>12. CASE b.direction = "bear"
       BY <1>5, <1>8, <1>9, <1>10, <1>12
<1>13. QED
  BY <1>3, <1>11, <1>12

\* The exit rule finds the same candle.
LEMMA ExitReflected ==
  ASSUME NEW c, NEW d, Reflects(c, d), NEW dn \in Directions
  PROVE  OppositeBreak(d, Flipped(dn)) = OppositeBreak(c, dn)
<1>1. PICK n \in Nat : n = Len(c) /\ n = Len(d)
      BY Reflection
<1>2. SwingLows(d) = SwingHighs(c) /\ SwingHighs(d) = SwingLows(c)
      BY SwingsReflected
<1>3. ASSUME NEW i \in 1..n
      PROVE  /\ Crosses(d, "bear", i) <=> Crosses(c, "bull", i)
             /\ Crosses(d, "bull", i) <=> Crosses(c, "bear", i)
  <2>1. SeenBy(d, "bear", i) = SeenBy(c, "bull", i) /\ SeenBy(d, "bull", i) = SeenBy(c, "bear", i)
        BY <1>2 DEF SeenBy, Marks
  <2>2. c[i].close \in Int /\ d[i].close = -c[i].close
        BY <1>1, Reflection
  <2>3. ASSUME NEW s \in SeenBy(c, "bull", i) \cup SeenBy(c, "bear", i)
        PROVE  /\ Past("bear", d[i].close, Mark(d, "bear", s)) <=> Past("bull", c[i].close, Mark(c, "bull", s))
               /\ Past("bull", d[i].close, Mark(d, "bull", s)) <=> Past("bear", c[i].close, Mark(c, "bear", s))
    <3>1. s \in 1..Len(c)
          BY Reflection, MarkType DEF SeenBy
    <3>2. c[s].high \in Int /\ c[s].low \in Int /\ d[s].low = -c[s].high /\ d[s].high = -c[s].low
          BY <3>1, Reflection
    <3>3. /\ d[i].close < d[s].low <=> c[i].close > c[s].high
          /\ d[i].close > d[s].high <=> c[i].close < c[s].low
          BY <2>2, <3>2
    <3>4. QED
          BY <3>3 DEF Past, Mark
  <2>4. QED
        BY <2>1, <2>3 DEF Crosses
<1>4. Crossing(d, "bear") = Crossing(c, "bull") /\ Crossing(d, "bull") = Crossing(c, "bear")
      BY <1>1, <1>3 DEF Crossing
<1>5. FirstBreak(d, "long") = FirstBreak(c, "short") /\ FirstBreak(d, "short") = FirstBreak(c, "long")
      BY <1>4, Reflection, FirstBreakIs
<1>6. Flipped("long") = "short" /\ Flipped("short") = "long"
      BY DEF Flipped
<1>7. QED
  BY <1>1, <1>5, <1>6 DEF OppositeBreak, Directions

-----------------------------------------------------------------------------
(* Lines upside down.                                                      *)

\* Supports become resistances, through the same swings.
LEMMA KindsReflected ==
  ASSUME NEW c, NEW d, Reflects(c, d), NEW kind \in Kinds
  PROVE  /\ Flipped(kind) \in Kinds /\ Flipped(Flipped(kind)) = kind /\ Flipped(kind) # kind
         /\ Flipped(kind) = "support" <=> kind # "support"
         /\ Swings(d, Flipped(kind)) = Swings(c, kind)
         /\ \A k \in 1..Len(c) : /\ Wick(c, kind, k) \in Int
                                 /\ Wick(d, Flipped(kind), k) = -Wick(c, kind, k)
<1>1. /\ Flipped("support") = "resistance" /\ Flipped("resistance") = "support"
      /\ kind = "support" \/ kind = "resistance"
      BY DEF Flipped, Kinds
<1>2. SwingLows(d) = SwingHighs(c) /\ SwingHighs(d) = SwingLows(c)
      BY SwingsReflected
<1>3. \A k \in 1..Len(c) : /\ c[k].low \in Int /\ c[k].high \in Int
                           /\ d[k].high = -c[k].low /\ d[k].low = -c[k].high
      BY Reflection
<1>4. CASE kind = "support"
      BY <1>1, <1>2, <1>3, <1>4 DEF Swings, Wick, Kinds
<1>5. CASE kind = "resistance"
      BY <1>1, <1>2, <1>3, <1>5 DEF Swings, Wick, Kinds
<1>6. QED
  BY <1>1, <1>4, <1>5

\* A line through two swings of a history.
Through(c, kind, line) ==
  /\ kind \in Kinds /\ line.type = kind
  /\ line.a \in Swings(c, kind) /\ line.b \in Swings(c, kind) /\ line.a < line.b
  /\ line = Line(c, kind, line.a, line.b)

\* Its ends are candles, and its wicks whole prices.
LEMMA ThroughType ==
  ASSUME NEW c \in History, NEW kind, NEW line, Through(c, kind, line)
  PROVE  /\ line.a \in 1..Len(c) /\ line.b \in 1..Len(c) /\ line.a < line.b
         /\ line.a \in Int /\ line.b \in Int /\ Length(line) \in Nat \ {0}
         /\ line.start \in Int /\ line.end \in Int
         /\ line.start = Wick(c, kind, line.a) /\ line.end = Wick(c, kind, line.b)
<1>1. PICK n \in Nat : n = Len(c)
      BY HistoryCandles
<1>2. PICK a \in 1..n, b \in 1..n : a = line.a /\ b = line.b /\ a < b
      BY <1>1, SwingsInside DEF Through
<1>3. line.start = Wick(c, kind, a) /\ line.end = Wick(c, kind, b)
      BY <1>2 DEF Through, Line
<1>4. \A k \in 1..n : Wick(c, kind, k) \in Int
      BY <1>1, HistoryCandles DEF Wick
<1>5. b - a \in Nat \ {0} /\ a \in Int /\ b \in Int
      BY <1>2
<1>6. Length(line) = b - a
      BY <1>2 DEF Length
<1>7. QED
  BY <1>1, <1>2, <1>3, <1>4, <1>5, <1>6

\* Upside down it is the mirrored line.
LEMMA LineReflected ==
  ASSUME NEW c, NEW d, Reflects(c, d), NEW kind, NEW line, Through(c, kind, line)
  PROVE  /\ Through(d, Flipped(kind), MirroredLine(line))
         /\ MirroredLine(MirroredLine(line)) = line
         /\ MirroredLine(line).a = line.a /\ MirroredLine(line).b = line.b
         /\ MirroredLine(line).type = Flipped(kind)
         /\ MirroredLine(line).start = -line.start /\ MirroredLine(line).end = -line.end
         /\ Length(MirroredLine(line)) = Length(line)
<1>1. PICK a, b, x, y :
        /\ a = line.a /\ b = line.b /\ x = line.start /\ y = line.end
        /\ line = [type |-> kind, a |-> a, b |-> b, start |-> x, end |-> y]
        /\ a \in 1..Len(c) /\ b \in 1..Len(c) /\ a < b /\ x \in Int /\ y \in Int
        /\ x = Wick(c, kind, a) /\ y = Wick(c, kind, b)
        /\ a \in Swings(c, kind) /\ b \in Swings(c, kind)
  <2>1. /\ line.a \in 1..Len(c) /\ line.b \in 1..Len(c) /\ line.a < line.b
        /\ line.start \in Int /\ line.end \in Int
        /\ line.start = Wick(c, kind, line.a) /\ line.end = Wick(c, kind, line.b)
        BY ThroughType, Reflection
  <2>2. line = [type |-> kind, a |-> line.a, b |-> line.b, start |-> line.start, end |-> line.end]
        BY <2>1 DEF Through, Line
  <2>3. line.a \in Swings(c, kind) /\ line.b \in Swings(c, kind)
        BY DEF Through
  <2>4. QED
        BY <2>1, <2>2, <2>3
<1>2. /\ Flipped(kind) \in Kinds /\ Flipped(Flipped(kind)) = kind
      /\ Swings(d, Flipped(kind)) = Swings(c, kind)
      /\ \A k \in 1..Len(c) : Wick(d, Flipped(kind), k) = -Wick(c, kind, k)
      BY KindsReflected DEF Through
<1> DEFINE m == MirroredLine(line)
<1>3. m = [type |-> Flipped(kind), a |-> a, b |-> b, start |-> -x, end |-> -y]
      BY <1>1 DEF MirroredLine
<1>4. m.type = Flipped(kind) /\ m.a = a /\ m.b = b /\ m.start = -x /\ m.end = -y
      BY <1>3
<1> HIDE DEF m
<1>5. -(-x) = x /\ -(-y) = y
      BY <1>1
<1>6. MirroredLine(m) = line
      BY <1>1, <1>2, <1>4, <1>5 DEF MirroredLine
<1>7. m = Line(d, Flipped(kind), a, b)
      BY <1>1, <1>2, <1>3 DEF Line
<1>8. Through(d, Flipped(kind), m)
      BY <1>1, <1>2, <1>4, <1>7 DEF Through
<1>9. Length(m) = Length(line)
      BY <1>1, <1>4 DEF Length
<1>10. QED
  BY <1>1, <1>4, <1>6, <1>8, <1>9 DEF m

\* Its values are the negatives of the line's.
LEMMA ValueReflected ==
  ASSUME NEW c, NEW d, Reflects(c, d), NEW kind, NEW line, Through(c, kind, line), NEW k \in Int
  PROVE  /\ Value(line, k) \in Int
         /\ Value(MirroredLine(line), k) = -Value(line, k)
<1> DEFINE m == MirroredLine(line)
<1>1. PICK x \in Int, y \in Int, l \in Int, p \in Int :
        x = line.start /\ y = line.end /\ l = Length(line) /\ p = k - line.a
      BY ThroughType, Reflection
<1>2. m.start = -x /\ m.end = -y /\ Length(m) = l /\ k - m.a = p
      BY <1>1, LineReflected
<1> HIDE DEF m
<1>3. Value(line, k) = x * l + (y - x) * p /\ Value(m, k) = (-x) * l + ((-y) - (-x)) * p
      BY <1>1, <1>2 DEF Value
<1>4. (-x) * l + ((-y) - (-x)) * p = -(x * l + (y - x) * p)
      OBVIOUS
<1>5. QED
  BY <1>3, <1>4 DEF m

\* A candle is as far off the mirrored line, on the other side.
LEMMA OffReflected ==
  ASSUME NEW c, NEW d, Reflects(c, d), NEW kind, NEW line, Through(c, kind, line),
         NEW k \in line.a..line.b
  PROVE  /\ Off(c, line, k) \in Int
         /\ Off(d, MirroredLine(line), k) = -Off(c, line, k)
<1> DEFINE m == MirroredLine(line)
<1>1. PICK n \in Nat : n = Len(c)
      BY Reflection
<1>2. line.a \in 1..n /\ line.b \in 1..n
      BY <1>1, ThroughType, Reflection
<1>3. k \in 1..n /\ k \in Int
      BY <1>2
<1>4. kind \in Kinds /\ line.type = kind
      BY DEF Through
<1>5. PICK w \in Int : w = Wick(c, kind, k) /\ Wick(d, Flipped(kind), k) = -w
      BY <1>1, <1>3, <1>4, KindsReflected
<1>6. PICK v \in Int : v = Value(line, k) /\ Value(m, k) = -v
      BY <1>3, ValueReflected
<1>7. PICK l \in Int : l = Length(line) /\ Length(m) = l /\ m.type = Flipped(kind)
      BY LineReflected, ThroughType, Reflection
<1> HIDE DEF m
<1>8. Off(c, line, k) = w * l - v /\ Off(d, m, k) = (-w) * l - (-v)
      BY <1>4, <1>5, <1>6, <1>7 DEF Off
<1>9. (-w) * l - (-v) = -(w * l - v) /\ w * l - v \in Int
      OBVIOUS
<1>10. QED
  BY <1>8, <1>9 DEF m

\* The same candles touch it and violate it, and it has the trend of its kind.
LEMMA ValidReflected ==
  ASSUME NEW c, NEW d, Reflects(c, d), NEW kind, NEW line, Through(c, kind, line), NEW band
  PROVE  /\ WithTrend(MirroredLine(line)) <=> WithTrend(line)
         /\ Touches(d, MirroredLine(line), band) = Touches(c, line, band)
         /\ Violated(d, MirroredLine(line), band) <=> Violated(c, line, band)
<1> DEFINE m == MirroredLine(line)
<1>1. /\ m.a = line.a /\ m.b = line.b /\ m.type = Flipped(kind) /\ line.type = kind
      /\ m.start = -line.start /\ m.end = -line.end /\ Length(m) = Length(line)
      BY LineReflected DEF Through
<1>2. Flipped(kind) = "support" <=> kind # "support"
      BY KindsReflected DEF Through
<1>3. ASSUME NEW k \in line.a..line.b
      PROVE  /\ Near(d, m, band, k) <=> Near(c, line, band, k)
             /\ Off(d, m, k) < 0 <=> Off(c, line, k) > 0
             /\ Off(d, m, k) > 0 <=> Off(c, line, k) < 0
  <2>1. PICK o \in Int : o = Off(c, line, k) /\ Off(d, m, k) = -o
        BY OffReflected
  <2>2. Abs(-o) = Abs(o)
        BY DEF Abs
  <2>3. Near(d, m, band, k) <=> Near(c, line, band, k)
        BY <1>1, <2>1, <2>2 DEF Near
  <2>4. (-o < 0 <=> o > 0) /\ (-o > 0 <=> o < 0)
        OBVIOUS
  <2>5. QED
        BY <2>1, <2>3, <2>4
<1>4. PICK x \in Int, y \in Int : x = line.start /\ y = line.end
      BY ThroughType, Reflection
<1>5. (-x < -y <=> x > y) /\ (-x > -y <=> x < y)
      OBVIOUS
<1> HIDE DEF m
<1>6. WithTrend(m) <=> WithTrend(line)
      BY <1>1, <1>2, <1>4, <1>5 DEF WithTrend
<1>7. Touches(d, m, band) = Touches(c, line, band)
      BY <1>1, <1>3 DEF Touches
<1>8. Violated(d, m, band) <=> Violated(c, line, band)
      BY <1>1, <1>2, <1>3 DEF Violated
<1>9. QED
  BY <1>6, <1>7, <1>8 DEF m

\* A chained line goes through two swings.
LEMMA ChainedThrough ==
  ASSUME NEW c, NEW line \in ChainedLines(c)
  PROVE  /\ Through(c, line.type, line)
         /\ Consecutive(Swings(c, line.type), line.a, line.b)
BY ChainedLinesAre DEF Between, Through, Consecutive

\* A chained line upside down is one.
LEMMA ChainedReflected ==
  ASSUME NEW c, NEW d, Reflects(c, d), NEW line \in ChainedLines(c)
  PROVE  MirroredLine(line) \in ChainedLines(d) /\ MirroredLine(MirroredLine(line)) = line
<1> DEFINE m == MirroredLine(line)
           kind == line.type
<1>1. Through(c, kind, line) /\ Consecutive(Swings(c, kind), line.a, line.b)
      BY ChainedThrough
<1>2. ~(Len(c) < MinLineBars) /\ Valid(c, line, MeanAtr(c))
      BY ChainedLinesAre
<1>3. Len(d) = Len(c) /\ MeanAtr(d) = MeanAtr(c)
      BY Reflection, AtrReflected
<1>4. /\ Through(d, Flipped(kind), m) /\ MirroredLine(m) = line
      /\ m.a = line.a /\ m.b = line.b /\ m.type = Flipped(kind)
      BY <1>1, LineReflected
<1>5. Swings(d, Flipped(kind)) = Swings(c, kind)
      BY <1>1, KindsReflected DEF Through
<1>6. /\ WithTrend(m) <=> WithTrend(line)
      /\ Touches(d, m, MeanAtr(c)) = Touches(c, line, MeanAtr(c))
      /\ Violated(d, m, MeanAtr(c)) <=> Violated(c, line, MeanAtr(c))
      BY <1>1, ValidReflected
<1> HIDE DEF m, kind
<1>7. Between(d, m)
      BY <1>1, <1>4, <1>5 DEF Between, Through
<1>8. Valid(d, m, MeanAtr(d))
      BY <1>2, <1>3, <1>6 DEF Valid
<1>9. m \in ChainedLines(d)
      BY <1>2, <1>3, <1>7, <1>8, ChainedLinesAre
<1>10. QED
  BY <1>4, <1>9 DEF m

\* The chained lines upside down.
LEMMA LinesReflected ==
  ASSUME NEW c, NEW d, Reflects(c, d)
  PROVE  ChainedLines(d) = {MirroredLine(l) : l \in ChainedLines(c)}
<1>1. Reflects(d, c)
      BY ReflectedBack
<1>2. \A l \in ChainedLines(c) : MirroredLine(l) \in ChainedLines(d)
      BY ChainedReflected
<1>3. \A l \in ChainedLines(d) : MirroredLine(l) \in ChainedLines(c) /\ MirroredLine(MirroredLine(l)) = l
      BY <1>1, ChainedReflected
<1>4. QED
  BY <1>2, <1>3

\* The lines that compete for the best, and how they are ranked.
Recent(c, kind) ==
  {s \in Swings(c, kind) : Cardinality({t \in Swings(c, kind) : t > s}) < MaxSwings}
Candidate(c, kind, line) ==
  /\ line.a \in Recent(c, kind) /\ line.b \in Recent(c, kind) /\ line.a < line.b
  /\ line = Line(c, kind, line.a, line.b)
  /\ WithTrend(line)
  /\ Cardinality(Touches(c, line, MeanAtr(c))) >= MinTouches
  /\ line.b > Len(c) - RecentBars
Rank(c, line) == 1000 * Cardinality(Touches(c, line, MeanAtr(c))) + line.b
Beats(c, l, m) == \/ Rank(c, l) > Rank(c, m)
                  \/ Rank(c, l) = Rank(c, m) /\ l.a <= m.a

\* The best lines are the candidates that no other one beats.
LEMMA BestLinesAre ==
  ASSUME NEW c, NEW kind, NEW line
  PROVE  line \in BestLines(c, kind) <=>
           /\ ~(Len(c) < MinLineBars) /\ Candidate(c, kind, line)
           /\ \A m : Candidate(c, kind, m) => Beats(c, line, m)
<1> DEFINE recent == Recent(c, kind)
           from == {Line(c, kind, p[1], p[2]) : p \in {q \in recent \X recent : q[1] < q[2]}}
           lines == {l \in from : /\ WithTrend(l)
                                  /\ Cardinality(Touches(c, l, MeanAtr(c))) >= MinTouches
                                  /\ l.b > Len(c) - RecentBars}
<1>1. \A l : l \in from <=> l.a \in recent /\ l.b \in recent /\ l.a < l.b /\ l = Line(c, kind, l.a, l.b)
  <2>1. ASSUME NEW l \in from
        PROVE  l.a \in recent /\ l.b \in recent /\ l.a < l.b /\ l = Line(c, kind, l.a, l.b)
    <3>1. PICK a \in recent, b \in recent : a < b /\ l = Line(c, kind, a, b)
          OBVIOUS
    <3>2. l.a = a /\ l.b = b
          BY <3>1 DEF Line
    <3>3. QED
          BY <3>1, <3>2
  <2>2. ASSUME NEW l, l.a \in recent, l.b \in recent, l.a < l.b, l = Line(c, kind, l.a, l.b)
        PROVE  l \in from
    <3>1. PICK p : p = <<l.a, l.b>>
          OBVIOUS
    <3>2. p \in recent \X recent /\ p[1] = l.a /\ p[2] = l.b
          BY <2>2, <3>1
    <3>3. QED
          BY <2>2, <3>2
  <2>3. QED
        BY <2>1, <2>2
<1>2. BestLines(c, kind) = IF Len(c) < MinLineBars THEN {}
                           ELSE {l \in lines : \A m \in lines : Beats(c, l, m)}
      BY DEF BestLines, Recent, Rank, Beats
<1> HIDE DEF from, recent
<1>3. \A l : l \in lines <=> Candidate(c, kind, l)
      BY <1>1 DEF Candidate, recent
<1> HIDE DEF lines
<1>4. QED
  BY <1>2, <1>3

\* A candidate upside down is one, with the same rank.
LEMMA CandidateReflected ==
  ASSUME NEW c, NEW d, Reflects(c, d), NEW kind \in Kinds, NEW line, Candidate(c, kind, line)
  PROVE  /\ Candidate(d, Flipped(kind), MirroredLine(line))
         /\ MirroredLine(MirroredLine(line)) = line
         /\ MirroredLine(line).a = line.a
         /\ Rank(d, MirroredLine(line)) = Rank(c, line)
<1> DEFINE m == MirroredLine(line)
<1>1. Len(d) = Len(c) /\ MeanAtr(d) = MeanAtr(c)
      BY Reflection, AtrReflected
<1>2. Swings(d, Flipped(kind)) = Swings(c, kind)
      BY KindsReflected
<1>3. Recent(d, Flipped(kind)) = Recent(c, kind)
      BY <1>2 DEF Recent
<1>4. Through(c, kind, line)
  <2>1. line.a \in Swings(c, kind) /\ line.b \in Swings(c, kind) /\ line.a < line.b
        BY DEF Candidate, Recent
  <2>2. line = Line(c, kind, line.a, line.b)
        BY DEF Candidate
  <2>3. line.type = kind
        BY <2>2 DEF Line
  <2>4. QED
        BY <2>1, <2>2, <2>3 DEF Through
<1>5. /\ Through(d, Flipped(kind), m) /\ MirroredLine(m) = line
      /\ m.a = line.a /\ m.b = line.b /\ m.type = Flipped(kind)
      BY <1>4, LineReflected
<1>6. /\ WithTrend(m) <=> WithTrend(line)
      /\ Touches(d, m, MeanAtr(c)) = Touches(c, line, MeanAtr(c))
      BY <1>4, ValidReflected
<1> HIDE DEF m
<1>7. Candidate(d, Flipped(kind), m)
      BY <1>1, <1>3, <1>5, <1>6 DEF Candidate, Through
<1>8. Rank(d, m) = Rank(c, line)
      BY <1>1, <1>5, <1>6 DEF Rank
<1>9. QED
  BY <1>5, <1>7, <1>8 DEF m

\* A best line upside down is one.
LEMMA BestReflected ==
  ASSUME NEW c, NEW d, Reflects(c, d), NEW kind \in Kinds, NEW line \in BestLines(c, kind)
  PROVE  /\ MirroredLine(line) \in BestLines(d, Flipped(kind))
         /\ MirroredLine(MirroredLine(line)) = line
<1>1. /\ ~(Len(c) < MinLineBars) /\ Candidate(c, kind, line)
      /\ \A m : Candidate(c, kind, m) => Beats(c, line, m)
      BY BestLinesAre
<1>2. Reflects(d, c) /\ Len(d) = Len(c)
      BY ReflectedBack, Reflection
<1>3. Flipped(kind) \in Kinds /\ Flipped(Flipped(kind)) = kind
      BY KindsReflected
<1>4. /\ Candidate(d, Flipped(kind), MirroredLine(line))
      /\ MirroredLine(MirroredLine(line)) = line
      /\ MirroredLine(line).a = line.a
      /\ Rank(d, MirroredLine(line)) = Rank(c, line)
      BY <1>1, CandidateReflected
<1>5. ASSUME NEW m, Candidate(d, Flipped(kind), m) PROVE Beats(d, MirroredLine(line), m)
  <2>1. /\ Candidate(c, kind, MirroredLine(m))
        /\ MirroredLine(m).a = m.a /\ Rank(c, MirroredLine(m)) = Rank(d, m)
        BY <1>2, <1>3, <1>5, CandidateReflected
  <2>2. Beats(c, line, MirroredLine(m))
        BY <1>1, <2>1
  <2>3. QED
        BY <1>4, <2>1, <2>2 DEF Beats
<1>6. QED
  BY <1>1, <1>2, <1>4, <1>5, BestLinesAre

\* The best lines upside down.
LEMMA BestLinesReflected ==
  ASSUME NEW c, NEW d, Reflects(c, d), NEW kind \in Kinds
  PROVE  BestLines(d, Flipped(kind)) = {MirroredLine(l) : l \in BestLines(c, kind)}
<1>1. Reflects(d, c) /\ Flipped(kind) \in Kinds /\ Flipped(Flipped(kind)) = kind
      BY ReflectedBack, KindsReflected
<1>2. \A l \in BestLines(c, kind) : MirroredLine(l) \in BestLines(d, Flipped(kind))
      BY BestReflected
<1>3. ASSUME NEW l \in BestLines(d, Flipped(kind))
      PROVE  MirroredLine(l) \in BestLines(c, kind) /\ MirroredLine(MirroredLine(l)) = l
      BY <1>1, BestReflected
<1>4. QED
  BY <1>2, <1>3

-----------------------------------------------------------------------------
(* Signals upside down.                                                    *)

\* Of the chained lines of a kind only one ends with a swing.
LEMMA OneLineEnds ==
  ASSUME NEW c \in History, NEW kind, NEW l \in OfKind(ChainedLines(c), kind),
         NEW m \in OfKind(ChainedLines(c), kind), l.b = m.b
  PROVE  l = m
<1> DEFINE swings == Swings(c, kind)
<1>1. /\ Through(c, kind, l) /\ Consecutive(swings, l.a, l.b)
      /\ Through(c, kind, m) /\ Consecutive(swings, m.a, m.b)
      BY ChainedThrough DEF OfKind
<1>2. /\ l.a \in swings /\ m.a \in swings /\ l.a < l.b /\ m.a < m.b
      /\ l = Line(c, kind, l.a, l.b) /\ m = Line(c, kind, m.a, m.b)
      BY <1>1 DEF Through
<1>3. l.a \in Int /\ m.a \in Int
      BY <1>1, ThroughType
<1>4. ~(l.a < m.a) /\ ~(m.a < l.a)
      BY <1>1, <1>2 DEF Consecutive
<1>5. l.a = m.a
      BY <1>3, <1>4
<1>6. QED
  BY <1>2, <1>5

\* The lines of a kind are, upside down, those of the other.
LEMMA KindReflected ==
  ASSUME NEW c, NEW d, Reflects(c, d), NEW kind \in Kinds
  PROVE  OfKind(ChainedLines(d), Flipped(kind)) =
           {MirroredLine(l) : l \in OfKind(ChainedLines(c), kind)}
<1>1. ChainedLines(d) = {MirroredLine(l) : l \in ChainedLines(c)}
      BY LinesReflected
<1>2. \A l : MirroredLine(l).type = Flipped(l.type)
      BY DEF MirroredLine
<1>3. \A l \in ChainedLines(c) : l.type \in Kinds
      BY ChainedThrough DEF Through
<1>4. \A k \in Kinds : Flipped(k) = Flipped(kind) <=> k = kind
      BY DEF Kinds, Flipped
<1>5. \A l \in ChainedLines(c) : MirroredLine(l).type = Flipped(kind) <=> l.type = kind
      BY <1>2, <1>3, <1>4
<1>6. QED
  BY <1>1, <1>5 DEF OfKind

\* So is the last one.
LEMMA LastReflected ==
  ASSUME NEW c, NEW d, Reflects(c, d), NEW kind \in Kinds, OfKind(ChainedLines(c), kind) # {}
  PROVE  /\ LastLine(ChainedLines(d), Flipped(kind)) = MirroredLine(LastLine(ChainedLines(c), kind))
         /\ Through(c, kind, LastLine(ChainedLines(c), kind))
<1> DEFINE lines == OfKind(ChainedLines(c), kind)
           others == OfKind(ChainedLines(d), Flipped(kind))
           last == LastLine(ChainedLines(c), kind)
           other == LastLine(ChainedLines(d), Flipped(kind))
<1>1. others = {MirroredLine(l) : l \in lines} /\ others # {}
      BY KindReflected
<1>2. last \in lines /\ \A l \in lines : l.b <= last.b
      BY LastLineIs, Reflection
<1>3. other \in others /\ \A l \in others : l.b <= other.b
      BY <1>1, LastLineIs, Reflection
<1>4. \A l : MirroredLine(l).b = l.b
      BY DEF MirroredLine
<1>5. PICK l \in lines : other = MirroredLine(l)
      BY <1>1, <1>3
<1>6. MirroredLine(last) \in others
      BY <1>1, <1>2
<1>7. last.b <= l.b /\ l.b <= last.b
      BY <1>2, <1>3, <1>4, <1>5, <1>6
<1>8. \A m \in lines : m.b \in Int /\ Through(c, kind, m)
  <2> SUFFICES ASSUME NEW m \in lines PROVE m.b \in Int /\ Through(c, kind, m)
      OBVIOUS
  <2>1. Through(c, kind, m)
        BY ChainedThrough DEF OfKind
  <2>2. QED
        BY <2>1, ThroughType, Reflection
<1>9. l.b = last.b
      BY <1>2, <1>7, <1>8
<1>10. l = last
       BY <1>2, <1>9, OneLineEnds, Reflection
<1>11. QED
  BY <1>2, <1>5, <1>8, <1>10

\* A price above a line is, upside down, below the mirrored one.
LEMMA SidesReflected ==
  ASSUME NEW c, NEW d, Reflects(c, d), NEW kind, NEW line, Through(c, kind, line),
         NEW k \in Int, NEW price \in Int
  PROVE  /\ Above(MirroredLine(line), k, -price) <=> Below(line, k, price)
         /\ Below(MirroredLine(line), k, -price) <=> Above(line, k, price)
<1>1. PICK v \in Int : v = Value(line, k) /\ Value(MirroredLine(line), k) = -v
      BY ValueReflected
<1>2. PICK l \in Int : l = Length(line) /\ Length(MirroredLine(line)) = l
      BY LineReflected, ThroughType, Reflection
<1>3. PICK p \in Int : p = price * l /\ (-price) * l = -p
      OBVIOUS
<1>4. (-p > -v <=> p < v) /\ (-p < -v <=> p > v)
      OBVIOUS
<1>5. QED
  BY <1>1, <1>2, <1>3, <1>4 DEF Above, Below

\* What a direction turns into, and the kinds of its lines.
LEMMA DirectionsReflected ==
  ASSUME NEW dn \in Directions
  PROVE  /\ Flipped(dn) \in Directions /\ dn \in {"long", "short"}
         /\ Flipped(dn) = "long" <=> dn = "short"
         /\ Flipped(dn) = "short" <=> dn = "long"
         /\ ActionKind(dn) \in Kinds /\ SafetyKind(dn) \in Kinds
         /\ ActionKind(Flipped(dn)) = Flipped(ActionKind(dn))
         /\ SafetyKind(Flipped(dn)) = Flipped(SafetyKind(dn))
<1>1. CASE dn = "long"
      BY <1>1 DEF Directions, Flipped, ActionKind, SafetyKind, Kinds
<1>2. CASE dn = "short"
      BY <1>2 DEF Directions, Flipped, ActionKind, SafetyKind, Kinds
<1>3. QED
  BY <1>1, <1>2 DEF Directions

\* The last line of a kind is gained and lost at the same prices.
LEMMA GainsReflected ==
  ASSUME NEW c, NEW d, Reflects(c, d), NEW kind \in Kinds, OfKind(ChainedLines(c), kind) # {},
         NEW k \in Int, NEW price \in Int, NEW dn \in Directions
  PROVE  LET line == LastLine(ChainedLines(c), kind)
             other == LastLine(ChainedLines(d), Flipped(kind))
         IN /\ Gained(other, k, -price, Flipped(dn)) <=> Gained(line, k, price, dn)
            /\ Lost(other, k, -price, Flipped(dn)) <=> Lost(line, k, price, dn)
<1> DEFINE line == LastLine(ChainedLines(c), kind)
           other == LastLine(ChainedLines(d), Flipped(kind))
<1>1. other = MirroredLine(line) /\ Through(c, kind, line)
      BY LastReflected
<1> HIDE DEF line, other
<1>2. /\ Above(other, k, -price) <=> Below(line, k, price)
      /\ Below(other, k, -price) <=> Above(line, k, price)
      BY <1>1, SidesReflected
<1>3. /\ Flipped(dn) = "long" <=> dn = "short"
      /\ dn \in {"long", "short"}
      BY DirectionsReflected
<1>4. /\ Gained(other, k, -price, Flipped(dn)) <=> Gained(line, k, price, dn)
      /\ Lost(other, k, -price, Flipped(dn)) <=> Lost(line, k, price, dn)
      BY <1>2, <1>3 DEF Gained, Lost
<1>5. QED
  BY <1>4 DEF line, other

\* The trade ends upside down where it ends.
LEMMA SafetyReflected ==
  ASSUME NEW c, NEW d, Reflects(c, d), NEW close \in Int, NEW dn \in Directions
  PROVE  SafetyExit(Drawn(d), -close, Flipped(dn)) = SafetyExit(Drawn(c), close, dn)
<1>1. PICK n \in Nat : n = Len(c) /\ n = Len(d)
      BY Reflection
<1>2. /\ Drawn(c).lines = ChainedLines(c) /\ Drawn(c).last = n
      /\ Drawn(d).lines = ChainedLines(d) /\ Drawn(d).last = n
      BY <1>1, DrawnIs
<1>3. PICK kind \in Kinds : kind = SafetyKind(dn) /\ SafetyKind(Flipped(dn)) = Flipped(kind)
      BY DirectionsReflected
<1>4. OfKind(ChainedLines(d), Flipped(kind)) # {} <=> OfKind(ChainedLines(c), kind) # {}
      BY KindReflected
<1>5. CASE OfKind(ChainedLines(c), kind) = {}
      BY <1>2, <1>3, <1>4, <1>5 DEF SafetyExit
<1>6. CASE OfKind(ChainedLines(c), kind) # {}
  <2>1. Lost(LastLine(ChainedLines(d), Flipped(kind)), n, -close, Flipped(dn))
          <=> Lost(LastLine(ChainedLines(c), kind), n, close, dn)
        BY <1>6, GainsReflected
  <2>2. QED
        BY <1>2, <1>3, <1>4, <2>1 DEF SafetyExit
<1>7. QED
  BY <1>5, <1>6

\* A bias is a direction or none.
LEMMA BiasType ==
  ASSUME NEW c
  PROVE  BiasAsOf(c) \in {"none", "long", "short"}
BY DEF BiasAsOf, Bias

\* A cross becomes a signal where its mirror image does.
LEMMA SignalsReflected ==
  ASSUME NEW c, NEW d, Reflects(c, d), NEW close \in Int, NEW dn \in Directions,
         NEW bias \in {"none", "long", "short"}
  PROVE  Signals(Drawn(d), {Flipped(bias)}, -close, Flipped(dn)) = Signals(Drawn(c), {bias}, close, dn)
<1>1. PICK n \in Nat : n = Len(c) /\ n = Len(d)
      BY Reflection
<1>2. /\ Drawn(c).lines = ChainedLines(c) /\ Drawn(c).last = n
      /\ Drawn(d).lines = ChainedLines(d) /\ Drawn(d).last = n
      BY <1>1, DrawnIs
<1>3. PICK action \in Kinds, safety \in Kinds :
        /\ action = ActionKind(dn) /\ ActionKind(Flipped(dn)) = Flipped(action)
        /\ safety = SafetyKind(dn) /\ SafetyKind(Flipped(dn)) = Flipped(safety)
      BY DirectionsReflected
<1>4. ASSUME NEW kind \in Kinds
      PROVE  OfKind(ChainedLines(d), Flipped(kind)) # {} <=> OfKind(ChainedLines(c), kind) # {}
      BY KindReflected
<1> DEFINE opposite(x) == IF x = "long" THEN "short" ELSE "long"
<1>5. opposite(Flipped(dn)) \notin {Flipped(bias)} <=> opposite(dn) \notin {bias}
  <2>1. /\ Flipped("long") = "short" /\ Flipped("short") = "long" /\ Flipped("none") = "none"
        BY DEF Flipped
  <2>2. QED
        BY <2>1 DEF Directions
<1>6. /\ Signals(Drawn(c), {bias}, close, dn) <=>
           /\ opposite(dn) \notin {bias}
           /\ OfKind(ChainedLines(c), action) # {} /\ OfKind(ChainedLines(c), safety) # {}
           /\ Gained(LastLine(ChainedLines(c), action), n, close, dn)
           /\ Gained(LastLine(ChainedLines(c), safety), n, close, dn)
      /\ Signals(Drawn(d), {Flipped(bias)}, -close, Flipped(dn)) <=>
           /\ opposite(Flipped(dn)) \notin {Flipped(bias)}
           /\ OfKind(ChainedLines(d), Flipped(action)) # {} /\ OfKind(ChainedLines(d), Flipped(safety)) # {}
           /\ Gained(LastLine(ChainedLines(d), Flipped(action)), n, -close, Flipped(dn))
           /\ Gained(LastLine(ChainedLines(d), Flipped(safety)), n, -close, Flipped(dn))
      BY <1>2, <1>3 DEF Signals, SafeSide
<1> HIDE DEF opposite
<1>7. CASE OfKind(ChainedLines(c), action) = {} \/ OfKind(ChainedLines(c), safety) = {}
  <2>1. ~Signals(Drawn(c), {bias}, close, dn) /\ ~Signals(Drawn(d), {Flipped(bias)}, -close, Flipped(dn))
        BY <1>4, <1>6, <1>7
  <2>2. QED
        BY <2>1 DEF Signals
<1>8. CASE OfKind(ChainedLines(c), action) # {} /\ OfKind(ChainedLines(c), safety) # {}
  <2>1. /\ Gained(LastLine(ChainedLines(d), Flipped(action)), n, -close, Flipped(dn))
             <=> Gained(LastLine(ChainedLines(c), action), n, close, dn)
        /\ Gained(LastLine(ChainedLines(d), Flipped(safety)), n, -close, Flipped(dn))
             <=> Gained(LastLine(ChainedLines(c), safety), n, close, dn)
        BY <1>8, GainsReflected
  <2>2. Signals(Drawn(c), {bias}, close, dn) <=> Signals(Drawn(d), {Flipped(bias)}, -close, Flipped(dn))
        BY <1>4, <1>5, <1>6, <1>8, <2>1
  <2>3. QED
        BY <2>2 DEF Signals
<1>9. QED
  BY <1>7, <1>8

\* All of it.
LEMMA StructureReflected ==
  ASSUME BodyMult > 0, rows \in History
  PROVE  StructureMirrored
<1>1. PICK c, d : c = rows /\ d = Mirror(rows)
      OBVIOUS
<1>2. c \in History /\ Reflects(c, d)
      BY <1>1, MirrorReflects
<1>3. SwingHighs(d) = SwingLows(c) /\ SwingLows(d) = SwingHighs(c)
      BY <1>2, SwingsReflected
<1>4. Breaks(d) = {FlippedBreak(e) : e \in Breaks(c)}
      BY <1>2, BreaksReflected
<1>5. BiasAsOf(d) = Flipped(BiasAsOf(c))
      BY <1>2, BiasReflected
<1>6. OrderBlocks(d) = {FlippedBlock(b) : b \in OrderBlocks(c)}
      BY <1>2, BlocksReflected
<1>7. \A b \in OrderBlocks(c) : Mitigated(c, b) = Mitigated(d, FlippedBlock(b))
      BY <1>2, MitigatedReflected
<1>8. \A kind \in Kinds : BestLines(d, Flipped(kind)) = {MirroredLine(l) : l \in BestLines(c, kind)}
      BY <1>2, BestLinesReflected
<1>9. \A dn \in Directions : OppositeBreak(d, Flipped(dn)) = OppositeBreak(c, dn)
      BY <1>2, ExitReflected
<1>10. Drawn(d).lines = {MirroredLine(l) : l \in Drawn(c).lines}
       BY <1>2, LinesReflected, DrawnIs
<1>11. ASSUME NEW dn \in Directions, NEW close \in {c[k].close : k \in DOMAIN c}
       PROVE  /\ Signals(Drawn(d), {Flipped(BiasAsOf(c))}, -close, Flipped(dn))
                   = Signals(Drawn(c), {BiasAsOf(c)}, close, dn)
              /\ SafetyExit(Drawn(d), -close, Flipped(dn)) = SafetyExit(Drawn(c), close, dn)
  <2>1. close \in Int
        BY <1>2, HistoryCandles
  <2>2. PICK bias \in {"none", "long", "short"} : bias = BiasAsOf(c)
        BY BiasType
  <2>3. /\ Signals(Drawn(d), {Flipped(bias)}, -close, Flipped(dn)) = Signals(Drawn(c), {bias}, close, dn)
        /\ SafetyExit(Drawn(d), -close, Flipped(dn)) = SafetyExit(Drawn(c), close, dn)
        BY <1>2, <2>1, SignalsReflected, SafetyReflected
  <2>4. QED
        BY <2>2, <2>3
<1> DEFINE Watch(x, y) ==
        \A result \in {Drawn(x)}, other \in {Drawn(y)}, bias \in {BiasAsOf(x)} :
          /\ other.lines = {MirroredLine(l) : l \in result.lines}
          /\ \A dn \in Directions, close \in {x[k].close : k \in DOMAIN x} :
               /\ Signals(other, {Flipped(bias)}, -close, Flipped(dn))
                    = Signals(result, {bias}, close, dn)
               /\ SafetyExit(other, -close, Flipped(dn)) = SafetyExit(result, close, dn)
<1>12. Watch(c, d)
  <2>1. SUFFICES ASSUME NEW result \in {Drawn(c)}, NEW other \in {Drawn(d)}, NEW bias \in {BiasAsOf(c)}
                 PROVE  /\ other.lines = {MirroredLine(l) : l \in result.lines}
                        /\ \A dn \in Directions, close \in {c[k].close : k \in DOMAIN c} :
                             /\ Signals(other, {Flipped(bias)}, -close, Flipped(dn))
                                  = Signals(result, {bias}, close, dn)
                             /\ SafetyExit(other, -close, Flipped(dn)) = SafetyExit(result, close, dn)
        BY DEF Watch
  <2>2. result = Drawn(c) /\ other = Drawn(d) /\ bias = BiasAsOf(c)
        BY <2>1
  <2>3. QED
        BY <1>10, <1>11, <2>2, Zenon
<1> DEFINE Walk(x, y) ==
        /\ SwingHighs(y) = SwingLows(x) /\ SwingLows(y) = SwingHighs(x)
        /\ Breaks(y) = {FlippedBreak(e) : e \in Breaks(x)}
        /\ BiasAsOf(y) = Flipped(BiasAsOf(x))
        /\ OrderBlocks(y) = {FlippedBlock(b) : b \in OrderBlocks(x)}
        /\ \A b \in OrderBlocks(x) : Mitigated(x, b) = Mitigated(y, FlippedBlock(b))
        /\ \A kind \in Kinds : BestLines(y, Flipped(kind)) = {MirroredLine(l) : l \in BestLines(x, kind)}
        /\ \A dn \in Directions : OppositeBreak(y, Flipped(dn)) = OppositeBreak(x, dn)
<1>13. Walk(c, d)
       BY <1>3, <1>4, <1>5, <1>6, <1>7, <1>8, <1>9, Zenon DEF Walk
<1> HIDE DEF Watch, Walk
<1>14. Walk(rows, Mirror(rows)) /\ Watch(rows, Mirror(rows))
       BY <1>1, <1>12, <1>13, Zenon
<1>15. SUFFICES ASSUME NEW x \in {rows}, NEW y \in {Mirror(rows)}
                PROVE  Walk(x, y) /\ Watch(x, y)
       BY Zenon DEF StructureMirrored, Walk, Watch
<1>16. QED
  BY <1>14, <1>15, Zenon

-----------------------------------------------------------------------------
(* Trend following upside down: the averages.                              *)

\* A float division treats both sides of 0 alike.
LEMMA DividedAlike ==
  ASSUME NEW a \in Int, NEW b \in Nat \ {0}
  PROVE  Divided(a, b) \in Int /\ Divided(-a, b) = -Divided(a, b)
<1>1. -a \in Int /\ a \div b \in Int /\ (-a) \div b \in Int /\ -(-a) = a
      BY Quotient
<1>2. PICK p \in Int, q \in Int : p = a \div b /\ q = (-a) \div b
      BY <1>1
<1>3. CASE a < 0
  <2>1. Divided(a, b) = -q /\ ~(-a < 0) /\ Divided(-a, b) = q
        BY <1>2, <1>3 DEF Divided
  <2>2. QED
        BY <2>1
<1>4. CASE a > 0
  <2>1. -a < 0 /\ ~(a < 0)
        BY <1>4
  <2>2. Divided(a, b) = p /\ Divided(-a, b) = -((-(-a)) \div b)
        BY <2>1, <1>2 DEF Divided
  <2>3. QED
        BY <2>2, <1>1, <1>2
<1>5. CASE a = 0
  <2>1. 0 \div b = 0
        OBVIOUS
  <2>2. Divided(a, b) = 0
        BY <2>1, <1>5 DEF Divided
  <2>3. \A x \in Int : x <= 0 /\ x >= 0 => -x = 0
        OBVIOUS
  <2>4. PICK y \in Int : y = Divided(a, b) /\ y <= 0 /\ y >= 0 /\ a <= 0 /\ a >= 0
        BY <2>2, <1>5
  <2>5. -a = 0 /\ -y = 0
        BY <2>3, <2>4
  <2>6. Divided(-a, b) = Divided(a, b)
        BY <2>5, <1>5, Zenon
  <2>7. QED
        BY <2>2, <2>4, <2>5, <2>6, Zenon
<1>6. QED
  BY <1>3, <1>4, <1>5

\* Of a multiple, a division is exact.
LEMMA DividedExactly ==
  ASSUME NEW x \in Int, NEW b \in Nat \ {0}
  PROVE  Divided(b * x, b) = x
<1>1. \A y \in Int : (b * y) \div b = y
  <2>1. SUFFICES ASSUME NEW y \in Int PROVE (b * y) \div b = y
        OBVIOUS
  <2>2. QED
        OBVIOUS
<1>2. PICK a \in Int : a = b * x
      OBVIOUS
<1>3. CASE x >= 0
  <2>1. a >= 0
        BY <1>2, <1>3
  <2>2. Divided(a, b) = a \div b
        BY <2>1 DEF Divided
  <2>3. QED
        BY <2>2, <1>1, <1>2
<1>4. CASE x < 0
  <2>1. -x \in Int /\ -a = b * (-x)
        BY <1>2
  <2>2. a < 0
        BY <1>2, <1>4
  <2>3. Divided(a, b) = -((-a) \div b)
        BY <2>2 DEF Divided
  <2>4. (-a) \div b = -x
        BY <2>1, <1>1
  <2>5. QED
        BY <2>3, <2>4, <1>2
<1>5. QED
  BY <1>3, <1>4

\* An average is a whole number.
LEMMA EmaWhole ==
  ASSUME NEW c \in History, NEW period \in Nat \ {0}
  PROVE  \A i \in period..Len(c) : Ema(c, period)[i] \in Int
<1>1. PICK n \in Nat : n = Len(c)
      BY HistoryCandles
<1> DEFINE T == {i \in period..n : Ema(c, period)[i] \in Int}
<1>2. CASE period > n
      BY <1>1, <1>2
<1>3. CASE period <= n
  <2>1. period \in period..n /\ period \in Int /\ n \in Int
        BY <1>3
  <2>2. period \in T
    <3>1. Ema(c, period)[period] = FirstEma(c, period)
          BY <1>1, <2>1, EmaDefined
    <3>2. FirstEma(c, period) \in Int
          BY <1>1, <1>3, EmaType
    <3>3. QED
          BY <2>1, <3>1, <3>2
  <2>3. ASSUME NEW i \in period..(n - 1), i \in T PROVE i + 1 \in T
    <3>1. i + 1 \in period..n /\ i + 1 # period /\ (i + 1) - 1 = i
          OBVIOUS
    <3>2. Ema(c, period)[i + 1] = NextEma(c, period, i + 1, Ema(c, period)[i])
          BY <3>1, <1>1, EmaDefined
    <3>3. QED
          BY <3>1, <3>2, <2>3, <1>1, EmaType
  <2> HIDE DEF T
  <2>4. period..n \subseteq T
        BY <2>1, <2>2, <2>3, UpTo
  <2>5. QED
        BY <2>4, <1>1 DEF T
<1>4. QED
  BY <1>1, <1>2, <1>3

\* Behind its first value, an average continues the one before.
LEMMA EmaGoesOn ==
  ASSUME NEW c \in History, NEW period \in Nat \ {0}, NEW i \in (period + 1)..Len(c)
  PROVE  Ema(c, period)[i] = NextEma(c, period, i, Ema(c, period)[i - 1])
<1>1. i \in period..Len(c) /\ i # period
      BY HistoryCandles
<1>2. QED
  BY <1>1, EmaDefined

\* Upside down, an average is the negated one.
LEMMA EmaReflected ==
  ASSUME NEW c, NEW d, Reflects(c, d), NEW period \in Nat \ {0}
  PROVE  \A i \in period..Len(c) : Ema(d, period)[i] = -Ema(c, period)[i]
<1>1. PICK n \in Nat : n = Len(c) /\ n = Len(d)
      BY Reflection
<1>2. c \in History /\ d \in History
      BY Reflection
<1>3. \A i \in 1..n : c[i].close \in Int /\ d[i].close = -c[i].close
      BY <1>1, Reflection
<1> DEFINE T == {i \in period..n : Ema(d, period)[i] = -Ema(c, period)[i]}
<1>4. CASE period > n
      BY <1>1, <1>4
<1>5. CASE period <= n
  <2>1. period \in period..n /\ period \in Int /\ n \in Int
        BY <1>5
  <2>2. period \in T
    <3> DEFINE f == [j \in 1..period |-> c[j].close]
               g == [j \in 1..period |-> d[j].close]
    <3>1. \A j \in 1..period : j \in 1..n
          BY <1>5
    <3>2. f \in [1..period -> Int] /\ g \in [1..period -> Int] /\ \A j \in 1..period : g[j] = -f[j]
          BY <3>1, <1>3
    <3>3. FirstEma(c, period) = SumFunction(f) /\ FirstEma(d, period) = SumFunction(g)
          BY DEF FirstEma
    <3> HIDE DEF f, g
    <3>4. IsFiniteSet(1..period)
          BY FS_Interval
    <3>5. SumFunction(g) = -SumFunction(f)
          BY <3>2, <3>4, SumNegated
    <3>6. QED
          BY <3>3, <3>5, <2>1, <1>1, <1>2, EmaDefined
  <2>3. ASSUME NEW i \in period..(n - 1), i \in T PROVE i + 1 \in T
    <3>1. i + 1 \in period..n /\ i + 1 # period /\ (i + 1) - 1 = i /\ i + 1 \in 1..n /\ i \in period..n
          OBVIOUS
    <3>2. PICK v \in Int, x \in Int : v = Ema(c, period)[i] /\ x = c[i + 1].close
          BY <3>1, <1>1, <1>2, <1>3, EmaWhole
    <3>3. Ema(d, period)[i] = -v /\ d[i + 1].close = -x
          BY <2>3, <3>1, <3>2, <1>3
    <3> DEFINE a == 2 * period * x + (period - 1) * v
    <3>8. /\ Ema(c, period)[i + 1] = NextEma(c, period, i + 1, v)
          /\ Ema(d, period)[i + 1] = NextEma(d, period, i + 1, -v)
      <4>1. i + 1 \in (period + 1)..Len(c) /\ i + 1 \in (period + 1)..Len(d)
            BY <3>1, <1>1
      <4>2. /\ Ema(c, period)[i + 1] = NextEma(c, period, i + 1, Ema(c, period)[(i + 1) - 1])
            /\ Ema(d, period)[i + 1] = NextEma(d, period, i + 1, Ema(d, period)[(i + 1) - 1])
            BY <4>1, <1>2, EmaGoesOn
      <4>3. QED
            BY <4>2, <3>1, <3>2, <3>3
    <3>4. /\ Ema(c, period)[i + 1] = Divided(a, period + 1)
          /\ Ema(d, period)[i + 1] = Divided(2 * period * (-x) + (period - 1) * (-v), period + 1)
          BY <3>2, <3>3, <3>8 DEF NextEma
    <3>5. a \in Int /\ 2 * period * (-x) + (period - 1) * (-v) = -a
          OBVIOUS
    <3> HIDE DEF a
    <3>6. Divided(-a, period + 1) = -Divided(a, period + 1)
      <4>1. period + 1 \in Nat \ {0}
            OBVIOUS
      <4>2. QED
            BY <3>5, <4>1, DividedAlike
    <3>7. QED
          BY <3>1, <3>4, <3>5, <3>6
  <2> HIDE DEF T
  <2>4. period..n \subseteq T
        BY <2>1, <2>2, <2>3, UpTo
  <2>5. QED
        BY <2>4, <1>1 DEF T
<1>6. QED
  BY <1>1, <1>4, <1>5

\* Of a price that does not move, the average is that price.
LEMMA EmaFlat ==
  ASSUME NEW c \in History, NEW period \in Nat \ {0}, NEW m \in 1..Len(c), NEW k \in Int,
         \A j \in 1..m : c[j].close = k
  PROVE  \A i \in period..m : Ema(c, period)[i] = period * k
<1>1. PICK n \in Nat : n = Len(c) /\ m <= n /\ m \in Nat
      BY HistoryCandles
<1> DEFINE T == {i \in period..m : Ema(c, period)[i] = period * k}
<1>4. CASE period > m
      BY <1>1, <1>4
<1>5. CASE period <= m
  <2>1. period \in period..m /\ period \in Int /\ m \in Int /\ period \in period..n
        BY <1>1, <1>5
  <2>2. period \in T
    <3> DEFINE f == [j \in 1..period |-> c[j].close]
    <3>1. \A j \in 1..period : j \in 1..m
          BY <1>1, <1>5
    <3>2. f \in [1..period -> Int] /\ \A j \in 1..period : f[j] = k
          BY <3>1
    <3>3. FirstEma(c, period) = SumFunction(f)
          BY DEF FirstEma
    <3> HIDE DEF f
    <3>4. IsFiniteSet(1..period) /\ Cardinality(1..period) = period
          BY FS_Interval
    <3>5. SumFunction(f) = Cardinality(1..period) * k
          BY <3>2, <3>4, SumConstant
    <3>6. QED
          BY <3>3, <3>4, <3>5, <2>1, <1>1, EmaDefined
  <2>3. ASSUME NEW i \in period..(m - 1), i \in T PROVE i + 1 \in T
    <3>1. /\ i + 1 \in period..m /\ i + 1 \in period..n /\ i + 1 # period /\ (i + 1) - 1 = i
          /\ i + 1 \in 1..m
          BY <1>1
    <3>2. Ema(c, period)[i] = period * k /\ c[i + 1].close = k
          BY <2>3, <3>1
    <3>9. Ema(c, period)[i + 1] = NextEma(c, period, i + 1, Ema(c, period)[i])
          BY <3>1, <1>1, EmaDefined
    <3>3. Ema(c, period)[i + 1] = Divided(2 * period * k + (period - 1) * (period * k), period + 1)
          BY <3>2, <3>9 DEF NextEma
    <3>4. PICK x \in Int : x = period * k
          OBVIOUS
    <3>5. 2 * period * k = 2 * x
          BY <3>4
    <3>6. 2 * x + (period - 1) * x = (period + 1) * x
          OBVIOUS
    <3>7. Divided((period + 1) * x, period + 1) = x
      <4>1. period + 1 \in Nat \ {0}
            OBVIOUS
      <4>2. QED
            BY <4>1, DividedExactly
    <3>8. QED
          BY <3>1, <3>3, <3>4, <3>5, <3>6, <3>7
  <2> HIDE DEF T
  <2>4. period..m \subseteq T
        BY <2>1, <2>2, <2>3, UpTo
  <2>5. QED
        BY <2>4 DEF T
<1>6. QED
  BY <1>1, <1>4, <1>5

-----------------------------------------------------------------------------
(* Trend following upside down: the RSI.                                   *)

\* What decays stays a natural number, and gets 0 only from 0.
LEMMA DecayedKeeps ==
  ASSUME NEW a \in Nat, NEW b \in Nat \ {0}
  PROVE  Decayed(a, b) \in Nat /\ (Decayed(a, b) = 0 => a = 0)
<1>1. -a \in Int /\ (-a) \div b \in Int
      BY Quotient
<1>2. PICK q \in Int : q = (-a) \div b
      BY <1>1
<1>3. b * q <= -a /\ -a < b * (q + 1)
      BY <1>2
<1>4. q <= 0
  <2>1. SUFFICES ASSUME q >= 1 PROVE FALSE
        OBVIOUS
  <2>2. b * q >= b
        BY <2>1
  <2>3. QED
        BY <2>2, <1>3
<1>5. q = 0 => a = 0
  <2>1. ASSUME q = 0 PROVE a = 0
    <3>1. b * q = 0
          BY <2>1
    <3>2. QED
          BY <3>1, <1>3
  <2>2. QED
        BY <2>1
<1>6. Decayed(a, b) = -q
      BY <1>2 DEF Decayed
<1>7. -q \in Nat /\ (-q = 0 => q = 0)
      BY <1>4
<1>8. QED
  BY <1>5, <1>6, <1>7

SmoothFirst(change) == SumFunction([j \in 2..(RsiPeriod + 1) |-> change[j]])
SmoothNext(change, i, before) == Decayed(before * (RsiPeriod - 1), RsiPeriod) + change[i]
Smooths(change, n, g) ==
  \A i \in (RsiPeriod + 1)..n :
    g[i] = IF i = RsiPeriod + 1 THEN SmoothFirst(change) ELSE SmoothNext(change, i, g[i - 1])

\* The first sum and the next are natural numbers, and 0 only without changes.
LEMMA SmoothTypes ==
  ASSUME RsiPeriod > 1, NEW n \in Nat, n >= RsiPeriod + 1, NEW change \in [2..n -> Nat]
  PROVE  /\ SmoothFirst(change) \in Nat
         /\ SmoothFirst(change) = 0 => \A j \in 2..(RsiPeriod + 1) : change[j] = 0
         /\ \A i \in (RsiPeriod + 2)..n, v \in Nat :
              /\ SmoothNext(change, i, v) \in Nat
              /\ SmoothNext(change, i, v) = 0 => v = 0 /\ change[i] = 0
<1>1. RsiPeriod \in Nat \ {0}
      BY FollowingConstants
<1> DEFINE f == [j \in 2..(RsiPeriod + 1) |-> change[j]]
<1>2. f \in [2..(RsiPeriod + 1) -> Nat]
      BY <1>1
<1>3. IsFiniteSet(2..(RsiPeriod + 1))
      BY <1>1, FS_Interval
<1>4. \A j \in 2..(RsiPeriod + 1) : f[j] = change[j]
      OBVIOUS
<1>5. SmoothFirst(change) = SumFunction(f)
      BY DEF SmoothFirst
<1> HIDE DEF f
<1>6. SumFunction(f) \in Nat /\ (SumFunction(f) = 0 => \A j \in 2..(RsiPeriod + 1) : f[j] = 0)
      BY <1>2, <1>3, SumNatural
<1>7. ASSUME NEW i \in (RsiPeriod + 2)..n, NEW v \in Nat
      PROVE  /\ SmoothNext(change, i, v) \in Nat
             /\ SmoothNext(change, i, v) = 0 => v = 0 /\ change[i] = 0
  <2>1. change[i] \in Nat
        BY <1>1
  <2>2. PICK p \in Nat : p = RsiPeriod - 1 /\ p >= 1
        BY <1>1
  <2>3. v * p \in Nat /\ (v * p = 0 => v = 0)
    <3>1. v * p \in Nat /\ v * p >= v
          BY <2>2
    <3>2. QED
          BY <3>1
  <2>4. Decayed(v * p, RsiPeriod) \in Nat /\ (Decayed(v * p, RsiPeriod) = 0 => v * p = 0)
        BY <1>1, <2>3, DecayedKeeps
  <2>5. SmoothNext(change, i, v) = Decayed(v * p, RsiPeriod) + change[i]
        BY <2>2 DEF SmoothNext
  <2>6. QED
        BY <2>1, <2>3, <2>4, <2>5
<1>8. QED
  BY <1>4, <1>5, <1>6, <1>7

\* A smoothed sum is the last value of the sums its definition describes.
LEMMA SmoothedIs ==
  ASSUME RsiPeriod > 1, NEW n \in Nat, n >= RsiPeriod + 1, NEW change \in [2..n -> Nat]
  PROVE  \E g : Smooths(change, n, g) /\ Smoothed(change, n) = g[n]
<1>1. RsiPeriod \in Nat \ {0}
      BY FollowingConstants
<1>2. PICK a \in Nat : a = RsiPeriod + 1
      BY <1>1
<1> DEFINE Is(g) == g = [i \in a..n |-> IF i = a THEN SmoothFirst(change)
                                        ELSE SmoothNext(change, i, g[i - 1])]
           Step == [i \in a..n |-> [v \in Nat |-> IF i = a THEN 0 ELSE SmoothNext(change, i, v)]]
           it == CHOOSE g : Is(g)
<1>3. Smoothed(change, n) = it[n]
  <2>1. \A g : [i \in a..n |-> IF i = a THEN SumFunction([j \in 2..i |-> change[j]])
                               ELSE Decayed(g[i - 1] * (RsiPeriod - 1), RsiPeriod) + change[i]]
                = [i \in a..n |-> IF i = a THEN SmoothFirst(change)
                                  ELSE SmoothNext(change, i, g[i - 1])]
        BY <1>2 DEF SmoothFirst, SmoothNext
  <2> DEFINE Sums(g) == g = [i \in a..n |-> IF i = a THEN SumFunction([j \in 2..i |-> change[j]])
                               ELSE Decayed(g[i - 1] * (RsiPeriod - 1), RsiPeriod) + change[i]]
  <2>2. \A g : Sums(g) <=> Is(g)
        BY <2>1
  <2>3. Smoothed(change, n) = (CHOOSE g : Sums(g))[n]
        BY <1>2 DEF Smoothed
  <2> HIDE DEF Sums, Is
  <2>4. (CHOOSE g : Sums(g)) = (CHOOSE g : Is(g))
        BY <2>2
  <2>5. QED
        BY <2>3, <2>4
<1>4. PICK V : V = Nat
      OBVIOUS
<1>5. SmoothFirst(change) \in V
      BY <1>4, SmoothTypes
<1>6. StepsIn(a..n, V, Step)
  <2>1. ASSUME NEW i \in a..n, NEW v \in Nat PROVE Step[i][v] \in Nat
    <3>1. CASE i = a
          BY <3>1
    <3>2. CASE i # a
      <4>1. i \in (RsiPeriod + 2)..n
            BY <1>1, <1>2, <3>2
      <4>2. SmoothNext(change, i, v) \in Nat
            BY <4>1, SmoothTypes
      <4>3. QED
            BY <4>2, <3>2
    <3>3. QED
          BY <3>1, <3>2
  <2>2. QED
        BY <2>1, <1>4 DEF StepsIn
<1>7. \A i \in a..n, v \in Nat : i # a => Step[i][v] = SmoothNext(change, i, v)
      OBVIOUS
<1> HIDE DEF Step
<1>8. PICK g \in [a..n -> V] : Follows(g, a, n, SmoothFirst(change), Step)
  <2>1. a \in Int /\ n \in Int
        OBVIOUS
  <2>2. \E g \in [a..n -> V] : Follows(g, a, n, SmoothFirst(change), Step)
        BY <2>1, <1>5, <1>6, Recursion
  <2>3. QED
        BY <2>2
<1>9. ASSUME NEW i \in a..n
      PROVE  g[i] = IF i = a THEN SmoothFirst(change) ELSE SmoothNext(change, i, g[i - 1])
  <2>1. i # a => i - 1 \in a..n
        OBVIOUS
  <2>2. i # a => g[i - 1] \in Nat
        BY <2>1, <1>4
  <2>3. QED
        BY <2>2, <1>7, <1>8 DEF Follows
<1>10. Is(g)
       BY <1>9
<1> HIDE DEF Is
<1>11. Is(it)
       BY <1>10
<1>12. Smooths(change, n, it)
       BY <1>2, <1>11 DEF Is, Smooths
<1> HIDE DEF it
<1>13. QED
  BY <1>3, <1>12

\* A smoothed sum is a natural number, and 0 only when nothing has changed yet.
LEMMA SmoothedKeeps ==
  ASSUME RsiPeriod > 1, NEW n \in Nat, n >= RsiPeriod + 1, NEW change \in [2..n -> Nat]
  PROVE  Smoothed(change, n) \in Nat /\ (Smoothed(change, n) = 0 => \A j \in 2..n : change[j] = 0)
<1>1. PICK g : Smooths(change, n, g) /\ Smoothed(change, n) = g[n]
      BY SmoothedIs
<1>2. PICK a \in Nat : a = RsiPeriod + 1 /\ a >= 2 /\ a <= n
      BY FollowingConstants
<1>3. \A i \in a..n : g[i] = IF i = a THEN SmoothFirst(change) ELSE SmoothNext(change, i, g[i - 1])
      BY <1>1, <1>2 DEF Smooths
<1> DEFINE T == {i \in a..n : g[i] \in Nat /\ (g[i] = 0 => \A j \in 2..i : change[j] = 0)}
<1>4. a \in T
  <2>1. a \in a..n
        BY <1>2
  <2>2. g[a] = SmoothFirst(change)
        BY <1>3, <2>1
  <2>3. /\ SmoothFirst(change) \in Nat
        /\ SmoothFirst(change) = 0 => \A j \in 2..a : change[j] = 0
        BY <1>2, SmoothTypes
  <2>4. QED
        BY <2>1, <2>2, <2>3
<1>5. ASSUME NEW i \in a..(n - 1), i \in T PROVE i + 1 \in T
  <2>1. i + 1 \in a..n /\ i + 1 # a /\ (i + 1) - 1 = i
        OBVIOUS
  <2>2. i + 1 \in (RsiPeriod + 2)..n
        BY <1>2, FollowingConstants
  <2>3. PICK v \in Nat : v = g[i]
        BY <1>5
  <2>4. g[i + 1] = SmoothNext(change, i + 1, v)
        BY <2>1, <2>3, <1>3
  <2>5. /\ SmoothNext(change, i + 1, v) \in Nat
        /\ SmoothNext(change, i + 1, v) = 0 => v = 0 /\ change[i + 1] = 0
        BY <2>2, SmoothTypes
  <2>6. ASSUME g[i + 1] = 0, NEW j \in 2..(i + 1) PROVE change[j] = 0
    <3>1. g[i] = 0 /\ change[i + 1] = 0
          BY <2>3, <2>4, <2>5, <2>6
    <3>2. CASE j = i + 1
          BY <3>1, <3>2
    <3>3. CASE j # i + 1
      <4>1. j \in 2..i
            BY <3>3
      <4>2. QED
            BY <4>1, <3>1, <1>5
    <3>4. QED
          BY <3>2, <3>3
  <2>7. QED
        BY <2>1, <2>4, <2>5, <2>6
<1> HIDE DEF T
<1>6. a..n \subseteq T
  <2>1. a \in Int /\ n \in Int
        OBVIOUS
  <2>2. QED
        BY <2>1, <1>4, <1>5, UpTo
<1>7. n \in T
      BY <1>2, <1>6
<1>8. QED
  BY <1>1, <1>7 DEF T

\* The larger of a number and 0 is a natural number.
LEMMA AboveZero ==
  ASSUME NEW x \in Int
  PROVE  Max({x, 0}) \in Nat /\ Max({x, 0}) >= x
<1>1. CASE x >= 0
  <2>1. Max({x, 0}) = x
        BY <1>1, MaxIs
  <2>2. QED
        BY <2>1, <1>1
<1>2. CASE x < 0
  <2>1. Max({x, 0}) = 0
        BY <1>2, MaxIs
  <2>2. QED
        BY <2>1, <1>2
<1>3. QED
  BY <1>1, <1>2

\* Upside down, the rises are the falls.
LEMMA ChangesReflected ==
  ASSUME NEW c, NEW d, Reflects(c, d)
  PROVE  /\ Gains(c) \in [2..Len(c) -> Nat] /\ Losses(c) \in [2..Len(c) -> Nat]
         /\ Gains(d) = Losses(c) /\ Losses(d) = Gains(c)
         /\ \A j \in 2..Len(c) : Gains(c)[j] = 0 /\ Losses(c)[j] = 0 => c[j].close = c[j - 1].close
<1>1. PICK n \in Nat : n = Len(c) /\ n = Len(d)
      BY Reflection
<1>2. ASSUME NEW j \in 2..n
      PROVE  /\ c[j].close \in Int /\ c[j - 1].close \in Int
             /\ d[j].close = -c[j].close /\ d[j - 1].close = -c[j - 1].close
  <2>1. j \in 1..Len(c) /\ j - 1 \in 1..Len(c)
        BY <1>1
  <2>2. QED
        BY <2>1, Reflection
<1>3. ASSUME NEW j \in 2..n
      PROVE  /\ Max({c[j].close - c[j - 1].close, 0}) \in Nat
             /\ Max({c[j - 1].close - c[j].close, 0}) \in Nat
             /\ Max({d[j].close - d[j - 1].close, 0}) = Max({c[j - 1].close - c[j].close, 0})
             /\ Max({d[j - 1].close - d[j].close, 0}) = Max({c[j].close - c[j - 1].close, 0})
             /\ Max({c[j].close - c[j - 1].close, 0}) = 0 /\ Max({c[j - 1].close - c[j].close, 0}) = 0
                  => c[j].close = c[j - 1].close
  <2>1. PICK x \in Int, y \in Int : x = c[j].close /\ y = c[j - 1].close
        BY <1>2
  <2>2. d[j].close = -x /\ d[j - 1].close = -y
        BY <1>2, <2>1
  <2>3. /\ Max({x - y, 0}) \in Nat /\ Max({x - y, 0}) >= x - y
        /\ Max({y - x, 0}) \in Nat /\ Max({y - x, 0}) >= y - x
    <3>1. x - y \in Int /\ y - x \in Int
          OBVIOUS
    <3>2. QED
          BY <3>1, AboveZero
  <2>4. Max({x - y, 0}) = 0 /\ Max({y - x, 0}) = 0 => x = y
    <3>1. SUFFICES ASSUME Max({x - y, 0}) = 0, Max({y - x, 0}) = 0 PROVE x = y
          OBVIOUS
    <3>2. x - y <= 0 /\ y - x <= 0
          BY <2>3, <3>1
    <3>3. QED
          BY <3>2
  <2>5. -x - (-y) = y - x /\ -y - (-x) = x - y
        OBVIOUS
  <2>6. Max({-x - (-y), 0}) = Max({y - x, 0}) /\ Max({-y - (-x), 0}) = Max({x - y, 0})
        BY <2>5, Zenon
  <2>7. QED
        BY <2>1, <2>2, <2>3, <2>4, <2>6, Zenon
<1>4. Gains(c) \in [2..n -> Nat] /\ Losses(c) \in [2..n -> Nat]
      BY <1>1, <1>3 DEF Gains, Losses
<1>5. Gains(d) = Losses(c) /\ Losses(d) = Gains(c)
      BY <1>1, <1>3 DEF Gains, Losses
<1>6. \A j \in 2..n : Gains(c)[j] = 0 /\ Losses(c)[j] = 0 => c[j].close = c[j - 1].close
      BY <1>1, <1>3 DEF Gains, Losses
<1>7. QED
  BY <1>1, <1>4, <1>5, <1>6

\* Up to candle i the price has not moved.
Flat(c, i) == \A j \in 1..i : c[j].close = c[1].close

\* Where the price has moved, the smoothed sums are not both 0.
LEMMA SumsMove ==
  ASSUME RsiPeriod > 1, NEW c, NEW d, Reflects(c, d), NEW i \in (RsiPeriod + 1)..Len(c)
  PROVE  /\ Smoothed(Gains(c), i) \in Nat /\ Smoothed(Losses(c), i) \in Nat
         /\ Smoothed(Gains(c), i) = 0 /\ Smoothed(Losses(c), i) = 0 => Flat(c, i)
<1>1. PICK n \in Nat : n = Len(c)
      BY Reflection
<1>2. RsiPeriod \in Nat /\ i \in Nat /\ i >= RsiPeriod + 1 /\ i <= n
      BY <1>1, FollowingConstants
<1> DEFINE up == [j \in 2..i |-> Gains(c)[j]]
           down == [j \in 2..i |-> Losses(c)[j]]
<1>3. \A j \in 2..i : j \in 2..n
      BY <1>2
<1>4. up \in [2..i -> Nat] /\ down \in [2..i -> Nat]
      BY <1>1, <1>3, ChangesReflected
<1>5. \A j \in 2..i : Gains(c)[j] = up[j] /\ Losses(c)[j] = down[j]
      OBVIOUS
<1> HIDE DEF up, down
<1>6. Smoothed(Gains(c), i) = Smoothed(up, i)
      BY <1>2, <1>5, SmoothedSame
<1>7. Smoothed(Losses(c), i) = Smoothed(down, i)
      BY <1>2, <1>5, SmoothedSame
<1>8. Smoothed(up, i) \in Nat /\ (Smoothed(up, i) = 0 => \A j \in 2..i : up[j] = 0)
      BY <1>2, <1>4, SmoothedKeeps
<1>9. Smoothed(down, i) \in Nat /\ (Smoothed(down, i) = 0 => \A j \in 2..i : down[j] = 0)
      BY <1>2, <1>4, SmoothedKeeps
<1>10. ASSUME Smoothed(up, i) = 0, Smoothed(down, i) = 0 PROVE Flat(c, i)
  <2>1. \A j \in 2..i : c[j].close = c[j - 1].close
        BY <1>1, <1>3, <1>5, <1>8, <1>9, <1>10, ChangesReflected
  <2> DEFINE T == {j \in 1..i : c[j].close = c[1].close}
  <2>2. 1 \in T
        BY <1>2
  <2>3. ASSUME NEW j \in 1..(i - 1), j \in T PROVE j + 1 \in T
    <3>1. j + 1 \in 2..i /\ j + 1 \in 1..i /\ (j + 1) - 1 = j
          OBVIOUS
    <3>2. c[j + 1].close = c[j].close
          BY <2>1, <3>1
    <3>3. QED
          BY <3>1, <3>2, <2>3
  <2> HIDE DEF T
  <2>4. 1..i \subseteq T
    <3>1. 1 \in Int /\ i \in Int
          BY <1>2
    <3>2. QED
          BY <3>1, <2>2, <2>3, UpTo
  <2>5. QED
        BY <2>4 DEF T, Flat
<1>11. QED
  BY <1>6, <1>7, <1>8, <1>9, <1>10

\* Upside down, the RSI lies as far above a limit as it was below the opposite.
LEMMA RsiReflected ==
  ASSUME RsiPeriod > 1, NEW c, NEW d, Reflects(c, d), NEW i \in (RsiPeriod + 1)..Len(c),
         ~Flat(c, i), NEW limit \in Int, NEW other \in Int, limit + other = 100
  PROVE  RsiBelow(c, i, limit) <=> RsiAbove(d, i, other)
<1>1. Gains(d) = Losses(c) /\ Losses(d) = Gains(c)
      BY ChangesReflected
<1>2. PICK up \in Nat, down \in Nat :
        /\ up = Smoothed(Gains(c), i) /\ down = Smoothed(Losses(c), i)
        /\ ~(up = 0 /\ down = 0)
      BY SumsMove
<1>3. RsiBelow(c, i, limit) <=> IF down = 0 THEN 100 < limit ELSE 100 * up < limit * (up + down)
      BY <1>2 DEF RsiBelow
<1>4. RsiAbove(d, i, other) <=> IF up = 0 THEN 100 > other ELSE 100 * down > other * (down + up)
      BY <1>1, <1>2 DEF RsiAbove
<1>5. other = 100 - limit
      OBVIOUS
<1>6. CASE down = 0
  <2>1. up > 0
        BY <1>2, <1>6
  <2>2. RsiAbove(d, i, other) <=> 0 > other * up
        BY <1>4, <1>6, <2>1
  <2>3. 0 > other * up <=> 0 > other
        BY <2>1
  <2>4. QED
        BY <1>3, <1>5, <1>6, <2>2, <2>3
<1>7. CASE up = 0
  <2>1. down > 0
        BY <1>2, <1>7
  <2>2. RsiBelow(c, i, limit) <=> 0 < limit * down
        BY <1>3, <1>7, <2>1
  <2>3. 0 < limit * down <=> 0 < limit
        BY <2>1
  <2>4. QED
        BY <1>4, <1>5, <1>7, <2>2, <2>3
<1>8. CASE up # 0 /\ down # 0
  <2>1. other * (down + up) = 100 * (down + up) - limit * (up + down)
        BY <1>5
  <2>2. QED
        BY <1>3, <1>4, <1>8, <2>1
<1>9. QED
  BY <1>6, <1>7, <1>8

\* Averages cross only where the price has moved.
LEMMA CrossMoves ==
  ASSUME NEW c \in History, NEW i \in 1..Len(c), Flat(c, i)
  PROVE  Cross(c, i) = "none"
<1>1. PICK n \in Nat : n = Len(c) /\ i <= n /\ i \in Nat
      BY HistoryCandles
<1>2. PICK k \in Int : k = c[1].close
  <2>1. 1 \in 1..Len(c)
        BY <1>1
  <2>2. QED
        BY <2>1, HistoryCandles
<1>3. \A j \in 1..i : c[j].close = k
      BY <1>2 DEF Flat
<1>4. PICK f \in Nat \ {0}, s \in Nat \ {0} : f = FastEma /\ s = SlowEma
      BY FollowingConstants
<1> DEFINE top == Max({f, s})
<1>5. top \in Nat /\ top >= f /\ top >= s
      BY LargerPeriod
<1>6. CASE i - 1 < top
      BY <1>4, <1>6 DEF Cross
<1>7. CASE ~(i - 1 < top)
  <2> HIDE DEF top
  <2>1. i \in f..i /\ i - 1 \in f..i /\ i \in s..i /\ i - 1 \in s..i
        BY <1>1, <1>5, <1>7
  <2>2. \A j \in f..i : Ema(c, f)[j] = f * k
        BY <1>3, EmaFlat
  <2>3. \A j \in s..i : Ema(c, s)[j] = s * k
        BY <1>3, EmaFlat
  <2> DEFINE gap(j) == Ema(c, f)[j] * s - Ema(c, s)[j] * f
  <2>4. (f * k) * s - (s * k) * f = 0
        OBVIOUS
  <2>5. gap(i - 1) = (f * k) * s - (s * k) * f /\ gap(i) = (f * k) * s - (s * k) * f
        BY <2>1, <2>2, <2>3, Zenon
  <2>6. gap(i - 1) = 0 /\ gap(i) = 0
        BY <2>4, <2>5
  <2>7. Cross(c, i) = CASE gap(i - 1) <= 0 /\ gap(i) > 0 -> "long"
                        [] gap(i - 1) >= 0 /\ gap(i) < 0 -> "short"
                        [] OTHER -> "none"
        BY <1>4, <1>7 DEF Cross, top
  <2> HIDE DEF gap
  <2>8. QED
        BY <2>6, <2>7
<1>8. QED
  BY <1>6, <1>7

\* Upside down, the averages cross the other way.
LEMMA CrossReflected ==
  ASSUME NEW c, NEW d, Reflects(c, d), NEW i \in 1..Len(c)
  PROVE  Cross(c, i) \in {"none", "long", "short"} /\ Cross(d, i) = Flipped(Cross(c, i))
<1>1. PICK n \in Nat : n = Len(c) /\ i <= n /\ i \in Nat /\ c \in History
      BY Reflection
<1>2. Flipped("none") = "none" /\ Flipped("long") = "short" /\ Flipped("short") = "long"
      BY DEF Flipped
<1>4. PICK f \in Nat \ {0}, s \in Nat \ {0} : f = FastEma /\ s = SlowEma
      BY FollowingConstants
<1> DEFINE top == Max({f, s})
<1>5. top \in Nat /\ top >= f /\ top >= s
      BY LargerPeriod
<1>6. CASE i - 1 < top
  <2>1. Cross(c, i) = "none" /\ Cross(d, i) = "none"
        BY <1>4, <1>6 DEF Cross
  <2>2. QED
        BY <2>1, <1>2
<1>7. CASE ~(i - 1 < top)
  <2> HIDE DEF top
  <2>1. i \in f..n /\ i - 1 \in f..n /\ i \in s..n /\ i - 1 \in s..n
        BY <1>1, <1>5, <1>7
  <2>2. PICK a \in Int, b \in Int, x \in Int, y \in Int :
          a = Ema(c, f)[i - 1] /\ b = Ema(c, f)[i] /\ x = Ema(c, s)[i - 1] /\ y = Ema(c, s)[i]
        BY <2>1, <1>1, EmaWhole
  <2>3. Ema(d, f)[i - 1] = -a /\ Ema(d, f)[i] = -b
        BY <2>1, <2>2, <1>1, EmaReflected
  <2>4. Ema(d, s)[i - 1] = -x /\ Ema(d, s)[i] = -y
        BY <2>1, <2>2, <1>1, EmaReflected
  <2>5. PICK p \in Int, q \in Int : p = a * s - x * f /\ q = b * s - y * f
        OBVIOUS
  <2>6. (-a) * s - (-x) * f = -p /\ (-b) * s - (-y) * f = -q
        BY <2>5
  <2>7. Cross(c, i) = CASE p <= 0 /\ q > 0 -> "long" [] p >= 0 /\ q < 0 -> "short" [] OTHER -> "none"
        BY <1>4, <1>7, <2>2, <2>5 DEF Cross, top
  <2>8. Cross(d, i) = CASE (-a) * s - (-x) * f <= 0 /\ (-b) * s - (-y) * f > 0 -> "long"
                        [] (-a) * s - (-x) * f >= 0 /\ (-b) * s - (-y) * f < 0 -> "short"
                        [] OTHER -> "none"
        BY <1>4, <1>7, <2>3, <2>4 DEF Cross, top
  <2>9. Cross(d, i) = CASE -p <= 0 /\ -q > 0 -> "long" [] -p >= 0 /\ -q < 0 -> "short" [] OTHER -> "none"
        BY <2>6, <2>8
  <2>10. /\ -p <= 0 <=> p >= 0
         /\ -q > 0 <=> q < 0
         /\ -p >= 0 <=> p <= 0
         /\ -q < 0 <=> q > 0
         /\ ~(q > 0 /\ q < 0)
         OBVIOUS
  <2>11. QED
         BY <1>2, <2>7, <2>9, <2>10
<1>8. QED
  BY <1>6, <1>7

-----------------------------------------------------------------------------
(* Trend following upside down: the signals.                               *)

\* Upside down, the ATR is extreme where it was.
LEMMA ExtremeReflected ==
  ASSUME NEW c, NEW d, Reflects(c, d), NEW i
  PROVE  Extreme(d, i) <=> Extreme(c, i)
<1>1. Atr(d) = Atr(c) /\ DOMAIN d = DOMAIN c /\ MeanWindow(d, i) = MeanWindow(c, i)
      BY AtrReflected, Reflection DEF MeanWindow
<1>2. QED
  BY <1>1 DEF Extreme

\* What justifies a long justifies a short upside down, and the other way round.
LEMMA JustifiedReflected ==
  ASSUME RsiPeriod > 1, Sides = Directions, RsiBuyMax + RsiSellMin = 100,
         NEW c, NEW d, Reflects(c, d), NEW i \in (Warmup + 1)..Len(c), HasRsi(i),
         NEW side \in Directions, Justified(c, i, side)
  PROVE  Justified(d, i, Flipped(side))
<1>1. PICK n \in Nat : n = Len(c) /\ n = Len(d) /\ c \in History /\ d \in History
      BY Reflection
<1>2. /\ i \in 1..n /\ i \in TrendEma..n /\ i \in (RsiPeriod + 1)..n
      /\ TrendEma \in Nat \ {0} /\ RsiPeriod \in Nat \ {0}
  <2>1. Warmup \in Int /\ Warmup >= TrendEma + 2
        BY WarmupBehind
  <2>2. TrendEma \in Nat \ {0} /\ RsiPeriod \in Nat \ {0}
        BY FollowingConstants
  <2>3. i > RsiPeriod + 1
        BY DEF HasRsi
  <2>4. QED
        BY <1>1, <2>1, <2>2, <2>3
<1>3. Flipped("long") = "short" /\ Flipped("short") = "long"
      BY DEF Flipped
<1>4. Cross(c, i) = side /\ ~Extreme(c, i) /\ ~Extreme(d, i)
      BY ExtremeReflected DEF Justified
<1>5. Cross(d, i) = Flipped(side)
      BY <1>1, <1>2, <1>4, CrossReflected
<1>6. ~Flat(c, i) /\ ~Flat(d, i)
  <2>1. Cross(c, i) # "none" /\ Cross(d, i) # "none"
        BY <1>3, <1>4, <1>5 DEF Directions
  <2>2. QED
        BY <2>1, <1>1, <1>2, CrossMoves
<1>7. RsiBuyMax \in Int /\ RsiSellMin \in Int
      BY TrendFollowingAssumption
<1>8. RsiBelow(c, i, RsiBuyMax) <=> RsiAbove(d, i, RsiSellMin)
      BY <1>1, <1>2, <1>6, <1>7, RsiReflected
<1>9. RsiBelow(d, i, RsiBuyMax) <=> RsiAbove(c, i, RsiSellMin)
  <2>1. Reflects(d, c)
        BY ReflectedBack
  <2>2. QED
        BY <2>1, <1>1, <1>2, <1>6, <1>7, RsiReflected
<1>10. PICK x \in Int, y \in Int, t \in Nat \ {0} :
         /\ x = c[i].close /\ y = Ema(c, TrendEma)[i] /\ t = TrendEma
         /\ d[i].close = -x /\ Ema(d, TrendEma)[i] = -y
  <2>1. c[i].close \in Int /\ d[i].close = -c[i].close
        BY <1>1, <1>2, Reflection
  <2>2. TrendEma \in Nat \ {0} /\ i \in TrendEma..Len(c)
        BY <1>1, <1>2
  <2>3. Ema(c, TrendEma)[i] \in Int
    <3>1. \A j \in TrendEma..Len(c) : Ema(c, TrendEma)[j] \in Int
      <4>1. c \in History /\ TrendEma \in Nat \ {0}
            BY <1>1, <2>2
      <4>2. QED
            BY <4>1, EmaWhole
    <3>2. QED
          BY <3>1, <2>2
  <2>4. Ema(d, TrendEma)[i] = -Ema(c, TrendEma)[i]
    <3>1. \A j \in TrendEma..Len(c) : Ema(d, TrendEma)[j] = -Ema(c, TrendEma)[j]
          BY <1>2, EmaReflected
    <3>2. QED
          BY <3>1, <2>2
  <2>5. QED
        BY <2>1, <2>2, <2>3, <2>4
<1>11. (-x) * t < -y <=> x * t > y
  <2>1. PICK z \in Int : z = x * t
        OBVIOUS
  <2>2. (-x) * t = -z
        BY <2>1
  <2>3. QED
        BY <2>1, <2>2
<1>12. (-x) * t > -y <=> x * t < y
  <2>1. PICK z \in Int : z = x * t
        OBVIOUS
  <2>2. (-x) * t = -z
        BY <2>1
  <2>3. QED
        BY <2>1, <2>2
<1>13. Flipped(side) \in Sides
       BY <1>3 DEF Directions
<1>14. CASE side = "long"
  <2>1. x * t > y /\ RsiBelow(c, i, RsiBuyMax)
        BY <1>10, <1>14 DEF Justified
  <2>2. Flipped(side) = "short" /\ "short" # "long"
        BY <1>3, <1>14
  <2>3. (-x) * t < -y /\ RsiAbove(d, i, RsiSellMin)
        BY <2>1, <1>8, <1>11
  <2>4. d[i].close * TrendEma < Ema(d, TrendEma)[i]
        BY <2>3, <1>10
  <2>5. QED
        BY <2>2, <2>3, <2>4, <1>4, <1>5, <1>13 DEF Justified
<1>15. CASE side = "short"
  <2>1. x * t < y /\ RsiAbove(c, i, RsiSellMin)
        BY <1>10, <1>15 DEF Justified
  <2>2. Flipped(side) = "long"
        BY <1>3, <1>15
  <2>3. (-x) * t > -y /\ RsiBelow(d, i, RsiBuyMax)
        BY <2>1, <1>9, <1>12
  <2>4. d[i].close * TrendEma > Ema(d, TrendEma)[i]
        BY <2>3, <1>10
  <2>5. QED
        BY <2>2, <2>3, <2>4, <1>4, <1>5, <1>13 DEF Justified
<1>16. QED
  BY <1>14, <1>15 DEF Directions

\* Upside down, stop and target change sides.
LEMMA LevelsReflected ==
  ASSUME NEW c, NEW d, Reflects(c, d), NEW i \in 1..Len(c), NEW side \in Directions
  PROVE  /\ Levels100(d, i, Flipped(side)) = [sl |-> -Levels100(c, i, side).sl, tp |-> -Levels100(c, i, side).tp]
         /\ Levels100(c, i, side).sl \in Int /\ Levels100(c, i, side).tp \in Int
<1>1. Flipped("long") = "short" /\ Flipped("short") = "long"
      BY DEF Flipped
<1>2. PICK x \in Int : x = c[i].close /\ d[i].close = -x
      BY Reflection
<1>3. PICK a \in Int : a = Atr(c)[i] /\ a = Atr(d)[i]
  <2>1. c \in History /\ Atr(d) = Atr(c)
        BY Reflection, AtrReflected
  <2>2. Atr(c)[i] \in Int
        BY <2>1, AtrDefined
  <2>3. QED
        BY <2>1, <2>2
<1>4. SlAtr \in Nat /\ TpAtr \in Nat /\ SlFixed \in Nat /\ TpFixed \in Nat
      BY TrendFollowingAssumption
<1>5. PICK s \in Int, t \in Int :
        /\ s = (IF a > 0 THEN SlAtr * a ELSE 100 * SlFixed)
        /\ t = (IF a > 0 THEN TpAtr * a ELSE 100 * TpFixed)
  <2>1. SlAtr * a \in Int /\ TpAtr * a \in Int /\ 100 * SlFixed \in Int /\ 100 * TpFixed \in Int
        BY <1>4
  <2>2. QED
        BY <2>1
<1>6. PICK e \in Int : e = 100 * x
      OBVIOUS
<1>7. 100 * (-x) = -e
      BY <1>6
<1>8. Levels100(c, i, side) = IF side = "long" THEN [sl |-> e - s, tp |-> e + t]
                                               ELSE [sl |-> e + s, tp |-> e - t]
      BY <1>2, <1>3, <1>5, <1>6 DEF Levels100
<1>9. Levels100(d, i, Flipped(side)) =
        IF Flipped(side) = "long" THEN [sl |-> 100 * (-x) - s, tp |-> 100 * (-x) + t]
                                  ELSE [sl |-> 100 * (-x) + s, tp |-> 100 * (-x) - t]
      BY <1>2, <1>3, <1>5 DEF Levels100
<1>10. Levels100(d, i, Flipped(side)) =
         IF Flipped(side) = "long" THEN [sl |-> -e - s, tp |-> -e + t]
                                   ELSE [sl |-> -e + s, tp |-> -e - t]
       BY <1>7, <1>9
<1>11. -(e - s) = -e + s /\ -(e + t) = -e - t /\ -(e + s) = -e - s /\ -(e - t) = -e + t
       OBVIOUS
<1>12. CASE side = "long"
  <2>1. Levels100(c, i, side) = [sl |-> e - s, tp |-> e + t]
        BY <1>8, <1>12
  <2>2. Levels100(d, i, Flipped(side)) = [sl |-> -e + s, tp |-> -e - t]
        BY <1>1, <1>10, <1>12
  <2>3. Levels100(c, i, side).sl = e - s /\ Levels100(c, i, side).tp = e + t
        BY <2>1
  <2>4. QED
        BY <2>2, <2>3, <1>11
<1>13. CASE side = "short"
  <2>1. Levels100(c, i, side) = [sl |-> e + s, tp |-> e - t]
        BY <1>8, <1>13
  <2>2. Levels100(d, i, Flipped(side)) = [sl |-> -e - s, tp |-> -e + t]
        BY <1>1, <1>10, <1>13
  <2>3. Levels100(c, i, side).sl = e + s /\ Levels100(c, i, side).tp = e - t
        BY <2>1
  <2>4. QED
        BY <2>2, <2>3, <1>11
<1>14. QED
  BY <1>12, <1>13 DEF Directions

\* Upside down, each signal is the flipped one, and flipping twice changes nothing.
LEMMA FollowReflected ==
  ASSUME RsiPeriod > 1, Sides = Directions, RsiBuyMax + RsiSellMin = 100,
         NEW c, NEW d, Reflects(c, d), NEW side, NEW i, MayFollow(c, side, i)
  PROVE  /\ MayFollow(d, Flipped(side), i)
         /\ Follow(d, Flipped(side), i) = FlippedSignal(Follow(c, side, i))
         /\ FlippedSignal(FlippedSignal(Follow(c, side, i))) = Follow(c, side, i)
<1>1. /\ Len(d) = Len(c) /\ side \in Directions /\ i \in (Warmup + 1)..Len(c) /\ HasRsi(i)
      /\ Justified(c, i, side)
      BY Reflection DEF MayFollow
<1>2. i \in 1..Len(c)
  <2>1. Warmup \in Int /\ Warmup >= TrendEma + 2 /\ TrendEma \in Nat
        BY WarmupBehind, FollowingConstants
  <2>2. Len(c) \in Nat
        BY Reflection
  <2>3. QED
        BY <1>1, <2>1, <2>2
<1>3. Flipped(Flipped(side)) = side /\ Flipped(side) \in Directions
      BY <1>1 DEF Flipped, Directions
<1>4. Justified(d, i, Flipped(side))
      BY <1>1, JustifiedReflected
<1>5. MayFollow(d, Flipped(side), i)
      BY <1>1, <1>3, <1>4 DEF MayFollow
<1> DEFINE l == Levels100(c, i, side)
<1>6. Levels100(d, i, Flipped(side)) = [sl |-> -l.sl, tp |-> -l.tp] /\ l.sl \in Int /\ l.tp \in Int
      BY <1>1, <1>2, LevelsReflected
<1>7. l = [sl |-> l.sl, tp |-> l.tp]
      BY DEF Levels100
<1>8. Follow(c, side, i) = [direction |-> side, idx |-> i, levels |-> l]
      BY DEF Follow
<1>9. Follow(d, Flipped(side), i) = [direction |-> Flipped(side), idx |-> i, levels |-> [sl |-> -l.sl, tp |-> -l.tp]]
      BY <1>6 DEF Follow
<1> HIDE DEF l
<1>10. FlippedSignal(Follow(c, side, i)) =
         [direction |-> Flipped(side), idx |-> i, levels |-> [sl |-> -l.sl, tp |-> -l.tp]]
       BY <1>8 DEF FlippedSignal
<1>11. FlippedSignal(FlippedSignal(Follow(c, side, i))) =
         [direction |-> Flipped(Flipped(side)), idx |-> i, levels |-> [sl |-> -(-l.sl), tp |-> -(-l.tp)]]
       BY <1>10 DEF FlippedSignal
<1>12. -(-l.sl) = l.sl /\ -(-l.tp) = l.tp
       BY <1>6
<1>13. FlippedSignal(FlippedSignal(Follow(c, side, i))) = [direction |-> side, idx |-> i, levels |-> l]
       BY <1>3, <1>7, <1>11, <1>12, Zenon
<1>14. QED
  BY <1>5, <1>8, <1>9, <1>10, <1>13

\* Upside down, the signals are the flipped ones.
LEMMA FollowedReflected ==
  ASSUME RsiPeriod > 1, Sides = Directions, RsiBuyMax + RsiSellMin = 100,
         NEW c, NEW d, Reflects(c, d)
  PROVE  Followed(d) = {FlippedSignal(s) : s \in Followed(c)}
<1>1. Len(d) = Len(c) /\ Reflects(d, c)
      BY Reflection, ReflectedBack
<1>2. CASE Len(c) < TrendEma + MoreHistory
  <2>1. Followed(c) = {} /\ Followed(d) = {}
        BY <1>1, <1>2 DEF Followed
  <2>2. QED
        BY <2>1
<1>3. CASE ~(Len(c) < TrendEma + MoreHistory)
  <2>1. ~(Len(d) < TrendEma + MoreHistory)
        BY <1>1, <1>3
  <2>2. ASSUME NEW s \in Followed(c) PROVE FlippedSignal(s) \in Followed(d)
    <3>1. PICK side, i : MayFollow(c, side, i) /\ s = Follow(c, side, i)
          BY <1>3, FollowedAre
    <3>2. MayFollow(d, Flipped(side), i) /\ FlippedSignal(s) = Follow(d, Flipped(side), i)
          BY <3>1, FollowReflected
    <3>3. QED
          BY <3>2, <2>1, FollowedAre
  <2>3. ASSUME NEW s \in Followed(d) PROVE FlippedSignal(s) \in Followed(c) /\ FlippedSignal(FlippedSignal(s)) = s
    <3>1. PICK side, i : MayFollow(d, side, i) /\ s = Follow(d, side, i)
          BY <2>1, FollowedAre
    <3>2. /\ MayFollow(c, Flipped(side), i) /\ FlippedSignal(s) = Follow(c, Flipped(side), i)
          /\ FlippedSignal(FlippedSignal(s)) = s
          BY <3>1, <1>1, FollowReflected
    <3>3. QED
          BY <3>2, <1>3, FollowedAre
  <2>4. QED
        BY <2>2, <2>3
<1>4. QED
  BY <1>2, <1>3

\* Longs and shorts are treated alike: on the candles upside down, the walks,
\* blocks, lines and exits of the trend strategies are the mirrored ones, and a
\* signal is given exactly where the opposite one was.  A body_mult of 0 would let
\* a doji be a fall and never a rise, an rsi period of 1 forgets a move at once
\* and then calls a still price overbought, and order.direction has to be "both".
THEOREM MirroredHolds ==
  ASSUME BodyMult > 0, RsiPeriod > 1, Sides = Directions
  PROVE  StrategiesSpec => []Mirrored
<1>1. CacheDrawn => Mirrored
  <2>1. SUFFICES ASSUME CacheDrawn PROVE Mirrored
        OBVIOUS
  <2>2. rows \in History
        BY <2>1 DEF CacheDrawn, RowsOK
  <2>3. StructureMirrored
        BY <2>2, StructureReflected
  <2>4. Reflects(rows, Mirror(rows))
        BY <2>2, MirrorReflects
  <2>5. RsiBuyMax + RsiSellMin = 100 =>
          Followed(Mirror(rows)) = {FlippedSignal(s) : s \in Followed(rows)}
        BY <2>4, FollowedReflected
  <2>6. QED
        BY <2>3, <2>5 DEF Mirrored
<1>2. QED
  BY <1>1, CacheAlways, PTL

=============================================================================
