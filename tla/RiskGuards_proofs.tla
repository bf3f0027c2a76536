-------------------------- MODULE RiskGuards_proofs --------------------------
(***************************************************************************)
(* The properties of modules KillSwitch and RiskGuards, for every set of   *)
(* actors and all limits, sessions and events.                             *)
(*                                                                         *)
(* The switch: a second try finds the row that made the first one fail,    *)
(* and whoever is about to re-arm a switch that is on was overtaken by the *)
(* toggle that armed it.                                                   *)
(* The evaluation: until the loop has either seen the switch on or         *)
(* remembered a moment at which it was not, it is still in the session     *)
(* that reads it; and nothing an approval was based on changes before the  *)
(* order.                                                                  *)
(***************************************************************************)
EXTENDS RiskGuards, TLAPS

\* What the assumption says of the constants, one by one.
LEMMA Constants ==
  /\ Loop \in Actors
  /\ DayLength \in Nat \ {0} /\ Contract \in Nat \ {0} /\ Hundredth \in Nat \ {0}
  /\ MaxOpen \in Nat /\ MaxDaily \in Nat /\ MaxDrawdown \in Nat /\ MinEquity \in Nat
  /\ RiskPerTrade \in Nat /\ MinRisk \in Nat /\ MaxRisk \in Nat
  /\ MaxVolume \in Nat /\ Deposit \in Nat /\ MaxClock \in Nat
  /\ MaxTrades \in Nat
<1>1. \A n \in {DayLength, Contract, Hundredth} : n \in Nat \ {0}
      BY RiskGuardsAssumption
<1>2. \A n \in {MaxOpen, MaxDaily, MaxDrawdown, MinEquity, Blackout, RiskPerTrade, MinRisk,
                MaxRisk, MaxVolume, MinSl, MinTp, MinReward, Deposit, MaxClock,
                MaxTrades} : n \in Nat
      BY RiskGuardsAssumption
<1>3. QED
  BY <1>1, <1>2, RiskGuardsAssumption

-----------------------------------------------------------------------------
(* The switch.                                                               *)

Writers == {"on", "off", "rearm"}

\* Where a toggle has got to.
Toggling(a) ==
  /\ pc[a] # "raised"
  /\ pc[a] \in {"load", "insert"} => job[a] \in Writers
  /\ pc[a] = "insert" => attempt[a] = 1
  /\ pc[a] = "load" => attempt[a] = 1 \/ row # "absent"

Toggles == TypeOK /\ \A a \in Actors : Toggling(a)

\* A step of one actor that keeps the row's type keeps everything, if it leaves
\* that actor well and never takes the row away.
LEMMA OneToggles ==
  ASSUME Toggles, NEW a \in Actors, row' \in Rows, row # "absent" => row' # "absent",
         NEW p \in Steps, NEW j \in Jobs, NEW t \in 0..Tries,
         pc' = [pc EXCEPT ![a] = p], job' = [job EXCEPT ![a] = j],
         attempt' = [attempt EXCEPT ![a] = t], late' \subseteq Actors,
         /\ p # "raised"
         /\ p \in {"load", "insert"} => j \in Writers
         /\ p = "insert" => t = 1
         /\ p = "load" => t = 1 \/ row' # "absent"
  PROVE  Toggles'
<1>1. TypeOK'
      BY DEF Toggles, TypeOK
<1>2. ASSUME NEW b \in Actors PROVE Toggling(b)'
  <2>1. CASE b = a
        BY <2>1 DEF Toggles, TypeOK, Toggling
  <2>2. CASE b # a
    <3>1. pc'[b] = pc[b] /\ job'[b] = job[b] /\ attempt'[b] = attempt[b]
          BY <2>2 DEF Toggles, TypeOK
    <3>2. QED
          BY <3>1 DEF Toggles, Toggling
  <2>3. QED
        BY <2>1, <2>2
<1>3. QED
  BY <1>1, <1>2 DEF Toggles

\* The call of an actor ends.
LEMMA ReturnToggles ==
  ASSUME Toggles, NEW a \in Actors, Return(a), row' \in Rows, row # "absent" => row' # "absent",
         late' \subseteq Actors
  PROVE  Toggles'
<1>1. "idle" \in Steps /\ "none" \in Jobs /\ 0 \in 0..Tries
      BY DEF Steps, Jobs, Tries
<1>2. /\ pc' = [pc EXCEPT ![a] = "idle"] /\ job' = [job EXCEPT ![a] = "none"]
      /\ attempt' = [attempt EXCEPT ![a] = 0]
      BY DEF Return
<1>3. QED
  BY <1>1, <1>2, OneToggles

LEMMA OvertakesTyped ==
  ASSUME Toggles, NEW a \in Actors, Overtakes(a) \/ late' = late
  PROVE  late' \subseteq Actors
BY DEF Overtakes, Toggles, TypeOK

LEMMA TargetIsRow ==
  ASSUME NEW a \in Actors PROVE Target(a) \in {"on", "off"}
BY DEF Target, Written

\* Every session of the switch, one by one.
LEMMA SwitchStep == Toggles /\ [Next]_vars => Toggles'
<1> SUFFICES ASSUME Toggles, [Next]_vars PROVE Toggles'
    OBVIOUS
<1>0. /\ {"idle", "read", "load", "insert"} \subseteq Steps /\ Writers \cup {"check"} \subseteq Jobs
      /\ 1 \in 0..Tries /\ 2 \in 0..Tries /\ row \in Rows
      BY DEF Steps, Jobs, Tries, Writers, Toggles, TypeOK
<1>1. CASE Expire
      BY <1>1 DEF Expire, Toggles, TypeOK, Toggling, Rows
<1>2. ASSUME NEW a \in Actors, NEW active \in BOOLEAN, CallSet(a, active) PROVE Toggles'
  <2>1. attempt' = [attempt EXCEPT ![a] = 1] /\ job' = [job EXCEPT ![a] = Written(active)]
        /\ pc' = [pc EXCEPT ![a] = "load"] /\ row' = row /\ late' = late
        BY <1>2 DEF CallSet
  <2>2. Written(active) \in Writers /\ Written(active) \in Jobs
        BY <1>0 DEF Written, Writers
  <2>3. QED
        BY <1>0, <2>1, <2>2, OneToggles, OvertakesTyped
<1>3. ASSUME NEW a \in Actors, CallCheck(a) PROVE Toggles'
  <2>1. attempt[a] \in 0..Tries /\ attempt' = [attempt EXCEPT ![a] = attempt[a]] /\ row \in Rows
        BY <1>3 DEF CallCheck, Toggles, TypeOK
  <2>2. job' = [job EXCEPT ![a] = "check"] /\ pc' = [pc EXCEPT ![a] = "read"] /\ row' = row
        /\ late' = late
        BY <1>3 DEF CallCheck
  <2>3. "check" \in Jobs
        BY DEF Jobs
  <2>4. QED
        BY <1>0, <2>1, <2>2, <2>3, OneToggles, OvertakesTyped
<1>4. ASSUME NEW a \in Actors, Read(a) PROVE Toggles'
  <2>1. row' = row /\ row \in Rows /\ late' \subseteq Actors
        BY <1>4 DEF Read, Toggles, TypeOK
  <2>2. CASE Lapsed
    <3>1. /\ pc' = [pc EXCEPT ![a] = "load"] /\ job' = [job EXCEPT ![a] = "rearm"]
          /\ attempt' = [attempt EXCEPT ![a] = 1]
          BY <1>4, <2>2 DEF Read
    <3>2. "rearm" \in Jobs /\ "rearm" \in Writers
          BY DEF Jobs, Writers
    <3>3. QED
          BY <1>0, <2>1, <3>1, <3>2, OneToggles
  <2>3. CASE ~Lapsed
        BY <1>4, <2>1, <2>3, ReturnToggles DEF Read
  <2>4. QED
        BY <2>2, <2>3
<1>5. ASSUME NEW a \in Actors, Update(a) PROVE Toggles'
      BY <1>5, TargetIsRow, ReturnToggles, OvertakesTyped DEF Update, Rows
<1>6. ASSUME NEW a \in Actors, LoadAbsent(a) PROVE Toggles'
  <2>1. /\ Toggling(a) /\ pc[a] = "load" /\ row = "absent" /\ row' = row
        /\ pc' = [pc EXCEPT ![a] = "insert"] /\ UNCHANGED <<job, attempt, late>>
        BY <1>6 DEF LoadAbsent, Toggles
  <2>2. attempt[a] = 1 /\ job[a] \in Writers /\ job[a] \in Jobs
        BY <1>0, <2>1 DEF Toggling
  <2>3. attempt' = [attempt EXCEPT ![a] = 1] /\ job' = [job EXCEPT ![a] = job[a]]
        BY <2>1, <2>2 DEF Toggles, TypeOK
  <2>4. QED
        BY <1>0, <2>1, <2>2, <2>3, OneToggles, OvertakesTyped
<1>7. ASSUME NEW a \in Actors, Insert(a) PROVE Toggles'
      BY <1>7, TargetIsRow, ReturnToggles, OvertakesTyped DEF Insert, Rows
<1>8. ASSUME NEW a \in Actors, InsertConflict(a) PROVE Toggles'
  <2>1. Toggling(a) /\ pc[a] = "insert" /\ row # "absent" /\ row' = row /\ job' = job
        /\ row \in Rows /\ late' = late
        BY <1>8 DEF InsertConflict, Toggles, TypeOK
  <2>2. attempt[a] = 1 /\ job[a] \in Writers /\ job[a] \in Jobs /\ attempt[a] + 1 = 2
        BY <1>0, <2>1 DEF Toggling
  <2>3. /\ pc' = [pc EXCEPT ![a] = "load"] /\ attempt' = [attempt EXCEPT ![a] = 2]
        /\ job' = [job EXCEPT ![a] = job[a]]
        BY <1>8, <2>1, <2>2 DEF InsertConflict, MayRetry, Toggles, TypeOK, Tries
  <2>4. QED
        BY <1>0, <2>1, <2>2, <2>3, OneToggles, OvertakesTyped
<1>9. CASE UNCHANGED vars
      BY <1>9 DEF vars, Toggles, TypeOK, Toggling
<1>10. QED
  BY <1>1, <1>2, <1>3, <1>4, <1>5, <1>6, <1>7, <1>8, <1>9 DEF Next

LEMMA SwitchStart == Init => Toggles
BY DEF Init, Toggles, TypeOK, Toggling, Steps, Jobs, Tries, Rows

\* However toggles, reads and re-arms of any number of actors overlap, none
\* of them ends in the RuntimeError of _set_kill_switch.
THEOREM SwitchHolds == Spec => []SwitchInv
<1>1. Toggles => SwitchInv
      BY DEF Toggles, Toggling, SwitchInv, NeverRaises
<1>2. QED
  BY <1>1, SwitchStart, SwitchStep, PTL DEF Spec

\* Whoever is about to re-arm a switch that is on was overtaken.
LateKnown == row = "on" => \A a \in Actors : job[a] = "rearm" => a \in late

\* A write: the writer's call is over, and arming overtakes the others.
LEMMA WriteOvertakes ==
  ASSUME Toggles, LateKnown, NEW a \in Actors, row' = Target(a), Return(a), Overtakes(a)
  PROVE  LateKnown'
<1> SUFFICES ASSUME row' = "on", NEW b \in Actors, job'[b] = "rearm" PROVE b \in late'
    BY DEF LateKnown
<1>1. b # a /\ job[b] = "rearm"
      BY DEF Return, Toggles, TypeOK
<1>2. QED
  BY <1>1 DEF Overtakes

LEMMA LateStep == Toggles /\ LateKnown /\ [Next]_vars => LateKnown'
<1> SUFFICES ASSUME Toggles, LateKnown, [Next]_vars PROVE LateKnown'
    OBVIOUS
<1>1. CASE Expire
      BY <1>1 DEF Expire, LateKnown
<1>2. ASSUME NEW a \in Actors, NEW active \in BOOLEAN, CallSet(a, active) PROVE LateKnown'
      BY <1>2 DEF CallSet, Written, LateKnown, Toggles, TypeOK
<1>3. ASSUME NEW a \in Actors, CallCheck(a) \/ LoadAbsent(a) \/ InsertConflict(a)
      PROVE  LateKnown'
      BY <1>3 DEF CallCheck, LoadAbsent, InsertConflict, LateKnown, Toggles, TypeOK
<1>4. ASSUME NEW a \in Actors, Read(a) PROVE LateKnown'
  <2>1. CASE Lapsed
        BY <1>4, <2>1 DEF Read, Lapsed, LateKnown
  <2>2. CASE ~Lapsed
        BY <1>4, <2>2 DEF Read, Return, LateKnown, Toggles, TypeOK
  <2>3. QED
        BY <2>1, <2>2
<1>5. ASSUME NEW a \in Actors, Update(a) \/ Insert(a) PROVE LateKnown'
      BY <1>5, WriteOvertakes DEF Update, Insert
<1>6. CASE UNCHANGED vars
      BY <1>6 DEF vars, LateKnown
<1>7. QED
  BY <1>1, <1>2, <1>3, <1>4, <1>5, <1>6 DEF Next

\* A switch that is on goes off by a toggle to off, or by a re-arm that was late.
LEMMA DisarmStep ==
  ASSUME Toggles, LateKnown, Next, row = "on", row' = "off"
  PROVE  \E a \in Actors : \/ job[a] = "off" /\ job'[a] = "none"
                          \/ a \in late \ late'
<1>1. PICK a \in Actors : (Update(a) \/ Insert(a)) /\ row' = Target(a)
      BY DEF Next, Expire, CallSet, CallCheck, Read, LoadAbsent, InsertConflict, Update, Insert
<1>2. job'[a] = "none" /\ a \notin late'
      BY <1>1 DEF Update, Insert, Return, Overtakes, Toggles, TypeOK
<1>3. job[a] \in Writers /\ job[a] # "on"
      BY <1>1 DEF Update, Insert, Target, Written, Toggles, Toggling
<1>4. CASE job[a] = "off"
      BY <1>2, <1>4
<1>5. CASE job[a] = "rearm"
      BY <1>2, <1>5 DEF LateKnown
<1>6. QED
  BY <1>3, <1>4, <1>5 DEF Writers

-----------------------------------------------------------------------------
(* The size of an order.                                                     *)

LEMMA Division ==
  ASSUME NEW a \in Int, NEW b \in Nat \ {0}
  PROVE  a \div b \in Int /\ b * (a \div b) <= a /\ a < b * (a \div b) + b
OBVIOUS

LEMMA MultipleOf ==
  ASSUME NEW q \in Int, NEW step \in Nat \ {0}
  PROVE  (q * step) % step = 0
OBVIOUS

LEMMA MultipleBack ==
  ASSUME NEW n \in Int, NEW h \in Nat \ {0}
  PROVE  /\ (n * h) \div h = n
         /\ n % h = 0 => n = (n \div h) * h
OBVIOUS

LEMMA Cancel ==
  ASSUME NEW a \in Int, NEW b \in Int, NEW u \in Nat \ {0}, a * u <= b * u
  PROVE  a <= b
OBVIOUS

LEMMA Times ==
  ASSUME NEW a \in Int, NEW b \in Int, NEW u \in Nat, a <= b
  PROVE  a * u <= b * u
OBVIOUS

LEMMA LargerExists ==
  ASSUME NEW a \in Int, NEW b \in Int
  PROVE  Max({a, b}) \in {a, b} /\ Min({a, b}) \in {a, b}
<1>1. /\ \E x \in {a, b} : \A y \in {a, b} : x >= y
      /\ \E x \in {a, b} : \A y \in {a, b} : x <= y
      OBVIOUS
<1>2. QED
  BY <1>1 DEF Max, Min

LEMMA RiskNat == Risk \in Nat
<1>1. Min({MaxRisk, RiskPerTrade}) \in {MaxRisk, RiskPerTrade}
      BY Constants, LargerExists
<1>2. Min({MaxRisk, RiskPerTrade}) \in Nat
      BY <1>1, Constants
<1>3. Max({MinRisk, Min({MaxRisk, RiskPerTrade})}) \in {MinRisk, Min({MaxRisk, RiskPerTrade})}
      BY <1>2, Constants, LargerExists
<1>4. QED
  BY <1>2, <1>3, Constants DEF Risk

Signals == [symbol : Symbols \cup {"none"}, priced : BOOLEAN,
            sl : Nat \cup {Missing}, tp : Nat \cup {Missing}]

LEMMA LotsTyped ==
  ASSUME NEW signal \in Signals
  PROVE  LotBounds(signal).min \in Nat /\ LotBounds(signal).step \in Nat \ {0}
<1>1. CASE Known(signal)
  <2>1. Lots[signal.symbol] \in [min : Nat, step : Nat \ {0}]
        BY <1>1, RiskGuardsAssumption DEF Known
  <2>2. QED
        BY <1>1, <2>1 DEF LotBounds
<1>2. CASE ~Known(signal)
      BY <1>2, Constants DEF LotBounds
<1>3. QED
  BY <1>1, <1>2

\* The steps paid for cost no more than the budget, and one more at least all of it.
LEMMA WholeStepsPaid ==
  ASSUME NEW budget \in Int, NEW price \in Nat \ {0}, NEW steps \in WholeSteps(budget, price)
  PROVE  steps \in Int /\ steps * price <= budget /\ budget <= (steps + 1) * price
<1> DEFINE exact == budget \div price
<1>1. exact \in Int /\ price * exact <= budget /\ budget < price * exact + price
      BY Division
<1>2. steps = exact \/ (exact * price = budget /\ steps = exact - 1)
      BY DEF WholeSteps
<1> HIDE DEF exact
<1>3. QED
  BY <1>1, <1>2

\* Rounding moves a volume by half a hundredth at most, and leaves whole ones.
LEMMA RoundedNear ==
  ASSUME NEW volume \in Int, NEW r \in Rounded(volume)
  PROVE  /\ r \in Int /\ r % Hundredth = 0
         /\ 2 * (r - volume) <= Hundredth /\ 2 * (volume - r) <= Hundredth
         /\ volume % Hundredth = 0 => r = volume
<1> DEFINE quotient == volume \div Hundredth
           below == quotient * Hundredth
<1>1. Hundredth \in Nat \ {0}
      BY Constants
<1>2. quotient \in Int
      BY <1>1, Division
<1>3. /\ r \in {below, below + Hundredth}
      /\ 2 * (r - volume) <= Hundredth /\ 2 * (volume - r) <= Hundredth
      BY DEF Rounded
<1>4. volume % Hundredth = 0 => volume = below
      BY <1>1, MultipleBack
<1> HIDE DEF quotient
<1>5. below \in Int /\ below + Hundredth = (quotient + 1) * Hundredth
      BY <1>1, <1>2
<1>6. r % Hundredth = 0
  <2>1. (quotient * Hundredth) % Hundredth = 0 /\ ((quotient + 1) * Hundredth) % Hundredth = 0
        BY <1>1, <1>2, MultipleOf
  <2>2. QED
        BY <1>3, <1>5, <2>1
<1> HIDE DEF below
<1>7. QED
  BY <1>1, <1>3, <1>4, <1>5, <1>6

\* A volume that costs the risk of the equity, as nearly as step and rounding
\* allow.
Sized(volume, signal, equity) ==
  LET lots == LotBounds(signal)
      cost(v) == v * UnitCost(signal)
      slack == IF lots.step % Hundredth = 0 THEN 0 ELSE Hundredth
  IN /\ volume > 0 /\ volume % Hundredth = 0
     /\ slack = 0 => volume % lots.step = 0
     /\ 2 * lots.min - slack <= 2 * volume
     /\ 2 * volume <= 2 * MaxVolume + slack
     /\ cost(2 * volume - slack) <= 2 * Budget(equity)
     /\ cost(2 * (volume + lots.step) + slack) >= 2 * Budget(equity)

\* Whatever _position_size does not refuse is of that kind.
LEMMA VolumeSized ==
  ASSUME NEW signal \in Signals, NEW equity \in Int,
         NEW volume \in Volumes(signal, equity), volume > 0
  PROVE  volume \in Nat /\ Sized(volume, signal, equity)
<1> DEFINE min == LotBounds(signal).min
           step == LotBounds(signal).step
           unit == UnitCost(signal)
           budget == Budget(equity)
           slack == IF step % Hundredth = 0 THEN 0 ELSE Hundredth
<1>1. /\ signal.sl # Missing /\ signal.sl > 0 /\ budget <= MaxVolume * unit
      /\ \E n \in WholeSteps(budget, step * unit) :
           volume \in IF n * step < min THEN {0} ELSE Rounded(n * step)
  <2>1. volume # 0
        OBVIOUS
  <2> HIDE DEF min, step, unit, budget
  <2>2. volume \in IF /\ signal.priced /\ signal.sl # Missing /\ signal.sl > 0
                      /\ budget >= min * unit /\ budget <= MaxVolume * unit
                   THEN UNION {IF n * step < min THEN {0} ELSE Rounded(n * step) :
                                 n \in WholeSteps(budget, step * unit)}
                   ELSE {0}
        BY DEF Volumes, min, step, unit, budget
  <2>3. QED
        BY <2>1, <2>2
<1>2. /\ Contract \in Nat \ {0} /\ Hundredth \in Nat \ {0} /\ MaxVolume \in Nat
      /\ min \in Nat /\ step \in Nat \ {0}
      BY Constants, LotsTyped
<1>3. unit \in Nat \ {0}
  <2>1. signal.sl \in Nat \ {0}
        BY <1>1 DEF Signals
  <2>2. QED
        BY <1>2, <2>1 DEF UnitCost
<1>4. budget \in Int
      BY <1>2, RiskNat DEF Budget
<1> HIDE DEF min, step, unit, budget
<1>5. step * unit \in Nat \ {0}
      BY <1>2, <1>3
<1>6. PICK n \in WholeSteps(budget, step * unit) :
        volume \in IF n * step < min THEN {0} ELSE Rounded(n * step)
      BY <1>1
<1>7. n \in Int /\ n * (step * unit) <= budget /\ budget <= (n + 1) * (step * unit)
      BY <1>4, <1>5, <1>6, WholeStepsPaid
<1> DEFINE stepped == n * step
<1>8. /\ stepped \in Int
      /\ n * (step * unit) = stepped * unit
      /\ (n + 1) * (step * unit) = (stepped + step) * unit
      BY <1>2, <1>3, <1>7
<1>9. stepped >= min /\ volume \in Rounded(stepped)
      BY <1>2, <1>6, <1>8
<1>10. step % Hundredth = 0 => stepped % Hundredth = 0
  <2> SUFFICES ASSUME step % Hundredth = 0 PROVE stepped % Hundredth = 0
      OBVIOUS
  <2> DEFINE k == step \div Hundredth
  <2>1. step = k * Hundredth /\ k \in Int
        BY <1>2, MultipleBack, Division
  <2> HIDE DEF k
  <2>2. stepped = (n * k) * Hundredth /\ n * k \in Int
        BY <1>2, <1>7, <2>1
  <2>3. QED
        BY <1>2, <2>2, MultipleOf
<1>11. stepped % step = 0
      BY <1>2, <1>7, MultipleOf
<1> HIDE DEF stepped
<1>12. /\ volume \in Int /\ volume % Hundredth = 0
       /\ 2 * (volume - stepped) <= Hundredth /\ 2 * (stepped - volume) <= Hundredth
       /\ stepped % Hundredth = 0 => volume = stepped
      BY <1>8, <1>9, RoundedNear
<1>13. slack \in Nat /\ 2 * volume - slack <= 2 * stepped /\ 2 * stepped <= 2 * volume + slack
  <2>1. CASE step % Hundredth = 0
        BY <1>8, <1>10, <1>12, <2>1
  <2>2. CASE step % Hundredth # 0
        BY <1>2, <1>8, <1>12, <2>2
  <2>3. QED
        BY <2>1, <2>2
<1>14. slack = 0 => volume % step = 0
      BY <1>2, <1>10, <1>11, <1>12
<1> HIDE DEF slack
<1>15. stepped <= MaxVolume
  <2>1. stepped * unit \in Int /\ MaxVolume * unit \in Int
        BY <1>2, <1>3, <1>8
  <2>2. stepped * unit <= MaxVolume * unit
        BY <1>1, <1>4, <1>7, <1>8, <2>1 DEF budget, unit
  <2>3. QED
        BY <1>2, <1>3, <1>8, <2>2, Cancel
<1>16. (2 * volume - slack) * unit <= 2 * budget
  <2>1. (2 * volume - slack) * unit <= (2 * stepped) * unit
        BY <1>3, <1>8, <1>12, <1>13, Times
  <2>2. (2 * stepped) * unit = 2 * (stepped * unit) /\ stepped * unit \in Int
        BY <1>3, <1>8
  <2>3. (2 * volume - slack) * unit \in Int
        BY <1>3, <1>12, <1>13
  <2>4. QED
        BY <1>4, <1>7, <1>8, <2>1, <2>2, <2>3
<1>17. (2 * (volume + step) + slack) * unit >= 2 * budget
  <2>1. (2 * (stepped + step)) * unit <= (2 * (volume + step) + slack) * unit
        BY <1>2, <1>3, <1>8, <1>12, <1>13, Times
  <2>2. (2 * (stepped + step)) * unit = 2 * ((stepped + step) * unit) /\ (stepped + step) * unit \in Int
        BY <1>2, <1>3, <1>8
  <2>3. (2 * (volume + step) + slack) * unit \in Int
        BY <1>2, <1>3, <1>12, <1>13
  <2>4. QED
        BY <1>4, <1>7, <1>8, <2>1, <2>2, <2>3
<1>18. 2 * min - slack <= 2 * volume /\ 2 * volume <= 2 * MaxVolume + slack
      BY <1>2, <1>8, <1>9, <1>12, <1>13, <1>15
<1>19. QED
  BY <1>12, <1>14, <1>16, <1>17, <1>18 DEF Sized, min, step, unit, budget, slack

-----------------------------------------------------------------------------
(* The evaluation.                                                           *)

TradeRows == [opened : Int, closed : Int, pnl : Int, seen : Int]
Orders == [signal : Signals, killed : BOOLEAN, volume : Nat, first : Int, equity : Int]

Typed ==
  /\ clock \in 0..MaxClock /\ recent \subseteq Events /\ missed \subseteq Providers
  /\ trades \in Seq(TradeRows) /\ Len(trades) <= MaxTrades /\ balance \in Int
  /\ phase \in Phases /\ order \in Orders /\ seenOff \in BOOLEAN

\* The loop reads the switch in its phase, and never inserts the row.
LoopReads ==
  /\ phase = "switch" <=> pc[Loop] # "idle"
  /\ pc[Loop] \in {"idle", "read", "load"}

\* Whoever does not remember the switch as on has seen it off or lapsed.
Witnessed ==
  /\ pc[Loop] = "load" => seenOff
  /\ phase = "guards" /\ ~order.killed => seenOff
  /\ Approved => seenOff

\* What the providers that answered have published is known.
NewsKnown == \A e \in Events : e.provider \notin missed => e \in recent

\* What an approval was based on still holds.
Judged ==
  Approved =>
    /\ SessionAllows(clock) /\ ~InBlackout
    /\ Sized(order.volume, order.signal, order.equity)

RiskInv == Toggles /\ Typed /\ LoopReads /\ Witnessed /\ NewsKnown /\ Judged

LEMMA NoOrderTyped == NoOrder \in Orders
<1>1. NoEquity \in Int /\ 0 \in Nat /\ Missing \in Nat \cup {Missing}
      BY DEF NoEquity
<1>2. FALSE \in BOOLEAN
      BY Zenon
<1>3. NoSignal \in Signals
      BY <1>1, <1>2, Zenon DEF NoSignal, Signals
<1>4. QED
  BY <1>1, <1>2, <1>3, Zenon DEF NoOrder, Orders

LEMMA RiskStart == RiskInit => RiskInv
<1> SUFFICES ASSUME RiskInit PROVE RiskInv
    OBVIOUS
<1> USE DEF RiskInit
<1>1. Toggles
      BY SwitchStart
<1>2. pc[Loop] = "idle"
      BY Constants DEF Init
<1>3. seenOff \in BOOLEAN
      BY Zenon
<1>4. order \in Orders
      BY NoOrderTyped
<1>5. clock \in 0..MaxClock /\ trades \in Seq(TradeRows) /\ Len(trades) <= MaxTrades /\ balance \in Int
      BY Constants
<1>6. Typed
      BY <1>3, <1>4, <1>5 DEF Typed, Phases
<1>7. NewsKnown
      BY RiskGuardsAssumption DEF NewsKnown
<1>8. LoopReads /\ Witnessed /\ Judged
      BY <1>2 DEF LoopReads, Witnessed, Judged, Approved
<1>9. QED
  BY <1>1, <1>6, <1>7, <1>8 DEF RiskInv

\* An approval stands while nothing it was based on changes.
LEMMA ApprovalStands ==
  ASSUME Judged, UNCHANGED <<clock, recent, trades, phase, order>>
  PROVE  Judged'
<1>1. InBlackout' <=> InBlackout
      BY DEF InBlackout
<1>2. SessionAllows(clock)' <=> SessionAllows(clock)
      OBVIOUS
<1>3. Sized(order.volume, order.signal, order.equity)'
        <=> Sized(order.volume, order.signal, order.equity)
      OBVIOUS
<1>5. QED
  BY <1>1, <1>2, <1>3 DEF Judged, Approved

\* Without the loop's part the switch leaves the evaluation alone, but for what
\* it may have seen.
LEMMA SwitchAside ==
  ASSUME RiskInv, Toggles', pc'[Loop] = pc[Loop],
         UNCHANGED <<clock, recent, missed, trades, balance, phase, order>>,
         seenOff' \in BOOLEAN, seenOff => seenOff'
  PROVE  RiskInv'
<1> USE DEF RiskInv
<1>1. Typed' /\ LoopReads' /\ NewsKnown'
      BY DEF Typed, LoopReads, NewsKnown
<1>2. Witnessed'
      BY DEF Witnessed, Approved
<1>3. Judged'
      BY ApprovalStands
<1>4. QED
  BY <1>1, <1>2, <1>3

\* Every step is a step of the switch or leaves it alone.
LEMMA SwitchUnder == [RiskNext]_allVars => [Next]_vars
<1> SUFFICES ASSUME [RiskNext]_allVars PROVE [Next]_vars
    OBVIOUS
<1>1. CASE ReadSwitch
      BY <1>1, Constants DEF ReadSwitch, Next
<1>2. ASSUME NEW signal \in Candidates, Evaluate(signal) PROVE Next
      BY <1>2, Constants DEF Evaluate, Next
<1>3. CASE Elsewhere
      BY <1>3 DEF Elsewhere, Next
<1>4. CASE Tick \/ Judge \/ Refuse \/ UNCHANGED allVars
      BY <1>4 DEF Tick, Judge, Refuse, allVars
<1>5. ASSUME \/ \E ordered \in BOOLEAN : Deliver(ordered)
             \/ \E failed \in SUBSET Providers : Collect(failed)
             \/ \E i \in DOMAIN trades, result \in Results : TradeCloses(i, result)
      PROVE  UNCHANGED vars
      BY <1>5 DEF Deliver, Collect, TradeCloses
<1>6. QED
  BY <1>1, <1>2, <1>3, <1>4, <1>5 DEF RiskNext

\* The evaluation begins.
LEMMA EvaluateStep ==
  ASSUME RiskInv, Toggles', NEW signal \in Candidates, Evaluate(signal)
  PROVE  RiskInv'
<1> USE DEF RiskInv, Evaluate
<1>1. pc'[Loop] = "read"
      BY Constants DEF CallCheck, Toggles, TypeOK
<1>2. seenOff' \in BOOLEAN
      BY Zenon
<1>3. order' \in Orders
  <2>1. signal \in Signals
    <3>1. \A c \in Candidates : c \in [symbol : Symbols, priced : BOOLEAN,
                                      sl : Nat \cup {Missing}, tp : Nat \cup {Missing}]
          BY RiskGuardsAssumption, Zenon
    <3>2. QED
          BY <3>1 DEF Signals
  <2>2. QED
        BY <2>1, NoOrderTyped DEF Orders
<1>4. Typed'
      BY <1>2, <1>3 DEF Typed, Phases
<1>5. LoopReads' /\ Witnessed' /\ NewsKnown' /\ Judged'
      BY <1>1 DEF LoopReads, Witnessed, NewsKnown, Judged, Approved
<1>6. QED
  BY <1>4, <1>5

\* The switch is read: on, off, or lapsed and then turned off.
LEMMA ReadStep ==
  ASSUME RiskInv, Toggles', ReadSwitch
  PROVE  RiskInv'
<1> USE DEF RiskInv
<1>1. /\ phase = "switch" /\ seenOff' = (seenOff \/ row' # "on")
      /\ UNCHANGED <<clock, recent, missed, trades, balance>>
      BY DEF ReadSwitch, Seen
<1>2. seenOff' \in BOOLEAN
      BY <1>1, Zenon
<1>3. CASE Read(Loop) /\ Lapsed
  <2>1. pc'[Loop] = "load" /\ row' = row /\ row = "expired"
        BY <1>3, Constants DEF Read, Lapsed, Toggles, TypeOK
  <2>2. UNCHANGED <<phase, order>>
        BY <2>1 DEF ReadSwitch
  <2>3. seenOff'
        BY <1>1, <2>1
  <2>4. Typed'
        BY <1>1, <1>2, <2>2 DEF Typed
  <2>5. LoopReads' /\ Witnessed' /\ NewsKnown' /\ Judged'
        BY <1>1, <2>1, <2>2, <2>3 DEF LoopReads, Witnessed, NewsKnown, Judged, Approved
  <2>6. QED
        BY <2>4, <2>5
<1>4. CASE (Read(Loop) /\ ~Lapsed) \/ Update(Loop)
  <2>1. pc'[Loop] = "idle"
        BY <1>4, Constants DEF Read, Update, Return, Toggles, TypeOK
  <2>2. phase' = "guards" /\ order' = [order EXCEPT !.killed = Killed]
        BY <2>1 DEF ReadSwitch
  <2>3. Killed \in BOOLEAN
        BY Zenon DEF Killed
  <2>4. order' \in Orders /\ order'.killed = Killed
        BY <2>2, <2>3 DEF Typed, Orders
  <2>5. ~Killed => seenOff'
    <3>1. CASE Update(Loop)
          BY <1>1, <3>1 DEF Update, Witnessed
    <3>2. CASE Read(Loop)
          BY <1>1, <3>2 DEF Read, Killed
    <3>3. QED
          BY <1>4, <3>1, <3>2
  <2>6. Typed'
        BY <1>1, <1>2, <2>2, <2>4 DEF Typed, Phases
  <2>7. Witnessed'
        BY <2>1, <2>2, <2>4, <2>5 DEF Witnessed, Approved
  <2>8. LoopReads' /\ NewsKnown' /\ Judged'
        BY <1>1, <2>1, <2>2 DEF LoopReads, NewsKnown, Judged, Approved
  <2>9. QED
        BY <2>6, <2>7, <2>8
<1>5. QED
  BY <1>3, <1>4 DEF ReadSwitch

\* Others at the switch.
LEMMA ElsewhereStep ==
  ASSUME RiskInv, Toggles', Elsewhere
  PROVE  RiskInv'
<1>1. pc'[Loop] = pc[Loop]
  <2>1. CASE Expire
        BY <2>1 DEF Expire
  <2>2. ASSUME NEW a \in Actors \ {Loop},
               \/ \E active \in BOOLEAN : CallSet(a, active)
               \/ CallCheck(a) \/ Read(a)
               \/ Update(a) \/ LoadAbsent(a) \/ Insert(a) \/ InsertConflict(a)
        PROVE  pc'[Loop] = pc[Loop]
    <3>1. \E p : pc' = [pc EXCEPT ![a] = p]
          BY <2>2 DEF CallSet, CallCheck, Read, Update, LoadAbsent, Insert, InsertConflict, Return
    <3>2. QED
          BY <3>1, Constants DEF RiskInv, Toggles, TypeOK
  <2>3. QED
        BY <2>1, <2>2 DEF Elsewhere
<1>2. UNCHANGED <<clock, recent, missed, trades, balance, phase, order>>
      BY DEF Elsewhere
<1>3. seenOff \in BOOLEAN
      BY DEF RiskInv, Typed
<1>4. seenOff' \in BOOLEAN /\ (seenOff => seenOff')
      BY <1>3, Zenon DEF Elsewhere, Seen
<1>5. QED
  BY <1>1, <1>2, <1>4, SwitchAside

\* The evaluation ends without an approval, or the approval is used up.
LEMMA EvaluationEnds ==
  ASSUME RiskInv, Toggles', phase # "switch", phase' = "none", order' = NoOrder,
         UNCHANGED <<vars, clock, recent, missed, balance, seenOff>>,
         trades' \in Seq(TradeRows), Len(trades') <= MaxTrades
  PROVE  RiskInv'
<1> USE DEF RiskInv
<1>1. Typed'
      BY NoOrderTyped DEF Typed, Phases
<1>2. LoopReads' /\ Witnessed' /\ NewsKnown' /\ Judged'
      BY DEF LoopReads, Witnessed, NewsKnown, Judged, Approved, vars
<1>3. QED
  BY <1>1, <1>2

\* The guards: what they have read is what the approval rests on.
LEMMA JudgeStep ==
  ASSUME RiskInv, Toggles', Judge
  PROVE  RiskInv'
<1>1. /\ phase = "guards" /\ UNCHANGED <<vars, clock, recent, missed, trades, balance, seenOff>>
      BY DEF Judge
<1>2. PICK first \in Readings, equity \in Readings :
        \E volume \in Volumes(order.signal, equity) :
          IF Allowed(first, equity) /\ volume > 0
          THEN /\ phase' = "approved"
               /\ order' = [order EXCEPT !.volume = volume, !.first = first, !.equity = equity]
          ELSE phase' = "none" /\ order' = NoOrder
      BY DEF Judge
<1>3. PICK volume \in Volumes(order.signal, equity) :
        IF Allowed(first, equity) /\ volume > 0
        THEN /\ phase' = "approved"
             /\ order' = [order EXCEPT !.volume = volume, !.first = first, !.equity = equity]
        ELSE phase' = "none" /\ order' = NoOrder
      BY <1>2
<1>4. CASE ~(Allowed(first, equity) /\ volume > 0)
  <2>1. trades' \in Seq(TradeRows) /\ Len(trades') <= MaxTrades
        BY <1>1 DEF RiskInv, Typed
  <2>2. QED
        BY <1>1, <1>3, <1>4, <2>1, EvaluationEnds
<1>5. CASE Allowed(first, equity) /\ volume > 0
  <2> USE DEF RiskInv
  <2>1. /\ phase' = "approved"
        /\ order' = [order EXCEPT !.volume = volume, !.first = first, !.equity = equity]
        BY <1>3, <1>5
  <2>2. first \in Int /\ equity \in Int
    <3>1. \A f \in Floating : f \in Int
          BY RiskGuardsAssumption
    <3>2. balance \in Int
          BY DEF Typed
    <3>3. QED
          BY <3>1, <3>2 DEF Readings, NoEquity
  <2>3. order \in Orders /\ order.signal \in Signals
        BY DEF Typed, Orders
  <2>4. volume \in Nat /\ Sized(volume, order.signal, equity)
        BY <1>5, <2>2, <2>3, VolumeSized
  <2>6. order' \in Orders
        BY <2>1, <2>2, <2>3, <2>4 DEF Orders
  <2>7. order'.signal = order.signal /\ order'.volume = volume /\ order'.first = first
        /\ order'.equity = equity
        BY <2>1, <2>3 DEF Orders
  <2>8. Typed'
        BY <1>1, <2>1, <2>6 DEF Typed, Phases
  <2>9. Witnessed'
        BY <1>1, <1>5, <2>1 DEF Witnessed, Allowed, Approved, vars
  <2>10. LoopReads' /\ NewsKnown'
        BY <1>1, <2>1 DEF LoopReads, NewsKnown, vars
  <2>11. SessionAllows(clock)' /\ ~InBlackout'
    <3>1. SessionAllows(clock) /\ ~InBlackout
          BY <1>5 DEF Allowed
    <3>2. QED
          BY <1>1, <3>1 DEF InBlackout
  <2>12. Sized(order.volume, order.signal, order.equity)'
        BY <2>4, <2>7
  <2>13. Judged'
        BY <2>11, <2>12 DEF Judged
  <2>14. QED
        BY <2>8, <2>9, <2>10, <2>13
<1>6. QED
  BY <1>4, <1>5

LEMMA DayTyped ==
  ASSUME NEW t \in Nat PROVE Day(t) \in Int
BY Constants, Division DEF Day

\* The order, or its refusal.
LEMMA DeliverStep ==
  ASSUME RiskInv, Toggles', NEW ordered \in BOOLEAN, Deliver(ordered)
  PROVE  RiskInv'
<1>1. /\ phase = "approved" /\ phase' = "none" /\ order' = NoOrder
      /\ UNCHANGED <<vars, clock, recent, missed, balance, seenOff>>
      BY DEF Deliver
<1>2. trades \in Seq(TradeRows) /\ Len(trades) <= MaxTrades /\ clock \in Nat
      BY DEF RiskInv, Typed
<1>3. CASE ordered
  <2> DEFINE trade == [opened |-> Day(clock), closed |-> StillOpen, pnl |-> 0,
                       seen |-> order.first]
  <2>1. trade \in TradeRows
    <3>1. order.first \in Int
          BY DEF RiskInv, Typed, Orders
    <3>2. QED
          BY <1>2, <3>1, DayTyped DEF TradeRows, StillOpen
  <2>2. trades' = Append(trades, trade) /\ Len(trades) < MaxTrades
        BY <1>3 DEF Deliver
  <2> HIDE DEF trade
  <2>3. trades' \in Seq(TradeRows) /\ Len(trades') <= MaxTrades
        BY <1>2, <2>1, <2>2, Constants
  <2>4. QED
        BY <1>1, <2>3, EvaluationEnds
<1>4. CASE ~ordered
  <2>1. trades' = trades
        BY <1>4 DEF Deliver
  <2>2. QED
        BY <1>1, <1>2, <2>1, EvaluationEnds
<1>5. QED
  BY <1>3, <1>4

\* Between two evaluations nothing is approved.
LEMMA BetweenStep ==
  ASSUME RiskInv, Toggles', phase = "none", UNCHANGED <<vars, phase, order, seenOff>>,
         clock' \in 0..MaxClock, recent' \subseteq Events, missed' \subseteq Providers,
         trades' \in Seq(TradeRows), Len(trades') <= MaxTrades, balance' \in Int, NewsKnown'
  PROVE  RiskInv'
<1> USE DEF RiskInv
<1>1. Typed'
      BY DEF Typed
<1>2. LoopReads' /\ Witnessed' /\ Judged'
      BY DEF LoopReads, Witnessed, Judged, Approved, vars
<1>3. QED
  BY <1>1, <1>2

LEMMA CollectStep ==
  ASSUME RiskInv, Toggles', NEW failed \in SUBSET Providers, Collect(failed)
  PROVE  RiskInv'
<1>1. /\ phase = "none" /\ UNCHANGED <<vars, phase, order, seenOff, clock, trades, balance>>
      /\ missed' = failed /\ recent' = UNION {Published(p) : p \in Providers \ failed}
      BY DEF Collect
<1>2. recent' \subseteq Events
      BY <1>1 DEF Published
<1>3. NewsKnown'
  <2>1. ASSUME NEW e \in Events, e.provider \notin failed PROVE e \in recent'
    <3>1. e.provider \in Providers \ failed /\ e \in Published(e.provider)
          BY <2>1, RiskGuardsAssumption DEF Published
    <3>2. QED
          BY <1>1, <3>1
  <2>2. QED
        BY <1>1, <2>1 DEF NewsKnown
<1>4. QED
  BY <1>1, <1>2, <1>3, BetweenStep DEF RiskInv, Typed

LEMMA TradeClosesStep ==
  ASSUME RiskInv, Toggles', NEW i \in DOMAIN trades, NEW result \in Results,
         TradeCloses(i, result)
  PROVE  RiskInv'
<1>1. /\ phase = "none" /\ UNCHANGED <<vars, phase, order, seenOff, clock, recent, missed>>
      /\ balance' = balance + result
      /\ trades' = [trades EXCEPT ![i].closed = Day(clock), ![i].pnl = result]
      BY DEF TradeCloses
<1>2. trades \in Seq(TradeRows) /\ Len(trades) <= MaxTrades /\ clock \in Nat /\ balance \in Int
      BY DEF RiskInv, Typed
<1>3. result \in Int /\ balance' \in Int
  <2>1. \A x \in Results : x \in Int
        BY RiskGuardsAssumption
  <2>2. QED
        BY <1>1, <1>2, <2>1
<1>4. trades[i] \in TradeRows
      BY <1>2
<1> DEFINE settled == [trades[i] EXCEPT !.closed = Day(clock), !.pnl = result]
<1>5. settled \in TradeRows
      BY <1>2, <1>3, <1>4, DayTyped DEF TradeRows
<1>6. trades' = [trades EXCEPT ![i] = settled]
      BY <1>1, <1>2
<1> HIDE DEF settled
<1>7. trades' \in Seq(TradeRows) /\ Len(trades') = Len(trades)
      BY <1>2, <1>5, <1>6
<1>8. NewsKnown'
      BY <1>1 DEF RiskInv, NewsKnown
<1>9. QED
  BY <1>1, <1>2, <1>3, <1>7, <1>8, BetweenStep DEF RiskInv, Typed

LEMMA TickStep ==
  ASSUME RiskInv, Toggles', Tick
  PROVE  RiskInv'
<1>1. /\ phase = "none" /\ UNCHANGED <<vars, phase, order, seenOff, recent, missed, trades, balance>>
      /\ clock' \in 0..MaxClock
      BY Constants DEF Tick, RiskInv, Typed
<1>2. NewsKnown'
      BY <1>1 DEF RiskInv, NewsKnown
<1>3. QED
  BY <1>1, <1>2, BetweenStep DEF RiskInv, Typed

\* Every step of the evaluation, and of those around it, one by one.
LEMMA RiskStep == RiskInv /\ [RiskNext]_allVars => RiskInv'
<1> SUFFICES ASSUME RiskInv, [RiskNext]_allVars PROVE RiskInv'
    OBVIOUS
<1>1. Toggles'
      BY SwitchUnder, SwitchStep DEF RiskInv
<1>2. ASSUME NEW signal \in Candidates, Evaluate(signal) PROVE RiskInv'
      BY <1>1, <1>2, EvaluateStep
<1>3. ASSUME NEW ordered \in BOOLEAN, Deliver(ordered) PROVE RiskInv'
      BY <1>1, <1>3, DeliverStep
<1>4. ASSUME NEW failed \in SUBSET Providers, Collect(failed) PROVE RiskInv'
      BY <1>1, <1>4, CollectStep
<1>5. ASSUME NEW i \in DOMAIN trades, NEW result \in Results, TradeCloses(i, result)
      PROVE  RiskInv'
      BY <1>1, <1>5, TradeClosesStep
<1>6. CASE Tick \/ ReadSwitch \/ Judge \/ Elsewhere
      BY <1>1, <1>6, TickStep, ReadStep, JudgeStep, ElsewhereStep
<1>7. CASE Refuse
  <2>1. /\ phase = "guards" /\ phase' = "none" /\ order' = NoOrder
        /\ UNCHANGED <<vars, clock, recent, missed, trades, balance, seenOff>>
        BY <1>7 DEF Refuse
  <2>2. trades' \in Seq(TradeRows) /\ Len(trades') <= MaxTrades
        BY <2>1 DEF RiskInv, Typed
  <2>3. QED
        BY <1>1, <2>1, <2>2, EvaluationEnds
<1>8. CASE UNCHANGED allVars
  <2>1. UNCHANGED riskVars /\ UNCHANGED vars
        BY <1>8 DEF allVars
  <2>2. UNCHANGED <<clock, recent, missed, trades, balance, phase, order>> /\ seenOff' = seenOff
        BY <2>1 DEF riskVars
  <2>3. pc'[Loop] = pc[Loop]
        BY <2>1 DEF vars
  <2>4. seenOff' \in BOOLEAN
        BY <2>2 DEF RiskInv, Typed
  <2>5. QED
        BY <1>1, <2>2, <2>3, <2>4, SwitchAside
<1>9. QED
  BY <1>2, <1>3, <1>4, <1>5, <1>6, <1>7, <1>8 DEF RiskNext

THEOREM RiskInvariant == RiskSpec => []RiskInv
BY RiskStart, RiskStep, PTL DEF RiskSpec

-----------------------------------------------------------------------------
\* No interleaving of operators, heartbeats and re-arms lets an evaluation
\* approve a signal while the switch was on throughout it.
THEOREM SwitchIsRespected == RiskSpec => []SwitchRespected
<1>1. RiskInv => SwitchRespected
  <2> SUFFICES ASSUME RiskInv PROVE SwitchRespected
      OBVIOUS
  <2>1. SwitchInv
        BY DEF RiskInv, Toggles, Toggling, SwitchInv, NeverRaises
  <2>2. order.volume \in Nat
        BY DEF RiskInv, Typed, Orders
  <2>3. RiskTypeOK
        BY <2>2 DEF RiskInv, Typed, LoopReads, RiskTypeOK
  <2>4. QED
        BY <2>1, <2>3 DEF RiskInv, Witnessed, SwitchRespected
<1>2. QED
  BY <1>1, RiskInvariant, PTL

\* Whatever a provider fails to deliver and however sessions overlap, nothing is
\* approved in a pause that counts or near a known event.
THEOREM QuietHolds == RiskSpec => []Quiet
<1>1. RiskInv => Quiet
  <2> SUFFICES ASSUME RiskInv, Approved PROVE Quiet
      BY DEF Quiet
  <2>1. SessionAllows(clock) /\ ~InBlackout
        BY DEF RiskInv, Judged
  <2>2. PICK k \in DOMAIN Sessions : /\ On(k, clock) /\ ~Paused(k, clock)
                                     /\ \A j \in 1..(k - 1) : ~On(j, clock)
        BY <2>1 DEF SessionAllows
  <2>3. DOMAIN Sessions \subseteq Nat \ {0}
    <3>1. DOMAIN Sessions = 1..Len(Sessions) /\ Len(Sessions) \in Nat
      <4>1. \A S : Sessions \in Seq(S) => DOMAIN Sessions = 1..Len(Sessions) /\ Len(Sessions) \in Nat
            OBVIOUS
      <4>2. QED
            BY <4>1, RiskGuardsAssumption, Zenon
    <3>2. QED
          BY <3>1
  <2>4. ASSUME NEW i \in DOMAIN Sessions, On(i, clock), Paused(i, clock)
        PROVE  \E j \in 1..(i - 1) : On(j, clock)
    <3>1. k # i /\ ~(i \in 1..(k - 1))
          BY <2>2, <2>4
    <3>2. k \in 1..(i - 1)
          BY <2>3, <3>1
    <3>3. QED
          BY <2>2, <3>2
  <2>5. \A e \in Events : Near(clock, e) => e.provider \in missed
        BY <2>1 DEF RiskInv, NewsKnown, InBlackout
  <2>6. QED
        BY <2>4, <2>5 DEF Quiet
<1>2. QED
  BY <1>1, RiskInvariant, PTL

\* Every order approved is sized to the risk, for all lot bounds and limits,
\* wherever the floats fall.
THEOREM SizeHolds == RiskSpec => []SizedToRisk
<1>1. RiskInv => SizedToRisk
      BY DEF RiskInv, Judged, Sized, SizedToRisk
<1>2. QED
  BY <1>1, RiskInvariant, PTL

\* An arming ends early only by a re-arm that read the switch before it, whoever
\* is at the switch, evaluations included.
THEOREM LateDisarms == RiskSpec => OnlyLateDisarms
<1>1. RiskInit => LateKnown
      BY DEF RiskInit, Init, LateKnown
<1>2. RiskInv /\ LateKnown /\ [RiskNext]_allVars => LateKnown'
      BY SwitchUnder, LateStep DEF RiskInv
<1>3. RiskInv /\ LateKnown /\ [RiskNext]_allVars =>
        [row = "on" /\ row' = "off" =>
           \E a \in Actors : \/ job[a] = "off" /\ job'[a] = "none"
                            \/ a \in late \ late']_vars
      BY SwitchUnder, DisarmStep DEF RiskInv
<1>4. QED
  BY <1>1, <1>2, <1>3, RiskInvariant, PTL DEF RiskSpec, OnlyLateDisarms

=============================================================================
