------------------------ MODULE SignalPipeline_proofs ------------------------
(***************************************************************************)
(* OrderInv of module SignalPipeline, for every number of strategies,      *)
(* signals, candles and restarts.  A match is emitted once in a life       *)
(* because _last_emitted never falls behind a signal of that life; the     *)
(* limits hold because whoever has the loop read them when it took it.     *)
(***************************************************************************)
EXTENDS SignalPipeline, Integers, FiniteSetTheorems, TLAPS

Kinds == {"absent", "partial", "final"}

Typed ==
  /\ now \in 1..MaxCandle /\ stored \in [Candles -> Kinds]
  /\ emitted \in [Keys -> 0..MaxCandle]
  /\ signals \in Seq(Signals) /\ Len(signals) <= MaxSignals
  /\ holder \in 0..Len(signals)
  /\ killed \in BOOLEAN /\ today \in SUBSET (1..Len(signals))
  /\ life \in 0..MaxRestarts /\ sinceArmed \in Nat

\* What was emitted in this life is remembered, and nothing is from the future.
Remembered ==
  /\ \A k \in Keys : emitted[k] <= now
  /\ \A i \in 1..Len(signals) :
       /\ signals[i].life <= life
       /\ signals[i].life = life /\ signals[i].key # Webhook
            => signals[i].candle <= emitted[signals[i].key]

\* No two signals of a life are of the same match, ordered or not.
Distinct ==
  \A i, j \in 1..Len(signals) : i # j /\ Same(i, j) => signals[i].life # signals[j].life

\* There is room for the order of whoever has the loop, and no order since the
\* kill switch was armed, unless it is out.
Room ==
  /\ MaxDaily # 0 => Cardinality(today) <= MaxDaily
  /\ MaxDaily # 0 /\ holder # Nobody => Cardinality(today) < MaxDaily

Quiet ==
  /\ sinceArmed <= 1
  /\ ~killed \/ holder # Nobody => sinceArmed = 0

PipelineInv == Typed /\ Remembered /\ Distinct /\ Room /\ Quiet

-----------------------------------------------------------------------------
\* The enumeration of a finite set hits each of its elements once.
LEMMA Enumerates ==
  ASSUME NEW S, IsFiniteSet(S)
  PROVE  /\ Cardinality(S) \in Nat
         /\ SetToSeq(S) \in [1..Cardinality(S) -> S]
         /\ \A i, j \in 1..Cardinality(S) : SetToSeq(S)[i] = SetToSeq(S)[j] => i = j
<1>1. Cardinality(S) \in Nat /\ ExistsBijection(1..Cardinality(S), S)
      BY FS_CardinalityType
<1>2. \E f \in [1..Cardinality(S) -> S] : IsInjective(f)
      BY <1>1 DEF ExistsBijection, Bijection, Injection
<1>3. SetToSeq(S) \in [1..Cardinality(S) -> S] /\ IsInjective(SetToSeq(S))
      BY <1>2 DEF SetToSeq
<1>4. QED
  BY <1>1, <1>3 DEF IsInjective

LEMMA SignalTyped ==
  ASSUME NEW k \in Keys \cup {Webhook}, NEW judged \in Kinds, now \in 1..MaxCandle,
         life \in 0..MaxRestarts
  PROVE  /\ Signal(k, judged) \in Signals
         /\ Signal(k, judged).key = k /\ Signal(k, judged).candle = now
         /\ Signal(k, judged).life = life
BY DEF Signal, Signals, States, Waiting, Kinds

LEMMA TodayFinite == Typed => IsFiniteSet(today) /\ Cardinality(today) \in Nat
<1> SUFFICES ASSUME Typed PROVE IsFiniteSet(today) /\ Cardinality(today) \in Nat
    OBVIOUS
<1>1. Len(signals) \in Int /\ 1 \in Int
      BY DEF Typed
<1>2. IsFiniteSet(1..Len(signals))
      BY <1>1, FS_Interval
<1>3. IsFiniteSet(today)
      BY <1>2, FS_Subset DEF Typed
<1>4. QED
  BY <1>3, FS_CardinalityType

-----------------------------------------------------------------------------
(* Signals that only change their state.                                     *)

\* The same signals, some of them in other states.
Restated ==
  /\ signals' \in Seq(Signals) /\ Len(signals') = Len(signals)
  /\ \A i \in 1..Len(signals) :
       /\ signals'[i].key = signals[i].key /\ signals'[i].candle = signals[i].candle
       /\ signals'[i].life = signals[i].life

LEMMA GoesRestates ==
  ASSUME Typed, NEW i, NEW from, NEW to \in States, At(i, from), Goes(i, to)
  PROVE  Restated /\ i \in 1..Len(signals)
<1>1. signals \in Seq(Signals) /\ i \in 1..Len(signals)
      BY DEF Typed, At
<1>2. signals[i] \in Signals
      BY <1>1
<1> DEFINE s == [signals[i] EXCEPT !.state = to]
<1>3. s \in Signals /\ s.key = signals[i].key /\ s.candle = signals[i].candle
      /\ s.life = signals[i].life
      BY <1>2 DEF Signals
<1>4. signals' = [signals EXCEPT ![i] = s]
      BY <1>1 DEF Goes
<1> HIDE DEF s
<1>5. QED
  BY <1>1, <1>3, <1>4 DEF Restated

\* They are as distinct and as well remembered as before.
LEMMA RestatedKeeps ==
  ASSUME Typed, Remembered, Distinct, Restated, UNCHANGED <<now, emitted, life>>
  PROVE  Remembered' /\ Distinct'
<1>1. \A i, j \in 1..Len(signals) : Same(i, j)' <=> Same(i, j)
      BY DEF Restated, Same
<1>2. Distinct'
      BY <1>1 DEF Restated, Distinct
<1>3. Remembered'
      BY DEF Restated, Remembered
<1>4. QED
  BY <1>2, <1>3

\* A step that moves one signal on and orders nothing.
LEMMA MoveKeeps ==
  ASSUME PipelineInv, NEW i, NEW from, NEW to \in States, At(i, from), Goes(i, to),
         UNCHANGED <<now, stored, emitted, killed, today, life>>,
         holder' \in {holder, Nobody}, sinceArmed' \in Nat, Quiet'
  PROVE  PipelineInv'
<1> USE DEF PipelineInv
<1>1. Restated
      BY GoesRestates
<1>2. Remembered' /\ Distinct'
      BY <1>1, RestatedKeeps
<1>3. Typed'
  <2>1. holder' \in 0..Len(signals)
        BY DEF Typed, Nobody
  <2>2. QED
        BY <1>1, <2>1 DEF Typed, Restated
<1>4. Room'
      BY DEF Room
<1>5. QED
  BY <1>2, <1>3, <1>4

LEMMA StepKeeps ==
  ASSUME PipelineInv, NEW i, NEW from, NEW to \in States, Step(i, from, to)
  PROVE  PipelineInv'
<1>1. Quiet' /\ sinceArmed' \in Nat
      BY DEF Step, Quiet, PipelineInv, Typed
<1>2. QED
  BY <1>1, MoveKeeps DEF Step

-----------------------------------------------------------------------------
(* New signals.                                                              *)

\* What a concatenation holds.
LEMMA Concatenated ==
  ASSUME NEW S, NEW s \in Seq(S), NEW n \in Nat, NEW t \in [1..n -> S]
  PROVE  /\ s \o t \in Seq(S) /\ Len(s \o t) = Len(s) + n /\ Len(s) \in Nat
         /\ \A i \in 1..Len(s) : (s \o t)[i] = s[i]
         /\ \A i \in (Len(s) + 1)..(Len(s) + n) : (s \o t)[i] = t[i - Len(s)] /\ i - Len(s) \in 1..n
<1>1. t \in Seq(S) /\ Len(t) = n
      OBVIOUS
<1>2. Len(s) \in Nat
      OBVIOUS
<1>3. s \o t \in Seq(S) /\ Len(s \o t) = Len(s) + n
      BY <1>1
<1>4. \A i \in 1..Len(s) : (s \o t)[i] = s[i]
      BY <1>1
<1>5. \A i \in (Len(s) + 1)..(Len(s) + n) : (s \o t)[i] = t[i - Len(s)] /\ i - Len(s) \in 1..n
      BY <1>1, <1>2
<1>6. QED
  BY <1>2, <1>3, <1>4, <1>5

\* Signals of this moment, of matches not emitted in this life, are added.
Added(n, new) ==
  /\ n \in Nat /\ new \in [1..n -> Signals]
  /\ signals' = signals \o new /\ Len(signals) + n <= MaxSignals
  /\ \A k \in Keys : emitted'[k] <= now /\ emitted[k] <= emitted'[k]
  /\ \A i \in 1..n : /\ new[i].life = life /\ new[i].candle = now
                     /\ new[i].key # Webhook => /\ new[i].key \in Keys
                                                /\ emitted[new[i].key] < now
                                                /\ emitted'[new[i].key] = now
  /\ \A i, j \in 1..n : new[i].key = new[j].key /\ new[i].key # Webhook => i = j

LEMMA AddedKeeps ==
  ASSUME PipelineInv, NEW n, NEW new, Added(n, new), holder = Nobody,
         stored' \in [Candles -> Kinds], emitted' \in [Keys -> 0..MaxCandle],
         UNCHANGED <<now, holder, killed, today, life, sinceArmed>>
  PROVE  PipelineInv'
<1> DEFINE m == Len(signals)
<1>a. Typed /\ Remembered /\ Distinct /\ Room /\ Quiet
      BY DEF PipelineInv
<1>b. n \in Nat /\ new \in [1..n -> Signals] /\ signals' = signals \o new
      BY DEF Added
<1>c. \A i \in 1..n : /\ new[i].life = life /\ new[i].candle = now
                      /\ new[i].key # Webhook => /\ new[i].key \in Keys
                                                 /\ emitted[new[i].key] < now
                                                 /\ emitted'[new[i].key] = now
      BY DEF Added
<1>d. \A k \in Keys : emitted'[k] <= now /\ emitted[k] <= emitted'[k]
      BY DEF Added
<1>e. \A i, j \in 1..n : new[i].key = new[j].key /\ new[i].key # Webhook => i = j
      BY DEF Added
<1>1. signals \in Seq(Signals) /\ m \in Nat
      BY <1>a DEF Typed
<1>2. signals' \in Seq(Signals) /\ Len(signals') = m + n
      BY <1>1, <1>b, Concatenated
<1>3. \A i \in 1..m : signals'[i] = signals[i]
      BY <1>1, <1>b, Concatenated
<1>4. \A i \in (m + 1)..(m + n) : signals'[i] = new[i - m] /\ i - m \in 1..n
      BY <1>1, <1>b, Concatenated
<1>5. \A i \in 1..Len(signals') : i \in 1..m \/ i \in (m + 1)..(m + n)
      BY <1>1, <1>2, <1>b
<1> HIDE DEF m
<1>6. Typed'
  <2>1. 1..Len(signals) \subseteq 1..Len(signals')
        BY <1>1, <1>2, <1>b DEF m
  <2>2. Len(signals') <= MaxSignals
        BY <1>1, <1>2 DEF m, Added
  <2>3. holder' \in 0..Len(signals') /\ today' \in SUBSET (1..Len(signals'))
        BY <1>1, <1>2, <1>a, <1>b, <2>1 DEF Typed, Nobody
  <2>4. QED
        BY <1>2, <1>a, <2>2, <2>3 DEF Typed
<1>7. \A i \in 1..m : signals[i].key # Webhook => signals[i].key \in Keys
  <2>1. \A i \in 1..m : signals[i] \in Signals
        BY <1>1 DEF m
  <2>2. QED
        BY <2>1 DEF Signals
<1>8. \A i \in 1..m : signals[i].life = life /\ signals[i].key # Webhook
                        => signals[i].candle <= emitted[signals[i].key]
      BY <1>a DEF Remembered, m
<1>9. \A k \in Keys : emitted[k] \in Nat /\ emitted'[k] \in Nat
      BY <1>a DEF Typed
<1>10. now \in Nat /\ life \in Nat
      BY <1>a DEF Typed
<1>11. \A i \in 1..m : signals[i].candle \in Nat /\ signals[i].life \in Nat
  <2>1. \A i \in 1..m : signals[i] \in Signals
        BY <1>1 DEF m
  <2>2. QED
        BY <2>1 DEF Signals
<1>12. Remembered'
  <2>1. ASSUME NEW i \in 1..Len(signals')
        PROVE  /\ signals'[i].life <= life
               /\ signals'[i].life = life /\ signals'[i].key # Webhook
                    => signals'[i].candle <= emitted'[signals'[i].key]
    <3>1. CASE i \in 1..m
      <4>1. signals'[i] = signals[i] /\ signals[i].life <= life
            BY <1>3, <1>a, <3>1 DEF Remembered, m
      <4>2. signals[i].key # Webhook => emitted[signals[i].key] <= emitted'[signals[i].key]
            BY <1>7, <1>d, <3>1
      <4>3. QED
            BY <1>7, <1>8, <1>9, <1>11, <3>1, <4>1, <4>2
    <3>2. CASE i \in (m + 1)..(m + n)
      <4>1. i - m \in 1..n /\ signals'[i] = new[i - m]
            BY <1>4, <3>2
      <4>2. new[i - m].life = life /\ new[i - m].candle = now
            BY <1>c, <4>1, Zenon
      <4>3. new[i - m].key # Webhook => emitted'[new[i - m].key] = now
            BY <1>c, <4>1, Zenon
      <4>4. QED
            BY <1>10, <4>1, <4>2, <4>3
    <3>3. QED
          BY <1>5, <3>1, <3>2
  <2>2. QED
        BY <1>d, <2>1 DEF Remembered
<1>13. Distinct'
  <2>1. ASSUME NEW i \in 1..m, NEW j \in 1..n,
               signals[i].key = new[j].key, signals[i].key # Webhook,
               signals[i].candle = new[j].candle
        PROVE  signals[i].life # new[j].life
    <3>1. new[j].life = life /\ new[j].candle = now
          BY <1>c, Zenon
    <3>4. new[j].key # Webhook
          BY <2>1
    <3>5. emitted[new[j].key] < now /\ new[j].key \in Keys
          BY <1>c, <3>4, Zenon
    <3>2. signals[i].life = life => signals[i].candle <= emitted[new[j].key]
          BY <1>8, <2>1
    <3>3. QED
          BY <1>9, <1>10, <2>1, <3>1, <3>2, <3>5
  <2>2. ASSUME NEW i \in 1..Len(signals'), NEW j \in 1..Len(signals'), i # j, Same(i, j)'
        PROVE  signals'[i].life # signals'[j].life
    <3>0. /\ signals'[i].key = signals'[j].key /\ signals'[i].key # Webhook
          /\ signals'[i].candle = signals'[j].candle
          BY <2>2 DEF Same
    <3>1. CASE i \in 1..m /\ j \in 1..m
      <4>1. signals'[i] = signals[i] /\ signals'[j] = signals[j]
            BY <1>3, <3>1
      <4>2. Same(i, j)
            BY <3>0, <4>1 DEF Same
      <4>3. QED
            BY <1>a, <2>2, <3>1, <4>1, <4>2 DEF Distinct, m
    <3>2. CASE i \in 1..m /\ j \in (m + 1)..(m + n)
      <4>1. j - m \in 1..n /\ signals'[j] = new[j - m] /\ signals'[i] = signals[i]
            BY <1>3, <1>4, <3>2
      <4>2. signals[i].life # new[j - m].life
            BY <2>1, <3>0, <3>2, <4>1
      <4>3. QED
            BY <4>1, <4>2
    <3>3. CASE i \in (m + 1)..(m + n) /\ j \in 1..m
      <4>1. i - m \in 1..n /\ signals'[i] = new[i - m] /\ signals'[j] = signals[j]
            BY <1>3, <1>4, <3>3
      <4>2. /\ signals[j].key = new[i - m].key /\ signals[j].key # Webhook
            /\ signals[j].candle = new[i - m].candle
            BY <3>0, <4>1
      <4>3. signals[j].life # new[i - m].life
            BY <2>1, <3>3, <4>1, <4>2
      <4>4. QED
            BY <4>1, <4>3
    <3>4. CASE i \in (m + 1)..(m + n) /\ j \in (m + 1)..(m + n)
      <4>1. /\ i - m \in 1..n /\ signals'[i] = new[i - m]
            /\ j - m \in 1..n /\ signals'[j] = new[j - m]
            BY <1>4, <3>4
      <4>2. i - m = j - m
            BY <1>e, <3>0, <4>1
      <4>3. QED
            BY <1>1, <1>b, <2>2, <3>4, <4>2
    <3>5. QED
          BY <1>5, <3>1, <3>2, <3>3, <3>4
  <2>3. QED
        BY <2>2 DEF Distinct
<1>14. Room' /\ Quiet'
      BY <1>a DEF Room, Quiet
<1>15. QED
  BY <1>6, <1>12, <1>13, <1>14 DEF PipelineInv

\* The engine's signals of one collection.
LEMMA CollectStep ==
  ASSUME PipelineInv, NEW found \in SUBSET Keys, Collect(found)
  PROVE  PipelineInv'
<1> DEFINE fresh == {k \in found : Fresh(k)}
           n == Cardinality(fresh)
           f == SetToSeq(fresh)
           new == [i \in 1..n |-> Signal(f[i], stored'[now])]
<1>0. Typed /\ Remembered
      BY DEF PipelineInv
<1>1. /\ holder = Nobody /\ stored' = Upserted
      /\ emitted' = [k \in Keys |-> IF k \in fresh THEN now ELSE emitted[k]]
      /\ Len(signals) + n <= MaxSignals /\ signals' = signals \o new
      /\ UNCHANGED <<now, holder, killed, today, life, sinceArmed>>
      BY DEF Collect
<1>2. IsFiniteSet(fresh) /\ fresh \subseteq Keys
      BY PipelineAssumption, FS_Subset
<1>3. /\ n \in Nat /\ f \in [1..n -> fresh]
      /\ \A i, j \in 1..n : f[i] = f[j] => i = j
      BY <1>2, Enumerates
<1>4. now \in 1..MaxCandle /\ now \in Candles /\ life \in 0..MaxRestarts /\ MaxCandle \in Nat
      BY <1>0, PipelineAssumption DEF Typed, Candles
<1>5. stored' \in [Candles -> Kinds]
      BY <1>0, <1>1 DEF Upserted, Typed, Kinds
<1>6. emitted' \in [Keys -> 0..MaxCandle]
      BY <1>0, <1>1, <1>4 DEF Typed
<1>7. \A k \in fresh : emitted[k] # now /\ emitted[k] <= now /\ emitted[k] \in Nat
      BY <1>0, <1>2 DEF Fresh, Remembered, Typed
<1>8. \A k \in Keys : emitted[k] \in Nat /\ emitted[k] <= now
      BY <1>0 DEF Remembered, Typed
<1> HIDE DEF fresh, n, f
<1>9. ASSUME NEW i \in 1..n
      PROVE  /\ new[i] \in Signals /\ new[i].key = f[i] /\ new[i].candle = now
             /\ new[i].life = life /\ f[i] \in fresh
  <2>1. f[i] \in fresh /\ f[i] \in Keys
        BY <1>2, <1>3
  <2>2. stored'[now] \in Kinds
        BY <1>4, <1>5
  <2>3. new[i] = Signal(f[i], stored'[now])
        OBVIOUS
  <2>4. QED
        BY <1>4, <2>1, <2>2, <2>3, SignalTyped
<1>10. new \in [1..n -> Signals]
      BY <1>9
<1>11. \A k \in Keys : emitted'[k] <= now /\ emitted[k] <= emitted'[k]
      BY <1>1, <1>4, <1>8
<1> HIDE DEF new
<1>12. \A i \in 1..n : /\ new[i].life = life /\ new[i].candle = now
                       /\ new[i].key # Webhook => /\ new[i].key \in Keys
                                                  /\ emitted[new[i].key] < now
                                                  /\ emitted'[new[i].key] = now
      BY <1>1, <1>2, <1>4, <1>7, <1>9
<1>13. \A i, j \in 1..n : new[i].key = new[j].key /\ new[i].key # Webhook => i = j
      BY <1>3, <1>9
<1>14. Added(n, new)
      BY <1>1, <1>3, <1>10, <1>11, <1>12, <1>13 DEF Added
<1>15. QED
  BY <1>1, <1>5, <1>6, <1>14, AddedKeeps

\* An alert of the webhook.
LEMMA AlertStep ==
  ASSUME PipelineInv, Alert
  PROVE  PipelineInv'
<1> USE DEF PipelineInv
<1> DEFINE s == Signal(Webhook, "absent")
           new == [i \in 1..1 |-> s]
<1>1. /\ holder = Nobody /\ Len(signals) < MaxSignals /\ signals' = Append(signals, s)
      /\ UNCHANGED <<now, stored, emitted, holder, killed, today, life, sinceArmed>>
      BY DEF Alert
<1>2. s \in Signals /\ s.key = Webhook /\ s.candle = now /\ s.life = life
      BY SignalTyped DEF Typed, Kinds
<1> HIDE DEF s
<1>3. signals' = signals \o new /\ Len(signals) + 1 <= MaxSignals
      BY <1>1, <1>2, PipelineAssumption DEF Typed
<1>4. new \in [1..1 -> Signals] /\ \A i \in 1..1 : new[i] = s
      BY <1>2
<1> HIDE DEF new
<1>5. \A k \in Keys : emitted'[k] <= now /\ emitted[k] <= emitted'[k]
      BY <1>1 DEF Typed, Remembered
<1>6. stored' \in [Candles -> Kinds] /\ emitted' \in [Keys -> 0..MaxCandle]
      BY <1>1 DEF Typed
<1>7. /\ \A i \in 1..1 : /\ new[i].life = life /\ new[i].candle = now /\ new[i].key = Webhook
      /\ \A i, j \in 1..1 : i = j
      BY <1>2, <1>4
<1>8. Added(1, new)
      BY <1>3, <1>4, <1>5, <1>7 DEF Added
<1>9. QED
  BY <1>1, <1>6, <1>8, AddedKeeps

-----------------------------------------------------------------------------
(* The end of a signal.                                                      *)

\* risk.evaluate reads the switch and the count when it takes the loop.
LEMMA ApproveStep ==
  ASSUME PipelineInv, NEW i, Approve(i)
  PROVE  PipelineInv'
<1>0. Typed /\ Remembered /\ Distinct /\ Room /\ Quiet
      BY DEF PipelineInv
<1>1. Restated /\ i \in 1..Len(signals)
      BY <1>0, GoesRestates DEF Approve, States, Waiting
<1>2. Remembered' /\ Distinct'
      BY <1>0, <1>1, RestatedKeeps DEF Approve
<1>3. UNCHANGED <<now, stored, emitted, killed, today, life, sinceArmed>> /\ holder' = i
      /\ KillSwitchOff /\ BelowDaily
      BY DEF Approve
<1>4. Typed'
      BY <1>0, <1>1, <1>3 DEF Typed, Restated
<1>5. Room'
      BY <1>0, <1>3 DEF Room, BelowDaily
<1>6. Quiet'
      BY <1>0, <1>3 DEF Quiet, KillSwitchOff, Typed
<1>7. QED
  BY <1>2, <1>4, <1>5, <1>6 DEF PipelineInv

\* Whoever has the loop leaves it; an armed switch sees its first order.
LEMMA HolderOrders ==
  ASSUME PipelineInv, NEW i, Hold(i),
         sinceArmed' = IF killed THEN sinceArmed + 1 ELSE sinceArmed, UNCHANGED killed
  PROVE  Quiet' /\ sinceArmed' \in Nat /\ i \in 1..Len(signals) /\ holder # Nobody
<1>1. Typed /\ Quiet
      BY DEF PipelineInv
<1>2. i \in 1..Len(signals) /\ holder = i /\ holder' = Nobody
      BY <1>1 DEF Hold, At, Typed, Released
<1>3. holder # Nobody
      BY <1>1, <1>2 DEF Nobody, Typed
<1>4. sinceArmed = 0
      BY <1>1, <1>3 DEF Quiet
<1>5. QED
  BY <1>1, <1>2, <1>3, <1>4 DEF Quiet, Typed

LEMMA PlaceOrderStep ==
  ASSUME PipelineInv, NEW i, PlaceOrder(i)
  PROVE  PipelineInv'
<1>0. Typed /\ Remembered /\ Distinct /\ Room /\ Quiet
      BY DEF PipelineInv
<1>1. Hold(i) /\ Goes(i, "traded") /\ today' = today \cup {i} /\ UNCHANGED <<now, stored, emitted, killed, life>>
      /\ sinceArmed' = IF killed THEN sinceArmed + 1 ELSE sinceArmed
      BY DEF PlaceOrder
<1>2. Restated
      BY <1>0, <1>1, GoesRestates DEF Hold, States, Placed
<1>3. Remembered' /\ Distinct'
      BY <1>0, <1>1, <1>2, RestatedKeeps
<1>4. Quiet' /\ sinceArmed' \in Nat /\ i \in 1..Len(signals) /\ holder # Nobody
      BY <1>1, HolderOrders
<1>5. holder' = Nobody
      BY <1>1 DEF Hold, Released
<1>6. Typed'
  <2>1. holder' \in 0..Len(signals')
        BY <1>0, <1>2, <1>5 DEF Nobody, Typed, Restated
  <2>2. today' \in SUBSET (1..Len(signals'))
        BY <1>0, <1>1, <1>2, <1>4 DEF Typed, Restated
  <2>3. QED
        BY <1>0, <1>1, <1>2, <1>4, <2>1, <2>2 DEF Typed, Restated
<1>7. Room'
  <2>1. IsFiniteSet(today) /\ Cardinality(today) \in Nat
        BY <1>0, TodayFinite
  <2>2. Cardinality(today') = Cardinality(today) \/ Cardinality(today') = Cardinality(today) + 1
        BY <1>1, <2>1, FS_AddElement
  <2>3. QED
        BY <1>0, <1>4, <1>5, <2>1, <2>2, PipelineAssumption DEF Room
<1>8. QED
  BY <1>3, <1>4, <1>6, <1>7 DEF PipelineInv

LEMMA RecordFailsStep ==
  ASSUME PipelineInv, NEW i, RecordFails(i)
  PROVE  PipelineInv'
<1>1. Quiet' /\ sinceArmed' \in Nat /\ holder' = Nobody
      BY HolderOrders DEF RecordFails, Hold, Released
<1>2. QED
  BY <1>1, MoveKeeps DEF RecordFails, Hold, States, Placed

LEMMA OrderRefusedStep ==
  ASSUME PipelineInv, NEW i, OrderRefused(i)
  PROVE  PipelineInv'
<1>1. Typed /\ Quiet
      BY DEF PipelineInv
<1>2. holder = i /\ holder' = Nobody /\ At(i, "approved")
      BY DEF OrderRefused, Hold, Released
<1>3. holder # Nobody
      BY <1>1, <1>2 DEF Typed, At, Nobody
<1>4. Quiet' /\ sinceArmed' \in Nat
      BY <1>1, <1>2, <1>3 DEF OrderRefused, Quiet, Typed
<1>5. QED
  BY <1>2, <1>4, MoveKeeps DEF OrderRefused, States

LEMMA HandlerRaisesStep ==
  ASSUME PipelineInv, NEW i, HandlerRaises(i)
  PROVE  PipelineInv'
<1>1. At(i, signals[i].state) /\ Goes(i, "lost")
      /\ UNCHANGED <<now, stored, emitted, holder, killed, today, life, sinceArmed>>
      BY DEF HandlerRaises, At
<1>2. Quiet' /\ sinceArmed' \in Nat
      BY <1>1 DEF Quiet, PipelineInv, Typed
<1>3. QED
  BY <1>1, <1>2, MoveKeeps DEF States

LEMMA TaskStep ==
  ASSUME PipelineInv, NEW i, Task(i)
  PROVE  PipelineInv'
<1>1. CASE Receive(i)
      BY <1>1, StepKeeps DEF Receive, States, Waiting
<1>2. CASE Notified(i)
      BY <1>2, StepKeeps DEF Notified, States, Waiting
<1>3. CASE Approve(i)
      BY <1>3, ApproveStep
<1>4. CASE Refuse(i)
      BY <1>4, StepKeeps DEF Refuse, States
<1>5. CASE PlaceOrder(i)
      BY <1>5, PlaceOrderStep
<1>6. CASE OrderRefused(i)
      BY <1>6, OrderRefusedStep
<1>7. CASE HandlerRaises(i)
      BY <1>7, HandlerRaisesStep
<1>8. CASE RecordFails(i)
      BY <1>8, RecordFailsStep
<1>9. QED
  BY <1>1, <1>2, <1>3, <1>4, <1>5, <1>6, <1>7, <1>8 DEF Task

-----------------------------------------------------------------------------
(* Time, operators, restarts.                                                *)

LEMMA CandleClosesStep ==
  ASSUME PipelineInv, CandleCloses
  PROVE  PipelineInv'
<1>1. now \in Nat /\ now' = now + 1 /\ now' \in 1..MaxCandle
      BY PipelineAssumption DEF CandleCloses, PipelineInv, Typed
<1>2. UNCHANGED <<stored, emitted, signals, holder, killed, today, life, sinceArmed>>
      BY DEF CandleCloses
<1>3. Typed'
      BY <1>1, <1>2 DEF PipelineInv, Typed
<1>4. \A k \in Keys : emitted[k] \in Nat
      BY DEF PipelineInv, Typed
<1>5. Remembered'
      BY <1>1, <1>2, <1>4 DEF PipelineInv, Remembered
<1>6. Distinct' /\ Room' /\ Quiet'
      BY <1>2 DEF PipelineInv, Distinct, Same, Room, Quiet
<1>7. QED
  BY <1>3, <1>5, <1>6 DEF PipelineInv

LEMMA MidnightStep ==
  ASSUME PipelineInv, Midnight
  PROVE  PipelineInv'
<1>1. today' = {} /\ UNCHANGED <<now, stored, emitted, signals, holder, killed, life, sinceArmed>>
      BY DEF Midnight
<1>2. Cardinality(today') = 0
      BY <1>1, FS_EmptySet
<1>3. Room'
      BY <1>2, PipelineAssumption DEF Room
<1>4. Typed' /\ Remembered' /\ Distinct' /\ Quiet'
      BY <1>1 DEF PipelineInv, Typed, Remembered, Distinct, Same, Quiet
<1>5. QED
  BY <1>3, <1>4 DEF PipelineInv

LEMMA ToggleStep ==
  ASSUME PipelineInv, ToggleKillSwitch
  PROVE  PipelineInv'
<1>1. sinceArmed' = 0 /\ UNCHANGED <<now, stored, emitted, signals, holder, today, life>>
      BY DEF ToggleKillSwitch
<1>2. killed' \in BOOLEAN
      BY Zenon DEF ToggleKillSwitch
<1>3. Typed'
      BY <1>1, <1>2 DEF PipelineInv, Typed
<1>4. Remembered' /\ Distinct' /\ Room' /\ Quiet'
      BY <1>1 DEF PipelineInv, Remembered, Distinct, Same, Room, Quiet
<1>5. QED
  BY <1>3, <1>4 DEF PipelineInv

\* No signal is of the life that begins.
LEMMA RestartStep ==
  ASSUME PipelineInv, Restart
  PROVE  PipelineInv'
<1>0. Typed /\ Remembered /\ Distinct /\ Room /\ Quiet
      BY DEF PipelineInv
<1>1. /\ life < MaxRestarts /\ life' = life + 1
      /\ emitted' = [k \in Keys |-> 0] /\ holder' = Nobody
      /\ UNCHANGED <<now, stored, killed, today, sinceArmed>>
      BY DEF Restart
<1>2. life \in Nat /\ life' \in 0..MaxRestarts
      BY <1>0, <1>1, PipelineAssumption DEF Typed
<1>3. signals \in Seq(Signals) /\ DOMAIN signals = 1..Len(signals)
      BY <1>0 DEF Typed
<1>4. \A i \in 1..Len(signals) :
        /\ signals[i] \in Signals
        /\ [signals[i] EXCEPT !.state = "lost"] \in Signals
        /\ [signals[i] EXCEPT !.state = "lost"].key = signals[i].key
        /\ [signals[i] EXCEPT !.state = "lost"].candle = signals[i].candle
        /\ [signals[i] EXCEPT !.state = "lost"].life = signals[i].life
  <2>1. \A i \in 1..Len(signals) : signals[i] \in Signals
        BY <1>3
  <2>2. QED
        BY <2>1 DEF Signals, States
<1>5. \A i \in 1..Len(signals) :
        /\ signals'[i] \in Signals
        /\ signals'[i].key = signals[i].key
        /\ signals'[i].candle = signals[i].candle
        /\ signals'[i].life = signals[i].life
      BY <1>3, <1>4 DEF Restart
<1>6. signals' \in Seq(Signals) /\ Len(signals') = Len(signals)
  <2>1. signals' = [i \in 1..Len(signals) |-> signals'[i]] /\ Len(signals) \in Nat
        BY <1>3 DEF Restart
  <2>2. QED
        BY <1>5, <2>1
<1>7. Restated
      BY <1>5, <1>6 DEF Restated
<1>8. Typed'
  <2>1. holder' \in 0..Len(signals')
        BY <1>1, <1>3, <1>6 DEF Nobody
  <2>2. emitted' \in [Keys -> 0..MaxCandle]
        BY <1>1, PipelineAssumption
  <2>3. QED
        BY <1>0, <1>1, <1>2, <1>6, <2>1, <2>2 DEF Typed
<1>9. Remembered'
  <2>1. \A i \in 1..Len(signals) : signals[i].life <= life /\ signals[i].life \in Nat
    <3>1. \A i \in 1..Len(signals) : signals[i].life <= life
          BY <1>0 DEF Remembered
    <3>2. \A i \in 1..Len(signals) : signals[i] \in Signals
          BY <1>4
    <3>3. \A i \in 1..Len(signals) : signals[i].life \in Nat
          BY <3>2, PipelineAssumption DEF Signals
    <3>4. QED
          BY <3>1, <3>3
  <2>2. \A i \in 1..Len(signals') : signals'[i].life <= life' /\ signals'[i].life # life'
        BY <1>1, <1>2, <1>5, <1>6, <2>1
  <2>3. \A k \in Keys : emitted'[k] <= now'
        BY <1>0, <1>1 DEF Typed
  <2>4. QED
        BY <2>2, <2>3 DEF Remembered
<1>10. Distinct'
  <2>1. \A i, j \in 1..Len(signals) : Same(i, j)' <=> Same(i, j)
        BY <1>5 DEF Same
  <2>2. QED
        BY <1>0, <1>5, <1>6, <2>1 DEF Distinct
<1>11. Room' /\ Quiet'
      BY <1>0, <1>1 DEF Room, Quiet, Nobody
<1>12. QED
  BY <1>8, <1>9, <1>10, <1>11 DEF PipelineInv

-----------------------------------------------------------------------------
LEMMA Starts == Init => PipelineInv
<1> SUFFICES ASSUME Init PROVE PipelineInv
    OBVIOUS
<1>1. signals = <<>> /\ signals \in Seq(Signals) /\ Len(signals) = 0
      BY DEF Init
<1>2. Cardinality(today) = 0 /\ today = {}
      BY FS_EmptySet DEF Init
<1>3. stored \in [Candles -> Kinds] /\ emitted \in [Keys -> 0..MaxCandle]
      BY PipelineAssumption DEF Init, Kinds
<1>4. killed \in BOOLEAN
      BY Zenon DEF Init
<1>5. Typed
      BY <1>1, <1>2, <1>3, <1>4, PipelineAssumption DEF Init, Typed, Nobody
<1>6. Remembered /\ Distinct /\ Room /\ Quiet
      BY <1>1, <1>2, PipelineAssumption DEF Init, Remembered, Distinct, Room, Quiet, Nobody
<1>7. QED
  BY <1>5, <1>6 DEF PipelineInv

LEMMA NextKeeps ==
  ASSUME PipelineInv, [Next]_vars
  PROVE  PipelineInv'
<1>1. CASE CandleCloses
      BY <1>1, CandleClosesStep
<1>2. CASE Midnight
      BY <1>2, MidnightStep
<1>3. CASE Alert
      BY <1>3, AlertStep
<1>4. CASE ToggleKillSwitch
      BY <1>4, ToggleStep
<1>5. CASE Restart
      BY <1>5, RestartStep
<1>6. CASE \E found \in SUBSET Keys : Collect(found)
      BY <1>6, CollectStep
<1>7. CASE \E i \in DOMAIN signals : Task(i)
      BY <1>7, TaskStep
<1>8. CASE UNCHANGED vars
      BY <1>8 DEF vars, PipelineInv, Typed, Remembered, Distinct, Same, Room, Quiet
<1>9. QED
  BY <1>1, <1>2, <1>3, <1>4, <1>5, <1>6, <1>7, <1>8 DEF Next

\* One match is ordered once in a life of the process, the day's limit holds
\* for signals assessed at the same time, and an armed kill switch lets one
\* order out at most (_emit, risk.evaluate and execution's _on_signal_approved).
THEOREM OrdersHold == Spec => []OrderInv
<1>1. Init => PipelineInv
      BY Starts
<1>2. PipelineInv /\ [Next]_vars => PipelineInv'
      BY NextKeeps
<1>3. PipelineInv => OrderInv
  <2> SUFFICES ASSUME PipelineInv PROVE OrderInv
      OBVIOUS
  <2>1. DOMAIN signals = 1..Len(signals) /\ \A i \in 1..Len(signals) : signals[i] \in Signals
        BY DEF PipelineInv, Typed
  <2>2. TypeOK
        BY <2>1 DEF PipelineInv, Typed, TypeOK, Kinds
  <2>3. OrderedOncePerLife
        BY <2>1 DEF PipelineInv, Distinct, OrderedOncePerLife
  <2>4. DailyLimit /\ KillStopsOrders
        BY DEF PipelineInv, Room, Quiet, DailyLimit, KillStopsOrders
  <2>5. QED
        BY <2>2, <2>3, <2>4 DEF OrderInv
<1>4. QED
  BY <1>1, <1>2, <1>3, PTL DEF Spec

=============================================================================
