----------------------------- MODULE Indicators -----------------------------
(***************************************************************************)
(* mercury.services.strategy.indicators: true range, swings, breaks of     *)
(* structure, order blocks and trendlines, as functions of a sequence of   *)
(* closed candles.  Indices count from 1.                                  *)
(*                                                                         *)
(* Prices are multiples of a unit that the divisions of Atr leave whole,   *)
(* so averages are exact; factors of the ATR are in percent; a comparison  *)
(* with the value of a line is multiplied by the length of the line.       *)
(***************************************************************************)
EXTENDS Integers, Sequences, FiniteSets, FiniteSetsExt, Functions

CONSTANTS
  AtrPeriod,      \* 14
  SwingFloor,     \* swing_floor_atr, in percent
  Tolerance,      \* tolerance_atr, in percent
  MinTouches,     \* min_touches
  BodyPeriod,     \* displacement.period
  BodyMult,       \* displacement.body_mult, in percent
  BlockLookback,  \* displacement.ob_lookback
  MaxSwings,      \* trendline.max_swings
  RecentBars,     \* trendline.recent_bars
  MinBreakBars    \* 10: fewer candles hold no opposite break

ASSUME IndicatorsAssumption ==
  /\ {AtrPeriod, BodyPeriod} \subseteq Nat \ {0}
  /\ {SwingFloor, Tolerance, MinTouches, BodyMult, BlockLookback,
      MaxSwings, RecentBars, MinBreakBars} \subseteq Nat

Abs(x) == IF x < 0 THEN -x ELSE x
Nothing == 0       \* None, where an index is expected
NoAtr == -1        \* NaN: the warm-up of the ATR
MinLineBars == 8   \* fewer candles have no lines

(***************************************************************************)
(* atr: Wilder's average of the true range.  With fewer candles than the   *)
(* period the assignment of the first average is out of range.             *)
(***************************************************************************)
TrueRange(c, i) ==
  IF i = 1 THEN c[1].high - c[1].low
  ELSE Max({c[i].high - c[i].low,
            Abs(c[i].high - c[i - 1].close), Abs(c[i].low - c[i - 1].close)})

AtrRaises(c) == Len(c) \in 2..(AtrPeriod - 1)

Atr(c) ==
  LET average[i \in DOMAIN c] ==
        CASE i < AtrPeriod -> NoAtr
          [] i = AtrPeriod -> SumFunction([j \in 1..i |-> TrueRange(c, j)]) \div AtrPeriod
          [] OTHER -> (average[i - 1] * (AtrPeriod - 1) + TrueRange(c, i)) \div AtrPeriod
  IN average

(***************************************************************************)
(* fractal_swings and split_swings: five candles, the middle one strictly  *)
(* beyond the others and, its height over them, beyond the floor.          *)
(***************************************************************************)
Window(i) == (i - 2)..(i + 2)
Neighbours(i) == Window(i) \ {i}

\* the candles with two candles on either side
Middles(c) == 3..(Len(c) - 2)

TallEnough(height, average) == average # NoAtr /\ 100 * height >= SwingFloor * average

SwingHighs(c) ==
  LET average == Atr(c)
  IN {i \in Middles(c) :
        /\ \A j \in Neighbours(i) : c[i].high > c[j].high
        /\ TallEnough(c[i].high - Max({c[j].low : j \in Window(i)}), average[i])}

\* mutated: the height is measured from the close
SwingLowsFromClose(c) ==
  LET average == Atr(c)
  IN {i \in Middles(c) :
        /\ \A j \in Neighbours(i) : c[i].low < c[j].low
        /\ TallEnough(c[i].close - c[i].low, average[i])}

SwingLows(c) ==
  LET average == Atr(c)
  IN {i \in Middles(c) :
        /\ \A j \in Neighbours(i) : c[i].low < c[j].low
        /\ TallEnough(Min({c[j].high : j \in Window(i)}) - c[i].low, average[i])}

(***************************************************************************)
(* detect_bos: a close beyond the highest swing high, or below the lowest  *)
(* swing low, confirmed so far; then the close is the new reference.       *)
(***************************************************************************)
\* mutated: a swing counts from its own candle on
NoLag == 0

\* a swing is confirmed two candles later
Lag == 2

NoReference == [known |-> FALSE, level |-> 0]
Reference(level) == [known |-> TRUE, level |-> level]
Raised(ref, level) == IF ref.known /\ ref.level >= level THEN ref ELSE Reference(level)
Lowered(ref, level) == IF ref.known /\ ref.level <= level THEN ref ELSE Reference(level)

Over(top, close) == top.known /\ close > top.level
Under(floor, close) == floor.known /\ close < floor.level
Break(dir, i, ref) == [direction |-> dir, idx |-> i, level |-> ref.level]

\* Candle i closes, with the swings confirmed by then in its references.
Closed(i, close, top, floor, events) ==
  [top |-> IF Over(top, close) THEN Reference(close) ELSE top,
   floor |-> IF Under(floor, close) THEN Reference(close) ELSE floor,
   events |-> events \cup (IF Over(top, close) THEN {Break("bull", i, top)} ELSE {})
                     \cup (IF Under(floor, close) THEN {Break("bear", i, floor)} ELSE {})]

\* The references after candle i, and the breaks so far.
Breaks(c) ==
  LET highs == SwingHighs(c)
      lows == SwingLows(c)
      top(k, ref) == IF k \in highs THEN Raised(ref, c[k].high) ELSE ref
      floor(k, ref) == IF k \in lows THEN Lowered(ref, c[k].low) ELSE ref
      step(i, before) == Closed(i, c[i].close, top(i - Lag, before.top),
                                floor(i - Lag, before.floor), before.events)
      walk[i \in 0..Len(c)] ==
        IF i = 0 THEN [top |-> NoReference, floor |-> NoReference, events |-> {}]
                 ELSE step(i, walk[i - 1])
  IN walk[Len(c)].events

\* the direction of the last break, as bias of a timeframe
Bias(c) ==
  LET events == Breaks(c)
  IN IF events = {} THEN "none"
     ELSE LET last == CHOOSE e \in events : \A f \in events : f.idx <= e.idx
          IN IF last.direction = "bull" THEN "long" ELSE "short"

(***************************************************************************)
(* detect_opposite_bos: the first close beyond every swing confirmed by    *)
(* then.                                                                   *)
(***************************************************************************)
\* mutated: the last swing is the reference
FirstBreakOfLast(c, direction) ==
  LET beyond(i) ==
        IF direction = "long"
        THEN LET known == {s \in SwingLows(c) : s <= i - Lag}
             IN known # {} /\ c[i].close < c[Max(known)].low
        ELSE LET known == {s \in SwingHighs(c) : s <= i - Lag}
             IN known # {} /\ c[i].close > c[Max(known)].high
      found == {i \in DOMAIN c : beyond(i)}
  IN IF found = {} THEN Nothing ELSE Min(found)

FirstBreak(c, direction) ==
  LET lows == SwingLows(c)
      highs == SwingHighs(c)
      beyond(i) ==
        IF direction = "long"
        THEN LET known == {s \in lows : s <= i - Lag}
             IN known # {} /\ \A s \in known : c[i].close < c[s].low
        ELSE LET known == {s \in highs : s <= i - Lag}
             IN known # {} /\ \A s \in known : c[i].close > c[s].high
      found == {i \in DOMAIN c : beyond(i)}
  IN IF found = {} THEN Nothing ELSE Min(found)

OppositeBreak(c, direction) ==
  IF Len(c) < MinBreakBars THEN Nothing ELSE FirstBreak(c, direction)

(***************************************************************************)
(* detect_order_blocks: the last candle of the other colour before a large *)
(* body that leaves a gap of three candles.                                *)
(***************************************************************************)
Body(b) == Abs(b.close - b.open)
Bullish(b) == b.close > b.open
Bearish(b) == b.close < b.open

Displaces(c, d) ==
  LET sum == SumFunction([j \in (d - BodyPeriod)..(d - 1) |-> Body(c[j])])
  IN sum > 0 /\ 100 * BodyPeriod * Body(c[d]) >= BodyMult * sum /\ d >= 3

LeavesGap(c, d) ==
  IF Bullish(c[d]) THEN c[d].low > c[d - 2].high ELSE c[d].high < c[d - 2].low

Opposite(c, d) ==
  {j \in Max({d - BlockLookback, 1})..(d - 1) :
     IF Bullish(c[d]) THEN Bearish(c[j]) ELSE Bullish(c[j])}

OrderBlocks(c) ==
  {[direction |-> IF Bullish(c[d]) THEN "bull" ELSE "bear",
    idx |-> Max(Opposite(c, d)), disp |-> d] :
   d \in {e \in (BodyPeriod + 1)..Len(c) :
            Displaces(c, e) /\ LeavesGap(c, e) /\ Opposite(c, e) # {}}}

\* ob_mitigated: a body closed beyond the far edge of the block
Mitigated(c, block) ==
  \E j \in (block.idx + 1)..Len(c) :
    IF block.direction = "bull"
    THEN c[j].close < Min({c[block.idx].open, c[block.idx].close})
    ELSE c[j].close > Max({c[block.idx].open, c[block.idx].close})

(***************************************************************************)
(* Trendlines through swing lows (support) or swing highs (resistance).    *)
(***************************************************************************)
Kinds == {"support", "resistance"}
Wick(c, kind, k) == IF kind = "support" THEN c[k].low ELSE c[k].high
Swings(c, kind) == IF kind = "support" THEN SwingLows(c) ELSE SwingHighs(c)

Line(c, kind, a, b) ==
  [type |-> kind, a |-> a, b |-> b, start |-> Wick(c, kind, a), end |-> Wick(c, kind, b)]

\* support lines ascend, resistance lines descend
WithTrend(line) ==
  IF line.type = "support" THEN line.start < line.end ELSE line.start > line.end

\* value_at: a numerator over the length of the line
Length(line) == line.b - line.a
Value(line, k) == line.start * Length(line) + (line.end - line.start) * (k - line.a)

\* the mean of the ATR, over which the tolerance is taken
MeanAtr(c) ==
  LET average == Atr(c)
      finite == {i \in DOMAIN c : average[i] # NoAtr}
  IN [sum |-> SumFunction([i \in finite |-> average[i]]), count |-> Cardinality(finite)]

Off(c, line, k) == Wick(c, line.type, k) * Length(line) - Value(line, k)
Near(c, line, band, k) ==
  100 * band.count * Abs(Off(c, line, k)) <= Tolerance * band.sum * Length(line)

Touches(c, line, band) == {k \in line.a..line.b : Near(c, line, band, k)}

\* mutated: the line must hold until the newest candle
ViolatedSince(c, line, band) ==
  \E k \in line.a..Len(c) :
    /\ ~Near(c, line, band, k)
    /\ IF line.type = "support" THEN Off(c, line, k) < 0 ELSE Off(c, line, k) > 0

Violated(c, line, band) ==
  \E k \in line.a..line.b :
    /\ ~Near(c, line, band, k)
    /\ IF line.type = "support" THEN Off(c, line, k) < 0 ELSE Off(c, line, k) > 0

Consecutive(swings, a, b) == a < b /\ \A s \in swings : ~(a < s /\ s < b)

\* chain_trendlines
ChainedLines(c) ==
  LET band == MeanAtr(c)
      valid(line) == /\ WithTrend(line) /\ ~Violated(c, line, band)
                     /\ Cardinality(Touches(c, line, band)) >= MinTouches
      of(kind) == LET swings == Swings(c, kind)
                  IN {Line(c, kind, p[1], p[2]) :
                        p \in {q \in swings \X swings : Consecutive(swings, q[1], q[2])}}
  IN IF Len(c) < MinLineBars THEN {} ELSE {line \in UNION {of(kind) : kind \in Kinds} : valid(line)}

\* detect_trendlines, of one kind: most touches first, then the latest end, then
\* the longest line
BestLines(c, kind) ==
  LET band == MeanAtr(c)
      swings == Swings(c, kind)
      recent == {s \in swings : Cardinality({t \in swings : t > s}) < MaxSwings}
      touched(line) == Touches(c, line, band)
      rank(line) == 1000 * Cardinality(touched(line)) + line.b
      lines == {line \in {Line(c, kind, p[1], p[2]) : p \in {q \in recent \X recent : q[1] < q[2]}} :
                  /\ WithTrend(line)
                  /\ Cardinality(touched(line)) >= MinTouches
                  /\ line.b > Len(c) - RecentBars}
  IN IF Len(c) < MinLineBars THEN {}
     ELSE {l \in lines : \A m \in lines : \/ rank(l) > rank(m)
                                          \/ rank(l) = rank(m) /\ l.a <= m.a}

=============================================================================
