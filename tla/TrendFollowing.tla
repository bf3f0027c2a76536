--------------------------- MODULE TrendFollowing ---------------------------
(***************************************************************************)
(* The rule-based strategy of mercury.services.strategy.strategies: an EMA *)
(* cross with a trend filter, RSI limits and stops in multiples of the     *)
(* ATR, as a function of the closed candles.  An EMA is kept as its period *)
(* times the average, the RSI as its two sums; both are exact in units     *)
(* that the divisions leave whole, and rounded the way floats are where it *)
(* matters: alike on both sides of 0, and never down to 0.                 *)
(***************************************************************************)
EXTENDS Indicators

CONSTANTS
  FastEma, SlowEma, TrendEma,  \* periods of the averages
  RsiPeriod,                   \* rsi_period
  RsiBuyMax, RsiSellMin,       \* a long needs less, a short more
  MeanPeriod,                  \* 100: candles in the mean of the ATR
  MaxAtr,                      \* max_atr_multiplier, in percent
  SlAtr, TpAtr,                \* ATR multipliers of the levels, in percent
  SlFixed, TpFixed,            \* levels while the ATR is 0
  MoreHistory,                 \* 20: candles beyond the trend's period
  Sides                        \* order.direction, as a set

ASSUME TrendFollowingAssumption ==
  /\ {FastEma, SlowEma, TrendEma, RsiPeriod, MeanPeriod} \subseteq Nat \ {0}
  /\ {RsiBuyMax, RsiSellMin, MaxAtr, SlAtr, TpAtr, SlFixed, TpFixed, MoreHistory} \subseteq Nat
  /\ Sides \subseteq {"long", "short"}

\* A float division: what it makes of -a is the negative of what it makes of a.
Divided(a, b) == IF a < 0 THEN -((-a) \div b) ELSE a \div b

\* A sum that decays gets small, and is 0 only when it always was.
Decayed(a, b) == -((-a) \div b)

\* ema: from candle number period on
Ema(c, period) ==
  LET scaled[i \in period..Len(c)] ==
        IF i = period THEN SumFunction([j \in 1..period |-> c[j].close])
        ELSE Divided(2 * period * c[i].close + (period - 1) * scaled[i - 1], period + 1)
  IN scaled

\* ema_cross_signal: the difference of the averages and the one before
Cross(c, i) ==
  LET fast == Ema(c, FastEma)
      slow == Ema(c, SlowEma)
      gap(j) == fast[j] * SlowEma - slow[j] * FastEma
  IN IF i - 1 < Max({FastEma, SlowEma}) THEN "none"
     ELSE CASE gap(i - 1) <= 0 /\ gap(i) > 0 -> "long"
            [] gap(i - 1) >= 0 /\ gap(i) < 0 -> "short"
            [] OTHER -> "none"

\* rsi: sums of the rises and of the falls, smoothed after the first period
Gains(c) == [i \in 2..Len(c) |-> Max({c[i].close - c[i - 1].close, 0})]
Losses(c) == [i \in 2..Len(c) |-> Max({c[i - 1].close - c[i].close, 0})]

Smoothed(change, n) ==
  LET sum[i \in (RsiPeriod + 1)..n] ==
        IF i = RsiPeriod + 1 THEN SumFunction([j \in 2..i |-> change[j]])
        ELSE Decayed(sum[i - 1] * (RsiPeriod - 1), RsiPeriod) + change[i]
  IN sum[n]

\* The first value, at RsiPeriod + 1, is never stored.  Without falls it is 100.
HasRsi(i) == i > RsiPeriod + 1
RsiBelow(c, i, limit) ==
  LET up == Smoothed(Gains(c), i)
      down == Smoothed(Losses(c), i)
  IN IF down = 0 THEN 100 < limit ELSE 100 * up < limit * (up + down)
RsiAbove(c, i, limit) ==
  LET up == Smoothed(Gains(c), i)
      down == Smoothed(Losses(c), i)
  IN IF down = 0 THEN 100 > limit ELSE 100 * up > limit * (up + down)

\* mutated: the mean is taken over the whole history
MeanWindowAll(c, i) == DOMAIN c

\* sma(atr, 100): candles without an ATR do not count
MeanWindow(c, i) == (i - MeanPeriod + 1)..i

\* _atr_extreme_flag
Extreme(c, i) ==
  LET average == Atr(c)
      finite == {j \in MeanWindow(c, i) \cap DOMAIN c : average[j] # NoAtr}
      sum == SumFunction([j \in finite |-> average[j]])
  IN i >= MeanPeriod /\ 100 * average[i] * Cardinality(finite) > MaxAtr * sum

Justified(c, i, side) ==
  /\ Cross(c, i) = side /\ side \in Sides
  /\ IF side = "long" THEN /\ c[i].close * TrendEma > Ema(c, TrendEma)[i]
                           /\ RsiBelow(c, i, RsiBuyMax)
                      ELSE /\ c[i].close * TrendEma < Ema(c, TrendEma)[i]
                           /\ RsiAbove(c, i, RsiSellMin)
  /\ ~Extreme(c, i)

\* stop and target, in hundredths
Levels100(c, i, side) ==
  LET average == Atr(c)[i]
      sl == IF average > 0 THEN SlAtr * average ELSE 100 * SlFixed
      tp == IF average > 0 THEN TpAtr * average ELSE 100 * TpFixed
      entry == 100 * c[i].close
  IN IF side = "long" THEN [sl |-> entry - sl, tp |-> entry + tp]
                      ELSE [sl |-> entry + sl, tp |-> entry - tp]

\* generate_signals
Warmup == Max({SlowEma, TrendEma, AtrPeriod}) + 2

Followed(c) ==
  IF Len(c) < TrendEma + MoreHistory THEN {}
  ELSE {[direction |-> p[1], idx |-> p[2], levels |-> Levels100(c, p[2], p[1])] :
          p \in {q \in Sides \X ((Warmup + 1)..Len(c)) :
                   HasRsi(q[2]) /\ Justified(c, q[2], q[1])}}

=============================================================================
