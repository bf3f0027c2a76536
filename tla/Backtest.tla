------------------------------ MODULE Backtest ------------------------------
(***************************************************************************)
(* run_backtest: takes the signals of a strategy in order, enters at the   *)
(* open of the bar behind each signal, and walks the bars until the stop,  *)
(* the target, a break of structure or the safety line ends the trade.     *)
(*                                                                         *)
(* The candles are given before the walk starts; a bar is chosen when it   *)
(* is looked at for the first time, which comes to the same.               *)
(***************************************************************************)
EXTENDS Integers, Sequences

CONSTANTS
  NBars,          \* length of the sample
  Bars,           \* candles that occur: open, high, low, close
  MaxSignals,     \* bound on the signals
  StopDistance, TargetDistance,   \* of the signals' sl and tp
  Mid,            \* the price from which signals measure them
  BreakevenAtR,   \* ict.management.breakeven_at_r
  Buffer          \* trendline.sl_buffer_atr, as the backtest uses it

ASSUME BacktestAssumption ==
  /\ {NBars, MaxSignals, BreakevenAtR, Buffer} \subseteq Nat
  /\ {StopDistance, TargetDistance, Mid} \subseteq Nat \ {0}
  /\ Bars \subseteq [open : Nat \ {0}, high : Nat \ {0}, low : Nat \ {0}, close : Nat \ {0}]
  /\ \A b \in Bars : b.low <= b.open /\ b.low <= b.close /\ b.open <= b.high /\ b.close <= b.high

VARIABLES
  rules,     \* the strategy: plain, ict or trendline
  signals,   \* what generate_signals returned: index and direction
  candles,   \* the bars looked at so far
  next,      \* the signal whose turn it is
  walk,      \* the trade under way, or NoWalk
  held,      \* open_trade is not None
  trades     \* SimulatedTrades

backtestVars == <<rules, signals, candles, next, walk, held, trades>>

Unseen == [open |-> 0, high |-> 0, low |-> 0, close |-> 0]
Index == 1..NBars
Never == 0
Directions == {"long", "short"}
Signal == [idx : Index, direction : Directions]
NoWalk == [at |-> 0]
Walking == walk # NoWalk

\* Prices as seen from a direction: ahead is in its favour.
Ahead(d, p, n) == IF d = "long" THEN p + n ELSE p - n
Worse(d, a, b) == IF d = "long" THEN a < b ELSE a > b
Worst(d, bar) == IF d = "long" THEN bar.low ELSE bar.high
Best(d, bar) == IF d = "long" THEN bar.high ELSE bar.low

FirstStop(d) == Ahead(d, Mid, -StopDistance)
Target(d) == Ahead(d, Mid, TargetDistance)

BacktestInit ==
  /\ rules \in {"plain", "ict", "trendline"}
  /\ signals \in UNION {[1..n -> Signal] : n \in 0..MaxSignals}
  /\ \A i, j \in DOMAIN signals : i < j => signals[i].idx < signals[j].idx
  /\ candles = [i \in Index |-> Unseen]
  /\ next = 1 /\ walk = NoWalk /\ held = FALSE /\ trades = <<>>

\* The bar at i, chosen when it is new.
Look(i, bar) ==
  /\ IF candles[i] = Unseen THEN bar \in Bars ELSE bar = candles[i]
  /\ candles' = [candles EXCEPT ![i] = bar]

NextSignal == next' = next + 1 /\ walk' = NoWalk

EntryBar(s) == s.idx + 1

NoBarLeft(s) == s.idx + 1 > NBars

\* "single position at a time"
Skipped == held

PassOver ==
  /\ ~Walking /\ next <= Len(signals)
  /\ Skipped \/ NoBarLeft(signals[next])
  /\ NextSignal
  /\ UNCHANGED <<rules, signals, candles, held, trades>>

\* obos: the bar of the first opposite break of structure from the entry on.
Enter ==
  /\ ~Walking /\ next <= Len(signals)
  /\ ~held /\ ~NoBarLeft(signals[next])
  /\ LET s == signals[next]
         first == EntryBar(s)
     IN \E bar \in Bars \cup {candles[first]} :
          /\ Look(first, bar)
          /\ IF bar.open = FirstStop(s.direction)
             THEN NextSignal
             ELSE /\ \E obos \in IF rules = "ict" THEN {Never} \cup (first..NBars) ELSE {Never} :
                       walk' = [at |-> first, first |-> first, direction |-> s.direction,
                                entry |-> bar.open, sl |-> FirstStop(s.direction),
                                be |-> FALSE, obos |-> obos]
                  /\ UNCHANGED next
  /\ UNCHANGED <<rules, signals, held, trades>>

RiskOf(entry, d) ==
  IF entry < FirstStop(d) THEN FirstStop(d) - entry ELSE entry - FirstStop(d)

\* open_trade is set here, and nothing ever clears it.
Exit(reason, price) ==
  /\ trades' = Append(trades, [first |-> walk.first, last |-> walk.at, entry |-> walk.entry,
                               direction |-> walk.direction, obos |-> walk.obos,
                               be |-> walk.be, reason |-> reason, exit |-> price])
  /\ held' = TRUE /\ NextSignal

\* On to the next bar; a trade that is still open after the last is dropped.
GoOn(sl, be) ==
  /\ IF walk.at = NBars THEN NextSignal
     ELSE walk' = [walk EXCEPT !.at = @ + 1, !.sl = sl, !.be = be] /\ UNCHANGED next
  /\ UNCHANGED <<held, trades>>

Touches(bar) == ~Worse(walk.direction, walk.sl, Worst(walk.direction, bar))
Reaches(bar) == ~Worse(walk.direction, Best(walk.direction, bar), Target(walk.direction))

\* mutated: the target is looked at first
StoppedOutLate(bar) == Touches(bar) /\ ~Reaches(bar)

StoppedOut(bar) == Touches(bar)

\* The best excursion of the bar, in multiples of the risk.
BreakevenDue(bar) ==
  /\ rules = "ict" /\ BreakevenAtR # 0 /\ ~walk.be
  /\ ~Worse(walk.direction, Best(walk.direction, bar),
            Ahead(walk.direction, walk.entry,
                  BreakevenAtR * RiskOf(walk.entry, walk.direction)))

\* After breakeven an exit on a break of structure is never booked as a loss.
\* (A bar that closes worse than the entry has met the stop there already.)
BreakExit(bar) ==
  IF walk.be /\ Worse(walk.direction, bar.close, walk.entry) THEN walk.entry ELSE bar.close

\* mutated: noted, and the stop stays
BreakevenStopKept == walk.sl

BreakevenStop == walk.entry

WalkBar ==
  /\ Walking /\ rules # "trendline"
  /\ \E bar \in Bars \cup {candles[walk.at]} :
       /\ Look(walk.at, bar)
       /\ IF StoppedOut(bar) THEN Exit("sl", walk.sl)
          ELSE IF Reaches(bar) THEN Exit("tp", Target(walk.direction))
          ELSE IF walk.at = walk.obos THEN Exit("bos", BreakExit(bar))
          ELSE IF BreakevenDue(bar) THEN GoOn(BreakevenStop, TRUE)
          ELSE GoOn(walk.sl, walk.be)
  /\ UNCHANGED <<rules, signals>>

Trailed(safety) ==
  LET candidate == Ahead(walk.direction, safety, -Buffer)
  IN IF Worse(walk.direction, walk.sl, candidate) THEN candidate ELSE walk.sl

\* The trendline loop.  safety: safety_value at the bar; without one the bar
\* is over.
WalkLine ==
  /\ Walking /\ rules = "trendline"
  /\ \E bar \in Bars \cup {candles[walk.at]} :
       /\ Look(walk.at, bar)
       /\ IF Touches(bar) THEN Exit("sl", walk.sl)
          ELSE \/ GoOn(walk.sl, FALSE)
               \/ \E safety \in {b.low : b \in Bars} \cup {b.high : b \in Bars} :
                    IF Worse(walk.direction, bar.close, safety)
                    THEN Exit("safety_line", bar.close)
                    ELSE GoOn(Trailed(safety), FALSE)
  /\ UNCHANGED <<rules, signals>>

\* The result is returned.
Done == ~Walking /\ next > Len(signals) /\ UNCHANGED backtestVars

BacktestNext == PassOver \/ Enter \/ WalkBar \/ WalkLine \/ Done

BacktestSpec == BacktestInit /\ [][BacktestNext]_backtestVars

-----------------------------------------------------------------------------
BacktestTypeOK ==
  /\ rules \in {"plain", "ict", "trendline"}
  /\ signals \in Seq(Signal)
  /\ candles \in [Index -> Bars \cup {Unseen}]
  /\ next \in 1..(Len(signals) + 1)
  /\ Walking => /\ walk.at \in walk.first..NBars /\ walk.first = signals[next].idx + 1
                /\ walk.sl \in Int /\ walk.be \in BOOLEAN /\ walk.entry \in Nat
  /\ held \in BOOLEAN /\ Len(trades) <= next

Gain(t) == IF t.direction = "long" THEN t.exit - t.entry ELSE t.entry - t.exit

(***************************************************************************)
(* What the outcome of a trade is, without a walk: the stop at a bar is    *)
(* the entry once an earlier bar was far enough ahead, the trade ends at   *)
(* the first bar that meets an exit, and of two exits in one bar the worse *)
(* one counts.                                                             *)
(***************************************************************************)
StopAt(t, j) ==
  IF /\ rules = "ict" /\ BreakevenAtR # 0
     /\ \E k \in t.first..(j - 1) :
          ~Worse(t.direction, Best(t.direction, candles[k]),
                 Ahead(t.direction, t.entry, BreakevenAtR * RiskOf(t.entry, t.direction)))
  THEN t.entry ELSE FirstStop(t.direction)

StopMet(t, j) == ~Worse(t.direction, StopAt(t, j), Worst(t.direction, candles[j]))
TargetMet(t, j) == ~Worse(t.direction, Best(t.direction, candles[j]), Target(t.direction))
ExitMet(t, j) == StopMet(t, j) \/ TargetMet(t, j) \/ j = t.obos

\* Every simulated trade of a strategy with a target is the trade defined
\* above: entered at the open, ended by the first exit, the stop first.
TradesAsDefined ==
  rules # "trendline" =>
    \A n \in DOMAIN trades :
      LET t == trades[n]
      IN /\ t.entry = candles[t.first].open
         /\ ExitMet(t, t.last) /\ \A j \in t.first..(t.last - 1) : ~ExitMet(t, j)
         /\ t.reason = IF StopMet(t, t.last) THEN "sl"
                       ELSE IF TargetMet(t, t.last) THEN "tp" ELSE "bos"
         /\ t.reason = "sl" => t.exit = StopAt(t, t.last)
         /\ t.reason = "tp" => t.exit = Target(t.direction)

\* Once the stop is at breakeven no exit is booked as a loss.
BreakevenNeverLoses == \A n \in DOMAIN trades : trades[n].be => Gain(trades[n]) >= 0

\* A trade that was entered on the right side of its stop loses the risk at
\* most when it is stopped out, however the stop was trailed before.
StopLimitsLoss ==
  \A n \in DOMAIN trades :
    LET t == trades[n]
    IN t.reason = "sl" /\ Worse(t.direction, FirstStop(t.direction), t.entry)
         => Gain(t) >= -RiskOf(t.entry, t.direction)

\* The trades are the ones the rules define, and none loses more than they allow.
SimulationInv == BacktestTypeOK /\ TradesAsDefined /\ BreakevenNeverLoses /\ StopLimitsLoss

=============================================================================
