----------------------------- MODULE RiskGuards -----------------------------
(***************************************************************************)
(* RiskManagerService.evaluate on top of the kill switch: the event loop   *)
(* reads the switch, a session of its own that other actors interleave     *)
(* with, and then judges the signal by the trading sessions, the trades    *)
(* table, the news and the account, and sizes it.  Nothing awaits from the *)
(* first guard to the order, so apart from the switch nothing changes      *)
(* while the loop is at it.                                                *)
(*                                                                         *)
(* Risks are in percent of the equity.  Volumes are floats in the code and *)
(* numbers of a small unit here; where a float may fall on either side of  *)
(* the exact value, both outcomes are possible.                            *)
(***************************************************************************)
EXTENDS KillSwitch, Integers, Sequences, FiniteSets, FiniteSetsExt

CONSTANTS
  Loop,         \* the actor that evaluates: the event loop
  DayLength,    \* points of time in a day
  Sessions,     \* base.trading_sessions: sequence of [days, start, end, pause]
  Providers,    \* news providers
  Events,       \* what they publish: [at, impact, provider]
  Blackout,     \* guards.news_blackout_minutes
  MaxOpen,      \* guards.max_open_positions; 0 sets no limit
  MaxDaily,     \* guards.max_daily_trades; 0 sets no limit
  MaxDrawdown,  \* guards.max_daily_drawdown_percent; 0 sets no limit
  MinEquity,    \* guards.min_account_equity
  RiskPerTrade, MinRisk, MaxRisk,  \* risk_per_trade_percent and its limits
  Contract,     \* sizing.contract_size
  MaxVolume,    \* sizing.max_volume
  Hundredth,    \* units of volume in a hundredth of a lot
  Symbols,      \* what a signal may name
  Lots,         \* [min, step] of the symbols the mapper knows
  MinSl, MinTp, \* trading_criteria.min_sl_pips, min_tp_pips
  MinReward,    \* min_risk_reward_ratio, in percent
  Candidates,   \* signals: [symbol, priced, sl, tp], with the distances of stop
                \* and target, Missing without one
  Deposit,      \* equity without any trade
  Results,      \* what a trade may close with
  Floating,     \* what an open trade may add to the equity
  MaxClock,     \* bound on time
  MaxTrades     \* bound on the trades table

Missing == -1     \* no stop, no target
NoEquity == -1    \* the equity provider failed
NoPause == [start |-> 1, end |-> 0]

ASSUME RiskGuardsAssumption ==
  /\ Loop \in Actors
  /\ {DayLength, Contract, Hundredth} \subseteq Nat \ {0}
  /\ {MaxOpen, MaxDaily, MaxDrawdown, MinEquity, Blackout, RiskPerTrade, MinRisk, MaxRisk,
      MaxVolume, MinSl, MinTp, MinReward, Deposit, MaxClock, MaxTrades} \subseteq Nat
  /\ Sessions \in Seq([days : SUBSET Nat, start : Nat, end : Nat, pause : [start : Nat, end : Nat]])
  /\ \A e \in Events : e.provider \in Providers
  /\ DOMAIN Lots \subseteq Symbols
  /\ \A symbol \in DOMAIN Lots : Lots[symbol] \in [min : Nat, step : Nat \ {0}]
  /\ Candidates \subseteq [symbol : Symbols, priced : BOOLEAN,
                         sl : Nat \cup {Missing}, tp : Nat \cup {Missing}]
  /\ {NoEquity} \cup Results \cup Floating \subseteq Int

VARIABLES
  clock,     \* now
  recent,    \* NewsService._recent
  missed,    \* providers that failed in the collection recent is from (history)
  trades,    \* the trades table, with the equity the drawdown guard had read
             \* when the trade was approved (history)
  balance,   \* of the account, without what is open (the broker's)
  phase,     \* of the evaluation
  order,     \* the signal evaluated, with what was read and decided
  seenOff    \* the switch was off or lapsed during the evaluation (history)

riskVars == <<clock, recent, missed, trades, balance, phase, order, seenOff>>
allVars == <<vars, riskVars>>

Phases == {"none", "switch", "guards", "approved"}
NoSignal == [symbol |-> "none", priced |-> FALSE, sl |-> Missing, tp |-> Missing]
NoOrder == [signal |-> NoSignal, killed |-> FALSE,
            volume |-> 0, first |-> NoEquity, equity |-> NoEquity]

RiskInit ==
  /\ Init
  /\ clock = 0 /\ recent = {} /\ missed = Providers
  /\ trades = <<>> /\ balance = Deposit /\ phase = "none" /\ order = NoOrder /\ seenOff = FALSE

(***************************************************************************)
(* session_allows: the first session that is on decides, and only its own  *)
(* pause counts.                                                           *)
(***************************************************************************)
Day(t) == t \div DayLength
TimeOfDay(t) == t % DayLength
Within(t, span) == span.start <= TimeOfDay(t) /\ TimeOfDay(t) <= span.end

On(i, t) == Day(t) \in Sessions[i].days /\ Within(t, Sessions[i])
Paused(i, t) == Within(t, Sessions[i].pause)

\* mutated: any session that is on and not paused will do
SessionAllowsAny(t) == \E i \in DOMAIN Sessions : On(i, t) /\ ~Paused(i, t)

SessionAllows(t) ==
  \E i \in DOMAIN Sessions : On(i, t) /\ ~Paused(i, t) /\ \A j \in 1..(i - 1) : ~On(j, t)

(***************************************************************************)
(* NewsService.                                                            *)
(***************************************************************************)
Published(p) == {e \in Events : e.provider = p}

\* tick: what the providers that did not fail return replaces all before; when
\* it cannot be stored nothing changes.
Collect(failed) ==
  /\ phase = "none"
  /\ recent' = UNION {Published(p) : p \in Providers \ failed}
  /\ missed' = failed
  /\ UNCHANGED <<vars, clock, trades, balance, phase, order, seenOff>>

Near(t, e) == e.impact = "high" /\ t - e.at <= Blackout /\ e.at - t <= Blackout

\* is_in_blackout
InBlackout == \E e \in recent : Near(clock, e)

(***************************************************************************)
(* The trades table and the account.                                       *)
(***************************************************************************)
StillOpen == -1   \* closed_at of an open trade
OpenTrades == {i \in DOMAIN trades : trades[i].closed = StillOpen}

\* _trades_today
TradesToday == {i \in DOMAIN trades : trades[i].opened = Day(clock)}

\* what trades of a table have brought in
Pnl(table, chosen) == MapThenSumSet(LAMBDA i : table[i].pnl, chosen)

\* mutated: by the day a trade was opened
ClosedOnByOpening(table, day) ==
  {i \in DOMAIN table : table[i].closed # StillOpen /\ table[i].opened = day}

ClosedOn(table, day) == {i \in DOMAIN table : table[i].closed = day}

\* the realized part, all that _today_pnl_percent reads
TodayPnl == Pnl(trades, ClosedOn(trades, Day(clock)))

\* _equity: the broker is asked each time
Readings == {NoEquity} \cup {balance + f : f \in IF OpenTrades = {} THEN {0} ELSE Floating}

\* Without equity the loss of the day counts as 0 percent.
DrawdownReached(equity) == equity > 0 /\ 100 * TodayPnl <= -MaxDrawdown * equity

(***************************************************************************)
(* _check_trading_criteria and _position_size.                             *)
(***************************************************************************)
Known(signal) == signal.symbol \in DOMAIN Lots

\* Without a price, or for a symbol the mapper does not know, nothing is checked.
MeetsCriteria(signal) ==
  signal.priced /\ Known(signal) =>
    /\ signal.sl # Missing /\ signal.tp # Missing
    /\ signal.sl > 0 /\ signal.sl >= MinSl /\ signal.tp >= MinTp
    /\ 100 * signal.tp >= MinReward * signal.sl

\* _lot_bounds: a hundredth of a lot for a symbol the mapper does not know
LotBounds(signal) ==
  IF Known(signal) THEN Lots[signal.symbol] ELSE [min |-> Hundredth, step |-> Hundredth]

Risk == Max({MinRisk, Min({MaxRisk, RiskPerTrade})})

\* mutated: rounded to the nearest step
WholeStepsNearest(budget, price) == {(2 * budget + price) \div (2 * price)}

\* The steps a budget pays for, each at its price: the floor of a quotient of
\* floats, which may lie below a whole number that is exact (0.29 / 0.01).
WholeSteps(budget, price) ==
  LET exact == budget \div price
  IN IF exact * price = budget THEN {exact, exact - 1} ELSE {exact}

\* round(volume, 2): to the nearest hundredth, between two of them to either
Rounded(volume) ==
  LET below == (volume \div Hundredth) * Hundredth
  IN {r \in {below, below + Hundredth} :
        2 * (r - volume) <= Hundredth /\ 2 * (volume - r) <= Hundredth}

\* what a volume of one unit loses at the stop
UnitCost(signal) == signal.sl * Contract

\* what a stop may cost, to be compared with UnitCost: Risk percent of the equity
Budget(equity) == Hundredth * equity * Risk

\* The volumes _position_size may return; 0 stands for none.
Volumes(signal, equity) ==
  LET lots == LotBounds(signal)
      unit == UnitCost(signal)
      budget == Budget(equity)
  IN IF /\ signal.priced /\ signal.sl # Missing /\ signal.sl > 0
        /\ budget >= lots.min * unit /\ budget <= MaxVolume * unit
     THEN UNION {IF steps * lots.step < lots.min THEN {0} ELSE Rounded(steps * lots.step) :
                   steps \in WholeSteps(budget, lots.step * unit)}
     ELSE {0}

(***************************************************************************)
(* evaluate.                                                               *)
(***************************************************************************)
Seen == seenOff' = (seenOff \/ row' # "on")

Evaluate(signal) ==
  /\ phase = "none" /\ CallCheck(Loop)
  /\ phase' = "switch" /\ order' = [NoOrder EXCEPT !.signal = signal]
  /\ seenOff' = (row # "on")
  /\ UNCHANGED <<clock, recent, missed, trades, balance>>

\* mutated: what the last evaluation read
KilledBefore == order.killed

\* the switch reads as on
Killed == pc[Loop] = "read" /\ row = "on"

\* _kill_switch_active: an expired switch is turned off before it reads as off.
ReadSwitch ==
  /\ phase = "switch"
  /\ Read(Loop) \/ Update(Loop)
  /\ IF pc'[Loop] = "idle"
     THEN phase' = "guards" /\ order' = [order EXCEPT !.killed = Killed]
     ELSE UNCHANGED <<phase, order>>
  /\ Seen
  /\ UNCHANGED <<clock, recent, missed, trades, balance>>

\* All guards, with the equity read before the drawdown and once more after it.
Allowed(first, equity) ==
  /\ ~order.killed
  /\ SessionAllows(clock)
  /\ MaxOpen = 0 \/ Cardinality(OpenTrades) < MaxOpen
  /\ MaxDaily = 0 \/ Cardinality(TradesToday) < MaxDaily
  /\ MaxDrawdown = 0 \/ ~DrawdownReached(first)
  /\ ~InBlackout
  /\ equity # NoEquity /\ equity >= MinEquity
  /\ MeetsCriteria(order.signal)

Judge ==
  /\ phase = "guards"
  /\ \E first, equity \in Readings : \E volume \in Volumes(order.signal, equity) :
       IF Allowed(first, equity) /\ volume > 0
       THEN /\ phase' = "approved"
            /\ order' = [order EXCEPT !.volume = volume, !.first = first, !.equity = equity]
       ELSE phase' = "none" /\ order' = NoOrder
  /\ UNCHANGED <<vars, clock, recent, missed, trades, balance, seenOff>>

\* Confidence, spread, deployment mode, and bounds of the volume that a float
\* misses by its last digit refuse freely.
Refuse ==
  /\ phase = "guards" /\ phase' = "none" /\ order' = NoOrder
  /\ UNCHANGED <<vars, clock, recent, missed, trades, balance, seenOff>>

\* signal.approved: the execution service orders, or refuses.
Deliver(ordered) ==
  /\ phase = "approved" /\ phase' = "none" /\ order' = NoOrder
  /\ IF ordered
     THEN /\ Len(trades) < MaxTrades
          /\ trades' = Append(trades, [opened |-> Day(clock), closed |-> StillOpen, pnl |-> 0,
                                       seen |-> order.first])
     ELSE UNCHANGED trades
  /\ UNCHANGED <<vars, clock, recent, missed, balance, seenOff>>

\* Between two evaluations: the monitor settles a trade, time passes.
TradeCloses(i, result) ==
  /\ phase = "none" /\ i \in OpenTrades
  /\ trades' = [trades EXCEPT ![i].closed = Day(clock), ![i].pnl = result]
  /\ balance' = balance + result
  /\ UNCHANGED <<vars, clock, recent, missed, phase, order, seenOff>>

Tick ==
  /\ phase = "none" /\ clock < MaxClock /\ clock' = clock + 1
  /\ UNCHANGED <<vars, recent, missed, trades, balance, phase, order, seenOff>>

\* Operators and the mesh thread, whenever.
Elsewhere ==
  /\ \/ Expire
     \/ \E a \in Actors \ {Loop} :
          \/ \E active \in BOOLEAN : CallSet(a, active)
          \/ CallCheck(a) \/ Read(a)
          \/ Update(a) \/ LoadAbsent(a) \/ Insert(a) \/ InsertConflict(a)
  /\ IF phase = "switch" THEN Seen ELSE UNCHANGED seenOff
  /\ UNCHANGED <<clock, recent, missed, trades, balance, phase, order>>

RiskNext ==
  \/ Tick \/ ReadSwitch \/ Judge \/ Refuse \/ Elsewhere
  \/ \E signal \in Candidates : Evaluate(signal)
  \/ \E ordered \in BOOLEAN : Deliver(ordered)
  \/ \E failed \in SUBSET Providers : Collect(failed)
  \/ \E i \in DOMAIN trades, result \in Results : TradeCloses(i, result)

RiskSpec == RiskInit /\ [][RiskNext]_allVars

-----------------------------------------------------------------------------
RiskTypeOK ==
  /\ clock \in 0..MaxClock /\ recent \subseteq Events /\ missed \subseteq Providers
  /\ Len(trades) <= MaxTrades
  /\ phase \in Phases /\ order.volume \in Nat /\ seenOff \in BOOLEAN
  /\ phase = "switch" <=> pc[Loop] # "idle"

Approved == phase = "approved"

\* However toggles and the automatic re-arm interleave with an evaluation: none
\* of them fails, and a signal is approved only if the switch was off, or lapsed,
\* at some moment of it.
SwitchRespected == RiskTypeOK /\ SwitchInv /\ (Approved => seenOff)

\* Nothing is approved in a session's pause, unless a session listed before it is
\* on, nor close to a published event of high impact, unless its provider failed
\* when the news were last collected.
Quiet ==
  Approved =>
    /\ \A i \in DOMAIN Sessions :
         On(i, clock) /\ Paused(i, clock) => \E j \in 1..(i - 1) : On(j, clock)
    /\ \A e \in Events : Near(clock, e) => e.provider \in missed

\* What trades lose at worst.
Worst == Max({0} \cup {-result : result \in Results})

\* On no day do the trades that close lose more than the limit and what
\* MaxOpen trades lose at worst.  Each trade whose drawdown guard could not read
\* the equity, which counts as no loss, adds one.
DayLossBounded ==
  MaxDrawdown # 0 /\ MaxOpen # 0 =>
    \A day \in 0..Day(MaxClock) :
      LET opened == {i \in DOMAIN trades : trades[i].opened = day}
          blind == {i \in opened : trades[i].seen <= 0}
          equity == Max({0} \cup {trades[i].seen : i \in opened \ blind})
          loss == -Pnl(trades, {i \in DOMAIN trades : trades[i].closed = day})
      IN 100 * loss <= MaxDrawdown * equity + 100 * Worst * (MaxOpen + Cardinality(blind))

\* The volume is in whole hundredths and, but for half a hundredth when the lot
\* step is finer, within its bounds; its stop costs no more than the risk of the
\* equity; and with one more step it costs the whole of it.
SizedToRisk ==
  Approved =>
    LET lots == LotBounds(order.signal)
        cost(volume) == volume * UnitCost(order.signal)
        slack == IF lots.step % Hundredth = 0 THEN 0 ELSE Hundredth   \* twice the rounding
    IN /\ order.volume > 0 /\ order.volume % Hundredth = 0
       /\ slack = 0 => order.volume % lots.step = 0
       /\ 2 * lots.min - slack <= 2 * order.volume
       /\ 2 * order.volume <= 2 * MaxVolume + slack
       /\ cost(2 * order.volume - slack) <= 2 * Budget(order.equity)
       /\ cost(2 * (order.volume + lots.step) + slack) >= 2 * Budget(order.equity)

=============================================================================
