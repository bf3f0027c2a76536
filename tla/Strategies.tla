----------------------------- MODULE Strategies -----------------------------
(***************************************************************************)
(* The strategies a configuration may build: the ICT tracker, the trend    *)
(* confluence and the trend following strategy.  They share no state, so a *)
(* behaviour follows one of them; both trend strategies read rows.         *)
(***************************************************************************)
EXTENDS IctTracker, TrendConfluence, TrendFollowing

VARIABLE strategy   \* "ict" or "trend", by the block the configuration has

strategyVars == <<strategy, vars, trendVars>>

\* build_strategies
StrategiesInit ==
  /\ strategy \in {"ict", "trend"}
  /\ Init /\ TrendInit
  /\ strategy = "trend" => direction = "long"   \* not used

Ict == strategy = "ict" /\ Next /\ UNCHANGED <<strategy, trendVars>>
Trend == strategy = "trend" /\ TrendNext /\ UNCHANGED <<strategy, vars>>

StrategiesNext == Ict \/ Trend

StrategiesSpec == StrategiesInit /\ [][StrategiesNext]_strategyVars

-----------------------------------------------------------------------------
\* Along a history that grows from a fixed start, later candles change no
\* structure and no signal of the past: what a walk says of a candle, in a
\* backtest too, uses nothing that came after it (generate_signals).  The live
\* engine's window also loses its oldest candles, of which this says nothing.
HistoryFixed ==
  [][Len(rows') > Len(rows) =>
       /\ StructureStays
       /\ Len(rows) >= TrendEma + MoreHistory =>
            Followed(rows) = {s \in Followed(rows') : s.idx <= Len(rows)}]_strategyVars

FlippedSignal(s) ==
  [direction |-> Flipped(s.direction), idx |-> s.idx,
   levels |-> [sl |-> -s.levels.sl, tp |-> -s.levels.tp]]

\* The rules treat longs and shorts alike, with the RSI limits mirrored too.
Mirrored ==
  /\ StructureMirrored
  /\ RsiBuyMax + RsiSellMin = 100 =>
       Followed(Mirror(rows)) = {FlippedSignal(s) : s \in Followed(rows)}

=============================================================================
