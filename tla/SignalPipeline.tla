--------------------------- MODULE SignalPipeline ---------------------------
(***************************************************************************)
(* The way of a signal: the collector stores candles, the strategy engine  *)
(* emits signals of the newest closed one, the webhook emits others, and   *)
(* each signal is carried by its own task through mercury.services.signal, *)
(* notifications, hermes and risk to the order.                            *)
(*                                                                         *)
(* Tasks share one event loop and give it up where they await: while the   *)
(* notifier delivers "signal detected", and while the LLM answers.  From   *)
(* risk.evaluate to the order nothing awaits, so no other task runs; other *)
(* threads and processes (an operator arming the kill switch) do.          *)
(***************************************************************************)
EXTENDS Naturals, Sequences, FiniteSets, SequencesExt

CONSTANTS
  Keys,          \* (strategy_id, symbol, direction) of the strategy engine
  Webhook,       \* stands for them in an alert of the webhook
  MaxDaily,      \* risk.guards.max_daily_trades; 0 sets no limit
  Faults,        \* "raise": a handler raises; "crash": the process dies
  MaxCandle,     \* bound on time, in candles
  MaxSignals,    \* bound on the signals table
  MaxRestarts    \* bound on restarts

ASSUME PipelineAssumption ==
  /\ IsFiniteSet(Keys) /\ Webhook \notin Keys
  /\ MaxDaily \in Nat
  /\ Faults \subseteq {"raise", "crash"}
  /\ MaxCandle \in Nat \ {0} /\ MaxSignals \in Nat /\ MaxRestarts \in Nat

VARIABLES
  now,         \* newest closed candle; now + 1 is forming
  stored,      \* the candles table: what each row holds
  emitted,     \* StrategyEngineService._last_emitted
  signals,     \* the signals, in the order they were emitted
  holder,      \* signal whose task has the loop between evaluate and order
  killed,      \* the kill switch
  today,       \* trades recorded since midnight
  life,        \* restarts so far
  sinceArmed   \* orders since the kill switch was armed (history)

vars == <<now, stored, emitted, signals, holder, killed, today, life, sinceArmed>>

Candles == 1..(MaxCandle + 1)
Waiting == {"received", "notifying", "assessing", "approved"}
Placed == {"traded", "unrecorded"}
States == Waiting \cup Placed \cup {"rejected", "lost"}
Nobody == 0

Init ==
  /\ now = 1
  /\ stored = [c \in Candles |-> "absent"]
  /\ emitted = [k \in Keys |-> 0]
  /\ signals = <<>> /\ holder = Nobody
  /\ killed = FALSE /\ today = {} /\ life = 0 /\ sinceArmed = 0

(***************************************************************************)
(* Time.                                                                   *)
(***************************************************************************)
CandleCloses ==
  /\ now < MaxCandle /\ now' = now + 1
  /\ UNCHANGED <<stored, emitted, signals, holder, killed, today, life, sinceArmed>>

Midnight ==
  /\ today # {} /\ today' = {}
  /\ UNCHANGED <<now, stored, emitted, signals, holder, killed, life, sinceArmed>>

(***************************************************************************)
(* DataCollectorService.tick and, inside its event, the strategy engine.   *)
(***************************************************************************)
\* _store_candles: on_conflict_do_nothing keeps the row it finds
Upserted ==
  [c \in Candles |-> IF c > now + 1 \/ stored[c] # "absent" THEN stored[c]
                     ELSE IF c <= now THEN "final" ELSE "partial"]

\* _emit's test of _last_emitted
Fresh(k) == emitted[k] # now

Signal(k, judged) ==
  [key |-> k, candle |-> now, judged |-> judged, life |-> life, state |-> "received"]

\* found: the strategies with a match on the newest closed candle.  Older
\* matches are dropped, and so is a signal this process has emitted before.
Collect(found) ==
  LET fresh == {k \in found : Fresh(k)} IN
  /\ holder = Nobody
  /\ stored' = Upserted
  /\ emitted' = [k \in Keys |-> IF k \in fresh THEN now ELSE emitted[k]]
  /\ Len(signals) + Cardinality(fresh) <= MaxSignals
  /\ signals' = signals \o [i \in 1..Cardinality(fresh) |->
                              Signal(SetToSeq(fresh)[i], stored'[now])]
  /\ UNCHANGED <<now, holder, killed, today, life, sinceArmed>>

\* POST /webhook: no candle, no deduplication.
Alert ==
  /\ holder = Nobody /\ Len(signals) < MaxSignals
  /\ signals' = Append(signals, Signal(Webhook, "absent"))
  /\ UNCHANGED <<now, stored, emitted, holder, killed, today, life, sinceArmed>>

(***************************************************************************)
(* One task per signal.                                                    *)
(***************************************************************************)
At(i, state) == i \in DOMAIN signals /\ signals[i].state = state
Goes(i, state) == signals' = [signals EXCEPT ![i].state = state]

Step(i, from, to) ==
  /\ holder = Nobody
  /\ At(i, from) /\ Goes(i, to)
  /\ UNCHANGED <<now, stored, emitted, holder, killed, today, life, sinceArmed>>

\* _on_signal stores the record and publishes signal.validated; the first
\* handler is the notification service's, which awaits the delivery.
Receive(i) == Step(i, "received", "notifying")

\* Delivered or not, hermes' handler is next; it awaits the LLM.
Notified(i) == Step(i, "notifying", "assessing")

\* mutated: a kill switch that is on stops nothing
KillSwitchOffIgnored == TRUE

\* _kill_switch_active
KillSwitchOff == ~killed

\* mutated: the limit is off by one
BelowDailyOff == MaxDaily = 0 \/ Cardinality(today) <= MaxDaily

\* _trades_today against max_daily_trades
BelowDaily == MaxDaily = 0 \/ Cardinality(today) < MaxDaily

\* The LLM has answered, or failed and the rules have: on_signal_assessed.
\* Confidence, session, spread, news, equity, sizing decide freely.
Approve(i) ==
  /\ KillSwitchOff /\ BelowDaily
  /\ holder = Nobody /\ At(i, "assessing") /\ Goes(i, "approved")
  /\ holder' = i
  /\ UNCHANGED <<now, stored, emitted, killed, today, life, sinceArmed>>

Refuse(i) == Step(i, "assessing", "rejected")

\* mutated: whoever ordered keeps the execution lock
ReleasedNot == holder

\* the end of the critical section
Released == Nobody

Hold(i) == holder = i /\ At(i, "approved") /\ holder' = Released

\* _on_signal_approved: the order and its record.
PlaceOrder(i) ==
  /\ Hold(i) /\ Goes(i, "traded")
  /\ today' = today \cup {i}
  /\ sinceArmed' = IF killed THEN sinceArmed + 1 ELSE sinceArmed
  /\ UNCHANGED <<now, stored, emitted, killed, life>>

\* The gate, the stage guard, the limit of open positions or the broker
\* refuses, or there is no broker (which is not announced).
OrderRefused(i) ==
  /\ Hold(i) /\ Goes(i, "rejected")
  /\ UNCHANGED <<now, stored, emitted, killed, today, life, sinceArmed>>

\* A handler raises; the bus logs it and the signal ends there.
HandlerRaises(i) ==
  /\ "raise" \in Faults
  /\ holder = Nobody /\ i \in DOMAIN signals
  /\ signals[i].state \in {"received", "assessing"} /\ Goes(i, "lost")
  /\ UNCHANGED <<now, stored, emitted, holder, killed, today, life, sinceArmed>>

\* ... after the order was placed and before its record was committed.
RecordFails(i) ==
  /\ "raise" \in Faults
  /\ Hold(i) /\ Goes(i, "unrecorded")
  /\ sinceArmed' = IF killed THEN sinceArmed + 1 ELSE sinceArmed
  /\ UNCHANGED <<now, stored, emitted, killed, today, life>>

(***************************************************************************)
(* Operators, on other threads and in other processes; the process itself. *)
(***************************************************************************)
ToggleKillSwitch ==
  /\ killed' = ~killed /\ sinceArmed' = 0
  /\ UNCHANGED <<now, stored, emitted, signals, holder, today, life>>

\* Tasks and _last_emitted are gone; nothing takes a stored signal up again.
Restart ==
  /\ "crash" \in Faults /\ life < MaxRestarts
  /\ life' = life + 1
  /\ emitted' = [k \in Keys |-> 0] /\ holder' = Nobody
  /\ signals' = [i \in DOMAIN signals |->
                   IF signals[i].state \in Waiting THEN [signals[i] EXCEPT !.state = "lost"]
                                                   ELSE signals[i]]
  /\ UNCHANGED <<now, stored, killed, today, sinceArmed>>

Task(i) ==
  \/ Receive(i) \/ Notified(i) \/ Approve(i) \/ Refuse(i)
  \/ PlaceOrder(i) \/ OrderRefused(i) \/ HandlerRaises(i) \/ RecordFails(i)

Next ==
  \/ CandleCloses \/ Midnight \/ Alert \/ ToggleKillSwitch \/ Restart
  \/ \E found \in SUBSET Keys : Collect(found)
  \/ \E i \in DOMAIN signals : Task(i)

Spec == Init /\ [][Next]_vars

\* The loop's ready queue is first in, first out, so a task that is ready
\* again and again runs; the notifier resolves every send and the LLM clients
\* have a timeout.
FairSpec == Spec /\ \A i \in 1..MaxSignals : SF_vars(Task(i))

-----------------------------------------------------------------------------
Signals == [key : Keys \cup {Webhook}, candle : 1..MaxCandle,
            judged : {"absent", "partial", "final"}, life : 0..MaxRestarts, state : States]

TypeOK ==
  /\ now \in 1..MaxCandle
  /\ stored \in [Candles -> {"absent", "partial", "final"}]
  /\ emitted \in [Keys -> 0..MaxCandle]
  /\ Len(signals) <= MaxSignals /\ \A i \in DOMAIN signals : signals[i] \in Signals
  /\ holder \in 0..Len(signals)
  /\ killed \in BOOLEAN /\ today \subseteq DOMAIN signals
  /\ life \in 0..MaxRestarts /\ sinceArmed \in Nat

Same(i, j) ==
  /\ signals[i].key = signals[j].key /\ signals[i].key # Webhook
  /\ signals[i].candle = signals[j].candle

\* One match of a strategy is ordered at most once by a process, however
\* often the collector ticks while the first signal is being assessed; a
\* restart forgets what was emitted (_last_emitted is in memory only).
OrderedOncePerLife ==
  \A i, j \in DOMAIN signals :
    i # j /\ signals[i].state \in Placed /\ signals[j].state \in Placed /\ Same(i, j)
      => signals[i].life # signals[j].life

\* Signals assessed at the same time do not exceed max_daily_trades: the
\* count is taken after the last await before the order.
DailyLimit == MaxDaily # 0 => Cardinality(today) <= MaxDaily

\* Once the kill switch is armed at most one order still goes out, that of
\* the signal evaluated before.
KillStopsOrders == sinceArmed <= 1

\* Neither a match nor a day nor an armed kill switch lets out an order too many.
OrderInv == TypeOK /\ OrderedOncePerLife /\ DailyLimit /\ KillStopsOrders

\* No signal stays under way: it is ordered, refused, or lost with a handler
\* that raised or a process that died.
SignalAnswered ==
  \A i \in 1..MaxSignals :
    (i \in DOMAIN signals) ~> (i \in DOMAIN signals /\ signals[i].state \notin Waiting)

\* "Polls the active data provider, upserts candles to the database": the
\* strategies judge a closed candle by its closing values.
JudgedFinal ==
  \A i \in DOMAIN signals : signals[i].key # Webhook => signals[i].judged = "final"

=============================================================================
