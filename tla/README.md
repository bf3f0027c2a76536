# Mercury Trader: TLA+ models, checks and proofs

This directory models `mercury`, the trading service under `src/src/mercury`: a
single asyncio process that stores candles, runs strategies on them, has an LLM
and a list of risk guards judge the signals, sends orders to a paper account or
to a MetaTrader 5 terminal, watches the positions, and lets people promote
strategies and approve changes proposed by the LLM. Paths below are relative to
`src/src/mercury` unless they start with `src/`.

- [1. The system](#1-the-system)
- [2. Modules](#2-modules)
- [3. Runs](#3-runs)
- [4. Proofs](#4-proofs)
- [5. Where the code and its own words disagree](#5-where-the-code-and-its-own-words-disagree)
- [6. Not modelled](#6-not-modelled)

## 1. The system

### Concurrency

One event loop runs the services. A handler gives the loop up only where it
awaits. Apart from the loop there are

- the agent mesh client's thread, which runs the commands of a remote operator
  inline (`services/agent_mesh/client.py`, `handlers.py`): toggling the kill
  switch, promoting, approving;
- other processes: every `mercury ...` command (`main.py`) opens the same
  database and may run beside the service;
- the broker's terminal, whose positions change by themselves.

The database (SQLite or PostgreSQL) is the only thing they share. A session
commits or rolls back as a whole (`core/db.py`). `FOR UPDATE` locks a row that
exists on PostgreSQL and nothing on SQLite; a row that does not exist is locked
by neither.

### Components

| component | state it keeps | operations and whom it talks to | what makes it correct |
|---|---|---|---|
| execution service (`services/execution/service.py`) | trades rows; `_trading_allowed`, `_reported_orphans`, `_startup_reconcile_issues` | orders on `signal.approved`; a monitor every few seconds: reconcile, settle exits, manage ICT and trendline positions | the limit of open trades; table and broker agree, or a person hears of it; a trade leaves "open" once |
| broker adapters (`execution/broker.py`) | paper: positions and closed trades in memory; MT5: a connection | open, list, close, history | as above |
| startup gate (`services/validation/gate.py`) | none | checks that end in a verdict | nothing is ordered after a failed check |
| orchestrator (`orchestrator/orchestrator.py`) | the services, the scheduler | start, gate, jobs, stop | start order; every job runs |
| risk: kill switch (`services/risk/service.py` 212-256) | one `system_state` row | toggled by people, re-armed by readers after some hours | only people and the schedule turn it off |
| risk: evaluation and sizing (same file) | the last quote | judges `signal.assessed` | the daily limit and the switch hold though signals race |
| promotion (`services/promotion/service.py`) | a lifecycle row and an audit per strategy | promote, demote, reset; asked by execution before an order | no stage skipped, the audit is complete and legal |
| hermes (`services/hermes/`) | reasoning and proposals rows | pre-trade assessment (LLM, 60 s timeout, rules as fallback), post-trade review, daily analysis | every signal gets an answer; proposals reach a decision |
| learning (`services/learning/service.py`) | proposals and strategy versions | backtests a batch inside hermes' event; approvals | a person approves, once, and it deploys one version |
| event bus (`core/events.py`) | subscriptions | `publish` awaits the handlers in the order they subscribed; `publish_nowait` makes tasks; what a handler raises is logged | no event is lost inside the loop |
| signal service, webhook (`services/signal/`) | signals rows | stores a signal, publishes `signal.validated` | every alert is judged |
| strategy engine (`services/strategy/engine.py`) | `_last_emitted` in memory | runs on `market.data.updated` | one signal per match and candle |
| strategies (`strategies.py`, `ict.py`, `trend_confluence.py`, `indicators.py`) | the trendline strategy's `_line_cache` | functions of candles; the ICT tracker walks them | nothing looks ahead, longs and shorts alike, a cached line is current |
| market data (`services/data/`) | candles rows | a tick per interval, quotes and candles | the table holds what the market did |
| news (`services/news/`) | `_recent` | replaces the events each collection | a blackout lasts as long as announced |
| notifications (`services/notifications/`) | Telegram queue | one worker, bounded queue, retry on 429; publishers await the delivery | messages arrive, nobody waits for ever |
| agent mesh (`services/agent_mesh/`) | session, outbox (100 frames, drop oldest) | handshake, reconnect with backoff, commands | authenticated commands, each run once |
| analytics, backtest, status export | metrics rows, one file | pure statistics and I/O | numbers as defined |
| models, database, configuration, logging, CLI, scripts | rows | | |

`PROJECT.json` lists the same components with what is and what is not modelled
of each, and the hazards with the line where each bites.

### What is hard

The hazards fall into five groups: **table against broker** (an order is placed
inside the transaction that records it, the monitor awaits between its snapshot
and its writes, a failed terminal call looks like an empty account, a restart
forgets a paper account but not an MT5 one, an alert is remembered before it is
sent); **check in one session, write in another** (kill switch, promotion,
approvals); **signals in flight** (LLM waits, repeated collector ticks, limits
that are counted while others order); **aborted batches** (one proposal that
raises takes the rest with it); **walks over a growing history** (strategies
scan all candles again with every new one, through caches and windows that move,
and what a backtest says of a candle must use no later candle).

## 2. Modules

| module | models | |
|---|---|---|
| `TradeLedger` | the abstract promise of the trades table | 3 actions |
| `Execution` | execution service, broker adapters, startup gate, start and stop, for many positions without prices | implements `TradeLedger` |
| `Management`, `Management_proofs` | one position and its prices: stops, breakeven, trailing, exits; theorems | the inside of `ManageKeep`/`ManageClose` |
| `KillSwitch` | the persisted kill switch | |
| `RiskGuards`, `RiskGuards_proofs` | the evaluation of a signal: switch, sessions, news, the day's trades and loss, criteria, sizing; theorems | extends `KillSwitch` |
| `Promotion`, `Promotion_proofs` | the lifecycle of one strategy; theorems | |
| `Proposals`, `Proposals_proofs` | daily analysis, proposal backtests, approvals; theorems | |
| `SignalPipeline`, `SignalPipeline_proofs` | collector, engine, webhook, and each signal's task up to its order; theorem | |
| `Indicators` | true range, swings, breaks of structure, order blocks, trendlines as functions | |
| `TrendFollowing` | the EMA-cross strategy as a function | extends `Indicators` |
| `TrendConfluence` | the trendline strategy: hours that begin, the line cache, the rules | extends `Indicators` |
| `IctTracker` | the ICT strategy's walk over the M5 candles | the inside of a match |
| `Strategies`, `Strategies_proofs` | the three strategies side by side; theorems about all of them | composes the last three |
| `Notifier` | the Telegram queue and the handlers that wait for it | what a waiting signal waits for |
| `EventChannel` | a channel that may drop but not repeat or reorder | 4 actions |
| `AgentMesh` | the connection to the Eden core, with its outbox | implements `EventChannel` |
| `Outgoing_proofs` | theorems about `AgentMesh` and `Notifier` | |
| `Backtest` | the walk of a backtest | |
| `Trades_proofs` | theorems about `Execution` and `Backtest` | |
| `MC...` | instances of each for TLC: model values, symmetry, fault sets | |

Conventions. A definition carries the name it has in the code where there is
one. A definition `XxxYyy` with a comment that begins "mutated:" is a plausible
bug of the definition `Xxx` below it: replacing `Xxx` by it must break the
property named beside it in `PROJECT.json`; nothing in the model uses it.
History variables are named as such where they are declared; no guard reads one.
An invariant `...Inv` is the conjunction of the module's type invariant and of
the named parts above it that belong together; the parts are named in the table
of runs.

### TradeLedger

`record` is `TradeRecord.status` by broker ticket. A trade becomes open only
while fewer than `MaxOpen` are, and leaves that status once, "closed" or
"manual_review". `Execution!LedgerSpec` says `Execution` behaves so.

### Execution

State: `record` (table), `position`, `deals` and `entries` (the broker's open
positions, and the closing and opening deals its history lists), `issued` (tickets handed out, never reused), `link` (the terminal
answers), the service's `running`, `connected`, `armed`, `reported`, `issues`,
the monitor's place `phase` with its loop `queue` and locals `orphans`,
`details`, the history variables `announced` and `lost` (alerts that a failed
tick swallowed) and the counter `faults`.

| actions | code |
|---|---|
| `OrderRecorded`, `OrderUnrecorded` | `_on_signal_approved`: the lock, the count and the insert are one step (`_execution_lock`, no await inside); the second one is a flush or commit that fails after the fill, or a lost reply |
| `BeginReconcile`, `ResolveMissing`, `EndReconcile` | `_reconcile_with_broker`: snapshot, one step per missing record (each awaits), the batched alert |
| `PaperExits`, `ServerExits`, `Settle`, `NothingOpen`, `NextLoop` | `_reconcile_positions`: `check_exits` or `closed_trades_since`, one step per settled trade |
| `ManageKeep`, `ManageClose`, `ManageCloseFails`, `CloseAtBroker` | the ICT and trendline loops, as far as they close |
| `TickFails` | anything in the tick raises: `tick` logs it and drops the rest; what it had to tell joins `lost`, because `_reported_orphans` already has it |
| `Start`, `Gate`, `Die` | startup reconciliation before notifications subscribe, the validation gate that arms trading once, the end of the process |
| `BrokerCloses`, `DealListed`, `EntryListed`, `LinkDrops`, `LinkReturns` | the terminal: a position closes by itself, its deal reaches the history later, the history lists an opening deal, calls fail |

Between two steps anything else may happen: signals order while the monitor is
suspended, the broker closes positions, the process dies. One configuration is
one backend. `"paper"` has no `BrokerCloses`: its account lives and dies with
the process. What is left out: prices, volumes, pnl and moved stops.

What `history_deals_get(ticket=...)` lists the repository does not decide.
`closed_trades_since` takes any deal of the position for its close
(`broker.py:263-278`; it does not look at `deal.entry`), so `EntryListed` may put
the opening deal of a live position there at any time, and `Closes` then answers
with a ticket that is still open. `PositionsInv` says that this is the only way
in which a live position loses its open record (see section 5).

### KillSwitch

One row, `absent / off / on / expired`, and any number of actors. A check reads
in one session and, if it saw an expired switch, writes "off" in another; a
toggle loads the row `FOR UPDATE` and updates it, or inserts it and meets an
`IntegrityError` when it lost the race. `late` (history) collects the readers
that found the switch expired and are on their way to turn it off when somebody
arms it again. With the row locked or (on SQLite) the
single writer of a session, `Update` is one step; without a row it is not.

### RiskGuards

`RiskManagerService.evaluate` by the event loop (`Loop`), one of the actors of
`KillSwitch`. `Evaluate` begins it, `ReadSwitch` is `_kill_switch_active` with
its one or two sessions, between which `Elsewhere` lets the mesh thread and the
command line at the row; `Judge` is everything after the switch and happens at
once, because nothing in it awaits and the rest of the world that it reads
belongs to the loop; `Deliver` is the order, or its refusal. `clock` is divided
into days and points of a day, which `SessionAllows` reads through the list of
sessions. `recent` is `NewsService._recent`; `Collect(failed)` replaces it by
what the providers that did not fail return, and `missed` remembers which did.
`trades` holds the day a trade was opened, the day it was closed and its result.
`balance` is the broker's account. `Judge` reads the equity twice, as the code
does (`_today_pnl_percent`, then the sizing), and each read may fail; a trade
keeps in `seen`, a history variable, what the first read was. A signal names a
symbol the mapper knows (with its lot bounds) or does not, and has a price or
not: `MeetsCriteria` checks nothing in two of these cases, as the code does.
`Volumes` is `_position_size` in numbers of a small unit, `Hundredth` of which
are 0.01 lots: the floor of a quotient of floats may come out one step short
where the quotient is exact (`WholeSteps`; 0.29 / 0.01 floors to 28), and
`round(volume, 2)` is `Rounded`, to either side of a tie. Confidence, spread,
deployment mode, and a volume bound that a float misses by its last digit refuse
freely (`Refuse`).

### Promotion

`stage` (a rank; `NoRow` reads as draft), the newest `audit` row, each caller's
place and decided `move`, and the event loop between `stage_guard` and the
order. `Decide` is `promote`/`demote` up to `_transition` (a session of its
own), `Load` and `Commit` are `_transition`'s session, split where PostgreSQL
lets another in: SQLAlchemy leaves an unchanged column out of the `UPDATE`.
`late` collects callers, and the order path, whose reading of the stage another
transition has replaced; `lapsed` says one of them has committed. The properties
use them to say what holds *until* callers overlap, and exactly what is lost
when they do. The metric gates pass or refuse freely.

### Proposals

`status` of each proposal, the `versions` table, the daily job's place with the
batch it works on, and each approver's open transaction. `StartAnalysis` to
`Announce` is `run_daily_analysis`; `Begin`, `Conclude`, `BatchRaises`,
`BatchDone` is `_on_proposals`, run inside the announcing event; `Ask`, `Claim`,
`Deploy`, `DeployFails` is `approve_proposal`. `dropped` holds the proposals an
aborted pass still had to deal with, `raced` those two approvers were at once.

Any step of the job may raise (`"raise"` in `Faults`). Two defects make it do so
always: `HermesService._performance_summary` reads `.metrics` off a dict
(`services/hermes/service.py:314`), and `LearningService` calls
`self._passes_paper_gate`, which nothing defines
(`services/learning/service.py:139`). The code's behaviours are those of the
model in which `AnalysisRaises` and `BatchRaises` are always taken; the others
are what approvals and batches do once both are mended.

### SignalPipeline

`now` counts closed candles; `stored` is what the candles table holds of each
(`absent`, the `partial` values of a forming candle, or `final`); `signals` is
the list of emitted signals with their state. `Collect` is one collector tick
with the strategy engine's synchronous run inside its event; `found`, the
strategies with a match, is free. `Alert` is the webhook, which deduplicates
nothing. Each signal's task then goes `received → notifying → assessing` and is
approved, refused or lost. It gives the loop up while the notifier delivers
"signal detected" (the notification service subscribed to `signal.validated`
before hermes) and while the LLM answers, so signals overlap there. From
`RiskManagerService.evaluate` to the order nothing awaits, because only the
execution service handles `signal.approved`: `holder` is the signal whose task has the loop. The kill
switch can change even then, since other threads and processes write it.

`Execution` and `SignalPipeline` meet at `signal.approved`: what the pipeline
calls `PlaceOrder`, `OrderRefused` and `RecordFails` are `OrderRecorded`, a
refusal and `OrderUnrecorded` there. `Promotion`'s `AskGuard`/`PlaceOrder` are
the same moment seen from the lifecycle row, and `KillSwitch` details the one
boolean `killed`.

### Management

One position: `bid`, the newest `candle`, the safety `line` or the first close
that `broken` the structure, what the broker holds (`position`, `stop`, `deal`),
the `record`, and the `phase` of the monitor's pass. `setup` fixes the backend,
the rules and the direction. `Reconcile` and `Exits` are the first two loops of
the tick for this position; `Breakeven` and `OppositeBos` are
`_manage_ict_positions`, `SafetyLine` is `_manage_trendline_positions`.
`MoveStop` asks the broker first and writes then, each of which may fail;
`ServerCloses` is the terminal. Prices are whole cents. Long targets are met at
the ask and short ones at the bid, as in `check_exits`.

### IctTracker

`M5Tracker.advance` for one direction: the active `setup` with its age, the
`attempts` of each level, the M5 liquidity (`targets`) confirmed since the sweep,
and the `signal` of the newest candle. `Idle` is a candle outside the sessions,
`Advance` one inside: expiry, sweep, confirmation, invalidation in this order.
What the H1 and H4 snapshots say (liquidity, blocks, trendlines, biases) is free
at every candle: `Pools`, `Edges`. `sweeps` is history.

### Indicators, TrendFollowing, TrendConfluence, Strategies

`Indicators` has one operator for each function of `indicators.py`, over a
sequence of candles. Prices are whole multiples of a unit that the divisions of
Wilder's averages leave whole, factors of the ATR are percentages, and a comparison
with the value of a line is multiplied by the line's length, so nothing is rounded
in a run.
`Breaks` is the walk of `detect_bos`; `FirstBreak` is `detect_opposite_bos`, which
the code implements a second time and the model by a quantifier over the
confirmed swings.

`TrendFollowing` is `generate_signals` of the EMA strategy: crosses, trend
filter, RSI limits, extreme ATR, levels. An EMA is kept as its period times the average and
the RSI as its two sums. For the theorems, which hold for every price, their
divisions round the way floats do where it matters: `Divided` treats both sides of
0 alike, and `Decayed` brings no sum of rises or falls down to 0 that was not 0
before.

`TrendConfluence` has state: `rows`, the H1 candles stored, of which the last is
forming; `cache`, the `_line_cache` of the object; `answer`, what it said last.
`Ask(h)` is `_lines_as_of` for a candle of hour `h`: of the last `Bars` rows
those that had closed by then, answered from the cache if their last one is a
key of it. `Fresh` is a new process, or the strategy object that `_manage_trendline_positions`
makes for each pass. `SafetyExit` and `Signals` are the two rules that use an answer.

`Strategies` follows one of the strategies per behaviour. They share no state;
what the strategy engine does with their signals is `SignalPipeline`.

### Notifier

Messages are numbered by `send()`; each has a `future` and its `attempts`. The
`queue` is bounded and drops its oldest; the `worker` holds one item, posts it,
cools down after a 429 and queues the item again. `Close` cancels the worker and
fails what is left, `CallerCancelled` is the scheduler's shutdown, `Forward` the
handler that goes on to the mesh. Each stretch between two awaits is one step.

### AgentMesh, EventChannel

`thread` is the place of `_thread_main` (idle, opening, two handshake phases, the
session loop, closing the socket, handling the failure, waiting to retry, ended),
`session` is the property `connected`, which a session without an id leaves FALSE
(`_session_id = msg.session_id or None`), and `fails` is `_reconnects`. `Breaks`
is any exception of the connection; a failed `_open_socket` is outside the `try`,
anything else goes through the `finally` clause, where `_close_socket` comes first
and takes its time and `Closed` is `_reset_session` behind it. `Failed` is the
`except` branch. Its backoff computes `factor ** (fails - 1)`, which for floats
raises `OverflowError` beyond `LastExponent` and then ends the thread.

Two producers, the event loop and a command handler on the client's own thread,
are inside `enqueue_event` with up to three queue operations each, so a producer
and the draining thread, or two producers, interleave there. `held` is the event
between pop and send. `ChannelSpec` says that outbox and `held` together
implement `EventChannel`.

### Backtest

`run_backtest` signal by signal and bar by bar. Bars are chosen when the walk
looks at them for the first time (`Unseen` before), which comes to the same as
choosing the sample first; prices are positive, so no bar is `Unseen`. `Enter` sets up a trade, `WalkBar` is the loop of the
plain and the ICT rules, `WalkLine` that of the trendline rules. `held` is
`open_trade is not None`; nothing clears it (section 5).

## 3. Runs

Twelve runs, one for each question. With two workers `strategies` takes about
a minute, `risk_guards` (3.5 million states) two, the others less.
Deadlock is checked except in `notifier_queue`, `mesh_session` and
`position_managed`: a closed notifier, a stopped client and a finished trade
stop.

| run | instance | asks | result |
|---|---|---|---|
| `exec_paper` | paper, 4 tickets, limit 2, all faults, at most 2 | `TableInv` (`LimitInv`, `ReviewedIsGone`): the limit; flagged trades have left the broker; orders only when reconciled; refines `TradeLedger` | holds |
| `exec_mt5` | MT5, 2 tickets, limit 2, commits and passes fail, the process dies, the link drops, at most 3 | `PositionsInv` (`ClosedIsGone`, `CoveredWithoutFaults`): a trade settled while its position is open, or left uncounted without a fault, was settled from its opening deal; a record whose position is gone leaves "open"; `Announced`: orphans and flagged records are, unless a failed pass swallowed the alert | holds |
| `risk_guards` | the loop, the mesh thread and a command line; 2 sessions, 2 providers, 2 days of 4 and 3 points, 2 trades, 4 signals | `SwitchRespected` (`SwitchInv`): no toggle fails, nothing is approved while the switch is on throughout; `Quiet`: nor in a pause or a known blackout; `DayLossBounded`: no day loses more than its limit, the trades open at once, and one trade for each failed reading of the equity; `SizedToRisk`: the stop costs no more than the risk, with one more step the whole of it; `OnlyLateDisarms`: an arming ends by an operator, or by a reader that had seen the switch expired before it | holds |
| `promotion_overlap` | 2 callers, live | `AuditInv`, `AuditTrail`: rows legal, chained, name the stage; only overtaken callers skip; orders approved | holds |
| `proposals_overlap` | 2 proposals, 2 approvers, raises and crashes | `DeploymentInv`: versions dense, what is approved is deployed, once; `HumanGate`: a person approves; every proposal is decided unless its pass was aborted | holds |
| `pipeline_tasks` | 2 strategies and the webhook, 2 signals, 2 candles, 1 restart | `OrderInv`: one order per match and process life, daily limit, the switch lets at most one order out; every signal ends | holds |
| `notifier_queue` | 4 messages, queue of 2, 2 tries, cancelled callers | `QueueInv`: a message waited for is in one place, order but for rate limits; nothing posted again; every handler goes on | holds |
| `mesh_session` | 4 events, outbox of 2, 1 command, 4 drops, the backoff overflows with the third failure in a row | `MeshInv`: one event lost per broken connection, "connected" ends with the socket, only that overflow ends the thread of a running client; refines `EventChannel`; `KeepsTelling`: drains, registers again until the overflow; `StopEnds` | holds |
| `position_managed` | prices 1..6, risk 1, target 2, 2 faults, all 8 set-ups | `StopInv`: the stop protects; record and account agree; stops only tighten; `ExitsClose`: both exit rules act | holds |
| `strategies` | ICT: prices 1..5, 2 levels, 2 attempts, sweeps fresh for 3 bars, confirmed within 2; trend: 10 hours, windows of 9 | `AttemptInv`: within one walk, a sweep costs one attempt however it ends, no late signal, no stale setup across pauses; `CacheInv`: an answer is drawn from the hours that end before the one asked about, a line seen again is the tighter stop; `Mirrored`: upside down, everything is the same with the directions exchanged; `BreaksAgree`: two implementations of a break of structure; `SignalSound`: no long and short at once, no trade its own exit ends; `HistoryFixed`: later candles change nothing said of earlier ones; `LinesSettled`: a line comes and goes with the band around it only | holds |
| `backtest_walk` | 5 bars out of 8 kinds, 2 signals, 3 rules | `SimulationInv`: every trade is the one a definition without a walk gives, and losses are bounded | holds |
| `pipeline_frozen` | 1 strategy | a closed candle is judged by its closing values | violated |

Two of these answers are narrower than they may sound. `AttemptInv` is about one
walk: `generate_signals` makes new trackers in each run (`strategy/ict.py:434`),
and the engine hands it the newest 1000 candles (`strategy/engine.py:57`), so "never
tried more often" holds in each window, and a level whose sweeps have left the
window may be tried again. `HistoryFixed` is about a history that grows from a fixed
start: what a strategy says of a candle uses no later candle. It is not equality
of a backtest with the live engine, whose window also loses its oldest candles,
and with them the start of every average and walk.

### Bounds, and why they suffice

- Tickets: two records fill the limit of 2, a third is refused at the boundary,
  and a fourth lets a slot be reused. Tickets are never reissued, so their
  number bounds the orders of a behaviour. `exec_mt5` has two, because its
  liveness properties forbid symmetry: an orphan beside a record.
- `MaxFaults`: two show a fault during the recovery from another (an
  unrecorded order and then a crash); three let the link drop besides. The
  theorems cover any number.
- Actors: two suffice for a lost update; the kill switch has three, so that two
  can lose the first insert in a row.
- `MaxSignals` 2 with `MaxDaily` 1 lets two signals race for the last trade of
  the day; with two candles and a restart, the same match can be emitted twice.
  `MaxDaily = 0` means no limit in the code and the model.
- `QueueSize` 2 and 4 messages: the queue is full while the worker holds a third
  message and a fourth is sent. `MaxRetries` 2: one retry, and giving up.
- `OutboxMax` 2 with two producers: both find it full and race for the room one
  of them makes. `LastExponent` 1 (the code's is 1023) with 4 drops: three
  failures in a row end the thread, and a registration among them starts the
  count again.
- Prices 1..6 around an entry of 3 reach the stop and the target on both sides,
  and a spread of 1 separates bid and ask.
- The eight bars are quiet, one risk ahead, at the target, a step against, at
  the stop, at a short's target, both at once, and an open beyond the stop. Five
  of them hold a trade that turns to breakeven and ends later.
- In `risk_guards`, the session listed first ends while the second is on, and
  each has a pause that the other overlaps at one point; the second day has the
  second session alone. One event of each impact, from two providers, so that one can fail alone.
  A result of -3 of 100 is exactly the limit of loss, and a trade may be
  opened on one day and closed on the next. Gold has steps of two hundredths of a
  lot, another symbol steps of one and a half, which rounding moves to both sides;
  the budget is an exact number of steps for some equities and not for others. Of
  the four signals two are good, one names a symbol the mapper does not know and
  one has no price.
- In `strategies`, each of the ten hours may have one of one to three candles
  (`MCShapes`), chosen so that swings, equal swings, lines that hold and are broken,
  breaks both ways, a gap with its order block and crosses of the averages occur:
  192 histories. Prices are quarters of a point times 512, so that Wilder's
  average (`AtrPeriod` 2, the code's is 14) and the other means, which halve
  once an hour, leave them whole. With
  the code's periods no history this short has an ATR; with 2 every candle after the
  first has one. `Bars` 9 is one less than the hours, so the window moves once.
- For the ICT strategy, 2 levels let the nearest be chosen, `FreshBars` 3 >
  `LookbackBars` 2 separates "too late to confirm" from "expired".

Symmetry is used only in runs without liveness.

### Fairness

- `Execution`: `WF(Start)`, because the service is installed with
  `AppExit Default Restart` (`src/scripts/install_service.ps1:33`); `WF(Gate)`,
  because startup runs to its end; `WF(Monitor)`, because `_schedule_jobs`
  (`orchestrator/orchestrator.py`) runs it as an interval job, one instance at
  a time. `Management` has the same `WF(Monitor)`. Nothing is assumed of
  signals, of the broker or of faults; they are bounded, so eventually they stop.
- `Proposals`: `WF(Daily)`, the daily cron job and its own steps. Nobody is
  assumed to approve.
- `SignalPipeline`: `SF(Task(i))` for each signal. The loop's ready queue is
  first in, first out; while another task holds the loop this one is disabled,
  and it is ready again when the loop is free, hence strong fairness. Weak
  fairness would not do: another task holds the loop infinitely often. That the
  wait for a notification ends is `MeshHears` of `Notifier`; the LLM clients
  have a timeout of 60 s.
- `Notifier`: `WF(Worker)`, because a post ends within the client's timeout and
  a cooldown is finite, and `WF(Forward(m))`, because the loop runs who is ready.
- `AgentMesh`: `WF(Thread \/ Breaks)`, because every wait of the thread has a
  timeout (`websocket-client` closes within three seconds), and `WF` of a producer
  inside `enqueue_event`. The peer breaks the connection `MaxDrops` times at most;
  without that bound nothing reconnects.
- The other modules state no liveness: a strategy and an evaluation are walks
  without waits, and nothing in promotion has to happen.

`CandleCloses`, `Midnight`, quotes, alerts and operators are never assumed to act.

## 4. Proofs

All theorems hold for every value of the constants that satisfies the module's
named assumption; only `MirroredHolds` asks for more, see there.

**`Trades_proofs`, `Execution`** (assumption `ExecutionAssumption`: a finite set of
tickets, a positive limit, one of two backends, any set and number of faults).

- `TypeCorrect`: `TypeOK` is inductive once it says that positions and history
  hold issued tickets only.
- `ImplementsLedger`: each step of `Execution` is a step of `TradeLedger` or
  leaves the table alone. The point of the argument is `Settled`: a trade that
  is settled from a stale list is looked at again before the write, so a record
  that was flagged meanwhile stays flagged. A record is inserted only for a
  ticket not issued before, hence the strengthening `Known` (a record's ticket
  has been issued).
- `LimitHolds` (`LimitInv`, a part of `TableInv`) is proved from the abstract ledger: `Open` raises the count by
  one below the limit, `Leave` lowers it.
- `OrdersReconciled` rests on `GateInv`: an armed process is connected and has
  no startup issues, in particular because passes after the startup never add
  one.
- `ClosedTradesAreGone`, from `GoneInv`: what the settlement queue names has a
  deal in the history; a closing deal means that the position has left the broker,
  and it never returns, tickets being issued once; any other is an opening deal.
- `ReviewedTradesAreGone`, for `"link" \notin Faults`, and `PositionsAreCovered`
  from `SeenInv` and `ReviewInv`: as long as the link has not failed, the snapshot of
  a suspended pass was taken from a broker that answered, so what it misses is gone,
  and stays gone.
- `TableHolds` (`TableInv`, for `"link" \notin Faults`) and `PositionsHold`
  (`PositionsInv`, without a hypothesis) put these together.

**`RiskGuards_proofs`** (`RiskGuardsAssumption`: any actors, sessions, events,
providers, limits and lot bounds). `SwitchHolds` is about `KillSwitch` alone:
a caller that has lost the first insert tries again, and by then there is a row,
so `"insert"` with one try left implies that the row exists. `RiskInv` adds to
it that the loop is in the switch's code exactly while it is in phase `switch`
(`LoopReads`); that whoever does not remember the switch as on has a moment to
show at which it was not (`Witnessed`); that the events of the providers that
answered are known (`NewsKnown`); and that what an approval was based on still
holds (`Judged`), because nothing moves the clock, the news or the table in
between. From it `SwitchIsRespected` (`SwitchRespected`), `QuietHolds` (`Quiet`;
the first session that is on exists by well-foundedness of the indices) and
`SizeHolds` (`SizedToRisk`). Its arithmetic is in lemmas: the floored quotient, or
one less, is paid for by the budget (`WholeStepsPaid`), rounding moves a volume by
half a hundredth (`RoundedNear`) and leaves whole hundredths alone, so the slack is
zero for lot steps of whole hundredths (`Sized`, `VolumeSized`).

`LateDisarms` (`OnlyLateDisarms`) needs `LateKnown`: while the switch is on,
everybody on the way to re-arm it is in `late`. Such a reader set out when the
switch had lapsed, and the toggle that armed it since has put everyone on that way
into `late` (`WriteOvertakes`, `LateStep`).

**`Proposals_proofs`** (any proposals, strategies, actors and faults).
`ProposalsInv` separates the two sides: the daily job works on proposals that
were not shown to anyone yet, and an approver on one that was; so neither step
disturbs what the other has read. For approvers it says what a claim holds
(`Held`), and that a proposal two of them never had at once has one at most, and
none once it is approved (`Alone`). Versions stay dense because the next number
is computed in the session that takes it; the count of a set grows by one with a
row that was not in it. `DeploymentHolds` (`DeploymentInv`) follows;
`HumanGateHolds` (`HumanGate`) is the action property from the same steps.

**`SignalPipeline_proofs`** (any strategies, signals, candles and restarts).
`PipelineInv`: no two signals of one life are of the same match (`Distinct`),
which is stronger than the property about orders and needs `Remembered`:
`_last_emitted` is never behind a signal of this life, and no candle is from the
future. `Room` and `Quiet` say what the holder of the loop may rely on: there is
room for its order, and no order has gone out since the switch was armed.
`AddedKeeps` is about any list of fresh signals appended at once, a collection
or an alert; `Restated` about steps that move signals on. From it `OrdersHold`
(`OrderInv`).

**`Outgoing_proofs`, `AgentMesh`** (any events, outbox, commands, drops and last
exponent). `IMesh` says
where an event can be: the thread has one in hand exactly while it sends
(`InHand`), and one that a producer still carries is nowhere else (`Sole`). So an
event is new to the channel when it enters the outbox, also after `MakeRoom`.
`Booked` counts a broken connection before the event it takes, but for the one
connection that `stop()` breaks, and `Counted` keeps the failures in a row below
the one that ends the thread while there is a thread. From it `MeshHolds` (`MeshInv`) and
`MeshImplementsChannel` (`ChannelSpec`): a broken connection drops the first
event of the abstract channel, a full outbox its first or, when one is in the
thread's hand, its second.

**`Outgoing_proofs`, `Notifier`** (any number of messages, a queue and retries
of at least one). `IQueue` is about what is under way, in the queue or with the
worker: each such message is there once, was sent, has an attempt left and has
not reached the chat; whoever waits for a message has it under way; the worker
holds one exactly while it posts or cools down. That an attempt is left is what
makes the order inductive: a message that is queued again has been limited, so
the order no longer speaks of it. `Orderly` is the property of a queue that
appending (`MayFollowIn`), taking and dropping the oldest keep; the lemmas about
it are pure sequences. From it `QueueHolds` (`QueueInv`) and `NeverPostedAgain`
(`PostedOnce`).

**`Trades_proofs`, `Backtest`** (any bars with positive prices and the open and
close within high and low, samples of any length, any distances). The properties
speak of a trade in terms of the bars, so `IWalk` says the same of a walk that
has not ended: at bar `at` no earlier bar met an exit, and breakeven and stop are
what the definition gives for the bars seen so far (`WalkIn`). The rules and the
candles are parameters of `WalkIn` and `TradeIn`, because a step also reveals a
bar: a trade that is over has seen all its bars, so nothing about it changes
(`SeenTo`). A trendline trade has no such definition; of it the invariant keeps
that its stop is never worse than the first one. From it `SimulationHolds`
(`SimulationInv`).

**`Strategies_proofs`, `IctTracker`** (one walk; any prices, levels and limits).
`AttemptInv` is inductive as it stands. The argument is `Charge`: the attempts of
a level and the one its active setup will cost never exceed the limit, and each
of expiry, invalidation, signal and replacement turns the second into the first.
That a candle which sweeps several levels picks one of them (`NearestExists`) is
proved by well-foundedness, since `Worse` is a strict order on finitely many
prices.

**`Strategies_proofs`, `Indicators`, `TrendFollowing`, `TrendConfluence`** (any
candles, periods, factors and windows; `IndicatorsAssumption`,
`TrendFollowingAssumption`, `TrendConfluenceAssumption`). The indicators are
recursive functions of a history. The prover cannot instantiate the library's
induction over an operator, so `UpTo` derives induction over the numbers `a..b`,
for a set instead of a predicate, from well-foundedness, and `Recursion` the
existence and the equation of a function defined by steps from `a` to `b`.
`AtrDefined`, `EmaDefined`, `BreaksWalk` and the lemmas about `SumFunction`
instantiate it.

- `CacheHolds` (`CacheInv`): the invariant is `CacheDrawn`, what the cache keeps
  under an hour was drawn from candles that end with it, and so was the answer.
  It survives a new hour because the candles before it stay. `CacheInv` itself is
  not inductive: that a line seen again is tighter follows from both results
  being drawn from the same history (`LaterIsTighter`), a line being a function
  of two swings and its slope having the sign its type demands.
- `SignalsSound` (`SignalSound`): a long needs a close above the last support and
  the last resistance, a short one below both, and no close is on two sides of a
  line (`OneSide`); the stop lies beyond the safety line by the buffer
  (`StopBehind`).
- `WalksAgree` (`BreaksAgree`): the walk of `detect_bos` keeps a reference level
  of its own and moves it with each break, `detect_opposite_bos` compares with the
  confirmed swings. `SideKept` is the invariant of one side of the walk: the
  reference is at or beyond every swing seen, the last close has not passed it,
  and it is a swing's level as long as nothing was broken. With `Past`, the
  comparison of a side, bulls and bears are one proof. No candle breaks both
  ways, because the close before it had passed neither reference
  (`ReferredBehind`).
- `NoLookahead` (`HistoryFixed`): every function agrees on a history and its
  extensions, in the part that was seen (`SwingsStay`, `BreaksStay`,
  `BlocksStay`, `EmaStays`, `RsiStays`, `JustifiedStays`).
- `LinesSettle` (`LinesSettled`): whether a line between two consecutive swings is
  valid is a matter of the candles between them and of the band around it. Later
  candles change neither the swings nor those candles, so a line that one band
  confirms and another does not tells which is wider (`ValidGrows`).
- `MirroredHolds` (`Mirrored`): `Reflects(c, d)` says that `d` is `c` upside down,
  and then `c` is `d` upside down, so one inclusion of each equation is enough.
  Every function has its lemma, in the order in which the code calls them: the
  true range and the ATR stay (`AtrReflected`), highs become lows
  (`SwingsReflected`), the walk of `detect_bos` has its two references exchanged
  and negated at every candle (`WalkedReflected`, from it `BreaksReflected`), then
  blocks, lines and exits (`BlocksReflected`, `BestLinesReflected`,
  `SignalsReflected`). The averages are negated (`EmaReflected`), rises are falls
  (`ChangesReflected`), so the RSI lies above a limit where it was below the
  opposite one, except where nothing has moved: there the code calls it 100 both
  ways. That no signal comes of it is the argument of `JustifiedReflected`: a
  smoothed sum of zero means that the price has never moved (`SmoothedKeeps`), and
  averages of such a price do not cross (`CrossMoves`).

`MirroredHolds` has three hypotheses, and the code prefers a side without each of
them: with a `body_mult` of 0 a candle whose close is its open counts as a fall
(`indicators.py:216`), with an `rsi_period` of 1 two equal closes are an RSI of 100
after any movement (`indicators.py:84`), and `order.direction` may allow one side
only (`config.py:213`). The defaults are 1.5, 14 and `both`.

**`Promotion_proofs`** (any set of callers). The inductive invariant
`PromotionInv` is the conjunction of `TypeOK`; `Decided` (a caller's move is
allowed, and it starts at the present stage unless the caller is late);
`Guarded` (the same of the order path: what it saw is still so unless it is
late); `Audited` (the newest audit row is a legal move); and `AuditTellsStage`
(no late caller has committed: the row names the stage). From it follow
`AuditHolds` (`AuditInv`, from `AuditIsLegal` and `AuditNamesStage`),
`AuditIsATrail` (`AuditTrail`, from `StageMovesAudited` and `AuditRowsChain`),
`OnlyOvertakenCallersSkip` and `OrdersAreApproved`. What makes it inductive is
that a commit adds every other busy caller to `late`, so an up-to-date caller's
reading still holds.

**`Management_proofs`** (assumption `ManagementAssumption`: positive distances
and price range, any spread, buffer, breakeven multiple and number of faults).
The inductive invariant is `TypeOK /\ Rest`. `Rest` adds two facts to the four
properties it contains: `StopRange` (the recorded stop is never worse than the
first one; under the ICT rules it does not pass the entry, and it is the entry
once breakeven is noted) and `Bookkeeping` (no deal while the broker holds the
position; a pass ends when it has settled the record). Without `StopRange` the
bound on a loss is not inductive: the stop of the next move is computed from the
record, not from the broker's stop. Three lemmas cover all actions: `QuietStep`
(only the market or the phase changes, or a deal is settled), `ClosingStep` and
`MovingStep`. From it follow `StopProtects` (`StopInv`), `RecordsAgree`
(`AccountAgrees`) and `OnlyTightens` (`StopOnlyTightens`): the broker's stop is
loosened only by a pass whose table missed an earlier move.

Only model-checked:

- every liveness property (`GoneIsResolved`, `Announced`, `SignalAnswered`,
  `MeshHears`, `KeepsTelling`, `StopEnds`, `ExitsClose`, the temporal part of
  `DecidedOrDropped`): the prover has no fairness;
- `DayLossBounded`: the loss of a day is a sum over a set of trades, which is a
  fold, and what a fold yields is out of the prover's reach;
- the property that fails.

## 5. Where the code and its own words disagree

`pipeline_frozen` is a run that TLC refutes: `_store_candles` ignores a conflict
(`data/collector.py:134`), so the row of a candle first seen while forming never
gets its closing values, and strategies judge the frozen ones.
`data/collector.py:3` says "upserts".

The others were met while modelling. No run keeps them; where a model can show
one, the change to it is named.

Execution and broker

- `_report_orphan` enters a ticket in `_reported_orphans`
  (`execution/service.py:356`) before the batched alert goes out. If a write in
  between raises, `tick` swallows it and no later pass alerts that ticket, though
  the docstring at line 287 says it does: `OrphanAnnounced` fails with `"db"`
  among the faults. `Announced` therefore leaves out what is in `lost`.
- `closed_trades_since` is to "return ClosedTrade records for known tickets no
  longer open" (`execution/broker.py:103`), and the MT5 adapter returns one for any
  ticket of which the history lists a deal, also the one that opened the position
  (lines 263-278 compare `deal.position` and never `deal.entry`). When it is listed,
  the first tick settles the record of a live position at its entry price, the
  limit no longer counts it, nothing manages its stop, and the next tick reports
  it as an orphan. `exec_mt5` contains these behaviours (`EntryListed`):
  `ClosedIsGone` fails there without `t \in entries`, and no fault is needed.
- A failed `positions_get` reads as an empty account (`broker.py:186`), so live
  positions are flagged for review: `ReviewedIsGone` fails with the fault
  `"link"`, which is why `exec_mt5` does not list it.
- Two `IntegrityError`s in a row end `_on_signal_approved` in `trade.opened`
  with no ticket, and each try has placed an order (`execution/service.py:231`).
- After the breakeven move the risk is 0 and `execution/service.py:445` passes
  the position over for good: the exit on an opposite break of structure, which
  the backtest simulates, is never tried again (`BreakCloses` without `record.be`).
- A terminal fills a break-of-structure or safety-line exit at the market; the
  record gets the candle's close (`AccountAgrees` without `Paper`).
- After a lost write the trailing rule starts from the older stop and may loosen
  the broker's (`StopOnlyTightens` without its second conjunct).
- `_manage_trendline_positions` makes a new strategy object for every pass and
  reads the candles from the provider (`execution/service.py:557`), while the
  engine reads the database: the line that ends a position need not be one the
  strategy has seen.
- `strategy/trend_confluence.py:14` says a trade exits "when a candle closes
  beyond" its safety line; `execution/service.py:506` compares the newest stored
  M5 row, which may still be forming.
- With 10 to 13 M5 candles since the entry, `atr` assigns beyond its array
  (`strategy/indicators.py:107`) and `_opposite_bos_close` raises, since its own
  guard is 10 candles (`execution/service.py:602`): the monitor's pass ends for
  every position. `_lines_as_of` raises with 8 to 13 rows (`AtrRaises`).
- `trade.pre_trade_confidence` is always NULL: `signal.approved` carries no
  `assessment` (`risk/service.py:80`, `execution/service.py:224`).

Kill switch, promotion, learning

- A reader that saw an expired switch turns it off in another session
  (`risk/service.py:225`) and does not look again, so it turns off one a person
  has armed in between. `src/config/risk.yaml:48` has only manual and scheduled
  re-arms: `OnlyLateDisarms` fails without `late`.
- A demotion between the check and the write of a promotion makes the stage jump
  forward by two, against `promotion/service.py:7` (`OnlyLateSkips` without
  `late`); overlapping transitions break the audit chain, and an order can follow
  a stage that is no longer true (`promotion/service.py:120`: a demotion "blocks"
  it).
- `_passes_paper_gate` does not exist; a proposal that backtests stays in
  "backtesting" and the rest of its batch in "proposed", against
  `src/README.md:140`. `services/hermes/service.py:314` stops every daily
  analysis before that.
- A proposal can be approved twice by two callers at once (`ApprovedOnce`
  without `raced`).
- `approve_proposal` accepts "live" for a proposal that was never approved for
  paper, where `src/README.md:35-36` has proposals flow through paper first.

Risk guards

- A signal of the trendline strategy has no target (`strategy/trend_confluence.py:232`),
  and `risk/service.py:174` rejects a signal without one: none is ever ordered.
- `_today_pnl_percent` "[returns] today's realized+unrealized P&L as % of
  starting balance (approx)" (`risk/service.py:283`). It sums what was closed
  today and divides by the present equity, open positions included.
- The equity is read twice. When the first read fails, the loss of the day counts
  as 0 percent and the second may succeed, so a day may lose one trade more than
  its limit allows for every failed reading: `DayLossBounded` without `blind`.
- `_check_trading_criteria` returns no reason at once for a signal without a price
  and for a symbol the mapper does not know (`risk/service.py:159-166`), so a signal
  without a target passes, if its symbol is unknown.
- The lot step is divided as a float and the result rounded to hundredths
  (`risk/service.py:339-342`): a volume may be a step smaller than the risk pays for,
  and with a lot step finer than 0.01 the rounding may take the stop beyond the risk,
  by half a hundredth of a lot (`SizedToRisk` without `slack`).
- `session_allows` is said to exclude "any session's pause window"
  (`core/config.py:58`); the first session that is on decides, and the pause of a
  later one that is on as well is not looked at (`Quiet` without its second part).
- `max_total_drawdown_percent`, "kill-switch level (halts all trading)"
  (`src/config/risk.yaml:31`), is read by nothing.
- Sizing takes `sizing.contract_size` for every symbol (`risk/service.py:321`),
  where `core/symbols.py:8` wants it symbol-aware.

Signals, strategies, backtest

- A signal may be ordered long after its candle (`strategy/engine.py:66-69`
  speaks of stale setups; the check is at emission only).
- `run_backtest` sets `open_trade` after a trade has been closed
  (`backtest/engine.py:232`) and never clears it, so a backtest has one trade at
  most. Line 3 says "Simulates entries from a strategy's signals", the comment at
  119 "single position at a time".
- An entry that opens beyond its stop is booked as a gain at a price it never had
  (`backtest/engine.py:133`), and the clip of a break-of-structure exit at
  breakeven can never act: such a bar has met the stop (`BreakExit`).
- A setup confirmed on the candle of its own sweep uses up an attempt and can
  never give a signal, because targets count from the next candle on
  (`strategy/ict.py:500`). With both biases aligned this is every setup without a
  block or a trendline: its edge is the swept level.
- Attempts are kept by price (`strategy/ict.py:286`): an "equal" level whose
  cluster takes in another swing has a new average, and its attempts again.
- `session_allows` and `_session_name` treat a session's pause differently.
- The header of `strategy/trend_confluence.py:11` speaks of the *nearest* line; the
  code takes the one established last (`LastLine`).
- An answer from `_line_cache` depends on the window that was loaded when the hour
  was first asked about; a restart may give another one, because lines need the mean ATR
  of the window (`AnswersCurrent` has to leave `first` open).
- A line appears or vanishes in hindsight when the mean ATR moves, by which its
  tolerance is measured (`LinesSettled` says so exactly), though nothing about
  its own candles has changed.
- The first RSI value is computed and not stored (`strategy/indicators.py:79`),
  so the RSI starts one candle late (`HasRsi`).

Notifications and mesh

- An event is popped before it is sent (`agent_mesh/client.py:165`); the comment
  at line 85 promises "nothing is lost across a brief drop". `OneLostPerDrop` is
  what holds.
- The backoff is computed in the `except` branch as a float's power before it is
  capped (`agent_mesh/client.py:208`, 345-347): with the default factor 2.0 the 1025th
  failure in a row, most of a day without the core, raises `OverflowError` out of
  the handler that is to catch "transport/handler failures" (line 204), and the
  thread ends. `_running` stays set, so `start()` does nothing and `enqueue_event` goes on
  accepting events that nobody sends: `Reconnects` fails without its last disjunct.
- "connected" is whether a session id is known: it is FALSE throughout a session for
  which the core sends none (`agent_mesh/client.py:317`, default `""` in
  `protocol.py:203`), and TRUE while the socket of a broken connection is being
  closed (lines 376-378). `SessionIsLive` holds in one direction only.
- "Impossible after get" (`agent_mesh/client.py:157`) is possible: the other
  producer takes the room, and the event is refused.
- A critical alert is dropped by later, lesser ones when the Telegram queue is
  full, and given up after `max_retries` rate limits.
- `publish_nowait` from the mesh thread drops async handlers
  (`core/events.py:135`), so `strategy.promoted` of a remote operator never
  reaches Telegram.
- `_on_trade_closed` (`notifications/service.py:149`) reads `pnl_r`, which
  `ClosedTrade` lacks: the notification of every close raises and is swallowed.
- A news collection in which every provider failed replaces the known events by
  none (`news/service.py:53`), which ends a blackout early.

## 6. Not modelled

- **Analytics** (`services/analytics/`) and the metrics of backtests: sums, means
  and ratios over closed trades, without state between calls; no order of events can
  disturb them. Unit tests reach them.
- **Status export, logging, the web dashboard**: output.
- **Parsing and clients**: market-data and news providers, the LLM clients and
  their prompts, Telegram and MetaTrader calls, configuration files. What they return is a free choice in the modules
  that use it, failure included.
- **Database engine and migrations**: sessions are atomic steps; what two sessions
  of different backends can do to each other is modelled where it matters
  (`KillSwitch`, `Promotion`, `Proposals`).
- **Command line and agent mesh handlers**: their commands are the actors of
  `RiskGuards`, `Promotion` and `Proposals`; argument parsing, authentication and
  telemetry are not modelled.
- **The liquidity of the H1 snapshot** (`cluster_equal_levels`, session levels):
  `IctTracker` lets it be any set of levels at every candle, which covers what they
  compute and more.
- **Scheduler**: jobs are actions that may overlap in the way the code lets them
  (`max_instances`), not a model of APScheduler.

Three hazards in `PROJECT.json` have no property. The age of a signal when it is
ordered (`strategy/engine.py:66`) has no bound in the code, so every property
would fail; the same is true of `open_trade` (`backtest/engine.py:232`), of which
`SimulationInv` shows only that the one trade is right, and of the index error of
`atr` (`strategy/indicators.py:107`), which the models contain as a raise.
