----------------------------- MODULE Management -----------------------------
(***************************************************************************)
(* One open position under the rules of its strategy: the ICT rules (stop  *)
(* to breakeven at a multiple of the risk, exit on an opposite break of    *)
(* structure) or the trendline rules (exit when a candle closes beyond the *)
(* safety line, else trail the stop along it).  Module Execution has many  *)
(* positions and no prices; this one has a single position and its prices. *)
(*                                                                         *)
(* Prices are whole cents, so rounding to two decimals changes nothing.    *)
(* A monitor pass is three steps.  Between them other positions' settle-   *)
(* ments give the loop up: quotes and candles arrive there.                *)
(***************************************************************************)
EXTENDS Integers

CONSTANTS
  MaxPrice,       \* quotes are in 1..MaxPrice
  Spread,         \* ask - bid
  Entry,          \* the price of the fill
  Risk, Reward,   \* distance of the first stop and of the target
  BreakevenAtR,   \* ict.management.breakeven_at_r; 0 switches the rule off
  Buffer,         \* trendline.sl_buffer_atr times the ATR
  MaxFaults       \* bound on lost writes and refused requests

ASSUME ManagementAssumption ==
  /\ {Risk, Reward, MaxPrice} \subseteq Nat \ {0}
  /\ {Spread, BreakevenAtR, Buffer, MaxFaults} \subseteq Nat
  /\ Entry \in 1..MaxPrice

VARIABLES
  setup,      \* backend, rules and direction; never changes
  bid,        \* the quote
  candle,     \* close of the newest M5 candle
  line,       \* safety_value, or None
  broken,     \* close of the first candle that broke the structure, or None
  position,   \* whether the broker holds the position
  stop,       \* its stop
  deal,       \* how the broker closed it
  record,     \* the row: status, sl, be_triggered, and how it was closed
  phase,      \* how far the monitor's pass is
  faults

market == <<bid, candle, line, broken>>
broker == <<position, stop, deal>>
vars == <<setup, market, broker, record, phase, faults>>

None == 0
Prices == 1..MaxPrice
Reasons == {"none", "tp", "sl", "manual", "bos", "safety_line"}
Close(reason, price) == [reason |-> reason, price |-> price]
Closes == [reason : Reasons, price : Int]
NotClosed == Close("none", None)

Setups == [backend : {"paper", "mt5"}, rules : {"ict", "trendline"},
           direction : {"long", "short"}]
Long == setup.direction = "long"
Paper == setup.backend = "paper"

Ask == bid + Spread
ExitQuote == IF Long THEN bid ELSE Ask

\* Price a is worse for the position than price b.
Worse(a, b) == IF Long THEN a < b ELSE a > b

\* What n points in the position's favour make of price p.
Ahead(p, n) == IF Long THEN p + n ELSE p - n

Target == Ahead(Entry, Reward)

Init ==
  /\ setup \in Setups
  /\ bid = Entry /\ candle = Entry /\ line = None /\ broken = None
  /\ position = "open" /\ stop = Ahead(Entry, -Risk) /\ deal = NotClosed
  /\ record = [status |-> "open", sl |-> stop, be |-> FALSE, close |-> NotClosed]
  /\ phase = "idle" /\ faults = 0

(***************************************************************************)
(* The market, until the trade is over.                                    *)
(***************************************************************************)
Quote ==
  /\ phase # "bos" /\ record.status = "open"
  /\ bid' \in {bid - 1, bid + 1} \cap Prices
  /\ UNCHANGED <<setup, candle, line, broken, broker, record, phase, faults>>

\* A candle closes: it may move the line, or break the structure for the
\* first time (detect_opposite_bos returns the first break since the entry).
CandleCloses ==
  /\ phase # "bos" /\ record.status = "open"
  /\ candle' = bid
  /\ IF setup.rules = "trendline"
     THEN line' \in Prices \cup {None} /\ UNCHANGED broken
     ELSE /\ broken' \in IF broken = None THEN {None, bid} ELSE {broken}
          /\ UNCHANGED line
  /\ UNCHANGED <<setup, bid, broker, record, phase, faults>>

HitsTarget == IF Long THEN Ask >= Target ELSE bid <= Target
HitsStop == ~Worse(stop, ExitQuote)

\* The terminal closes a position by itself, or a person does.
ServerCloses ==
  /\ ~Paper /\ position = "open" /\ position' = "closed"
  /\ deal' = Close(IF HitsStop THEN "sl" ELSE IF ~Worse(ExitQuote, Target) THEN "tp"
                   ELSE "manual", ExitQuote)
  /\ UNCHANGED <<setup, market, stop, record, phase, faults>>

(***************************************************************************)
(* The monitor's pass.                                                     *)
(***************************************************************************)
Settled(r, d) == [r EXCEPT !.status = "closed", !.close = d]

MayFail == faults < MaxFaults /\ faults' = faults + 1

\* A session that writes r; when it fails, the tick is over.
Write(r, next) ==
  \/ record' = r /\ phase' = next /\ UNCHANGED faults
  \/ MayFail /\ phase' = "idle" /\ UNCHANGED record

\* _reconcile_with_broker: a record without a position gets its deal.
Reconcile ==
  /\ phase = "idle" /\ record.status = "open"
  /\ IF position = "closed" THEN Write(Settled(record, deal), "idle")
                            ELSE phase' = "exits" /\ UNCHANGED <<record, faults>>
  /\ UNCHANGED <<setup, market, broker>>

\* check_exits, the target first; closed_trades_since on MT5.
Exits ==
  /\ phase = "exits"
  /\ IF Paper /\ position = "open" /\ (HitsTarget \/ HitsStop)
     THEN /\ position' = "closed" /\ UNCHANGED stop
          /\ deal' = IF HitsTarget THEN Close("tp", Target) ELSE Close("sl", stop)
          /\ Write(Settled(record, deal'), "idle")
     ELSE /\ UNCHANGED broker
          /\ IF position = "closed" THEN Write(Settled(record, deal), "idle")
             ELSE phase' = "manage" /\ UNCHANGED <<record, faults>>
  /\ UNCHANGED <<setup, market>>

PassOver == phase' = "idle" /\ UNCHANGED <<broker, record, faults>>

\* mutated: the row gets the quote of the moment
CloseAndSettleAtQuote(r, reason, price) ==
  /\ position' = "closed" /\ UNCHANGED stop
  /\ deal' = IF Paper THEN Close(reason, price) ELSE Close("manual", ExitQuote)
  /\ Write(Settled(r, Close(reason, ExitQuote)), "idle")

\* close_position_trade or close_position, and the settlement, which records
\* the price the monitor had in mind; a terminal fills at the market.
CloseAndSettle(r, reason, price) ==
  /\ position' = "closed" /\ UNCHANGED stop
  /\ deal' = IF Paper THEN Close(reason, price) ELSE Close("manual", ExitQuote)
  /\ Write(Settled(r, Close(reason, price)), "idle")

\* The terminal refuses a request.
Refused(next) == ~Paper /\ MayFail /\ phase' = next /\ UNCHANGED <<broker, record>>

\* mutated: the answer is not looked at
MoveStopBlind(r, next) ==
  \/ stop' = r.sl /\ UNCHANGED <<position, deal>> /\ Write(r, next)
  \/ ~Paper /\ MayFail /\ phase' = next /\ record' = r /\ UNCHANGED broker

\* modify_position, and the session that records it.
MoveStop(r, next) ==
  \/ stop' = r.sl /\ UNCHANGED <<position, deal>> /\ Write(r, next)
  \/ Refused(next)

RiskLeft == IF record.sl < Entry THEN Entry - record.sl ELSE record.sl - Entry

\* The profit at the middle of the quote, in multiples of the risk.
BreakevenDue ==
  /\ BreakevenAtR # 0 /\ ~record.be
  /\ Ahead(0, 2 * bid + Spread - 2 * Entry) >= 2 * BreakevenAtR * RiskLeft

AtBreakeven == [record EXCEPT !.sl = Entry, !.be = TRUE]

\* _manage_ict_positions.  Without a risk nothing is managed: after the
\* breakeven move this position is passed over for good.
Breakeven ==
  /\ phase = "manage" /\ setup.rules = "ict"
  /\ IF position = "closed" \/ RiskLeft = 0 THEN PassOver
     ELSE IF BreakevenDue THEN MoveStop(AtBreakeven, "bos")
     ELSE phase' = "bos" /\ UNCHANGED <<broker, record, faults>>
  /\ UNCHANGED <<setup, market>>

\* mutated: a position in profit is left alone
StructureBrokeLosing == broken # None /\ Worse(broken, Entry)

StructureBroke == broken # None

\* No await separates it from Breakeven; only the terminal can come between.
OppositeBos ==
  /\ phase = "bos"
  /\ IF ~StructureBroke \/ position = "closed" THEN PassOver
     ELSE CloseAndSettle(record, "bos", broken) \/ Refused("idle")
  /\ UNCHANGED <<setup, market>>

\* mutated: the other side of the line
ClosedBeyondFlipped == Worse(line, candle)

ClosedBeyond == Worse(candle, line)

\* mutated: the stop follows the line both ways
TrailsAlways(candidate) == candidate # record.sl

Trails(candidate) == Worse(record.sl, candidate)

\* _manage_trendline_positions
SafetyLine ==
  LET candidate == Ahead(line, -Buffer)
  IN /\ phase = "manage" /\ setup.rules = "trendline"
     /\ IF position = "closed" \/ line = None THEN PassOver
        ELSE IF ClosedBeyond
             THEN CloseAndSettle(record, "safety_line", candle) \/ Refused("idle")
        ELSE IF Trails(candidate)
             THEN MoveStop([record EXCEPT !.sl = candidate], "idle")
        ELSE PassOver
     /\ UNCHANGED <<setup, market>>

Monitor == Reconcile \/ Exits \/ Breakeven \/ OppositeBos \/ SafetyLine

Next == Quote \/ CandleCloses \/ ServerCloses \/ Monitor

Spec == Init /\ [][Next]_vars

\* The monitor is an interval job; refusals and lost writes are bounded.
FairSpec == Spec /\ WF_vars(Monitor)

-----------------------------------------------------------------------------
TypeOK ==
  /\ setup \in Setups /\ bid \in Prices /\ candle \in Prices
  /\ line \in Prices \cup {None} /\ broken \in Prices \cup {None}
  /\ position \in {"open", "closed"} /\ stop \in Int
  /\ deal \in Closes
  /\ record \in [status : {"open", "closed"}, sl : Int, be : BOOLEAN, close : Closes]
  /\ phase \in {"idle", "exits", "manage", "bos"}
  /\ faults \in 0..MaxFaults

\* "Never against the position": the broker's stop moves against the position
\* only if an earlier move was not recorded, so that the rules start from the
\* older stop in the table.
StopOnlyTightens ==
  [][position' = "open" /\ Worse(stop', stop) => record.sl # stop]_vars

\* Whatever requests are refused and writes lost, a position is protected at
\* least by the stop its record names.
RecordedStopHolds == position = "open" => ~Worse(stop, record.sl)

\* A position whose record says "breakeven" is not stopped out at a loss, and
\* a paper account pays exactly what the record says.
BreakevenHolds ==
  record.be /\ deal.reason = "sl" /\ Paper => ~Worse(deal.price, Entry)

\* What a paper account paid is what the record says, whichever pass, exit
\* rule or reconciliation wrote it; nothing open is recorded as closed.
AccountAgrees ==
  record.status = "closed" =>
    position = "closed" /\ (Paper => record.close = deal)

\* A stop hit before breakeven was due costs the risk taken, no more, though
\* the stop has been trailed or its move has been lost in between.
LossBounded ==
  Paper /\ deal.reason = "sl" => ~Worse(deal.price, Ahead(Entry, -Risk))

\* The stop protects what it was set to protect.
StopInv == TypeOK /\ RecordedStopHolds /\ BreakevenHolds /\ LossBounded

\* An opposite break of structure ends the position, unless it is at
\* breakeven by then.
BreakCloses ==
  (broken # None /\ record.status = "open") ~> (record.status = "closed" \/ record.be)

BeyondLine == line # None /\ Worse(candle, line)

\* A candle beyond the safety line ends the position, unless a later candle
\* takes it back.
LineCloses ==
  (BeyondLine /\ record.status = "open") ~> (record.status = "closed" \/ ~BeyondLine)

\* Neither early exit is forgotten, whatever failed before.
ExitsClose == BreakCloses /\ LineCloses

=============================================================================
