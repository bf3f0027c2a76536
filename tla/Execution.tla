----------------------------- MODULE Execution -----------------------------
(***************************************************************************)
(* mercury.services.execution: the execution service, the broker adapter   *)
(* it drives, and the trades table.                                        *)
(*                                                                         *)
(* The actors are the event loop (approved signals and the monitor job,    *)
(* which interleave at every await), the broker (MT5 closes positions on   *)
(* its own), and the faults: the process dies, a commit fails after the    *)
(* order was filled, the terminal drops its link, a database error aborts  *)
(* a monitor pass.  A TradeRecord and a broker position with the same      *)
(* ticket describe one trade; nothing but reconciliation ties them.        *)
(***************************************************************************)
EXTENDS Naturals, FiniteSets

CONSTANTS
  Tickets,    \* tickets the broker may issue, each at most once
  MaxOpen,    \* risk.guards.max_open_positions
  Backend,    \* "paper" (positions live in process memory) or "mt5"
  Faults,     \* which faults can happen
  MaxFaults   \* bound on the number of faults in a behaviour

ASSUME ExecutionAssumption ==
  /\ IsFiniteSet(Tickets)
  /\ MaxOpen \in Nat \ {0}     \* the startup gate refuses 0 (_check_risk_config)
  /\ Backend \in {"paper", "mt5"}
  /\ Faults \subseteq {"crash", "commit", "link", "db"}
  /\ MaxFaults \in Nat

VARIABLES
  record,     \* the trades table: TradeRecord.status by ticket
  position,   \* tickets open at the broker
  deals,      \* tickets whose closing deal is in the broker's history
  entries,    \* tickets whose opening deal the history lists for them
  issued,     \* tickets the broker has handed out
  link,       \* whether the terminal answers
  running,    \* the process is up
  connected,  \* BrokerAdapter._connected
  armed,      \* _trading_allowed
  reported,   \* _reported_orphans
  issues,     \* _startup_reconcile_issues
  phase,      \* where the monitor (or the startup pass) is suspended
  queue,      \* tickets its current loop has still to visit
  orphans,    \* local orphan_tickets of the reconcile pass in progress
  details,    \* local orphan_details + missing_details
  announced,  \* tickets an operator was told about (history)
  lost,       \* tickets whose alert a failed pass has swallowed (history)
  faults      \* faults so far

broker == <<position, deals, entries, issued>>
service == <<running, connected, armed, reported, issues>>
monitor == <<phase, queue, orphans, details>>
vars == <<record, broker, link, service, monitor, announced, lost, faults>>

Status == {"none", "open", "closed", "manual_review"}
Booting == {"boot", "bootMissing", "gate"}
Phases == Booting \cup {"idle", "missing", "exits", "settle", "ict", "trend"}

(***************************************************************************)
(* Reads and small writes.  A definition whose comment says "mutated" is a *)
(* plausible slip in the definition that follows it; no action uses it.    *)
(***************************************************************************)
OpenRecords == {t \in Tickets : record[t] = "open"}

\* get_positions: a disconnected adapter and a failed positions_get both
\* answer with the empty list.
BrokerView == IF connected /\ link THEN position ELSE {}

\* mutated: every ticket asked for is taken to be closed
ClosesAll(S) == S

\* closed_trades_since takes any deal of the position for its close, the one
\* that opened it included, whether the position is still there or not.
Closes(S) == IF connected /\ link THEN S \cap (deals \cup entries) ELSE {}

\* mutated: the limit is off by one
BelowLimitOff == Cardinality(OpenRecords) <= MaxOpen

\* the count of OPEN records taken under the guard-row lock
BelowLimit == Cardinality(OpenRecords) < MaxOpen

\* mutated: a second look at the record's status is forgotten
SettledBlind(S) == [t \in Tickets |-> IF t \in S THEN "closed" ELSE record[t]]

\* _settle_trade's write: only a record that is still open is closed
Settled(S) == [t \in Tickets |-> IF t \in S /\ record[t] = "open"
                                 THEN "closed" ELSE record[t]]

Fault(kind) == kind \in Faults /\ faults < MaxFaults /\ faults' = faults + 1

Init ==
  /\ record = [t \in Tickets |-> "none"]
  /\ position = {} /\ deals = {} /\ entries = {} /\ issued = {}
  /\ link = TRUE
  /\ running = FALSE /\ connected = FALSE /\ armed = TRUE
  /\ reported = {} /\ issues = {}
  /\ phase = "idle" /\ queue = {} /\ orphans = {} /\ details = {}
  /\ announced = {} /\ lost = {} /\ faults = 0

(***************************************************************************)
(* _on_signal_approved.  The checks, the order and the insert run without  *)
(* an await, so they are one step; refusals change nothing.  Startup never *)
(* yields to the loop before the gate has run, hence the phase guard.      *)
(***************************************************************************)
CanOrder(t) ==
  /\ running /\ armed /\ phase \notin Booting
  /\ BelowLimit
  /\ connected /\ link
  /\ t \notin issued

Fill(t) ==
  /\ position' = position \cup {t}
  /\ issued' = issued \cup {t}
  /\ UNCHANGED <<deals, entries>>

OrderRecorded(t) ==
  /\ CanOrder(t)
  /\ Fill(t)
  /\ record' = [record EXCEPT ![t] = "open"]
  /\ UNCHANGED <<link, service, monitor, announced, lost, faults>>

\* The order is placed inside the transaction: when the flush or the commit
\* fails the position stays and the record does not.  A reply of
\* order_send that is lost has the same effect.
OrderUnrecorded(t) ==
  /\ CanOrder(t)
  /\ Fault("commit")
  /\ Fill(t)
  /\ UNCHANGED <<record, link, service, monitor, announced, lost>>

(***************************************************************************)
(* The MT5 server.  A closing deal may reach the history after the         *)
(* position has gone, and whether the history lists the deal that opened a *)
(* position is the server's affair.  The terminal may drop and regain its  *)
(* link.                                                                   *)
(***************************************************************************)
BrokerCloses(t) ==
  /\ Backend = "mt5" /\ t \in position
  /\ position' = position \ {t}
  /\ deals' \in {deals, deals \cup {t}}
  /\ UNCHANGED <<record, entries, issued, link, service, monitor, announced, lost, faults>>

DealListed(t) ==
  /\ Backend = "mt5" /\ t \in issued \ (position \cup deals)
  /\ deals' = deals \cup {t}
  /\ UNCHANGED <<record, position, entries, issued, link, service, monitor,
                 announced, lost, faults>>

EntryListed(t) ==
  /\ Backend = "mt5" /\ t \in position \ entries
  /\ entries' = entries \cup {t}
  /\ UNCHANGED <<record, position, deals, issued, link, service, monitor,
                 announced, lost, faults>>

LinkDrops ==
  /\ Backend = "mt5" /\ link /\ Fault("link")
  /\ link' = FALSE
  /\ UNCHANGED <<record, broker, service, monitor, announced, lost>>

LinkReturns ==
  /\ ~link /\ link' = TRUE
  /\ UNCHANGED <<record, broker, service, monitor, announced, lost, faults>>

(***************************************************************************)
(* Process lifetime.  Stopping and being killed look alike: the scheduler  *)
(* is shut down without waiting, pending tasks are dropped, and a paper    *)
(* account, which is a Python object, is gone.                             *)
(***************************************************************************)
Die ==
  /\ running /\ Fault("crash")
  /\ running' = FALSE /\ connected' = FALSE /\ armed' = TRUE
  /\ reported' = {} /\ issues' = {}
  /\ phase' = "idle" /\ queue' = {} /\ orphans' = {} /\ details' = {}
  /\ IF Backend = "paper" THEN position' = {} /\ deals' = {}
                          ELSE UNCHANGED <<position, deals>>
  /\ UNCHANGED <<record, entries, issued, link, announced, lost>>

Start ==
  /\ ~running /\ running' = TRUE
  /\ connected' = link
  /\ phase' = IF link THEN "boot" ELSE "gate"
  /\ UNCHANGED <<record, broker, link, armed, reported, issues, queue, orphans,
                 details, announced, lost, faults>>

\* mutated: the gate looks at the connection only
GatePassesBlind == connected

\* StartupValidationGate: the broker and position_reconciliation checks
GatePasses == connected /\ issues = {}

\* _run_startup_validation; the other checks pass or fail freely.  The
\* checklist, with the issues in it, is sent to the operator either way.
Gate ==
  /\ phase = "gate" /\ phase' = "idle"
  /\ \E otherChecks \in BOOLEAN : armed' = (GatePasses /\ otherChecks)
  /\ announced' = announced \cup issues
  /\ UNCHANGED <<lost, record, broker, link, running, connected, reported, issues,
                 queue, orphans, details, faults>>

(***************************************************************************)
(* _reconcile_with_broker, at startup (phase boot: record_for_gate) and at *)
(* the head of every tick.                                                 *)
(***************************************************************************)
\* mutated: positions without a record are not looked for
UnknownPositionsSkips == {}

UnknownPositions == BrokerView \ OpenRecords

\* mutated: records without a position are not looked at
MissingPositionsSkips == {}

\* mutated: every open record is taken to be missing
MissingPositionsAll == OpenRecords

MissingPositions == OpenRecords \ BrokerView

BeginReconcile ==
  /\ running /\ phase \in {"boot", "idle"}
  /\ orphans' = UnknownPositions
  /\ details' = UnknownPositions \ reported
  /\ reported' = reported \cup UnknownPositions
  /\ queue' = MissingPositions
  /\ IF phase = "boot"
     THEN phase' = "bootMissing" /\ issues' = issues \cup UnknownPositions
     ELSE phase' = "missing" /\ UNCHANGED issues
  /\ UNCHANGED <<record, broker, link, running, connected, armed, announced, lost, faults>>

\* _resolve_missing_position: settle from the broker's history when it knows
\* the close, else flag a record that is still open.
ResolveMissing(t) ==
  /\ phase \in {"bootMissing", "missing"} /\ t \in queue
  /\ queue' = queue \ {t}
  /\ LET flagged == {t} \cap (OpenRecords \ Closes({t})) IN
     /\ record' = IF flagged = {} THEN Settled({t})
                  ELSE [record EXCEPT ![t] = "manual_review"]
     /\ details' = details \cup flagged
     /\ issues' = IF phase = "bootMissing" THEN issues \cup flagged ELSE issues
  /\ UNCHANGED <<broker, link, running, connected, armed, reported, phase,
                 orphans, announced, lost, faults>>

\* mutated: the summary lists the orphans and leaves the flagged records out
SummaryOrphansOnly == details \cap orphans

\* _reconciliation_summary
Summary == details

\* The one batched system.critical.  At startup the notification service has
\* not subscribed yet (it starts after this one), so nobody hears it.
EndReconcile ==
  /\ phase \in {"bootMissing", "missing"} /\ queue = {}
  /\ reported' = reported \cap orphans
  /\ IF phase = "bootMissing"
     THEN phase' = "gate" /\ UNCHANGED announced
     ELSE phase' = "exits" /\ announced' = announced \cup Summary
  /\ orphans' = {} /\ details' = {}
  /\ UNCHANGED <<lost, record, broker, link, running, connected, armed, issues, queue, faults>>

(***************************************************************************)
(* _reconcile_positions and the two management loops.                      *)
(***************************************************************************)
\* Nothing open: the tick is over.
NothingOpen ==
  /\ phase = "exits" /\ OpenRecords = {} /\ phase' = "idle"
  /\ UNCHANGED <<record, broker, link, service, queue, orphans, details, announced, lost, faults>>

\* check_exits pops every position whose TP or SL was hit
PopExits(hit) == position \ hit

\* Paper: whatever set of positions the quotes have hit, orphans included.
PaperExits(hit) ==
  /\ Backend = "paper" /\ phase = "exits" /\ OpenRecords # {}
  /\ position' = PopExits(hit)
  /\ deals' = deals \cup hit
  /\ queue' = hit /\ phase' = "settle"
  /\ UNCHANGED <<record, entries, issued, link, service, orphans, details, announced,
                 lost, faults>>

\* MT5: every open ticket the history has a deal for.
ServerExits ==
  /\ Backend = "mt5" /\ phase = "exits" /\ OpenRecords # {}
  /\ queue' = Closes(OpenRecords) /\ phase' = "settle"
  /\ UNCHANGED <<record, broker, link, service, orphans, details, announced, lost, faults>>

Settle(t) ==
  /\ phase = "settle" /\ t \in queue
  /\ queue' = queue \ {t}
  /\ record' = Settled({t})
  /\ UNCHANGED <<broker, link, service, phase, orphans, details, announced, lost, faults>>

\* The loops over the ICT and the trendline positions each start from their
\* own query of the open records.
NextLoop ==
  /\ queue = {}
  /\ \/ phase = "settle" /\ phase' = "ict" /\ queue' = OpenRecords
     \/ phase = "ict" /\ phase' = "trend" /\ queue' = OpenRecords
     \/ phase = "trend" /\ phase' = "idle" /\ UNCHANGED queue
  /\ UNCHANGED <<record, broker, link, service, orphans, details, announced, lost, faults>>

\* The record belongs to another strategy, its position is not in sight, or
\* no rule fires (a moved stop is not part of this model).
ManageKeep(t) ==
  /\ phase \in {"ict", "trend"} /\ t \in queue
  /\ queue' = queue \ {t}
  /\ UNCHANGED <<record, broker, link, service, phase, orphans, details, announced, lost, faults>>

\* An opposite BOS or a candle beyond the safety line: close at the broker.
CloseAtBroker(t) ==
  /\ phase \in {"ict", "trend"} /\ t \in queue \cap BrokerView
  /\ position' = position \ {t}
  /\ deals' = IF Backend = "paper" THEN deals \cup {t} ELSE deals
  /\ UNCHANGED <<entries, issued, link, service, orphans, details, announced, lost>>

ManageClose(t) ==
  /\ CloseAtBroker(t)
  /\ record' = Settled({t})
  /\ queue' = queue \ {t}
  /\ UNCHANGED <<phase, faults>>

(***************************************************************************)
(* A database error inside a tick: tick logs it and gives up the pass.     *)
(* The locals of the pass are lost; _reported_orphans is not.              *)
(***************************************************************************)
Abandon == phase' = "idle" /\ queue' = {}

TickFails ==
  /\ phase \in {"missing", "exits", "settle", "ict", "trend"} /\ Fault("db")
  /\ phase = "missing" => queue # {}     \* the summary itself cannot fail
  /\ Abandon /\ orphans' = {} /\ details' = {}
  /\ lost' = lost \cup details
  /\ UNCHANGED <<record, broker, link, service, announced>>

\* ... after the position was closed and before the record was settled.
ManageCloseFails(t) ==
  /\ CloseAtBroker(t) /\ Fault("db") /\ Abandon
  /\ UNCHANGED record

Monitor ==
  \/ BeginReconcile \/ EndReconcile \/ NothingOpen \/ ServerExits \/ NextLoop
  \/ \E hit \in SUBSET position : PaperExits(hit)
  \/ \E t \in Tickets : \/ ResolveMissing(t) \/ Settle(t)
                        \/ ManageKeep(t) \/ ManageClose(t)

Next ==
  \/ Monitor \/ Start \/ Gate \/ Die \/ LinkDrops \/ LinkReturns \/ TickFails
  \/ \E t \in Tickets : \/ OrderRecorded(t) \/ OrderUnrecorded(t)
                        \/ BrokerCloses(t) \/ DealListed(t) \/ EntryListed(t)
                        \/ ManageCloseFails(t)

Spec == Init /\ [][Next]_vars

\* The process is restarted when it dies (the service is installed with
\* AppExit Restart), startup runs to its end, and the scheduler runs the
\* monitor job every few seconds, one at a time.  Nothing is assumed of
\* signals, of the broker or of faults.
Fairness == WF_vars(Start) /\ WF_vars(Gate) /\ WF_vars(Monitor)
FairSpec == Spec /\ Fairness

-----------------------------------------------------------------------------
TypeOK ==
  /\ record \in [Tickets -> Status]
  /\ position \subseteq issued /\ deals \subseteq issued /\ entries \subseteq issued
  /\ issued \subseteq Tickets
  /\ link \in BOOLEAN /\ running \in BOOLEAN
  /\ connected \in BOOLEAN /\ armed \in BOOLEAN
  /\ reported \subseteq Tickets /\ issues \subseteq Tickets
  /\ phase \in Phases
  /\ queue \subseteq Tickets /\ orphans \subseteq Tickets /\ details \subseteq Tickets
  /\ announced \subseteq Tickets /\ lost \subseteq Tickets
  /\ faults \in 0..MaxFaults

\* At most max_open_positions records are open, however approved signals and
\* monitor passes interleave (the count-check of _on_signal_approved).
OpenWithinLimit == Cardinality(OpenRecords) <= MaxOpen

\* Every variable has its type, and the limit of open trades holds.
LimitInv == TypeOK /\ OpenWithinLimit

\* What is recorded closed has left the broker, unless the history listed the
\* deal that opened it: that deal alone settles the record of a live position
\* (_settle_trade, closed_trades_since).
ClosedIsGone ==
  \A t \in Tickets : record[t] = "closed" /\ t \in position => t \in entries

\* A record is flagged for review only when the broker really has no
\* position for it (_reconcile_with_broker, _resolve_missing_position).
ReviewedIsGone == \A t \in Tickets : record[t] = "manual_review" => t \notin position

\* As long as nothing has failed, every live position is covered by an open
\* record, but for one settled from its opening deal: no other path of the
\* monitor leaves a position the limit does not count.
CoveredWithoutFaults ==
  faults = 0 =>
    \A t \in position : record[t] = "open" \/ (record[t] = "closed" /\ t \in entries)

\* Paper: the table has at most as many open records as it may, and what it
\* flags is really gone.
TableInv == LimitInv /\ ReviewedIsGone

\* MT5: whatever is recorded closed, or left uncounted, while its position
\* lives has its opening deal in the history.
PositionsInv == ClosedIsGone /\ CoveredWithoutFaults

\* No order leaves a process whose startup pass found broker and table apart
\* (startup_reconcile_issues, consumed by the validation gate).
OrdersOnlyWhenReconciled == [][issued' # issued => connected /\ issues = {}]_vars

\* The trades table behaves as TradeLedger says.
Ledger == INSTANCE TradeLedger
LedgerSpec == Ledger!Spec

\* A record whose position is gone does not stay open: the monitor or the
\* next startup settles or flags it.
GoneIsResolved ==
  \A t \in Tickets :
    (record[t] = "open" /\ t \notin position) ~> (record[t] # "open")

\* An operator hears of every position that stays at the broker without an
\* open record, by system.critical or by the startup checklist, as long as
\* the terminal answers and unless the pass that saw it first failed.
OrphanAnnounced ==
  \A t \in Tickets :
    (t \in position /\ record[t] # "open")
      ~> (t \in announced \/ t \notin position \/ t \in lost \/ ~link \/ (running /\ ~connected))

\* An operator hears of every record a pass has flagged for review, unless
\* the process dies, or the database fails, under that pass.
ReviewAnnounced ==
  \A t \in Tickets :
    (t \in details /\ record[t] = "manual_review") ~> (t \in announced \cup lost \/ ~running)

\* Neither a position without a record nor a flagged record stays unheard of.
Announced == OrphanAnnounced /\ ReviewAnnounced

=============================================================================
