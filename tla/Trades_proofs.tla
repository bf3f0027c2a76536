--------------------------- MODULE Trades_proofs ----------------------------
(***************************************************************************)
(* Theorems about the trades that are made, module Execution, and those    *)
(* that are simulated, module Backtest, for every value of their           *)
(* constants. Each invariant is proved from an inductive strengthening:    *)
(* one step per action.                                                    *)
(***************************************************************************)
EXTENDS Execution, Backtest, FiniteSetTheorems, SequenceTheorems, TLAPS

-----------------------------------------------------------------------------
(***************************************************************************)
(* Execution: for every finite set of tickets, every limit, both backends  *)
(* and any number of faults.                                               *)
(***************************************************************************)

-----------------------------------------------------------------------------
(* Type correctness. *)

LEMMA TypeInit == Init => TypeOK
<1> SUFFICES ASSUME Init PROVE TypeOK
    OBVIOUS
<1>1. link \in BOOLEAN /\ running \in BOOLEAN /\ connected \in BOOLEAN /\ armed \in BOOLEAN
      BY Zenon DEF Init
<1>2. record \in [Tickets -> Status] /\ phase \in Phases
      BY DEF Init, Status, Phases, Booting
<1>3. faults \in 0..MaxFaults
      BY ExecutionAssumption DEF Init
<1>4. QED
      BY <1>1, <1>2, <1>3 DEF Init, TypeOK

LEMMA TypeStep == TypeOK /\ [Next]_vars => TypeOK'
<1> SUFFICES ASSUME TypeOK, [Next]_vars PROVE TypeOK'
    OBVIOUS
<1> USE ExecutionAssumption DEF TypeOK, Status, Phases, Booting
<1>1. ASSUME NEW t \in Tickets, OrderRecorded(t) PROVE TypeOK'
      BY <1>1 DEF OrderRecorded, CanOrder, Fill, service, monitor
<1>2. ASSUME NEW t \in Tickets, OrderUnrecorded(t) PROVE TypeOK'
      BY <1>2 DEF OrderUnrecorded, CanOrder, Fill, Fault, service, monitor
<1>3. ASSUME NEW t \in Tickets, BrokerCloses(t) PROVE TypeOK'
      BY <1>3 DEF BrokerCloses, service, monitor
<1>4. ASSUME NEW t \in Tickets, DealListed(t) \/ EntryListed(t) PROVE TypeOK'
      BY <1>4 DEF DealListed, EntryListed, service, monitor
<1>5. CASE LinkDrops
  <2>1. link' \in BOOLEAN
        BY <1>5, Zenon DEF LinkDrops
  <2>2. QED
        BY <1>5, <2>1 DEF LinkDrops, Fault, broker, service, monitor
<1>6. CASE LinkReturns
      BY <1>6 DEF LinkReturns, broker, service, monitor
<1>7. CASE Die
  <2>1. running' \in BOOLEAN /\ connected' \in BOOLEAN /\ armed' \in BOOLEAN
        BY <1>7, Zenon DEF Die
  <2>2. QED
        BY <1>7, <2>1 DEF Die, Fault
<1>8. CASE Start
      BY <1>8 DEF Start, broker
<1>9. CASE Gate
      BY <1>9 DEF Gate, GatePasses, broker
<1>10. CASE BeginReconcile
  <2>1. UnknownPositions \subseteq Tickets /\ MissingPositions \subseteq Tickets
        BY DEF UnknownPositions, MissingPositions, BrokerView, OpenRecords
  <2>2. QED
        BY <1>10, <2>1 DEF BeginReconcile, broker
<1>11. ASSUME NEW t \in Tickets, ResolveMissing(t) PROVE TypeOK'
  <2>1. Settled({t}) \in [Tickets -> Status]
        BY DEF Settled
  <2>2. record' \in [Tickets -> Status]
        BY <1>11, <2>1 DEF ResolveMissing
  <2>3. details' \subseteq Tickets /\ issues' \subseteq Tickets
        BY <1>11 DEF ResolveMissing, OpenRecords
  <2>4. QED
        BY <1>11, <2>2, <2>3 DEF ResolveMissing, broker
<1>12. CASE EndReconcile
       BY <1>12 DEF EndReconcile, Summary, broker
<1>13. CASE NothingOpen
       BY <1>13 DEF NothingOpen, broker, service
<1>14. ASSUME NEW hit \in SUBSET position, PaperExits(hit) PROVE TypeOK'
       BY <1>14 DEF PaperExits, PopExits, service
<1>15. CASE ServerExits
       BY <1>15 DEF ServerExits, Closes, OpenRecords, broker, service
<1>16. ASSUME NEW t \in Tickets, Settle(t) PROVE TypeOK'
  <2>1. Settled({t}) \in [Tickets -> Status]
        BY DEF Settled
  <2>2. QED
        BY <1>16, <2>1 DEF Settle, broker, service
<1>17. CASE NextLoop
       BY <1>17 DEF NextLoop, OpenRecords, broker, service
<1>18. ASSUME NEW t \in Tickets, ManageKeep(t) PROVE TypeOK'
       BY <1>18 DEF ManageKeep, broker, service
<1>19. ASSUME NEW t \in Tickets, ManageClose(t) PROVE TypeOK'
  <2>1. Settled({t}) \in [Tickets -> Status]
        BY DEF Settled
  <2>2. t \in position
        BY <1>19 DEF ManageClose, CloseAtBroker, BrokerView
  <2>3. QED
        BY <1>19, <2>1, <2>2 DEF ManageClose, CloseAtBroker, service
<1>20. CASE TickFails
       BY <1>20 DEF TickFails, Abandon, Fault, broker, service
<1>21. ASSUME NEW t \in Tickets, ManageCloseFails(t) PROVE TypeOK'
  <2>1. t \in position
        BY <1>21 DEF ManageCloseFails, CloseAtBroker, BrokerView
  <2>2. QED
        BY <1>21, <2>1 DEF ManageCloseFails, CloseAtBroker, Abandon, Fault, service
<1>22. CASE UNCHANGED vars
       BY <1>22 DEF vars, broker, service, monitor
<1>23. QED
  BY <1>1, <1>2, <1>3, <1>4, <1>5, <1>6, <1>7, <1>8, <1>9, <1>10, <1>11, <1>12,
     <1>13, <1>14, <1>15, <1>16, <1>17, <1>18, <1>19, <1>20, <1>21, <1>22
     DEF Next, Monitor

\* Every variable keeps its type, and what is open at the broker or in its
\* history is a ticket the broker has issued.
THEOREM TypeCorrect == Spec => []TypeOK
  BY TypeInit, TypeStep, PTL DEF Spec

-----------------------------------------------------------------------------
(* The trades table implements TradeLedger. A record is inserted only with *)
(* a ticket that has just been issued; every other write takes an open     *)
(* record to one of the two final statuses.                                *)

Leaves(t, status) ==
  record[t] = "open" /\ record' = [record EXCEPT ![t] = status]

LEMMA SettledLeaves ==
  ASSUME TypeOK, NEW t \in Tickets, record' = Settled({t})
  PROVE  UNCHANGED record \/ Leaves(t, "closed")
<1>1. CASE record[t] = "open"
      BY <1>1 DEF Settled, TypeOK, Leaves
<1>2. CASE record[t] # "open"
  <2>1. Settled({t}) = record
        BY <1>2 DEF Settled, TypeOK
  <2>2. QED
        BY <2>1
<1>3. QED
  BY <1>1, <1>2

LEMMA RecordStep ==
  ASSUME TypeOK, [Next]_vars
  PROVE  \/ UNCHANGED record
         \/ \E t \in Tickets : \/ OrderRecorded(t)
                               \/ Leaves(t, "closed")
                               \/ Leaves(t, "manual_review")
<1> DEFINE Goal == \/ UNCHANGED record
                   \/ \E t \in Tickets : \/ OrderRecorded(t)
                                         \/ Leaves(t, "closed")
                                         \/ Leaves(t, "manual_review")
<1>1. ASSUME NEW t \in Tickets, ResolveMissing(t) PROVE Goal
  <2>1. CASE record' = Settled({t})
        BY <2>1, SettledLeaves
  <2>2. CASE t \in OpenRecords /\ record' = [record EXCEPT ![t] = "manual_review"]
        BY <2>2 DEF Leaves, OpenRecords
  <2>3. QED
        BY <1>1, <2>1, <2>2 DEF ResolveMissing
<1>2. ASSUME NEW t \in Tickets, Settle(t) PROVE Goal
      BY <1>2, SettledLeaves DEF Settle
<1>3. ASSUME NEW t \in Tickets, ManageClose(t) PROVE Goal
      BY <1>3, SettledLeaves DEF ManageClose
<1>4. ASSUME NEW t \in Tickets,
             OrderUnrecorded(t) \/ BrokerCloses(t) \/ DealListed(t) \/ EntryListed(t)
               \/ ManageKeep(t) \/ ManageCloseFails(t)
      PROVE  UNCHANGED record
      BY <1>4 DEF OrderUnrecorded, BrokerCloses, DealListed, EntryListed, ManageKeep,
                  ManageCloseFails
<1>5. ASSUME NEW hit \in SUBSET position, PaperExits(hit) PROVE UNCHANGED record
      BY <1>5 DEF PaperExits
<1>6. CASE LinkDrops \/ LinkReturns \/ Die \/ Start \/ Gate \/ BeginReconcile
             \/ EndReconcile
      BY <1>6 DEF LinkDrops, LinkReturns, Die, Start, Gate, BeginReconcile, EndReconcile
<1>7. CASE NothingOpen \/ ServerExits \/ NextLoop \/ TickFails \/ UNCHANGED vars
      BY <1>7 DEF NothingOpen, ServerExits, NextLoop, TickFails, vars
<1>8. QED
  BY <1>1, <1>2, <1>3, <1>4, <1>5, <1>6, <1>7 DEF Next, Monitor

LEMMA IssuedGrows ==
  ASSUME [Next]_vars
  PROVE  issued \subseteq issued'
<1>1. ASSUME NEW t \in Tickets, OrderRecorded(t) \/ OrderUnrecorded(t)
      PROVE  issued \subseteq issued'
      BY <1>1 DEF OrderRecorded, OrderUnrecorded, Fill
<1>2. ASSUME NEW t \in Tickets,
             BrokerCloses(t) \/ DealListed(t) \/ EntryListed(t) \/ ResolveMissing(t)
               \/ Settle(t) \/ ManageKeep(t) \/ ManageClose(t) \/ ManageCloseFails(t)
      PROVE  UNCHANGED issued
      BY <1>2 DEF BrokerCloses, DealListed, EntryListed, ResolveMissing, Settle, ManageKeep,
                  ManageClose, ManageCloseFails, CloseAtBroker, broker
<1>3. ASSUME NEW hit \in SUBSET position, PaperExits(hit) PROVE UNCHANGED issued
      BY <1>3 DEF PaperExits
<1>4. CASE LinkDrops \/ LinkReturns \/ Die \/ Start \/ Gate \/ BeginReconcile
             \/ EndReconcile
      BY <1>4 DEF LinkDrops, LinkReturns, Die, Start, Gate, BeginReconcile,
                  EndReconcile, broker
<1>5. CASE NothingOpen \/ ServerExits \/ NextLoop \/ TickFails \/ UNCHANGED vars
      BY <1>5 DEF NothingOpen, ServerExits, NextLoop, TickFails, vars, broker
<1>6. QED
  BY <1>1, <1>2, <1>3, <1>4, <1>5 DEF Next, Monitor

Known == \A t \in Tickets : record[t] # "none" => t \in issued

LEMMA KnownStep == TypeOK /\ Known /\ [Next]_vars => Known'
<1> SUFFICES ASSUME TypeOK, Known, [Next]_vars PROVE Known'
    OBVIOUS
<1>1. CASE UNCHANGED record
      BY <1>1, IssuedGrows DEF Known
<1>2. ASSUME NEW t \in Tickets, OrderRecorded(t) PROVE Known'
      BY <1>2 DEF OrderRecorded, Fill, Known, TypeOK
<1>3. ASSUME NEW t \in Tickets, NEW status, Leaves(t, status) PROVE Known'
      BY <1>3, IssuedGrows DEF Leaves, Known, TypeOK
<1>4. QED
  BY <1>1, <1>2, <1>3, RecordStep

LEMMA KnownInvariant == Spec => []Known
<1>1. Init => Known
      BY DEF Init, Known
<1>2. QED
  BY <1>1, KnownStep, TypeCorrect, PTL DEF Spec

(* The instance counts with FiniteSets as this module does. *)
LEMMA SameCount == \A S : Ledger!Cardinality(S) = Cardinality(S)
  BY Zenon DEF Ledger!Cardinality, Cardinality

LEMMA LedgerStep == TypeOK /\ Known /\ [Next]_vars => [Ledger!Next]_record
<1> SUFFICES ASSUME TypeOK, Known, [Next]_vars, ~ UNCHANGED record
             PROVE  Ledger!Next
    OBVIOUS
<1>1. ASSUME NEW t \in Tickets, OrderRecorded(t) PROVE Ledger!Next
  <2>1. record[t] = "none"
        BY <1>1 DEF OrderRecorded, CanOrder, Known
  <2>2. Ledger!Open(t)
        BY <1>1, <2>1, SameCount DEF OrderRecorded, CanOrder, BelowLimit, OpenRecords,
                          Ledger!Open, Ledger!OpenRecords
  <2>3. QED
        BY <2>2 DEF Ledger!Next
<1>2. ASSUME NEW t \in Tickets, NEW status \in {"closed", "manual_review"},
             Leaves(t, status)
      PROVE  Ledger!Next
  <2>1. Ledger!Leave(t, status)
        BY <1>2 DEF Leaves, Ledger!Leave
  <2>2. QED
        BY <2>1 DEF Ledger!Next
<1>3. QED
  BY <1>1, <1>2, RecordStep

\* Whatever the broker, the process, the link and the database do, the trades
\* table takes only the steps TradeLedger allows.
THEOREM ImplementsLedger == Spec => LedgerSpec
<1>1. Init => Ledger!Init
      BY DEF Init, Ledger!Init
<1>2. QED
  BY <1>1, LedgerStep, TypeCorrect, KnownInvariant, PTL DEF Spec, LedgerSpec, Ledger!Spec

-----------------------------------------------------------------------------
(* The limit on open trades, from the abstract ledger alone. *)

LEMMA OpenFinite == IsFiniteSet(OpenRecords) /\ Cardinality(OpenRecords) \in Nat
<1>1. OpenRecords \in SUBSET Tickets
      BY DEF OpenRecords
<1>2. QED
  BY <1>1, ExecutionAssumption, FS_Subset, FS_CardinalityType

LEMMA LimitStep ==
  TypeOK /\ OpenWithinLimit /\ [Ledger!Next]_record => OpenWithinLimit'
<1> SUFFICES ASSUME TypeOK, OpenWithinLimit, [Ledger!Next]_record
             PROVE  OpenWithinLimit'
    OBVIOUS
<1>1. ASSUME NEW t \in Tickets, Ledger!Open(t) PROVE OpenWithinLimit'
  <2>1. OpenRecords' = OpenRecords \cup {t}
        BY <1>1 DEF Ledger!Open, OpenRecords, TypeOK
  <2>2. Cardinality(OpenRecords') <= Cardinality(OpenRecords) + 1
        BY <2>1, OpenFinite, FS_AddElement
  <2>3. Cardinality(OpenRecords) < MaxOpen
        BY <1>1, SameCount DEF Ledger!Open, Ledger!OpenRecords, OpenRecords
  <2>4. Cardinality(OpenRecords') \in Nat
        BY <2>1, OpenFinite, FS_AddElement, FS_CardinalityType
  <2>5. QED
        BY <2>2, <2>3, <2>4, OpenFinite, ExecutionAssumption DEF OpenWithinLimit
<1>2. ASSUME NEW t \in Tickets, NEW status \in {"closed", "manual_review"},
             Ledger!Leave(t, status)
      PROVE  OpenWithinLimit'
  <2>1. OpenRecords' \in SUBSET OpenRecords
        BY <1>2 DEF Ledger!Leave, OpenRecords, TypeOK
  <2>2. /\ Cardinality(OpenRecords') <= Cardinality(OpenRecords)
        /\ Cardinality(OpenRecords') \in Nat
        BY <2>1, OpenFinite, FS_Subset, FS_CardinalityType
  <2>3. QED
        BY <2>2, OpenFinite, ExecutionAssumption DEF OpenWithinLimit
<1>3. CASE UNCHANGED record
      BY <1>3 DEF OpenWithinLimit, OpenRecords
<1>4. QED
  BY <1>1, <1>2, <1>3 DEF Ledger!Next

\* The trades table never holds more than max_open_positions open records.
LEMMA LimitInvariant == Spec => []OpenWithinLimit
<1>1. Init => OpenWithinLimit
  <2>1. Init => OpenRecords = {}
        BY DEF Init, OpenRecords
  <2>2. QED
        BY <2>1, FS_EmptySet, ExecutionAssumption DEF OpenWithinLimit
<1>2. QED
  BY <1>1, LedgerStep, LimitStep, TypeCorrect, KnownInvariant, PTL DEF Spec

\* The limit of open trades holds, beside the types (module Execution, LimitInv).
THEOREM LimitHolds == Spec => []LimitInv
<1>1. TypeOK /\ OpenWithinLimit => LimitInv
      BY DEF LimitInv
<1>2. QED
  BY <1>1, TypeCorrect, LimitInvariant, PTL

-----------------------------------------------------------------------------
(* Orders and the startup gate: only the startup pass adds issues, and the *)
(* gate that follows it arms trading only when there are none.             *)

GateInv == running /\ armed /\ phase \notin Booting => issues = {}

LEMMA GateStep == GateInv /\ [Next]_vars => GateInv'
<1> SUFFICES ASSUME GateInv, [Next]_vars PROVE GateInv'
    OBVIOUS
<1> USE DEF GateInv, Booting
<1>1. ASSUME NEW t \in Tickets,
             OrderRecorded(t) \/ OrderUnrecorded(t) \/ BrokerCloses(t) \/ DealListed(t)
               \/ EntryListed(t)
      PROVE  GateInv'
      BY <1>1 DEF OrderRecorded, OrderUnrecorded, BrokerCloses, DealListed, EntryListed,
                  service, monitor
<1>2. CASE Start
      BY <1>2 DEF Start
<1>3. CASE Gate
      BY <1>3 DEF Gate, GatePasses
<1>4. CASE BeginReconcile
      BY <1>4 DEF BeginReconcile
<1>5. ASSUME NEW t \in Tickets, ResolveMissing(t) PROVE GateInv'
      BY <1>5 DEF ResolveMissing
<1>6. CASE EndReconcile
      BY <1>6 DEF EndReconcile
<1>7. CASE Die
      BY <1>7 DEF Die
<1>8. CASE LinkDrops \/ LinkReturns
      BY <1>8 DEF LinkDrops, LinkReturns, service, monitor
<1>9. CASE NothingOpen \/ ServerExits \/ NextLoop \/ TickFails
      BY <1>9 DEF NothingOpen, ServerExits, NextLoop, TickFails, Abandon, service
<1>10. ASSUME NEW hit \in SUBSET position, PaperExits(hit) PROVE GateInv'
      BY <1>10 DEF PaperExits, service
<1>11. ASSUME NEW t \in Tickets,
              Settle(t) \/ ManageKeep(t) \/ ManageClose(t) \/ ManageCloseFails(t)
       PROVE  GateInv'
      BY <1>11 DEF Settle, ManageKeep, ManageClose, ManageCloseFails, CloseAtBroker,
                   Abandon, service
<1>12. CASE UNCHANGED vars
      BY <1>12 DEF vars, service, monitor
<1>13. QED
  BY <1>1, <1>2, <1>3, <1>4, <1>5, <1>6, <1>7, <1>8, <1>9, <1>10, <1>11, <1>12
     DEF Next, Monitor

LEMMA OnlyOrdersIssue ==
  ASSUME [Next]_vars, issued' # issued
  PROVE  (\E t \in Tickets : CanOrder(t)) /\ UNCHANGED service
<1>1. ASSUME NEW t \in Tickets, OrderRecorded(t) \/ OrderUnrecorded(t)
      PROVE  CanOrder(t) /\ UNCHANGED service
      BY <1>1 DEF OrderRecorded, OrderUnrecorded
<1>2. ASSUME NEW t \in Tickets,
             BrokerCloses(t) \/ DealListed(t) \/ EntryListed(t) \/ ResolveMissing(t)
               \/ Settle(t) \/ ManageKeep(t) \/ ManageClose(t) \/ ManageCloseFails(t)
      PROVE  FALSE
      BY <1>2 DEF BrokerCloses, DealListed, EntryListed, ResolveMissing, Settle, ManageKeep,
                  ManageClose, ManageCloseFails, CloseAtBroker, broker
<1>3. ASSUME NEW hit \in SUBSET position, PaperExits(hit) PROVE FALSE
      BY <1>3 DEF PaperExits
<1>4. CASE LinkDrops \/ LinkReturns \/ Die \/ Start \/ Gate \/ BeginReconcile
             \/ EndReconcile
      BY <1>4 DEF LinkDrops, LinkReturns, Die, Start, Gate, BeginReconcile,
                  EndReconcile, broker
<1>5. CASE NothingOpen \/ ServerExits \/ NextLoop \/ TickFails \/ UNCHANGED vars
      BY <1>5 DEF NothingOpen, ServerExits, NextLoop, TickFails, vars, broker
<1>6. QED
  BY <1>1, <1>2, <1>3, <1>4, <1>5 DEF Next, Monitor

\* No order leaves a process whose startup pass found broker and table apart.
THEOREM OrdersReconciled == Spec => OrdersOnlyWhenReconciled
<1>1. Init => GateInv
      BY DEF Init, GateInv
<1>2. GateInv /\ [Next]_vars => [issued' # issued => connected /\ issues = {}]_vars
      BY OnlyOrdersIssue DEF CanOrder, GateInv
<1>3. QED
  BY <1>1, <1>2, GateStep, PTL DEF Spec, OrdersOnlyWhenReconciled

-----------------------------------------------------------------------------
(* What is settled has left the broker, or its opening deal is listed: only *)
(* tickets with a deal of either kind are ever waiting to be settled, and a *)
(* closing deal means that the position is gone.                           *)

GoneInv ==
  /\ deals \cap position = {}
  /\ phase = "settle" => queue \subseteq deals \cup entries
  /\ \A t \in Tickets :
       record[t] = "closed" => t \in issued /\ (t \in position => t \in entries)

LEMMA GoneStep == TypeOK /\ GoneInv /\ [Next]_vars => GoneInv'
<1> SUFFICES ASSUME TypeOK, GoneInv, [Next]_vars PROVE GoneInv'
    OBVIOUS
<1> USE DEF TypeOK, GoneInv
<1>1. ASSUME NEW t \in Tickets, OrderRecorded(t) PROVE GoneInv'
      BY <1>1 DEF OrderRecorded, CanOrder, Fill, monitor
<1>2. ASSUME NEW t \in Tickets, OrderUnrecorded(t) PROVE GoneInv'
      BY <1>2 DEF OrderUnrecorded, CanOrder, Fill, monitor
<1>3. ASSUME NEW t \in Tickets, BrokerCloses(t) PROVE GoneInv'
      BY <1>3 DEF BrokerCloses, monitor
<1>4. ASSUME NEW t \in Tickets, DealListed(t) \/ EntryListed(t) PROVE GoneInv'
      BY <1>4 DEF DealListed, EntryListed, monitor
<1>5. CASE LinkDrops \/ LinkReturns
      BY <1>5 DEF LinkDrops, LinkReturns, broker, monitor
<1>6. CASE Die
      BY <1>6 DEF Die
<1>7. CASE Start \/ Gate
      BY <1>7 DEF Start, Gate, broker
<1>8. CASE BeginReconcile \/ EndReconcile
      BY <1>8 DEF BeginReconcile, EndReconcile, broker
<1>9. ASSUME NEW t \in Tickets, ResolveMissing(t) PROVE GoneInv'
  <2>1. UNCHANGED broker /\ UNCHANGED phase /\ phase # "settle"
        BY <1>9 DEF ResolveMissing
  <2>2. ASSUME NEW u \in Tickets, record'[u] = "closed", record[u] # "closed"
        PROVE  u \in deals \cup entries
        BY <1>9, <2>2 DEF ResolveMissing, Settled, OpenRecords, Closes
  <2>3. QED
        BY <2>1, <2>2 DEF broker
<1>10. CASE NothingOpen \/ NextLoop
      BY <1>10 DEF NothingOpen, NextLoop, broker
<1>11. ASSUME NEW hit \in SUBSET position, PaperExits(hit) PROVE GoneInv'
      BY <1>11 DEF PaperExits, PopExits
<1>12. CASE ServerExits
      BY <1>12 DEF ServerExits, Closes, broker
<1>13. ASSUME NEW t \in Tickets, Settle(t) PROVE GoneInv'
      BY <1>13 DEF Settle, Settled, broker
<1>14. ASSUME NEW t \in Tickets, ManageKeep(t) PROVE GoneInv'
      BY <1>14 DEF ManageKeep, broker
<1>15. ASSUME NEW t \in Tickets, ManageClose(t) PROVE GoneInv'
      BY <1>15 DEF ManageClose, CloseAtBroker, BrokerView, Settled
<1>16. CASE TickFails
      BY <1>16 DEF TickFails, Abandon, broker
<1>17. ASSUME NEW t \in Tickets, ManageCloseFails(t) PROVE GoneInv'
      BY <1>17 DEF ManageCloseFails, CloseAtBroker, Abandon, BrokerView
<1>18. CASE UNCHANGED vars
      BY <1>18 DEF vars, broker, monitor
<1>19. QED
  BY <1>1, <1>2, <1>3, <1>4, <1>5, <1>6, <1>7, <1>8, <1>9, <1>10, <1>11, <1>12,
     <1>13, <1>14, <1>15, <1>16, <1>17, <1>18 DEF Next, Monitor

LEMMA GoneInvariant == Spec => []GoneInv
<1>1. Init => GoneInv
      BY DEF Init, GoneInv
<1>2. TypeOK /\ GoneInv /\ [Next]_vars => GoneInv'
      BY GoneStep
<1>3. QED
  BY <1>1, <1>2, TypeCorrect, PTL DEF Spec

\* No trade is settled while its position is open, but from a history that
\* lists the deal the position was opened by.
THEOREM ClosedTradesAreGone == Spec => []ClosedIsGone
<1>1. GoneInv => ClosedIsGone
      BY DEF GoneInv, ClosedIsGone
<1>2. QED
  BY <1>1, GoneInvariant, PTL

-----------------------------------------------------------------------------
(* What is flagged for review has left the broker, as long as the link to  *)
(* the terminal never failed: the monitor then sees every position, and    *)
(* the tickets it is still to visit stay gone, because the broker never    *)
(* issues a ticket twice.                                                  *)

LinkKept == "link" \notin Faults \/ faults = 0

Looking == phase \in {"bootMissing", "missing"}

SeenInv == /\ LinkKept => link /\ (running => connected)
           /\ phase # "idle" => running

ReviewInv ==
  LinkKept => /\ Looking => queue \subseteq issued \ position
              /\ \A t \in Tickets : record[t] = "manual_review" => t \in issued \ position

LEMMA FaultsOnlyGrow ==
  ASSUME [Next]_vars
  PROVE  faults' = faults \/ faults' = faults + 1
  BY DEF Next, Monitor, vars, OrderRecorded, OrderUnrecorded, BrokerCloses, DealListed,
         EntryListed, LinkDrops, LinkReturns, Die, Start, Gate, BeginReconcile, ResolveMissing,
         EndReconcile, NothingOpen, PaperExits, ServerExits, Settle, NextLoop,
         ManageKeep, ManageClose, TickFails, ManageCloseFails, Fault

LEMMA SeenStep == TypeOK /\ SeenInv /\ [Next]_vars => SeenInv'
<1> SUFFICES ASSUME TypeOK, SeenInv, [Next]_vars PROVE SeenInv'
    OBVIOUS
<1>0. LinkKept' => LinkKept
      BY FaultsOnlyGrow DEF LinkKept, TypeOK
<1> USE DEF SeenInv
<1>1. CASE LinkDrops
  <2>1. ~LinkKept'
        BY <1>1 DEF LinkDrops, Fault, LinkKept, TypeOK
  <2>2. QED
        BY <1>1, <2>1 DEF LinkDrops, service, monitor
<1>2. CASE LinkReturns
      BY <1>0, <1>2 DEF LinkReturns, service, monitor
<1>3. CASE Start
      BY <1>0, <1>3 DEF Start
<1>4. CASE Die
      BY <1>0, <1>4 DEF Die
<1>5. CASE Gate \/ BeginReconcile \/ EndReconcile
      BY <1>0, <1>5 DEF Gate, BeginReconcile, EndReconcile
<1>6. ASSUME NEW t \in Tickets,
             OrderRecorded(t) \/ OrderUnrecorded(t) \/ BrokerCloses(t) \/ DealListed(t)
               \/ EntryListed(t)
      PROVE  SeenInv'
      BY <1>0, <1>6 DEF OrderRecorded, OrderUnrecorded, BrokerCloses, DealListed, EntryListed,
                        service, monitor
<1>7. ASSUME NEW t \in Tickets,
             ResolveMissing(t) \/ Settle(t) \/ ManageKeep(t) \/ ManageClose(t)
               \/ ManageCloseFails(t)
      PROVE  SeenInv'
      BY <1>0, <1>7 DEF ResolveMissing, Settle, ManageKeep, ManageClose,
                        ManageCloseFails, CloseAtBroker, Abandon, service
<1>8. ASSUME NEW hit \in SUBSET position, PaperExits(hit) PROVE SeenInv'
      BY <1>0, <1>8 DEF PaperExits, service
<1>9. CASE NothingOpen \/ ServerExits \/ NextLoop \/ TickFails
      BY <1>0, <1>9 DEF NothingOpen, ServerExits, NextLoop, TickFails, Abandon, service
<1>10. CASE UNCHANGED vars
      BY <1>0, <1>10 DEF vars, service, monitor
<1>11. QED
  BY <1>1, <1>2, <1>3, <1>4, <1>5, <1>6, <1>7, <1>8, <1>9, <1>10 DEF Next, Monitor

LEMMA ReviewStep ==
  TypeOK /\ Known /\ SeenInv /\ ReviewInv /\ [Next]_vars => ReviewInv'
<1> SUFFICES ASSUME TypeOK, Known, SeenInv, ReviewInv, [Next]_vars, LinkKept'
             PROVE  /\ (Looking => queue \subseteq issued \ position)'
                    /\ (\A t \in Tickets : record[t] = "manual_review"
                                             => t \in issued \ position)'
    BY DEF ReviewInv
<1> DEFINE Goal == /\ (Looking => queue \subseteq issued \ position)'
                   /\ (\A t \in Tickets : record[t] = "manual_review"
                                            => t \in issued \ position)'
<1>0. LinkKept
      BY FaultsOnlyGrow DEF LinkKept, TypeOK
<1>1. /\ Looking => queue \subseteq issued \ position
      /\ \A t \in Tickets : record[t] = "manual_review" => t \in issued \ position
      /\ link /\ (running => connected)
      BY <1>0 DEF ReviewInv, SeenInv
<1> USE DEF TypeOK, Looking
<1>2. ASSUME NEW t \in Tickets, OrderRecorded(t) PROVE Goal
      BY <1>1, <1>2 DEF OrderRecorded, CanOrder, Fill, monitor
<1>3. ASSUME NEW t \in Tickets, OrderUnrecorded(t) PROVE Goal
      BY <1>1, <1>3 DEF OrderUnrecorded, CanOrder, Fill, monitor
<1>4. ASSUME NEW t \in Tickets, BrokerCloses(t) PROVE Goal
      BY <1>1, <1>4 DEF BrokerCloses, monitor
<1>5. ASSUME NEW t \in Tickets, DealListed(t) \/ EntryListed(t) PROVE Goal
      BY <1>1, <1>5 DEF DealListed, EntryListed, monitor
<1>6. CASE LinkDrops \/ LinkReturns
      BY <1>1, <1>6 DEF LinkDrops, LinkReturns, broker, monitor
<1>7. CASE Die
      BY <1>1, <1>7 DEF Die
<1>8. CASE Start \/ Gate \/ EndReconcile
      BY <1>1, <1>8 DEF Start, Gate, EndReconcile, broker
<1>9. CASE BeginReconcile
  <2>1. BrokerView = position
        BY <1>1, <1>9 DEF BeginReconcile, BrokerView
  <2>2. MissingPositions \subseteq issued \ position
        BY <2>1 DEF MissingPositions, OpenRecords, Known
  <2>3. QED
        BY <1>1, <1>9, <2>2 DEF BeginReconcile, broker
<1>10. ASSUME NEW t \in Tickets, ResolveMissing(t) PROVE Goal
  <2>1. t \in issued \ position
        BY <1>1, <1>10 DEF ResolveMissing
  <2>2. ASSUME NEW u \in Tickets, record'[u] = "manual_review"
        PROVE  u = t \/ record[u] = "manual_review"
        BY <1>10, <2>2 DEF ResolveMissing, Settled
  <2>3. QED
        BY <1>1, <1>10, <2>1, <2>2 DEF ResolveMissing, broker
<1>11. CASE NothingOpen \/ ServerExits \/ NextLoop \/ TickFails
      BY <1>1, <1>11 DEF NothingOpen, ServerExits, NextLoop, TickFails, Abandon, broker
<1>12. ASSUME NEW hit \in SUBSET position, PaperExits(hit) PROVE Goal
      BY <1>1, <1>12 DEF PaperExits, PopExits
<1>13. ASSUME NEW t \in Tickets, Settle(t) PROVE Goal
      BY <1>1, <1>13 DEF Settle, Settled, broker
<1>14. ASSUME NEW t \in Tickets, ManageKeep(t) PROVE Goal
      BY <1>1, <1>14 DEF ManageKeep, broker
<1>15. ASSUME NEW t \in Tickets, ManageClose(t) PROVE Goal
      BY <1>1, <1>15 DEF ManageClose, CloseAtBroker, Settled
<1>16. ASSUME NEW t \in Tickets, ManageCloseFails(t) PROVE Goal
      BY <1>1, <1>16 DEF ManageCloseFails, CloseAtBroker, Abandon
<1>17. CASE UNCHANGED vars
      BY <1>1, <1>17 DEF vars, broker, monitor
<1>18. QED
  BY <1>2, <1>3, <1>4, <1>5, <1>6, <1>7, <1>8, <1>9, <1>10, <1>11, <1>12, <1>13,
     <1>14, <1>15, <1>16, <1>17 DEF Next, Monitor

LEMMA ReviewInvariant == Spec => [](SeenInv /\ ReviewInv)
<1>1. Init => SeenInv /\ ReviewInv
      BY DEF Init, SeenInv, ReviewInv, Looking
<1>2. QED
  BY <1>1, SeenStep, ReviewStep, TypeCorrect, KnownInvariant, PTL DEF Spec

\* When the terminal's link does not fail, no record is flagged for review
\* while its position is open.
THEOREM ReviewedTradesAreGone ==
  ASSUME "link" \notin Faults
  PROVE  Spec => []ReviewedIsGone
<1>1. ReviewInv => ReviewedIsGone
      BY DEF ReviewInv, ReviewedIsGone, LinkKept
<1>2. QED
  BY <1>1, ReviewInvariant, PTL

-----------------------------------------------------------------------------
(* Without a fault so far, no position is without an open record, unless   *)
(* its record was settled from its opening deal.                           *)

Covered ==
  \A t \in position : record[t] = "open" \/ (record[t] = "closed" /\ t \in entries)

LEMMA CoveredStep ==
  ASSUME TypeOK, SeenInv, ReviewInv, GoneInv, CoveredWithoutFaults, [Next]_vars
  PROVE  CoveredWithoutFaults'
<1> SUFFICES ASSUME faults' = 0 PROVE Covered'
    BY DEF CoveredWithoutFaults, Covered
<1>1. faults = 0 /\ Covered
      BY FaultsOnlyGrow DEF TypeOK, CoveredWithoutFaults, Covered
<1> USE DEF OpenRecords, TypeOK, Covered
<1>2. ASSUME NEW t \in Tickets, OrderRecorded(t) PROVE Covered'
      BY <1>1, <1>2 DEF OrderRecorded, Fill
<1>3. ASSUME NEW t \in Tickets, OrderUnrecorded(t) PROVE FALSE
      BY <1>1, <1>3 DEF OrderUnrecorded, Fault
<1>4. ASSUME NEW t \in Tickets, BrokerCloses(t) \/ DealListed(t)
                                    \/ EntryListed(t) \/ ManageKeep(t)
      PROVE  Covered'
      BY <1>1, <1>4 DEF BrokerCloses, DealListed, EntryListed, ManageKeep, broker
<1>5. CASE LinkDrops \/ Die \/ TickFails
      BY <1>1, <1>5 DEF LinkDrops, Die, TickFails, Fault
<1>6. CASE LinkReturns \/ Start \/ Gate \/ BeginReconcile \/ EndReconcile
      BY <1>1, <1>6 DEF LinkReturns, Start, Gate, BeginReconcile, EndReconcile, broker
<1>7. ASSUME NEW t \in Tickets, ResolveMissing(t) PROVE Covered'
  <2>1. t \notin position
        BY <1>1, <1>7 DEF ResolveMissing, ReviewInv, LinkKept, Looking
  <2>2. \A u \in Tickets : u # t => record'[u] = record[u]
        BY <1>7 DEF ResolveMissing, Settled
  <2>3. QED
        BY <1>1, <1>7, <2>1, <2>2 DEF ResolveMissing, broker
<1>8. CASE NothingOpen \/ ServerExits \/ NextLoop
      BY <1>1, <1>8 DEF NothingOpen, ServerExits, NextLoop, broker
<1>9. ASSUME NEW hit \in SUBSET position, PaperExits(hit)
      PROVE  Covered'
      BY <1>1, <1>9 DEF PaperExits, PopExits
<1>10. ASSUME NEW t \in Tickets, Settle(t) PROVE Covered'
      BY <1>1, <1>10 DEF Settle, Settled, GoneInv, broker
<1>11. ASSUME NEW t \in Tickets, ManageClose(t) PROVE Covered'
      BY <1>1, <1>11 DEF ManageClose, CloseAtBroker, Settled
<1>12. ASSUME NEW t \in Tickets, ManageCloseFails(t) PROVE FALSE
      BY <1>1, <1>12 DEF ManageCloseFails, Fault
<1>13. CASE UNCHANGED vars
      BY <1>1, <1>13 DEF vars, broker
<1>14. QED
  BY <1>2, <1>3, <1>4, <1>5, <1>6, <1>7, <1>8, <1>9, <1>10, <1>11, <1>12, <1>13
     DEF Next, Monitor

\* As long as nothing has failed, the monitor leaves no position that the
\* limit does not count, but one settled from its opening deal.
THEOREM PositionsAreCovered == Spec => []CoveredWithoutFaults
<1>1. Init => CoveredWithoutFaults
      BY DEF Init, CoveredWithoutFaults
<1>2. QED
  BY <1>1, CoveredStep, TypeCorrect, ReviewInvariant, GoneInvariant, PTL DEF Spec

-----------------------------------------------------------------------------
(* What the two runs check, from the theorems above.                       *)

\* Paper, or a terminal whose link does not fail: the limit holds, and what is
\* flagged is gone (module Execution, TableInv).
THEOREM TableHolds ==
  ASSUME "link" \notin Faults
  PROVE  Spec => []TableInv
<1>1. LimitInv /\ ReviewedIsGone => TableInv
      BY DEF TableInv
<1>2. QED
  BY <1>1, LimitHolds, ReviewedTradesAreGone, PTL

\* Whatever the history lists, and when: a trade is settled while its position
\* is open, or without a fault left uncounted, only from its opening deal
\* (module Execution, PositionsInv).
THEOREM PositionsHold == Spec => []PositionsInv
<1>1. ClosedIsGone /\ CoveredWithoutFaults => PositionsInv
      BY DEF PositionsInv
<1>2. QED
  BY <1>1, ClosedTradesAreGone, PositionsAreCovered, PTL

-----------------------------------------------------------------------------
(***************************************************************************)
(* Backtest: for every sample of bars of every length, every number of     *)
(* signals, all rules and all distances.                                   *)
(***************************************************************************)

Samples == [Index -> Bars \cup {Unseen}]
Walks == [at : Index, first : Index, direction : Directions, entry : Nat, sl : Int, be : BOOLEAN,
          obos : 0..NBars]
Simulated == [first : Index, last : Index, entry : Nat, direction : Directions, obos : 0..NBars,
              be : BOOLEAN, reason : {"sl", "tp", "bos", "safety_line"}, exit : Int]

(***************************************************************************)
(* The definitions of the properties, with the rules r and the candles c   *)
(* as parameters: t is a trade or the walk of one.                         *)
(***************************************************************************)
FarAhead(c, t, k) ==
  ~Worse(t.direction, Best(t.direction, c[k]),
         Ahead(t.direction, t.entry, BreakevenAtR * RiskOf(t.entry, t.direction)))

DueIn(r, c, t, j) ==
  r = "ict" /\ BreakevenAtR # 0 /\ \E k \in t.first..(j - 1) : FarAhead(c, t, k)

StopIn(r, c, t, j) == IF DueIn(r, c, t, j) THEN t.entry ELSE FirstStop(t.direction)
StopMetIn(r, c, t, j) == ~Worse(t.direction, StopIn(r, c, t, j), Worst(t.direction, c[j]))
TargetMetIn(c, t, j) == ~Worse(t.direction, Best(t.direction, c[j]), Target(t.direction))
ExitIn(r, c, t, j) == StopMetIn(r, c, t, j) \/ TargetMetIn(c, t, j) \/ j = t.obos

SeenTo(c, t, n) == \A j \in t.first..n : c[j] # Unseen

\* A walk: no bar behind it met an exit, and its stop is where the rules put it.
WalkIn(r, c, w) ==
  /\ w \in Walks /\ w.first <= w.at
  /\ c[w.first] # Unseen /\ SeenTo(c, w, w.at - 1) /\ w.entry = c[w.first].open
  /\ r # "trendline" => /\ \A j \in w.first..(w.at - 1) : ~ExitIn(r, c, w, j)
                        /\ w.be <=> DueIn(r, c, w, w.at)
                        /\ w.sl = StopIn(r, c, w, w.at)
  /\ r = "trendline" => ~w.be /\ ~Worse(w.direction, w.sl, FirstStop(w.direction))

\* A trade as the three properties want it, all its bars seen.
TradeIn(r, c, t) ==
  /\ t \in Simulated /\ t.first <= t.last /\ SeenTo(c, t, t.last)
  /\ r # "trendline" =>
       /\ t.entry = c[t.first].open
       /\ ExitIn(r, c, t, t.last) /\ \A j \in t.first..(t.last - 1) : ~ExitIn(r, c, t, j)
       /\ t.reason = IF StopMetIn(r, c, t, t.last) THEN "sl"
                     ELSE IF TargetMetIn(c, t, t.last) THEN "tp" ELSE "bos"
       /\ t.reason = "sl" => t.exit = StopIn(r, c, t, t.last)
       /\ t.reason = "tp" => t.exit = Target(t.direction)
  /\ t.be => Gain(t) >= 0
  /\ t.reason = "sl" /\ Worse(t.direction, FirstStop(t.direction), t.entry)
       => Gain(t) >= -RiskOf(t.entry, t.direction)

IWalk ==
  /\ BacktestTypeOK
  /\ walk \in Walks \cup {NoWalk} /\ trades \in Seq(Simulated)
  /\ Walking => next \in DOMAIN signals /\ WalkIn(rules, candles, walk)
  /\ \A n \in DOMAIN trades : TradeIn(rules, candles, trades[n])

-----------------------------------------------------------------------------
(* Prices and bars.                                                        *)

\* What the assumption says of the constants.
LEMMA BacktestConstants ==
  /\ NBars \in Nat /\ BreakevenAtR \in Nat /\ Buffer \in Nat
  /\ StopDistance \in Nat \ {0} /\ TargetDistance \in Nat \ {0} /\ Mid \in Nat \ {0}
  /\ Index \subseteq Nat \ {0} /\ Unseen \notin Bars
<1>1. Unseen \notin Bars
      BY BacktestAssumption DEF Unseen
<1>2. QED
  BY <1>1, BacktestAssumption DEF Index

\* An index is a whole number from 1 on, and so is every number between two.
LEMMA IndexRange ==
  /\ \A i \in Index : i \in Int /\ i \in Nat /\ i >= 1 /\ i <= NBars
  /\ \A i, j \in Index : \A k \in i..j : k \in Index
  /\ \A i, j \in Index : i <= j => /\ i \in i..j /\ j \in i..j /\ j \in i..(j + 1)
                                   /\ \A k \in i..(j - 1) : k \in i..j
BY BacktestConstants DEF Index

\* A bar has whole prices, and opens and closes between its extremes.
LEMMA BarPrices ==
  ASSUME NEW b \in Bars
  PROVE  /\ b.open \in Nat /\ b.high \in Nat /\ b.low \in Nat /\ b.close \in Nat
         /\ b.low <= b.open /\ b.low <= b.close /\ b.open <= b.high /\ b.close <= b.high
BY BacktestAssumption

\* Stops, targets and risks are whole numbers.
LEMMA PriceTypes ==
  ASSUME NEW d \in Directions
  PROVE  /\ FirstStop(d) \in Int /\ Target(d) \in Int
         /\ \A p \in Int : RiskOf(p, d) \in Nat /\ RiskOf(p, d) = IF p < FirstStop(d)
              THEN FirstStop(d) - p ELSE p - FirstStop(d)
<1>1. FirstStop(d) \in Int /\ Target(d) \in Int
      BY BacktestConstants DEF FirstStop, Target, Ahead
<1>2. PICK s \in Int : s = FirstStop(d)
      BY <1>1
<1>3. \A p \in Int : RiskOf(p, d) = IF p < s THEN s - p ELSE p - s
      BY <1>2 DEF RiskOf
<1>4. QED
  BY <1>1, <1>2, <1>3

\* A bar that is looked at is one of the bars, and stays what it is.
LEMMA LookStep ==
  ASSUME candles \in Samples, NEW i \in Index, NEW bar, Look(i, bar),
         bar \in Bars \cup {candles[i]}
  PROVE  /\ candles' \in Samples /\ candles'[i] = bar /\ bar \in Bars /\ bar # Unseen
         /\ \A j \in Index : candles[j] # Unseen => candles'[j] = candles[j]
<1>1. bar \in Bars
      BY DEF Look, Samples
<1>2. candles' = [candles EXCEPT ![i] = bar]
      BY DEF Look
<1>3. QED
  BY <1>1, <1>2, BacktestConstants DEF Samples, Look

\* The bars c and d say the same of trade t up to bar n.
JudgedAlike(r, c, d, t, n) ==
  /\ \A j \in t.first..n :
       /\ StopMetIn(r, d, t, j) <=> StopMetIn(r, c, t, j)
       /\ TargetMetIn(d, t, j) <=> TargetMetIn(c, t, j)
       /\ ExitIn(r, d, t, j) <=> ExitIn(r, c, t, j)
  /\ \A j \in t.first..(n + 1) :
       /\ DueIn(r, d, t, j) <=> DueIn(r, c, t, j)
       /\ StopIn(r, d, t, j) = StopIn(r, c, t, j)

\* What a trade's bars say does not depend on other bars.
LEMMA SameBars ==
  ASSUME NEW r, NEW c, NEW d, NEW t, t.first \in Index, NEW n \in Int,
         \A j \in t.first..n : d[j] = c[j]
  PROVE  JudgedAlike(r, c, d, t, n)
<1>1. \A j \in t.first..n : FarAhead(d, t, j) <=> FarAhead(c, t, j)
      BY DEF FarAhead
<1>2. ASSUME NEW j \in t.first..(n + 1)
      PROVE  (DueIn(r, d, t, j) <=> DueIn(r, c, t, j)) /\ StopIn(r, d, t, j) = StopIn(r, c, t, j)
  <2>1. \A k \in t.first..(j - 1) : k \in t.first..n
        BY BacktestConstants
  <2>2. DueIn(r, d, t, j) <=> DueIn(r, c, t, j)
        BY <2>1, <1>1 DEF DueIn
  <2>3. QED
        BY <2>2 DEF StopIn
<1>3. \A j \in t.first..n : j \in t.first..(n + 1)
      BY BacktestConstants
<1>4. \A j \in t.first..n :
        /\ StopMetIn(r, d, t, j) <=> StopMetIn(r, c, t, j)
        /\ TargetMetIn(d, t, j) <=> TargetMetIn(c, t, j)
      BY <1>2, <1>3 DEF StopMetIn, TargetMetIn
<1>5. QED
  BY <1>2, <1>4 DEF ExitIn, JudgedAlike

\* A trade stays what it is when more bars are seen.
LEMMA TradeStays ==
  ASSUME NEW r, NEW c, NEW d, NEW t, TradeIn(r, c, t),
         \A j \in Index : c[j] # Unseen => d[j] = c[j]
  PROVE  TradeIn(r, d, t)
<1>1. t \in Simulated /\ t.first <= t.last
      BY DEF TradeIn
<1>2. t.first \in Index /\ t.last \in Index
      BY <1>1 DEF Simulated
<1>3. t.last \in Int
      BY <1>2, IndexRange
<1>4. \A j \in t.first..t.last : j \in Index
      BY <1>2, IndexRange
<1>5. \A j \in t.first..t.last : d[j] = c[j] /\ d[j] # Unseen
      BY <1>4 DEF TradeIn, SeenTo
<1>6. t.last \in t.first..t.last /\ t.last \in t.first..(t.last + 1) /\ t.first \in t.first..t.last
      BY <1>1, <1>2, IndexRange
<1>7. \A j \in t.first..(t.last - 1) : j \in t.first..t.last
      BY <1>1, <1>2, IndexRange
<1>8. \A j \in t.first..t.last : d[j] = c[j]
      BY <1>5
<1>9. PICK n \in Int : n = t.last
      BY <1>3
<1>10. JudgedAlike(r, c, d, t, n)
  <2>1. \A j \in t.first..n : d[j] = c[j]
        BY <1>8, <1>9
  <2>2. QED
        BY <2>1, <1>2, SameBars
<1>11. QED
  BY <1>5, <1>6, <1>7, <1>9, <1>10 DEF TradeIn, SeenTo, JudgedAlike

-----------------------------------------------------------------------------
(* The end of a walk.                                                      *)

Booked(w, reason, price) ==
  [first |-> w.first, last |-> w.at, entry |-> w.entry, direction |-> w.direction,
   obos |-> w.obos, be |-> w.be, reason |-> reason, exit |-> price]

\* A walk as it is judged at its bar, which has just been looked at.
AtBar(r, d, w) ==
  /\ w \in Walks /\ w.first <= w.at /\ d \in Samples
  /\ SeenTo(d, w, w.at) /\ w.entry = d[w.first].open
  /\ r # "trendline" => /\ \A j \in w.first..(w.at - 1) : ~ExitIn(r, d, w, j)
                        /\ w.be <=> DueIn(r, d, w, w.at)
                        /\ w.sl = StopIn(r, d, w, w.at)
  /\ r = "trendline" => ~w.be /\ ~Worse(w.direction, w.sl, FirstStop(w.direction))

\* The fields of a walk.
LEMMA WalkFields ==
  ASSUME NEW w \in Walks
  PROVE  /\ w.at \in Index /\ w.first \in Index /\ w.direction \in Directions /\ w.entry \in Nat
         /\ w.sl \in Int /\ w.be \in BOOLEAN /\ w.obos \in 0..NBars
BY DEF Walks

\* Looking at a walk's bar changes nothing that was known of it.
LEMMA WalkAtBar ==
  ASSUME NEW r, NEW c, NEW d \in Samples, NEW w, WalkIn(r, c, w),
         \A j \in Index : c[j] # Unseen => d[j] = c[j], d[w.at] # Unseen
  PROVE  AtBar(r, d, w)
<1>1. w \in Walks /\ w.first <= w.at
      BY DEF WalkIn
<1>2. w.at \in Index /\ w.first \in Index
      BY <1>1, WalkFields
<1>3. PICK n \in Int : n = w.at - 1
      BY <1>2, IndexRange
<1>4. w.at = n + 1 /\ w.first \in w.first..(n + 1) /\ w.at \in w.first..(n + 1)
      BY <1>1, <1>2, <1>3, IndexRange
<1>5. \A j \in w.first..(n + 1) : j \in Index /\ (j \in w.first..n \/ j = n + 1)
      BY <1>2, <1>3, <1>4, IndexRange
<1>6. \A j \in w.first..n : j \in w.first..(n + 1)
      BY <1>3
<1>7. \A j \in w.first..n : d[j] = c[j] /\ c[j] # Unseen
      BY <1>3, <1>5, <1>6 DEF WalkIn, SeenTo
<1>8. JudgedAlike(r, c, d, w, n)
      BY <1>2, <1>7, SameBars
<1>9. SeenTo(d, w, w.at)
      BY <1>4, <1>5, <1>7 DEF SeenTo
<1>10. w.entry = d[w.first].open
       BY <1>2 DEF WalkIn
<1>11. r # "trendline" => /\ \A j \in w.first..n : ~ExitIn(r, d, w, j)
                          /\ w.be <=> DueIn(r, d, w, w.at)
                          /\ w.sl = StopIn(r, d, w, w.at)
       BY <1>3, <1>4, <1>8 DEF WalkIn, JudgedAlike
<1>12. QED
  BY <1>1, <1>3, <1>9, <1>10, <1>11 DEF AtBar, WalkIn

\* The entry is the open of a bar, so that bar's best price is no worse.
LEMMA BestOfEntry ==
  ASSUME NEW r, NEW d, NEW w, AtBar(r, d, w)
  PROVE  /\ Best(w.direction, d[w.first]) \in Nat
         /\ ~Worse(w.direction, Best(w.direction, d[w.first]), w.entry)
<1>1. w \in Walks /\ w.first \in Index /\ w.direction \in Directions
      BY WalkFields DEF AtBar
<1>2. w.first \in w.first..w.at
      BY <1>1, WalkFields, IndexRange DEF AtBar
<1>3. d[w.first] \in Bars
      BY <1>1, <1>2 DEF AtBar, SeenTo, Samples
<1>4. PICK b \in Bars : b = d[w.first] /\ w.entry = b.open
      BY <1>3 DEF AtBar
<1>5. b.high \in Nat /\ b.low \in Nat /\ b.open \in Nat /\ b.low <= b.open /\ b.open <= b.high
      BY BarPrices
<1>6. QED
  BY <1>1, <1>4, <1>5 DEF Best, Worse, Directions

\* After breakeven the entry is worse than the target: the bar of the entry did
\* not reach it.
LEMMA EntryBeforeTarget ==
  ASSUME NEW r, NEW d, NEW w, AtBar(r, d, w), w.be
  PROVE  Worse(w.direction, w.entry, Target(w.direction))
<1>1. r # "trendline" /\ DueIn(r, d, w, w.at)
      BY DEF AtBar
<1>2. PICK k \in w.first..(w.at - 1) : FarAhead(d, w, k)
      BY <1>1 DEF DueIn
<1>3. w.first \in Index /\ w.at \in Index /\ w.direction \in Directions /\ w.entry \in Nat
      BY WalkFields DEF AtBar
<1>4. w.first \in w.first..(w.at - 1)
      BY <1>2, <1>3, IndexRange
<1>5. ~TargetMetIn(d, w, w.first)
      BY <1>1, <1>4 DEF AtBar, ExitIn
<1>6. PICK e \in Nat, t \in Int, b \in Nat, dir \in Directions :
        /\ e = w.entry /\ t = Target(w.direction) /\ b = Best(w.direction, d[w.first])
        /\ dir = w.direction
      BY <1>3, BestOfEntry, PriceTypes
<1>7. Worse(dir, b, t) /\ ~Worse(dir, b, e)
      BY <1>5, <1>6, BestOfEntry DEF TargetMetIn
<1>8. Worse(dir, e, t)
      BY <1>7 DEF Worse, Directions
<1>9. QED
  BY <1>6, <1>8

\* What is booked has the walk's bars and price, and is judged as the walk is.
LEMMA BookedJudged ==
  ASSUME NEW r, NEW d, NEW w, AtBar(r, d, w), NEW reason \in {"sl", "tp", "bos", "safety_line"},
         NEW price \in Int, NEW t, t = Booked(w, reason, price)
  PROVE  /\ t \in Simulated /\ t.first <= t.last /\ SeenTo(d, t, t.last)
         /\ t.entry = d[t.first].open /\ t.reason = reason /\ t.exit = price
         /\ t.be = w.be /\ t.direction = w.direction /\ t.entry = w.entry
         /\ t.last = w.at /\ t.first = w.first /\ t.obos = w.obos
         /\ \A j : /\ StopIn(r, d, t, j) = StopIn(r, d, w, j)
                   /\ StopMetIn(r, d, t, j) <=> StopMetIn(r, d, w, j)
                   /\ TargetMetIn(d, t, j) <=> TargetMetIn(d, w, j)
                   /\ ExitIn(r, d, t, j) <=> ExitIn(r, d, w, j)
<1>1. w \in Walks
      BY DEF AtBar
<1>2. /\ t.first = w.first /\ t.last = w.at /\ t.entry = w.entry /\ t.direction = w.direction
      /\ t.obos = w.obos /\ t.be = w.be /\ t.reason = reason /\ t.exit = price
      BY DEF Booked
<1>3. t \in Simulated
      BY <1>1, WalkFields DEF Booked, Simulated
<1>4. t.first <= t.last /\ SeenTo(d, t, t.last) /\ t.entry = d[t.first].open
      BY <1>2 DEF AtBar, SeenTo
<1>5. \A k : FarAhead(d, t, k) <=> FarAhead(d, w, k)
      BY <1>2 DEF FarAhead
<1>6. \A j : DueIn(r, d, t, j) <=> DueIn(r, d, w, j)
      BY <1>2, <1>5 DEF DueIn
<1>7. \A j : StopIn(r, d, t, j) = StopIn(r, d, w, j)
      BY <1>2, <1>6 DEF StopIn
<1>8. \A j : /\ StopMetIn(r, d, t, j) <=> StopMetIn(r, d, w, j)
             /\ TargetMetIn(d, t, j) <=> TargetMetIn(d, w, j)
      BY <1>2, <1>7 DEF StopMetIn, TargetMetIn
<1>9. \A j : ExitIn(r, d, t, j) <=> ExitIn(r, d, w, j)
      BY <1>2, <1>8 DEF ExitIn
<1>10. QED
  BY <1>2, <1>3, <1>4, <1>7, <1>8, <1>9

\* Prices of an outcome, seen from its direction.
LEMMA Outcomes ==
  ASSUME NEW t \in Simulated
  PROVE  /\ Gain(t) \in Int
         /\ ~Worse(t.direction, t.exit, t.entry) => Gain(t) >= 0
         /\ /\ Worse(t.direction, FirstStop(t.direction), t.entry)
            /\ ~Worse(t.direction, t.exit, FirstStop(t.direction)) \/ t.exit = t.entry
            => Gain(t) >= -RiskOf(t.entry, t.direction)
<1>1. PICK e \in Nat, x \in Int, dir \in Directions, s \in Int :
        e = t.entry /\ x = t.exit /\ dir = t.direction /\ s = FirstStop(t.direction)
      BY PriceTypes DEF Simulated
<1>2. Gain(t) = IF dir = "long" THEN x - e ELSE e - x
      BY <1>1 DEF Gain
<1>3. RiskOf(e, dir) = IF e < s THEN s - e ELSE e - s
      BY <1>1 DEF RiskOf
<1>4. PICK g \in Int : g = Gain(t) /\ g = IF dir = "long" THEN x - e ELSE e - x
      BY <1>2
<1>5. ~Worse(dir, x, e) => g >= 0
      BY <1>4 DEF Worse, Directions
<1>6. PICK k \in Int : k = RiskOf(e, dir) /\ k = IF e < s THEN s - e ELSE e - s
      BY <1>3
<1>7. /\ Worse(dir, s, e)
      /\ ~Worse(dir, x, s) \/ x = e
      => g >= -k
      BY <1>4, <1>6 DEF Worse, Directions
<1>8. QED
  BY <1>1, <1>4, <1>5, <1>6, <1>7

\* BreakExit of a walk.
BreakExitIn(w, bar) ==
  IF w.be /\ Worse(w.direction, bar.close, w.entry) THEN w.entry ELSE bar.close

\* Every exit of the loop with a target books a trade as it is defined.
LEMMA RuleExit ==
  ASSUME NEW r, r # "trendline", NEW d, NEW w, AtBar(r, d, w), NEW bar, bar = d[w.at],
         NEW reason, NEW price \in Int,
         \/ /\ reason = "sl" /\ StopMetIn(r, d, w, w.at) /\ price = w.sl
         \/ /\ reason = "tp" /\ ~StopMetIn(r, d, w, w.at) /\ TargetMetIn(d, w, w.at)
            /\ price = Target(w.direction)
         \/ /\ reason = "bos" /\ ~StopMetIn(r, d, w, w.at) /\ ~TargetMetIn(d, w, w.at)
            /\ w.at = w.obos /\ price = BreakExitIn(w, bar)
  PROVE  TradeIn(r, d, Booked(w, reason, price))
<1> DEFINE t == Booked(w, reason, price)
<1>1. reason \in {"sl", "tp", "bos", "safety_line"}
      OBVIOUS
<1> HIDE DEF t
<1>2. /\ t \in Simulated /\ t.first <= t.last /\ SeenTo(d, t, t.last)
      /\ t.entry = d[t.first].open /\ t.reason = reason /\ t.exit = price
      /\ t.be = w.be /\ t.direction = w.direction /\ t.entry = w.entry
      /\ t.last = w.at /\ t.first = w.first /\ t.obos = w.obos
      /\ \A j : /\ StopIn(r, d, t, j) = StopIn(r, d, w, j)
                /\ StopMetIn(r, d, t, j) <=> StopMetIn(r, d, w, j)
                /\ TargetMetIn(d, t, j) <=> TargetMetIn(d, w, j)
                /\ ExitIn(r, d, t, j) <=> ExitIn(r, d, w, j)
      BY <1>1, BookedJudged DEF t
<1>3. /\ w.sl = StopIn(r, d, w, w.at) /\ (w.be <=> DueIn(r, d, w, w.at))
      /\ \A j \in w.first..(w.at - 1) : ~ExitIn(r, d, w, j)
      BY DEF AtBar
<1>4. /\ ExitIn(r, d, t, t.last) /\ \A j \in t.first..(t.last - 1) : ~ExitIn(r, d, t, j)
      /\ t.reason = IF StopMetIn(r, d, t, t.last) THEN "sl"
                    ELSE IF TargetMetIn(d, t, t.last) THEN "tp" ELSE "bos"
      /\ t.reason = "sl" => t.exit = StopIn(r, d, t, t.last)
      /\ t.reason = "tp" => t.exit = Target(t.direction)
      BY <1>2, <1>3 DEF ExitIn
<1>5. /\ w.direction \in Directions /\ w.entry \in Nat /\ Target(w.direction) \in Int
      /\ FirstStop(w.direction) \in Int
      BY WalkFields, PriceTypes DEF AtBar
<1>6. t.be => ~Worse(t.direction, t.exit, t.entry)
  <2> SUFFICES ASSUME w.be PROVE ~Worse(w.direction, price, w.entry)
      BY <1>2
  <2>1. CASE reason = "sl"
    <3>1. price = w.entry
          BY <2>1, <1>3 DEF StopIn
    <3>2. QED
          BY <3>1, <1>5 DEF Worse
  <2>2. CASE reason = "tp"
    <3>1. Worse(w.direction, w.entry, price)
          BY <2>2, EntryBeforeTarget
    <3>2. PICK e \in Nat, dir \in Directions : e = w.entry /\ dir = w.direction
          BY <1>5
    <3>3. ~Worse(dir, price, e)
          BY <3>1, <3>2 DEF Worse, Directions
    <3>4. QED
          BY <3>2, <3>3
  <2>3. CASE reason = "bos"
    <3>1. price = BreakExitIn(w, bar)
          BY <2>3
    <3>2. QED
          BY <3>1, <1>5 DEF BreakExitIn, Worse
  <2>4. QED
        BY <2>1, <2>2, <2>3
<1>7. t.reason = "sl" =>
        ~Worse(t.direction, t.exit, FirstStop(t.direction)) \/ t.exit = t.entry
  <2>1. reason = "sl" => price = w.entry \/ price = FirstStop(w.direction)
        BY <1>3 DEF StopIn
  <2>2. ~Worse(w.direction, FirstStop(w.direction), FirstStop(w.direction))
        BY <1>5 DEF Worse
  <2>3. QED
        BY <2>1, <2>2, <1>2
<1>8. QED
  BY <1>2, <1>4, <1>6, <1>7, Outcomes DEF TradeIn, t

\* So does the trendline loop, whose stop only got better.
LEMMA LineExit ==
  ASSUME NEW d, NEW w, AtBar("trendline", d, w), NEW reason \in {"sl", "safety_line"},
         NEW price \in Int, reason = "sl" => price = w.sl
  PROVE  TradeIn("trendline", d, Booked(w, reason, price))
<1> DEFINE t == Booked(w, reason, price)
           r == "trendline"
<1>1. reason \in {"sl", "tp", "bos", "safety_line"}
      OBVIOUS
<1> HIDE DEF t
<1>2. /\ t \in Simulated /\ t.first <= t.last /\ SeenTo(d, t, t.last)
      /\ t.reason = reason /\ t.exit = price /\ t.be = w.be /\ t.direction = w.direction
      BY <1>1, BookedJudged DEF t
<1>3. ~w.be /\ ~Worse(w.direction, w.sl, FirstStop(w.direction))
      BY DEF AtBar
<1>4. QED
  BY <1>2, <1>3, Outcomes DEF TradeIn, t

\* The walk goes on where the bar met no exit, with the stop the rules want.
LEMMA RuleGoesOn ==
  ASSUME NEW r, r # "trendline", NEW d, NEW w, AtBar(r, d, w), ~ExitIn(r, d, w, w.at),
         w.at # NBars, NEW sl, NEW be,
         IF r = "ict" /\ BreakevenAtR # 0 /\ ~w.be /\ FarAhead(d, w, w.at)
         THEN sl = w.entry /\ be = TRUE ELSE sl = w.sl /\ be = w.be,
         NEW v, v = [w EXCEPT !.at = @ + 1, !.sl = sl, !.be = be]
  PROVE  WalkIn(r, d, v)
<1>1. w \in Walks /\ w.first <= w.at
      BY DEF AtBar
<1>2. /\ v.at = w.at + 1 /\ v.first = w.first /\ v.direction = w.direction /\ v.entry = w.entry
      /\ v.obos = w.obos /\ v.sl = sl /\ v.be = be
      BY <1>1 DEF Walks
<1>3. sl \in Int /\ be \in BOOLEAN
  <2>1. w.entry \in Int /\ w.sl \in Int /\ w.be \in BOOLEAN
        BY <1>1, WalkFields
  <2>2. sl = w.entry \/ sl = w.sl
        OBVIOUS
  <2>3. be = TRUE \/ be = w.be
        BY Zenon
  <2>4. be \in BOOLEAN
        BY <2>1, <2>3, Zenon
  <2>5. QED
        BY <2>1, <2>2, <2>4
<1>4. PICK n \in Index, m \in Index : n = w.at /\ m = w.first
      BY <1>1, WalkFields
<1>5. /\ n \in Nat /\ m \in Nat /\ m <= n /\ n + 1 \in Index /\ (n + 1) - 1 = n
      /\ m \in m..n /\ \A j \in m..n : j \in m..(n - 1) \/ j = n
      BY <1>1, <1>4, BacktestConstants DEF Index
<1>6. v \in Walks
  <2>1. v = [at |-> w.at + 1, first |-> w.first, direction |-> w.direction, entry |-> w.entry,
             sl |-> sl, be |-> be, obos |-> w.obos]
        BY <1>1 DEF Walks
  <2>2. QED
        BY <2>1, <1>1, <1>3, <1>4, <1>5, WalkFields DEF Walks
<1>7. \A k : FarAhead(d, v, k) <=> FarAhead(d, w, k)
      BY <1>2 DEF FarAhead
<1>8. be <=> DueIn(r, d, v, v.at)
  <2>1. DueIn(r, d, v, v.at) <=> r = "ict" /\ BreakevenAtR # 0 /\ \E k \in m..n : FarAhead(d, w, k)
        BY <1>2, <1>4, <1>5, <1>7 DEF DueIn
  <2>2. DueIn(r, d, w, w.at) <=>
          r = "ict" /\ BreakevenAtR # 0 /\ \E k \in m..(n - 1) : FarAhead(d, w, k)
        BY <1>4 DEF DueIn
  <2>3. (\E k \in m..n : FarAhead(d, w, k)) <=>
          (\E k \in m..(n - 1) : FarAhead(d, w, k)) \/ FarAhead(d, w, n)
    <3>1. \A k \in m..(n - 1) : k \in m..n
          BY <1>5
    <3>2. n \in m..n
          BY <1>5
    <3>3. QED
          BY <3>1, <3>2, <1>5
  <2>4. w.be <=> DueIn(r, d, w, w.at)
        BY DEF AtBar
  <2>5. QED
        BY <2>1, <2>2, <2>3, <2>4, <1>4
<1>9. sl = StopIn(r, d, v, v.at)
  <2>1. w.sl = IF w.be THEN w.entry ELSE FirstStop(w.direction)
        BY DEF AtBar, StopIn
  <2>2. sl = IF be THEN w.entry ELSE FirstStop(w.direction)
        BY <2>1
  <2>3. QED
        BY <2>2, <1>2, <1>8 DEF StopIn
<1>10. \A j : ExitIn(r, d, v, j) <=> ExitIn(r, d, w, j)
  <2>1. \A j : DueIn(r, d, v, j) <=> DueIn(r, d, w, j)
        BY <1>2, <1>7 DEF DueIn
  <2>2. \A j : StopIn(r, d, v, j) = StopIn(r, d, w, j)
        BY <2>1, <1>2 DEF StopIn
  <2>3. QED
        BY <2>2, <1>2 DEF ExitIn, StopMetIn, TargetMetIn
<1>11. \A j \in m..n : ~ExitIn(r, d, v, j)
       BY <1>4, <1>5, <1>10 DEF AtBar
<1>12. SeenTo(d, v, n) /\ d[v.first] # Unseen /\ v.entry = d[v.first].open
       BY <1>2, <1>4, <1>5 DEF AtBar, SeenTo
<1>13. v.first <= v.at
       BY <1>2, <1>4, <1>5
<1>14. QED
  BY <1>2, <1>4, <1>5, <1>6, <1>8, <1>9, <1>11, <1>12, <1>13 DEF WalkIn

\* The trendline walk goes on with a stop that is no worse.
LEMMA LineGoesOn ==
  ASSUME NEW d, NEW w, AtBar("trendline", d, w), w.at # NBars, NEW sl \in Int,
         ~Worse(w.direction, sl, FirstStop(w.direction)),
         NEW v, v = [w EXCEPT !.at = @ + 1, !.sl = sl, !.be = FALSE]
  PROVE  WalkIn("trendline", d, v)
<1>1. w \in Walks /\ w.first <= w.at
      BY DEF AtBar
<1>2. /\ v.at = w.at + 1 /\ v.first = w.first /\ v.direction = w.direction /\ v.entry = w.entry
      /\ v.obos = w.obos /\ v.sl = sl /\ v.be = FALSE
      BY <1>1 DEF Walks
<1>3. PICK n \in Index, m \in Index : n = w.at /\ m = w.first
      BY <1>1, WalkFields
<1>4. n \in Nat /\ m \in Nat /\ m <= n /\ n + 1 \in Index /\ (n + 1) - 1 = n /\ m \in m..n
      BY <1>1, <1>3, BacktestConstants DEF Index
<1>5. v \in Walks
  <2>1. v = [at |-> w.at + 1, first |-> w.first, direction |-> w.direction, entry |-> w.entry,
             sl |-> sl, be |-> FALSE, obos |-> w.obos]
        BY <1>1 DEF Walks
  <2>2. QED
        BY <2>1, <1>1, <1>3, <1>4, WalkFields DEF Walks
<1>6. SeenTo(d, v, n) /\ d[v.first] # Unseen /\ v.entry = d[v.first].open
      BY <1>2, <1>3, <1>4 DEF AtBar, SeenTo
<1>7. v.first <= v.at
      BY <1>2, <1>3, <1>4
<1>8. QED
  BY <1>2, <1>3, <1>4, <1>5, <1>6, <1>7 DEF WalkIn

-----------------------------------------------------------------------------
(* The invariant, step by step.                                            *)

\* What is judged at the bar of the walk under way, once it was looked at.
LEMMA Looked ==
  ASSUME IWalk, Walking, NEW bar \in Bars \cup {candles[walk.at]}, Look(walk.at, bar)
  PROVE  /\ AtBar(rules, candles', walk) /\ candles' \in Samples /\ bar = candles'[walk.at]
         /\ bar \in Bars /\ next \in DOMAIN signals /\ walk \in Walks
         /\ \A n \in DOMAIN trades : TradeIn(rules, candles', trades[n])
<1>1. walk \in Walks /\ WalkIn(rules, candles, walk) /\ next \in DOMAIN signals
      BY DEF IWalk, Walking
<1>2. walk.at \in Index /\ candles \in Samples
      BY <1>1, WalkFields DEF IWalk, BacktestTypeOK, Samples
<1>3. /\ candles' \in Samples /\ candles'[walk.at] = bar /\ bar \in Bars /\ bar # Unseen
      /\ \A j \in Index : candles[j] # Unseen => candles'[j] = candles[j]
      BY <1>2, LookStep
<1>4. PICK r, c, d, w : r = rules /\ c = candles /\ d = candles' /\ w = walk
      OBVIOUS
<1>5. AtBar(r, d, w)
      BY <1>1, <1>3, <1>4, WalkAtBar
<1>6. ASSUME NEW n \in DOMAIN trades PROVE TradeIn(rules, candles', trades[n])
  <2>1. PICK t : t = trades[n]
        OBVIOUS
  <2>2. TradeIn(r, c, t)
        BY <2>1, <1>4 DEF IWalk
  <2>3. TradeIn(r, d, t)
        BY <2>2, <1>3, <1>4, TradeStays
  <2>4. QED
        BY <2>1, <2>3, <1>4
<1>7. QED
  BY <1>1, <1>3, <1>4, <1>5, <1>6

\* What the invariant is put together from.
LEMMA Assembled ==
  ASSUME IWalk, UNCHANGED <<rules, signals>>, candles' \in Samples, held' \in BOOLEAN,
         next' \in 1..(Len(signals) + 1), trades' \in Seq(Simulated), Len(trades') <= next',
         \A n \in DOMAIN trades' : TradeIn(rules, candles', trades'[n]),
         \/ walk' = NoWalk
         \/ /\ next' \in DOMAIN signals /\ WalkIn(rules, candles', walk')
            /\ walk'.first = signals[next'].idx + 1
  PROVE  IWalk'
<1>1. Walking' => /\ walk' \in Walks /\ walk'.first <= walk'.at
                  /\ next' \in DOMAIN signals /\ WalkIn(rules, candles', walk')
                  /\ walk'.first = signals[next'].idx + 1
      BY DEF Walking, WalkIn
<1>2. \A w \in Walks : w.first <= w.at => w.at \in w.first..NBars
  <2> SUFFICES ASSUME NEW w \in Walks, w.first <= w.at PROVE w.at \in w.first..NBars
      OBVIOUS
  <2>1. PICK n \in Index, m \in Index : n = w.at /\ m = w.first
        BY WalkFields
  <2>2. n \in m..NBars
        BY <2>1, IndexRange, BacktestConstants DEF Index
  <2>3. QED
        BY <2>1, <2>2
<1>3. Walking' => /\ walk'.at \in walk'.first..NBars
                  /\ walk'.sl \in Int /\ walk'.be \in BOOLEAN /\ walk'.entry \in Nat
      BY <1>1, <1>2, WalkFields
<1>4. BacktestTypeOK'
      BY <1>1, <1>3 DEF IWalk, BacktestTypeOK, Samples
<1>5. walk' \in Walks \cup {NoWalk}
      BY <1>1 DEF Walking
<1>6. QED
  BY <1>1, <1>4, <1>5 DEF IWalk

\* The next signal has its turn.
LEMMA NextTurn ==
  ASSUME IWalk, next \in DOMAIN signals
  PROVE  /\ next + 1 \in 1..(Len(signals) + 1) /\ next \in 1..(Len(signals) + 1)
         /\ Len(trades) \in Nat /\ Len(trades) <= next + 1 /\ Len(trades) + 1 <= next + 1
         /\ Len(trades) <= next /\ trades \in Seq(Simulated)
<1>1. PICK m \in Nat, k \in Nat : m = Len(signals) /\ k = Len(trades) /\ DOMAIN signals = 1..m
      BY DEF IWalk, BacktestTypeOK
<1>2. next \in 1..m /\ k <= next
      BY <1>1 DEF IWalk, BacktestTypeOK
<1>3. QED
  BY <1>1, <1>2 DEF IWalk

\* The end of a trade.
LEMMA ExitStep ==
  ASSUME IWalk, next \in DOMAIN signals, UNCHANGED <<rules, signals>>, candles' \in Samples,
         \A n \in DOMAIN trades : TradeIn(rules, candles', trades[n]),
         NEW reason, NEW price, Exit(reason, price),
         TradeIn(rules, candles', Booked(walk, reason, price))
  PROVE  IWalk'
<1> DEFINE t == Booked(walk, reason, price)
<1>1. trades' = Append(trades, t) /\ held' = TRUE /\ next' = next + 1 /\ walk' = NoWalk
      BY DEF Exit, NextSignal, Booked
<1>2. t \in Simulated
      BY DEF TradeIn
<1> HIDE DEF t
<1>3. /\ trades' \in Seq(Simulated) /\ Len(trades') = Len(trades) + 1
      /\ \A n \in 1..Len(trades) : trades'[n] = trades[n]
      /\ trades'[Len(trades) + 1] = t
      BY <1>1, <1>2, NextTurn, AppendProperties
<1>4. PICK k \in Nat : k = Len(trades) /\ DOMAIN trades = 1..k /\ DOMAIN trades' = 1..(k + 1)
      BY <1>3, NextTurn
<1>5. \A n \in DOMAIN trades' : TradeIn(rules, candles', trades'[n])
  <2>1. \A n \in 1..(k + 1) : n \in 1..k \/ n = k + 1
        BY <1>4
  <2>2. QED
        BY <2>1, <1>3, <1>4 DEF t
<1>6. Len(trades') <= next'
      BY <1>1, <1>3, NextTurn
<1>7. QED
  BY <1>1, <1>3, <1>5, <1>6, NextTurn, Assembled

\* The next bar of a walk, if there is one.
LEMMA GoOnStep ==
  ASSUME IWalk, Walking, next \in DOMAIN signals, UNCHANGED <<rules, signals>>,
         candles' \in Samples, \A n \in DOMAIN trades : TradeIn(rules, candles', trades[n]),
         NEW sl, NEW be, GoOn(sl, be),
         walk.at # NBars =>
           WalkIn(rules, candles', [walk EXCEPT !.at = @ + 1, !.sl = sl, !.be = be])
  PROVE  IWalk'
<1>1. UNCHANGED <<held, trades>> /\ held' \in BOOLEAN
      BY DEF GoOn, IWalk, BacktestTypeOK
<1>2. CASE walk.at = NBars
  <2>1. next' = next + 1 /\ walk' = NoWalk
        BY <1>2 DEF GoOn, NextSignal
  <2>2. QED
        BY <2>1, <1>1, NextTurn, Assembled
<1>3. CASE walk.at # NBars
  <2>1. walk' = [walk EXCEPT !.at = @ + 1, !.sl = sl, !.be = be] /\ next' = next
        BY <1>3 DEF GoOn
  <2>2. walk \in Walks /\ walk.first = signals[next].idx + 1
        BY DEF IWalk, Walking, BacktestTypeOK
  <2>3. walk'.first = walk.first
        BY <2>1, <2>2 DEF Walks
  <2>4. WalkIn(rules, candles', walk')
        BY <2>1, <1>3
  <2>5. QED
        BY <2>1, <2>2, <2>3, <2>4, <1>1, NextTurn, Assembled
<1>4. QED
  BY <1>2, <1>3

\* A signal is passed over.
LEMMA PassOverStep ==
  ASSUME IWalk, PassOver
  PROVE  IWalk'
<1>1. /\ next' = next + 1 /\ walk' = NoWalk /\ next <= Len(signals)
      /\ UNCHANGED <<rules, signals, candles, held, trades>>
      BY DEF PassOver, NextSignal
<1>2. next \in DOMAIN signals /\ candles' \in Samples /\ held' \in BOOLEAN
      BY <1>1 DEF IWalk, BacktestTypeOK, Samples
<1>3. \A n \in DOMAIN trades : TradeIn(rules, candles', trades[n])
      BY <1>1 DEF IWalk
<1>4. QED
  BY <1>1, <1>2, <1>3, NextTurn, Assembled

\* A trade is entered at the open of the bar behind the signal.
LEMMA EnterStep ==
  ASSUME IWalk, Enter
  PROVE  IWalk'
<1> DEFINE s == signals[next]
           first == EntryBar(s)
<1>1. /\ UNCHANGED <<rules, signals, held, trades>> /\ next <= Len(signals)
      /\ ~NoBarLeft(s) /\ walk = NoWalk
      BY DEF Enter, Walking
<1>2. PICK bar \in Bars \cup {candles[first]} :
        /\ Look(first, bar)
        /\ IF bar.open = FirstStop(s.direction)
           THEN NextSignal
           ELSE /\ \E obos \in IF rules = "ict" THEN {Never} \cup (first..NBars) ELSE {Never} :
                     walk' = [at |-> first, first |-> first, direction |-> s.direction,
                              entry |-> bar.open, sl |-> FirstStop(s.direction),
                              be |-> FALSE, obos |-> obos]
                /\ UNCHANGED next
      BY DEF Enter
<1>3. next \in DOMAIN signals /\ held' \in BOOLEAN /\ candles \in Samples
      BY <1>1 DEF IWalk, BacktestTypeOK, Samples
<1>4. s \in Signal
      BY <1>3 DEF IWalk, BacktestTypeOK
<1>5. s.idx \in Index /\ s.direction \in Directions
      BY <1>4 DEF Signal
<1>6. first \in Index /\ first = s.idx + 1
  <2>1. PICK i \in Index : i = s.idx
        BY <1>5
  <2>2. i + 1 \in Index
        BY <2>1, <1>1, IndexRange, BacktestConstants DEF NoBarLeft, Index
  <2>3. QED
        BY <2>1, <2>2 DEF EntryBar
<1> HIDE DEF s, first
<1>7. /\ candles' \in Samples /\ candles'[first] = bar /\ bar \in Bars /\ bar # Unseen
      /\ \A j \in Index : candles[j] # Unseen => candles'[j] = candles[j]
      BY <1>2, <1>3, <1>6, LookStep
<1>8. ASSUME NEW n \in DOMAIN trades PROVE TradeIn(rules, candles', trades[n])
  <2>1. PICK t, c, d, r : t = trades[n] /\ c = candles /\ d = candles' /\ r = rules
        OBVIOUS
  <2>2. TradeIn(r, c, t)
        BY <2>1 DEF IWalk
  <2>3. TradeIn(r, d, t)
        BY <2>1, <2>2, <1>7, TradeStays
  <2>4. QED
        BY <2>1, <2>3
<1>9. CASE bar.open = FirstStop(s.direction)
  <2>1. next' = next + 1 /\ walk' = NoWalk
        BY <1>2, <1>9 DEF NextSignal
  <2>2. QED
        BY <2>1, <1>1, <1>3, <1>7, <1>8, NextTurn, Assembled
<1>10. CASE bar.open # FirstStop(s.direction)
  <2>1. next' = next
        BY <1>2, <1>10
  <2>2. PICK obos \in IF rules = "ict" THEN {Never} \cup (first..NBars) ELSE {Never} :
          walk' = [at |-> first, first |-> first, direction |-> s.direction,
                   entry |-> bar.open, sl |-> FirstStop(s.direction),
                   be |-> FALSE, obos |-> obos]
        BY <1>2, <1>10
  <2>3. obos \in 0..NBars
        BY <1>6, IndexRange, BacktestConstants DEF Never, Index
  <2>4. PICK w, d, r : w = walk' /\ d = candles' /\ r = rules
        OBVIOUS
  <2>5. /\ w.at = first /\ w.first = first /\ w.direction = s.direction
        /\ w.entry = bar.open /\ w.sl = FirstStop(s.direction) /\ w.be = FALSE /\ w.obos = obos
        BY <2>2, <2>4
  <2>6. w \in Walks
    <3>1. bar.open \in Nat /\ FirstStop(s.direction) \in Int
          BY <1>5, <1>7, BarPrices, PriceTypes
    <3>2. QED
          BY <2>2, <2>3, <2>4, <3>1, <1>5, <1>6 DEF Walks
  <2>7. first..(first - 1) = {} /\ first <= first
        BY <1>6, IndexRange
  <2>8. ~DueIn(r, d, w, w.at) /\ w.sl = StopIn(r, d, w, w.at)
        BY <2>5, <2>7 DEF DueIn, StopIn
  <2>9. ~Worse(w.direction, w.sl, FirstStop(w.direction))
    <3>1. PICK x \in Int : x = FirstStop(w.direction) /\ w.sl = x
          BY <2>5, <1>5, PriceTypes
    <3>2. QED
          BY <3>1 DEF Worse
  <2>10. WalkIn(r, d, w)
         BY <2>4, <2>5, <2>6, <2>7, <2>8, <2>9, <1>7 DEF WalkIn, SeenTo
  <2>11. walk'.first = signals[next].idx + 1
         BY <2>4, <2>5, <1>6 DEF s
  <2>12. WalkIn(rules, candles', walk')
         BY <2>4, <2>10
  <2>13. QED
         BY <2>1, <2>11, <2>12, <1>1, <1>3, <1>7, <1>8, NextTurn, Assembled
<1>11. QED
  BY <1>9, <1>10

\* A bar of the loop with a target.
LEMMA WalkBarStep ==
  ASSUME IWalk, WalkBar
  PROVE  IWalk'
<1>1. Walking /\ rules # "trendline" /\ UNCHANGED <<rules, signals>>
      BY DEF WalkBar
<1>2. PICK bar \in Bars \cup {candles[walk.at]} :
        /\ Look(walk.at, bar)
        /\ IF StoppedOut(bar) THEN Exit("sl", walk.sl)
           ELSE IF Reaches(bar) THEN Exit("tp", Target(walk.direction))
           ELSE IF walk.at = walk.obos THEN Exit("bos", BreakExit(bar))
           ELSE IF BreakevenDue(bar) THEN GoOn(BreakevenStop, TRUE)
           ELSE GoOn(walk.sl, walk.be)
      BY DEF WalkBar
<1>3. /\ AtBar(rules, candles', walk) /\ candles' \in Samples /\ bar = candles'[walk.at]
      /\ bar \in Bars /\ next \in DOMAIN signals /\ walk \in Walks
      /\ \A n \in DOMAIN trades : TradeIn(rules, candles', trades[n])
      BY <1>1, <1>2, Looked
<1>4. PICK r, d, w : r = rules /\ d = candles' /\ w = walk
      OBVIOUS
<1>5. AtBar(r, d, w) /\ r # "trendline" /\ bar = d[w.at] /\ w \in Walks
      BY <1>1, <1>3, <1>4
<1>6. /\ w.sl \in Int /\ w.entry \in Nat /\ w.direction \in Directions
      /\ Target(w.direction) \in Int /\ bar.close \in Int
      BY <1>3, <1>5, WalkFields, PriceTypes, BarPrices
<1>7. /\ StoppedOut(bar) <=> StopMetIn(r, d, w, w.at)
      /\ Reaches(bar) <=> TargetMetIn(d, w, w.at)
      BY <1>4, <1>5 DEF AtBar, StoppedOut, Touches, Reaches, StopMetIn, TargetMetIn
<1>8. CASE StoppedOut(bar)
  <2>1. Exit("sl", walk.sl)
        BY <1>2, <1>8
  <2>2. TradeIn(r, d, Booked(w, "sl", w.sl))
        BY <1>5, <1>6, <1>7, <1>8, RuleExit
  <2>3. QED
        BY <2>1, <2>2, <1>1, <1>3, <1>4, ExitStep
<1>9. CASE ~StoppedOut(bar) /\ Reaches(bar)
  <2>1. Exit("tp", Target(walk.direction))
        BY <1>2, <1>9
  <2>2. TradeIn(r, d, Booked(w, "tp", Target(w.direction)))
        BY <1>5, <1>6, <1>7, <1>9, RuleExit
  <2>3. QED
        BY <2>1, <2>2, <1>1, <1>3, <1>4, ExitStep
<1>10. CASE ~StoppedOut(bar) /\ ~Reaches(bar) /\ walk.at = walk.obos
  <2>1. Exit("bos", BreakExit(bar))
        BY <1>2, <1>10
  <2>2. BreakExit(bar) = BreakExitIn(w, bar)
        BY <1>4 DEF BreakExit, BreakExitIn
  <2>3. BreakExitIn(w, bar) \in Int
        BY <1>6 DEF BreakExitIn
  <2>4. TradeIn(r, d, Booked(w, "bos", BreakExitIn(w, bar)))
        BY <2>3, <1>4, <1>5, <1>7, <1>10, RuleExit
  <2>5. QED
        BY <2>1, <2>2, <2>4, <1>1, <1>3, <1>4, ExitStep
<1>11. CASE ~StoppedOut(bar) /\ ~Reaches(bar) /\ walk.at # walk.obos
  <2>1. ~ExitIn(r, d, w, w.at)
        BY <1>4, <1>7, <1>11 DEF ExitIn
  <2>2. BreakevenDue(bar) <=>
          r = "ict" /\ BreakevenAtR # 0 /\ ~w.be /\ FarAhead(d, w, w.at)
        BY <1>4, <1>5 DEF BreakevenDue, FarAhead
  <2>3. CASE BreakevenDue(bar)
    <3>1. GoOn(walk.entry, TRUE)
          BY <1>2, <1>11, <2>3 DEF BreakevenStop
    <3>2. w.at # NBars => WalkIn(r, d, [w EXCEPT !.at = @ + 1, !.sl = w.entry, !.be = TRUE])
          BY <2>1, <2>2, <2>3, <1>5, RuleGoesOn
    <3>3. QED
          BY <3>1, <3>2, <1>1, <1>3, <1>4, GoOnStep
  <2>4. CASE ~BreakevenDue(bar)
    <3>1. GoOn(walk.sl, walk.be)
          BY <1>2, <1>11, <2>4
    <3>2. w.at # NBars => WalkIn(r, d, [w EXCEPT !.at = @ + 1, !.sl = w.sl, !.be = w.be])
          BY <2>1, <2>2, <2>4, <1>5, RuleGoesOn
    <3>3. QED
          BY <3>1, <3>2, <1>1, <1>3, <1>4, GoOnStep
  <2>5. QED
        BY <2>3, <2>4
<1>12. QED
  BY <1>8, <1>9, <1>10, <1>11

\* A bar of the trendline loop.
LEMMA WalkLineStep ==
  ASSUME IWalk, WalkLine
  PROVE  IWalk'
<1>1. Walking /\ rules = "trendline" /\ UNCHANGED <<rules, signals>>
      BY DEF WalkLine
<1> DEFINE Values == {b.low : b \in Bars} \cup {b.high : b \in Bars}
<1>2. PICK bar \in Bars \cup {candles[walk.at]} :
        /\ Look(walk.at, bar)
        /\ IF Touches(bar) THEN Exit("sl", walk.sl)
           ELSE \/ GoOn(walk.sl, FALSE)
                \/ \E safety \in Values :
                     IF Worse(walk.direction, bar.close, safety)
                     THEN Exit("safety_line", bar.close)
                     ELSE GoOn(Trailed(safety), FALSE)
      BY DEF WalkLine
<1>3. /\ AtBar(rules, candles', walk) /\ candles' \in Samples
      /\ bar \in Bars /\ next \in DOMAIN signals /\ walk \in Walks
      /\ \A n \in DOMAIN trades : TradeIn(rules, candles', trades[n])
      BY <1>1, <1>2, Looked
<1>4. PICK d, w : d = candles' /\ w = walk
      OBVIOUS
<1>5. AtBar("trendline", d, w) /\ w \in Walks
      BY <1>1, <1>3, <1>4
<1>6. /\ w.sl \in Int /\ w.direction \in Directions /\ bar.close \in Int
      /\ \A x \in Values : x \in Int
      BY <1>3, <1>5, WalkFields, BarPrices
<1>7. ~Worse(w.direction, w.sl, FirstStop(w.direction))
      BY <1>5 DEF AtBar
<1>8. CASE Exit("sl", walk.sl)
  <2>1. TradeIn("trendline", d, Booked(w, "sl", w.sl))
        BY <1>5, <1>6, LineExit
  <2>2. QED
        BY <2>1, <1>1, <1>3, <1>4, <1>8, ExitStep
<1>9. CASE Exit("safety_line", bar.close)
  <2>1. TradeIn("trendline", d, Booked(w, "safety_line", bar.close))
        BY <1>5, <1>6, LineExit
  <2>2. QED
        BY <2>1, <1>1, <1>3, <1>4, <1>9, ExitStep
<1>10. ASSUME NEW sl \in Int, ~Worse(w.direction, sl, FirstStop(w.direction)), GoOn(sl, FALSE)
       PROVE  IWalk'
  <2>1. w.at # NBars => WalkIn("trendline", d, [w EXCEPT !.at = @ + 1, !.sl = sl, !.be = FALSE])
        BY <1>5, <1>10, LineGoesOn
  <2>2. QED
        BY <2>1, <1>1, <1>3, <1>4, <1>10, GoOnStep
<1>11. ASSUME NEW safety \in Values
       PROVE  Trailed(safety) \in Int
              /\ ~Worse(w.direction, Trailed(safety), FirstStop(w.direction))
  <2>1. PICK x \in Int, f \in Int, v \in Int, dir \in Directions :
          x = w.sl /\ f = FirstStop(w.direction) /\ v = safety /\ dir = w.direction
        BY <1>6, PriceTypes
  <2>2. PICK b \in Int : b = Ahead(dir, v, -Buffer)
        BY BacktestConstants DEF Ahead
  <2>3. Trailed(safety) = IF Worse(dir, x, b) THEN b ELSE x
        BY <2>1, <2>2, <1>4 DEF Trailed
  <2>4. ~Worse(dir, x, f)
        BY <2>1, <1>7
  <2>5. Worse(dir, x, b) => ~Worse(dir, b, f)
        BY <2>4 DEF Worse, Directions
  <2>6. QED
        BY <2>1, <2>3, <2>4, <2>5
<1>12. QED
  BY <1>2, <1>4, <1>6, <1>7, <1>8, <1>9, <1>10, <1>11

\* The invariant of the walk is inductive.
LEMMA WalkInductive == IWalk /\ [BacktestNext]_backtestVars => IWalk'
<1> SUFFICES ASSUME IWalk, [BacktestNext]_backtestVars PROVE IWalk'
    OBVIOUS
<1>1. CASE UNCHANGED backtestVars
      BY <1>1 DEF backtestVars, IWalk, BacktestTypeOK, Walking
<1>2. QED
  BY <1>1, PassOverStep, EnterStep, WalkBarStep, WalkLineStep DEF BacktestNext, Done

\* Before the first signal nothing is under way and nothing is booked.
LEMMA WalkBegins == BacktestInit => IWalk
<1> SUFFICES ASSUME BacktestInit PROVE IWalk
    OBVIOUS
<1>1. signals \in Seq(Signal) /\ Len(signals) \in Nat
  <2>1. PICK n \in 0..MaxSignals : signals \in [1..n -> Signal]
        BY DEF BacktestInit
  <2>2. n \in Nat
        BY <2>1, BacktestAssumption
  <2>3. QED
        BY <2>1, <2>2, SeqDef
<1>2. trades \in Seq(Simulated) /\ DOMAIN trades = {} /\ Len(trades) = 0
      BY DEF BacktestInit
<1>3. candles \in [Index -> Bars \cup {Unseen}] /\ ~Walking /\ next = 1 /\ walk = NoWalk
      BY DEF BacktestInit, Walking
<1>4. rules \in {"plain", "ict", "trendline"} /\ held \in BOOLEAN
      BY ZenonT(20) DEF BacktestInit
<1>5. next \in 1..Len(signals) + 1 /\ Len(trades) <= next
      BY <1>1, <1>2, <1>3
<1>6. BacktestTypeOK
      BY <1>1, <1>3, <1>4, <1>5 DEF BacktestTypeOK
<1>7. QED
  BY <1>2, <1>3, <1>6 DEF IWalk

\* What is booked is what the three properties ask for.
LEMMA WalkTrusted == IWalk => SimulationInv
<1> SUFFICES ASSUME IWalk PROVE SimulationInv
    OBVIOUS
<1>1. \A t, j : /\ StopAt(t, j) = StopIn(rules, candles, t, j)
                /\ StopMet(t, j) <=> StopMetIn(rules, candles, t, j)
                /\ TargetMet(t, j) <=> TargetMetIn(candles, t, j)
                /\ ExitMet(t, j) <=> ExitIn(rules, candles, t, j)
  <2>1. \A t, j : StopAt(t, j) = StopIn(rules, candles, t, j)
        BY DEF StopAt, StopIn, DueIn, FarAhead
  <2>2. QED
        BY <2>1 DEF StopMet, StopMetIn, TargetMet, TargetMetIn, ExitMet, ExitIn
<1>2. TradesAsDefined
      BY <1>1 DEF TradesAsDefined, IWalk, TradeIn
<1>3. BreakevenNeverLoses /\ StopLimitsLoss
      BY DEF BreakevenNeverLoses, StopLimitsLoss, IWalk, TradeIn
<1>4. QED
  BY <1>2, <1>3 DEF SimulationInv, IWalk

\* Every simulated trade is the one the rules define, no exit after breakeven is a
\* loss, and a stop limits the loss to the risk, for every sample of every length.
THEOREM SimulationHolds == BacktestSpec => []SimulationInv
BY WalkBegins, WalkInductive, WalkTrusted, PTL DEF BacktestSpec
=============================================================================
