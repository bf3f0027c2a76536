---------------------------- MODULE TradeLedger ----------------------------
(***************************************************************************)
(* What the trades table promises, whatever the broker, the monitor and    *)
(* the database do: a trade is recorded open only while fewer than MaxOpen *)
(* trades are open, and it leaves that status once and for good, either    *)
(* settled or flagged for an operator.  Module Execution implements it.    *)
(***************************************************************************)
EXTENDS Naturals, FiniteSets

CONSTANTS
  Tickets,   \* broker tickets, each names one position and one TradeRecord
  MaxOpen    \* risk.guards.max_open_positions, a positive number

VARIABLE record   \* TradeRecord.status by ticket; "none" before the insert

Status == {"none", "open", "closed", "manual_review"}

OpenRecords == {t \in Tickets : record[t] = "open"}

Init == record = [t \in Tickets |-> "none"]

Open(t) ==
  /\ record[t] = "none"
  /\ Cardinality(OpenRecords) < MaxOpen
  /\ record' = [record EXCEPT ![t] = "open"]

Leave(t, status) ==
  /\ record[t] = "open"
  /\ record' = [record EXCEPT ![t] = status]

Next == \E t \in Tickets : \/ Open(t)
                           \/ Leave(t, "closed")
                           \/ Leave(t, "manual_review")

Spec == Init /\ [][Next]_record

=============================================================================
