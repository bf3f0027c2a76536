-------------------------- MODULE Management_proofs --------------------------
(***************************************************************************)
(* Theorems about Management, for every direction, adapter and rule, every *)
(* risk, target and buffer, and any number of lost writes and refusals.    *)
(***************************************************************************)
EXTENDS Management, TLAPS

USE ManagementAssumption DEF None, Prices, Reasons, Setups, Close, Closes, NotClosed,
  market, broker

-----------------------------------------------------------------------------
(* Type correctness. *)

LEMMA TypeInit == Init => TypeOK
BY DEF Init, TypeOK, Ahead, Long

\* A session that writes a row of the right type keeps every type it can touch.
LEMMA TypeWrite ==
  ASSUME TypeOK, NEW r, NEW next, Write(r, next),
         r \in [status : {"open", "closed"}, sl : Int, be : BOOLEAN, close : Closes],
         next \in {"idle", "exits", "manage", "bos"}
  PROVE  /\ record' \in [status : {"open", "closed"}, sl : Int, be : BOOLEAN, close : Closes]
         /\ phase' \in {"idle", "exits", "manage", "bos"}
         /\ faults' \in 0..MaxFaults
BY DEF Write, MayFail, TypeOK

\* What the monitor settles and moves has the right type.
LEMMA TypeRows ==
  ASSUME TypeOK
  PROVE  /\ \A d \in Closes : Settled(record, d) \in
              [status : {"open", "closed"}, sl : Int, be : BOOLEAN, close : Closes]
         /\ \A s \in Int : [record EXCEPT !.sl = s] \in
              [status : {"open", "closed"}, sl : Int, be : BOOLEAN, close : Closes]
         /\ AtBreakeven \in
              [status : {"open", "closed"}, sl : Int, be : BOOLEAN, close : Closes]
<1>1. ASSUME NEW d \in Closes PROVE Settled(record, d) \in
              [status : {"open", "closed"}, sl : Int, be : BOOLEAN, close : Closes]
      BY <1>1 DEF TypeOK, Settled
<1>2. ASSUME NEW s \in Int PROVE [record EXCEPT !.sl = s] \in
              [status : {"open", "closed"}, sl : Int, be : BOOLEAN, close : Closes]
      BY <1>2 DEF TypeOK
<1>3. AtBreakeven \in
              [status : {"open", "closed"}, sl : Int, be : BOOLEAN, close : Closes]
  <2>1. [record EXCEPT !.sl = Entry] \in
              [status : {"open", "closed"}, sl : Int, be : BOOLEAN, close : Closes]
        BY <1>2, SMT
  <2>2. QED
        BY <2>1, Zenon DEF TypeOK, AtBreakeven
<1>4. QED
      BY <1>1, <1>2, <1>3

LEMMA TypeStep == TypeOK /\ [Next]_vars => TypeOK'
<1> SUFFICES ASSUME TypeOK, [Next]_vars PROVE TypeOK'
    OBVIOUS
<1>1. CASE Quote
      BY <1>1 DEF Quote, TypeOK
<1>2. CASE CandleCloses
      BY <1>2 DEF CandleCloses, TypeOK
<1>3. CASE ServerCloses
  <2>1. deal' \in Closes
        BY <1>3 DEF ServerCloses, ExitQuote, Ask, TypeOK
  <2>2. QED
        BY <1>3, <2>1 DEF ServerCloses, TypeOK
<1>4. CASE Reconcile
      BY <1>4, TypeWrite, TypeRows DEF Reconcile, TypeOK
<1>5. CASE Exits
  <2>1. Target \in Int /\ deal \in Closes /\ stop \in Int
        BY DEF Target, Ahead, TypeOK
  <2>2. position' \in {"open", "closed"} /\ deal' \in Closes /\ stop' \in Int
        BY <1>5, <2>1 DEF Exits, TypeOK
  <2>3. QED
        BY <1>5, <2>2, TypeWrite, TypeRows DEF Exits, TypeOK
<1>6. CASE Breakeven
  <2>1. UNCHANGED <<setup, market>>
        BY <1>6 DEF Breakeven
  <2>2. CASE MoveStop(AtBreakeven, "bos")
        BY <2>1, <2>2, TypeWrite, TypeRows DEF MoveStop, Refused, MayFail, TypeOK
  <2>3. CASE ~MoveStop(AtBreakeven, "bos")
        BY <1>6, <2>3 DEF Breakeven, PassOver, TypeOK
  <2>4. QED
        BY <2>2, <2>3
<1>7. CASE OppositeBos
  <2>1. UNCHANGED <<setup, market>>
        BY <1>7 DEF OppositeBos
  <2>2. CASE CloseAndSettle(record, "bos", broken)
    <3>1. deal' \in Closes /\ Close("bos", broken) \in Closes
          BY <2>2 DEF CloseAndSettle, ExitQuote, Ask, TypeOK
    <3>2. QED
          BY <2>1, <2>2, <3>1, TypeWrite, TypeRows DEF CloseAndSettle, TypeOK
  <2>3. CASE ~CloseAndSettle(record, "bos", broken)
        BY <1>7, <2>3 DEF OppositeBos, PassOver, Refused, MayFail, TypeOK
  <2>4. QED
        BY <2>2, <2>3
<1>8. CASE SafetyLine
  <2> DEFINE candidate == Ahead(line, -Buffer)
  <2>1. UNCHANGED <<setup, market>>
        BY <1>8 DEF SafetyLine
  <2>2. candidate \in Int
        BY DEF Ahead, TypeOK
  <2>3. CASE CloseAndSettle(record, "safety_line", candle)
    <3>1. deal' \in Closes /\ Close("safety_line", candle) \in Closes
          BY <2>3 DEF CloseAndSettle, ExitQuote, Ask, TypeOK
    <3>2. QED
          BY <2>1, <2>3, <3>1, TypeWrite, TypeRows DEF CloseAndSettle, TypeOK
  <2>4. CASE MoveStop([record EXCEPT !.sl = candidate], "idle")
    <3>1. [record EXCEPT !.sl = candidate].sl = candidate
          BY DEF TypeOK
    <3>2. QED
          BY <2>1, <2>2, <2>4, <3>1, TypeWrite, TypeRows DEF MoveStop, Refused, MayFail, TypeOK
  <2>5. CASE ~CloseAndSettle(record, "safety_line", candle)
             /\ ~MoveStop([record EXCEPT !.sl = candidate], "idle")
        BY <1>8, <2>5 DEF SafetyLine, PassOver, Refused, MayFail, TypeOK
  <2>6. QED
        BY <2>3, <2>4, <2>5
<1>9. CASE UNCHANGED vars
      BY <1>9 DEF vars, TypeOK
<1>10. QED
       BY <1>1, <1>2, <1>3, <1>4, <1>5, <1>6, <1>7, <1>8, <1>9 DEF Next, Monitor

\* Every variable keeps its type (module Management, TypeOK).
THEOREM TypeCorrect == Spec => []TypeOK
<1>1. QED
      BY TypeInit, TypeStep, PTL DEF Spec

-----------------------------------------------------------------------------
(***************************************************************************)
(* The stop and the account.  The stop in the table is what the rules      *)
(* start from; it is the first stop, a trailed one or the entry.           *)
(***************************************************************************)

\* The recorded stop is never worse than the first one; an ICT position's is
\* not beyond its entry, and is the entry once breakeven is noted.
StopRange ==
  /\ ~Worse(record.sl, Ahead(Entry, -Risk))
  /\ setup.rules = "ict" => ~Worse(Entry, record.sl)
  /\ record.be => record.sl = Entry /\ setup.rules = "ict"

\* There is no deal for a position the broker still holds, and a pass ends
\* when it has settled the record.
Bookkeeping ==
  /\ position = "open" => deal = NotClosed
  /\ record.status = "closed" => phase = "idle"

\* All conjuncts but TypeOK.
Rest == StopRange /\ Bookkeeping /\ RecordedStopHolds /\ BreakevenHolds /\ AccountAgrees /\ LossBounded

LEMMA RestInit == Init => Rest
BY DEF Init, Rest, StopRange, Bookkeeping, RecordedStopHolds, BreakevenHolds, AccountAgrees,
   LossBounded, Worse, Ahead, Long, Paper

\* A step that leaves the broker, the record's stop and its flag alone, and
\* settles only what the broker has closed.
LEMMA QuietStep ==
  ASSUME TypeOK, Rest, setup' = setup, UNCHANGED broker,
         \/ record' = record /\ (record.status = "closed" => phase' = "idle")
         \/ /\ position = "closed" /\ phase' = "idle"
            /\ record' = Settled(record, deal)
  PROVE  Rest'
<1>1. /\ record'.sl = record.sl /\ record'.be = record.be
      /\ position' = position /\ stop' = stop /\ deal' = deal
      BY DEF Settled, TypeOK
<1>2. StopRange' /\ RecordedStopHolds' /\ BreakevenHolds' /\ LossBounded'
      BY <1>1 DEF Rest, StopRange, RecordedStopHolds, BreakevenHolds, LossBounded,
         Worse, Ahead, Long, Paper
<1>3. Bookkeeping' /\ AccountAgrees'
      BY <1>1 DEF Rest, Bookkeeping, AccountAgrees, Settled, Paper, TypeOK
<1>4. QED
      BY <1>2, <1>3 DEF Rest

\* The monitor closes the position itself and may fail to record it.
LEMMA ClosingStep ==
  ASSUME TypeOK, Rest, setup' = setup, position = "open", record.status = "open",
         NEW d \in Closes, Paper => deal' = d,
         position' = "closed", stop' = stop,
         Paper /\ deal'.reason = "sl" => deal'.price = stop,
         Write(Settled(record, d), "idle")
  PROVE  Rest'
<1>1. record'.sl = record.sl /\ record'.be = record.be /\ phase' = "idle"
      BY DEF Write, MayFail, Settled, TypeOK
<1>2. StopRange' /\ RecordedStopHolds'
      BY <1>1 DEF Rest, StopRange, RecordedStopHolds, Worse, Ahead, Long
<1>3. BreakevenHolds' /\ LossBounded'
      BY <1>1 DEF Rest, StopRange, RecordedStopHolds, BreakevenHolds, LossBounded,
         Worse, Ahead, Long, Paper, TypeOK
<1>4. record'.status = "closed" => record'.close = d
      BY DEF Write, MayFail, Settled, TypeOK
<1>5. Bookkeeping' /\ AccountAgrees'
      BY <1>1, <1>4 DEF Bookkeeping, AccountAgrees, Paper
<1>6. QED
      BY <1>2, <1>3, <1>5 DEF Rest

\* The stop moves to one that is not worse than the record's, at the broker
\* first and in the table if the session does not fail.
LEMMA MovingStep ==
  ASSUME TypeOK, Rest, setup' = setup, position = "open", record.status = "open",
         NEW s \in Int, NEW be \in BOOLEAN, NEW next, next # "none",
         ~Worse(s, record.sl),
         setup.rules = "ict" => ~Worse(Entry, s),
         be => s = Entry /\ setup.rules = "ict",
         MoveStop([record EXCEPT !.sl = s, !.be = be], next)
  PROVE  Rest'
<1> DEFINE r == [record EXCEPT !.sl = s, !.be = be]
<1>1. /\ r.sl = s /\ r.be = be /\ r.status = "open"
      BY DEF TypeOK
<1>2. position' = "open" /\ deal' = deal /\ record'.status = "open"
      BY <1>1 DEF MoveStop, Refused, Write, MayFail
<1>3. \/ stop' = s /\ record'.sl = s /\ record'.be = be
      \/ stop' = s /\ record' = record
      \/ stop' = stop /\ record' = record
      BY <1>1 DEF MoveStop, Refused, Write, MayFail
<1>4. StopRange'
      BY <1>3 DEF Rest, StopRange, Worse, Ahead, Long, TypeOK
<1>5. RecordedStopHolds'
      BY <1>3, <1>2 DEF Rest, RecordedStopHolds, Worse, Long, TypeOK
<1>6. Bookkeeping' /\ AccountAgrees' /\ BreakevenHolds' /\ LossBounded'
      BY <1>2 DEF Rest, Bookkeeping, AccountAgrees, BreakevenHolds, LossBounded
<1>7. QED
      BY <1>4, <1>5, <1>6 DEF Rest

LEMMA RestStep == TypeOK /\ Rest /\ [Next]_vars => Rest'
<1> SUFFICES ASSUME TypeOK, Rest, [Next]_vars PROVE Rest'
    OBVIOUS
<1>1. CASE Quote \/ CandleCloses
      BY <1>1, QuietStep DEF Quote, CandleCloses, Rest, Bookkeeping
<1>2. CASE ServerCloses
  <2>1. ~Paper /\ ~Paper'
        BY <1>2 DEF ServerCloses, Paper
  <2>2. record.status = "open"
        BY <1>2 DEF ServerCloses, Rest, AccountAgrees, TypeOK
  <2>3. StopRange'
        BY <1>2 DEF ServerCloses, Rest, StopRange, Worse, Ahead, Long
  <2>4. QED
        BY <1>2, <2>1, <2>2, <2>3 DEF ServerCloses, Rest, Bookkeeping, RecordedStopHolds,
           BreakevenHolds, AccountAgrees, LossBounded
<1>3. CASE Reconcile
      BY <1>3, QuietStep DEF Reconcile, Write, MayFail
<1>4. CASE Exits
  <2>1. record.status = "open"
        BY <1>4 DEF Exits, Rest, Bookkeeping, TypeOK
  <2>2. CASE Paper /\ position = "open" /\ (HitsTarget \/ HitsStop)
    <3>1. deal' \in Closes /\ (deal'.reason = "sl" => deal'.price = stop)
          BY <1>4, <2>2 DEF Exits, Target, Ahead, TypeOK
    <3>2. QED
          BY <1>4, <2>1, <2>2, <3>1, ClosingStep DEF Exits
  <2>3. CASE ~(Paper /\ position = "open" /\ (HitsTarget \/ HitsStop))
        BY <1>4, <2>1, <2>3, QuietStep DEF Exits, Write, MayFail
  <2>4. QED
        BY <2>2, <2>3
<1>5. CASE Breakeven
  <2>1. record.status = "open"
        BY <1>5 DEF Breakeven, Rest, Bookkeeping, TypeOK
  <2>2. CASE position = "open" /\ MoveStop(AtBreakeven, "bos")
    <3>1. ~Worse(Entry, record.sl)
          BY <1>5 DEF Breakeven, Rest, StopRange
    <3>2. AtBreakeven = [record EXCEPT !.sl = Entry, !.be = TRUE]
          BY DEF AtBreakeven
    <3>3. ~Worse(Entry, Entry)
          BY DEF Worse
    <3>4. setup' = setup /\ setup.rules = "ict"
          BY <1>5 DEF Breakeven
    <3>5. MoveStop([record EXCEPT !.sl = Entry, !.be = TRUE], "bos")
          BY <2>2, <3>2
    <3>6. Entry \in Int /\ TRUE \in BOOLEAN
          OBVIOUS
    <3>7. QED
          BY <2>1, <2>2, <3>1, <3>3, <3>4, <3>5, <3>6, MovingStep
  <2>3. CASE ~(position = "open" /\ MoveStop(AtBreakeven, "bos"))
        BY <1>5, <2>1, <2>3, QuietStep DEF Breakeven, PassOver, TypeOK
  <2>4. QED
        BY <2>2, <2>3
<1>6. CASE OppositeBos
  <2>1. record.status = "open"
        BY <1>6 DEF OppositeBos, Rest, Bookkeeping, TypeOK
  <2>2. CASE position = "open" /\ CloseAndSettle(record, "bos", broken)
    <3>1. Close("bos", broken) \in Closes /\ Close("bos", broken).reason # "sl"
          BY DEF TypeOK
    <3>2. QED
          BY <1>6, <2>1, <2>2, <3>1, ClosingStep DEF OppositeBos, CloseAndSettle
  <2>3. CASE ~(position = "open" /\ CloseAndSettle(record, "bos", broken))
        BY <1>6, <2>1, <2>3, QuietStep DEF OppositeBos, PassOver, Refused, TypeOK
  <2>4. QED
        BY <2>2, <2>3
<1>7. CASE SafetyLine
  <2> DEFINE candidate == Ahead(line, -Buffer)
  <2>1. record.status = "open" /\ setup.rules # "ict" /\ setup' = setup
        BY <1>7 DEF SafetyLine, Rest, Bookkeeping, TypeOK
  <2>2. CASE position = "open" /\ CloseAndSettle(record, "safety_line", candle)
    <3>1. Close("safety_line", candle) \in Closes /\ Close("safety_line", candle).reason # "sl"
          BY DEF TypeOK
    <3>2. QED
          BY <2>1, <2>2, <3>1, ClosingStep DEF CloseAndSettle
  <2>3. CASE /\ position = "open" /\ Trails(candidate)
             /\ MoveStop([record EXCEPT !.sl = candidate], "idle")
    <3>1. candidate \in Int /\ record.be \in BOOLEAN
          BY DEF Ahead, TypeOK
    <3>2. ~Worse(candidate, record.sl)
          BY <2>3, <3>1 DEF Trails, Worse, TypeOK
    <3>3. ~record.be
          BY <2>1 DEF Rest, StopRange
    <3>4. [record EXCEPT !.sl = candidate] = [record EXCEPT !.sl = candidate, !.be = record.be]
          BY DEF TypeOK
    <3>5. MoveStop([record EXCEPT !.sl = candidate, !.be = record.be], "idle")
          BY <2>3, <3>4
    <3>6. QED
          BY <2>1, <2>3, <3>1, <3>2, <3>3, <3>5, MovingStep
  <2>4. CASE /\ ~(position = "open" /\ CloseAndSettle(record, "safety_line", candle))
             /\ ~(/\ position = "open" /\ Trails(candidate)
                  /\ MoveStop([record EXCEPT !.sl = candidate], "idle"))
        BY <1>7, <2>1, <2>4, QuietStep DEF SafetyLine, PassOver, Refused, TypeOK
  <2>5. QED
        BY <2>2, <2>3, <2>4
<1>8. CASE UNCHANGED vars
      BY <1>8, QuietStep DEF vars, Rest, Bookkeeping
<1>9. QED
      BY <1>1, <1>2, <1>3, <1>4, <1>5, <1>6, <1>7, <1>8 DEF Next, Monitor

\* The inductive invariant.
LEMMA Inductive == Spec => [](TypeOK /\ Rest)
<1>1. Init => TypeOK /\ Rest
      BY TypeInit, RestInit
<1>2. TypeOK /\ Rest /\ [Next]_vars => (TypeOK /\ Rest)'
      BY TypeStep, RestStep
<1>3. QED
      BY <1>1, <1>2, PTL DEF Spec

\* Whatever requests are refused and sessions fail, the broker's stop is never
\* worse than the recorded one (module Management, RecordedStopHolds).
THEOREM StopHolds == Spec => []RecordedStopHolds
<1>1. Rest => RecordedStopHolds
      BY DEF Rest
<1>2. QED
      BY <1>1, Inductive, PTL

\* A paper position recorded at breakeven is not stopped out at a loss
\* (module Management, BreakevenHolds).
THEOREM NoLossAtBreakeven == Spec => []BreakevenHolds
<1>1. Rest => BreakevenHolds
      BY DEF Rest
<1>2. QED
      BY <1>1, Inductive, PTL

\* The record of a closed position is what the paper account paid, and nothing
\* open is recorded as closed (module Management, AccountAgrees).
THEOREM RecordsAgree == Spec => []AccountAgrees
<1>1. Rest => AccountAgrees
      BY DEF Rest
<1>2. QED
      BY <1>1, Inductive, PTL

\* A stop that is hit costs the first risk at most (module Management,
\* LossBounded).
THEOREM RiskIsBound == Spec => []LossBounded
<1>1. Rest => LossBounded
      BY DEF Rest
<1>2. QED
      BY <1>1, Inductive, PTL

\* The stop protects what it was set to protect (module Management, StopInv).
THEOREM StopProtects == Spec => []StopInv
<1>1. TypeOK /\ Rest => StopInv
      BY DEF Rest, StopInv
<1>2. QED
      BY <1>1, Inductive, PTL

\* The only steps that loosen the broker's stop start from a table that missed
\* an earlier move (module Management, StopOnlyTightens).
THEOREM OnlyTightens == Spec => StopOnlyTightens
<1> DEFINE Tightens == position' = "open" /\ Worse(stop', stop) => record.sl # stop
<1>1. TypeOK /\ Rest /\ [Next]_vars => [Tightens]_vars
  <2> SUFFICES ASSUME TypeOK, Rest, Next PROVE Tightens
      BY DEF vars, broker, Worse, Long
  <2>1. CASE stop' = stop
        BY <2>1 DEF Worse, TypeOK
  <2>2. CASE stop' # stop
    <3>1. \/ Breakeven /\ MoveStop(AtBreakeven, "bos")
          \/ /\ SafetyLine /\ Trails(Ahead(line, -Buffer))
             /\ MoveStop([record EXCEPT !.sl = Ahead(line, -Buffer)], "idle")
          BY <2>2 DEF Next, Monitor, Quote, CandleCloses, ServerCloses, Reconcile, Exits,
             Breakeven, OppositeBos, SafetyLine, PassOver, CloseAndSettle, Refused
    <3>2. CASE Breakeven /\ MoveStop(AtBreakeven, "bos")
      <4>1. AtBreakeven.sl = Entry
            BY DEF AtBreakeven, TypeOK
      <4>2. stop' = Entry /\ setup' = setup /\ ~Worse(Entry, record.sl)
            BY <2>2, <3>2, <4>1 DEF MoveStop, Refused, Breakeven, Rest, StopRange
      <4>3. QED
            BY <4>2 DEF Worse
    <3>3. CASE /\ SafetyLine /\ Trails(Ahead(line, -Buffer))
               /\ MoveStop([record EXCEPT !.sl = Ahead(line, -Buffer)], "idle")
      <4>1. [record EXCEPT !.sl = Ahead(line, -Buffer)].sl = Ahead(line, -Buffer)
            BY DEF TypeOK
      <4>2. stop' = Ahead(line, -Buffer)
            BY <2>2, <3>3, <4>1 DEF MoveStop, Refused
      <4>3. Ahead(line, -Buffer) \in Int /\ setup' = setup
            BY <3>3 DEF SafetyLine, Ahead, TypeOK
      <4>4. QED
            BY <3>3, <4>2, <4>3 DEF Trails, Worse, TypeOK
    <3>4. QED
          BY <3>1, <3>2, <3>3
  <2>3. QED
        BY <2>1, <2>2
<1>2. QED
      BY <1>1, Inductive, PTL DEF StopOnlyTightens, Spec

=============================================================================
