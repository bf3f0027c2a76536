--------------------------- MODULE TrendConfluence ---------------------------
(***************************************************************************)
(* The trend confluence strategy: trendlines of the closed hours, kept in  *)
(* a cache by the last of them, and what they say of an EMA cross and of   *)
(* an open position.                                                       *)
(*                                                                         *)
(* An hour's row is stored when the hour begins and never changes again    *)
(* (SignalPipeline); rows counts them from 1, so the last one is forming.  *)
(* M5 candles come from any hour: the engine goes through the whole        *)
(* history with every new candle.                                          *)
(***************************************************************************)
EXTENDS Indicators

CONSTANTS
  Bars,      \* trendline.bars: rows the provider returns
  MinBias,   \* 20: fewer candles have no bias
  SlBuffer,  \* sl_buffer_atr, in percent
  Hours,     \* bound: rows stored
  Shapes     \* Shapes[h]: the candles hour h may have

ASSUME TrendConfluenceAssumption ==
  /\ {Bars, MinBias, SlBuffer, Hours} \subseteq Nat
  /\ DOMAIN Shapes = 1..Hours
  /\ \A h \in 1..Hours : \A b \in Shapes[h] :
       /\ b \in [open : Int, high : Int, low : Int, close : Int]
       /\ b.low <= b.open /\ b.low <= b.close /\ b.open <= b.high /\ b.close <= b.high

VARIABLES
  rows,   \* H1 candles stored
  cache,  \* _line_cache: from the last closed hour to lines and last_idx
  answer  \* the last result with lines, and the hour it was about

trendVars == <<rows, cache, answer>>

NoLines == [lines |-> {}, last |-> Nothing]
NoAnswer == [hour |-> 0, result |-> NoLines]

TrendInit == rows = <<>> /\ cache = <<>> /\ answer = NoAnswer

\* The next hour begins.
HourBegins ==
  /\ Len(rows) < Hours
  /\ \E candle \in Shapes[Len(rows) + 1] : rows' = Append(rows, candle)
  /\ UNCHANGED <<cache, answer>>

(***************************************************************************)
(* _lines_as_of, for a candle of hour h: of the last Bars rows those that  *)
(* had closed by then.                                                     *)
(***************************************************************************)
FirstRow == Max({1, Len(rows) - Bars + 1})
ClosedBefore(h) == SubSeq(rows, FirstRow, h - 1)

\* mutated: the lines are kept by the number of rows they were drawn from
CacheKeyCount(h) == h - FirstRow

\* the time of the last closed row
CacheKey(h) == h - 1

Drawn(c) == [lines |-> ChainedLines(c), last |-> Len(c)]

Ask(h) ==
  /\ UNCHANGED rows
  /\ IF Len(ClosedBefore(h)) < MinLineBars \/ AtrRaises(ClosedBefore(h))
     THEN answer' = NoAnswer /\ UNCHANGED cache
     ELSE LET key == CacheKey(h)
              result == IF key \in DOMAIN cache THEN cache[key] ELSE Drawn(ClosedBefore(h))
          IN /\ answer' = [hour |-> h, result |-> result]
             /\ cache' = [k \in DOMAIN cache \cup {key} |->
                            IF k = key THEN result ELSE cache[k]]

\* A new process, or the object that execution makes for one pass.
Fresh == cache' = <<>> /\ answer' = NoAnswer /\ UNCHANGED rows

TrendNext == HourBegins \/ Fresh \/ \E h \in 2..(Len(rows) + 1) : Ask(h)

TrendSpec == TrendInit /\ [][TrendNext]_trendVars

(***************************************************************************)
(* What the lines say.                                                     *)
(***************************************************************************)
OfKind(lines, kind) == {line \in lines : line.type = kind}

\* _last_line: the one established last
LastLine(lines, kind) == CHOOSE l \in OfKind(lines, kind) : \A m \in OfKind(lines, kind) : m.b <= l.b

SafetyKind(direction) == IF direction = "long" THEN "support" ELSE "resistance"
ActionKind(direction) == IF direction = "long" THEN "resistance" ELSE "support"

\* the price lies beyond the line, against or in favour of the direction
Below(line, k, price) == price * Length(line) < Value(line, k)
Above(line, k, price) == price * Length(line) > Value(line, k)
Lost(line, k, price, direction) ==
  IF direction = "long" THEN Below(line, k, price) ELSE Above(line, k, price)
Gained(line, k, price, direction) ==
  IF direction = "long" THEN Above(line, k, price) ELSE Below(line, k, price)

\* safety_value with the rule of its callers: a close beyond it ends the trade
SafetyExit(result, close, direction) ==
  /\ OfKind(result.lines, SafetyKind(direction)) # {}
  /\ Lost(LastLine(result.lines, SafetyKind(direction)), result.last, close, direction)

\* _bias_as_of
BiasAsOf(c) == IF Len(c) < MinBias THEN "none" ELSE Bias(c)

\* mutated: the entry may lie on either side of the safety line
SafeSideAny(line, k, close, direction) == TRUE

SafeSide(line, k, close, direction) == Gained(line, k, close, direction)

\* _build_signal: an EMA cross in the direction becomes a signal
Signals(result, biases, close, direction) ==
  LET opposite == IF direction = "long" THEN "short" ELSE "long"
      actions == OfKind(result.lines, ActionKind(direction))
      safeties == OfKind(result.lines, SafetyKind(direction))
  IN /\ opposite \notin biases
     /\ actions # {} /\ safeties # {}
     /\ Gained(LastLine(result.lines, ActionKind(direction)), result.last, close, direction)
     /\ SafeSide(LastLine(result.lines, SafetyKind(direction)), result.last, close, direction)

\* an ATR that is unknown or zero counts as 1
Finite(average) == IF average > 0 THEN average ELSE 1

\* its stop, a numerator over 100 times the length of the safety line
Stop(line, k, average, direction) ==
  LET buffer == SlBuffer * average * Length(line)
  IN 100 * Value(line, k) + (IF direction = "long" THEN -buffer ELSE buffer)

-----------------------------------------------------------------------------
\* The candles upside down.
Mirror(c) == [i \in DOMAIN c |->
  [open |-> -c[i].open, high |-> -c[i].low, low |-> -c[i].high, close |-> -c[i].close]]

Flipped(x) == CASE x = "long" -> "short" [] x = "short" -> "long"
                [] x = "bull" -> "bear" [] x = "bear" -> "bull"
                [] x = "support" -> "resistance" [] x = "resistance" -> "support"
                [] OTHER -> x

Directions == {"long", "short"}

TrendTypeOK ==
  /\ \A h \in DOMAIN rows : rows[h] \in Shapes[h]
  /\ DOMAIN cache \subseteq 1..Len(rows)
  /\ answer.hour \in 0..(Len(rows) + 1)

\* Whatever was asked before, an answer about hour h is drawn from candles that
\* end with hour h - 1: neither the hour itself nor an older state of the chart.
AnswersCurrent ==
  answer # NoAnswer =>
    \E first \in 1..answer.hour : answer.result = Drawn(SubSeq(rows, first, answer.hour - 1))

\* The same line through the same candles, seen an hour later, is the tighter
\* stop: the safety line never gives a position room back by itself.
SameLine(k, line, l, other) ==
  /\ line.type = other.type
  /\ k - cache[k].last + line.a = l - cache[l].last + other.a
  /\ k - cache[k].last + line.b = l - cache[l].last + other.b

SafetyAdvances ==
  \A k, l \in DOMAIN cache : k < l =>
    \A line \in cache[k].lines, other \in cache[l].lines :
      SameLine(k, line, l, other) =>
        LET earlier == Value(line, cache[k].last)
            later == Value(other, cache[l].last)
        IN IF line.type = "support" THEN earlier < later ELSE earlier > later

\* What the cache gives back can be trusted.
CacheInv == TrendTypeOK /\ AnswersCurrent /\ SafetyAdvances

\* What has been seen in the closed candles stays: a later candle adds the swing
\* it confirms, breaks and blocks of its own, and changes no earlier one.
StructureStays ==
  /\ SwingHighs(rows) = SwingHighs(rows') \ {Len(rows) - 1}
  /\ SwingLows(rows) = SwingLows(rows') \ {Len(rows) - 1}
  /\ Breaks(rows) = {e \in Breaks(rows') : e.idx <= Len(rows)}
  /\ OrderBlocks(rows) = {b \in OrderBlocks(rows') : b.disp <= Len(rows)}
  /\ \A b \in OrderBlocks(rows) : Mitigated(rows, b) => Mitigated(rows', b)
  /\ \A d \in Directions : FirstBreak(rows, d) # Nothing =>
                             FirstBreak(rows', d) = FirstBreak(rows, d)

FlippedBreak(e) == [direction |-> Flipped(e.direction), idx |-> e.idx, level |-> -e.level]
FlippedBlock(b) == [direction |-> Flipped(b.direction), idx |-> b.idx, disp |-> b.disp]
MirroredLine(line) ==
  [type |-> Flipped(line.type), a |-> line.a, b |-> line.b, start |-> -line.start, end |-> -line.end]

\* Upside down, the candles have the same swings, breaks, blocks, lines and
\* signals with the directions exchanged.
StructureMirrored ==
  \A c \in {rows}, m \in {Mirror(rows)} :
    /\ SwingHighs(m) = SwingLows(c) /\ SwingLows(m) = SwingHighs(c)
    /\ Breaks(m) = {FlippedBreak(e) : e \in Breaks(c)}
    /\ BiasAsOf(m) = Flipped(BiasAsOf(c))
    /\ OrderBlocks(m) = {FlippedBlock(b) : b \in OrderBlocks(c)}
    /\ \A b \in OrderBlocks(c) : Mitigated(c, b) = Mitigated(m, FlippedBlock(b))
    /\ \A kind \in Kinds : BestLines(m, Flipped(kind)) = {MirroredLine(l) : l \in BestLines(c, kind)}
    /\ \A d \in Directions : OppositeBreak(m, Flipped(d)) = OppositeBreak(c, d)
    /\ \A result \in {Drawn(c)}, other \in {Drawn(m)}, bias \in {BiasAsOf(c)} :
         /\ other.lines = {MirroredLine(l) : l \in result.lines}
         /\ \A d \in Directions, close \in {c[k].close : k \in DOMAIN c} :
              /\ Signals(other, {Flipped(bias)}, -close, Flipped(d))
                   = Signals(result, {bias}, close, d)
              /\ SafetyExit(other, -close, Flipped(d)) = SafetyExit(result, close, d)

\* The exit rule and the structure events are two walks that agree: the first
\* break against a position is the first event of that direction, and no candle
\* breaks the structure both ways.
BreaksAgree ==
  \A c \in {rows}, events \in {Breaks(rows)} :
    LET first(direction) == LET found == {e.idx : e \in {f \in events : f.direction = direction}}
                            IN IF found = {} THEN Nothing ELSE Min(found)
    IN /\ FirstBreak(c, "long") = first("bear")
       /\ FirstBreak(c, "short") = first("bull")
       /\ \A e, f \in events : e.idx = f.idx => e = f

\* A line between two swings that were both known appears only when the mean of
\* the ATR grew, and with it the band around the line, and vanishes only when it
\* shrank: what the price does later never decides it.
Settled(lines) == {l \in lines : l.b <= Len(rows) - Lag}
BandGrows(old, new) == new.sum * old.count > old.sum * new.count

LinesSettled ==
  [][Len(rows') > Len(rows) /\ Len(rows) >= MinLineBars =>
       LET before == Settled(ChainedLines(rows))
           after == Settled(ChainedLines(rows'))
       IN /\ after \ before # {} => BandGrows(MeanAtr(rows), MeanAtr(rows'))
          /\ before \ after # {} => BandGrows(MeanAtr(rows'), MeanAtr(rows))]_trendVars

\* A candle never justifies a long and a short, and the trade it starts is not
\* over at once: its own close is not beyond the safety line that ends it, and
\* its stop lies beyond that line.
SignalSound ==
  \A k \in DOMAIN rows :
    LET close == rows[k].close
        signal(d) == Signals(answer.result, {}, close, d)
        safety(d) == LastLine(answer.result.lines, SafetyKind(d))
        room(d) == 100 * close * Length(safety(d))
                     - Stop(safety(d), answer.result.last, Finite(Atr(rows)[k]), d)
    IN /\ ~(signal("long") /\ signal("short"))
       /\ \A d \in Directions : signal(d) =>
            /\ ~SafetyExit(answer.result, close, d)
            /\ IF d = "long" THEN room(d) > 0 ELSE room(d) < 0

=============================================================================
