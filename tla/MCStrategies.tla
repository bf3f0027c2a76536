---------------------------- MODULE MCStrategies ----------------------------
(* Instance of Strategies for TLC: H1 candles in quarters of a point, times *)
(* a unit that ten halvings leave whole.                                    *)
EXTENDS Strategies

Unit == 512
Bar(open, high, low, close) ==
  [open |-> open * Unit, high |-> high * Unit, low |-> low * Unit, close |-> close * Unit]

Quiet == Bar(44, 48, 32, 40)
Doji == Bar(40, 41, 39, 40)
Dip == Bar(40, 48, 8, 36)         \* a swing low
NearDip == Bar(40, 48, 9, 40)     \* just above it, and below a line from it
HigherDip == Bar(36, 48, 28, 40)
Peak == Bar(40, 72, 32, 44)       \* a swing high
LowerPeak == Bar(44, 54, 32, 40)
Rally == Bar(52, 86, 52, 76)      \* breaks the structure, leaves a gap
Slump == Bar(28, 28, 4, 8)
Surge == Bar(52, 140, 52, 76)

MCShapes == <<
  {Quiet}, {Quiet}, {Dip, Peak}, {NearDip, Peak, HigherDip}, {Quiet, Slump},
  {HigherDip, LowerPeak}, {HigherDip, LowerPeak},
  {Quiet, Rally}, {Slump}, {Doji, Surge} >>

=============================================================================
