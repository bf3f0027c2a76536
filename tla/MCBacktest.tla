----------------------------- MODULE MCBacktest -----------------------------
(* Instance of Backtest for TLC: bars that touch the stop, the target, both *)
(* or neither, open beyond the stop, and reach one risk ahead.              *)
EXTENDS Backtest

Bar(o, h, l, c) == [open |-> o, high |-> h, low |-> l, close |-> c]

SmallBars ==
  { Bar(4, 4, 4, 4),     \* quiet
    Bar(4, 6, 4, 5),     \* one risk up
    Bar(5, 7, 5, 6),     \* up to the target
    Bar(4, 4, 3, 3),     \* a step down
    Bar(4, 5, 2, 4),     \* one risk down, to the stop of a long
    Bar(3, 3, 1, 2),     \* down to the target of a short
    Bar(4, 7, 1, 4),     \* both
    Bar(1, 2, 1, 2) }    \* opens beyond the stop of a long

=============================================================================
