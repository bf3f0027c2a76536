---------------------------- MODULE MCRiskGuards ----------------------------
(* Instance of RiskGuards for TLC: two days of four points each.  London is *)
(* listed before New York, whose pause therefore counts only when London is *)
(* over; the second day has New York alone.                                 *)
EXTENDS RiskGuards

MCSessions == <<
  [days |-> {0}, start |-> 0, end |-> 2, pause |-> [start |-> 1, end |-> 1]],
  [days |-> {0, 1}, start |-> 1, end |-> 3, pause |-> [start |-> 2, end |-> 2]] >>

MCEvents == {
  [at |-> 3, impact |-> "high", provider |-> "calendar"],
  [at |-> 6, impact |-> "low", provider |-> "calendar"],
  [at |-> 7, impact |-> "none", provider |-> "rss"] }

MCResults == {-3, 5}
MCFloating == {-20, 2}

\* Volumes in half hundredths: gold goes in steps of two hundredths, micro in
\* steps of one and a half.
MCLots == [symbol \in {"gold", "micro"} |->
             IF symbol = "gold" THEN [min |-> 4, step |-> 4] ELSE [min |-> 3, step |-> 3]]

Signal(symbol, sl, tp) == [symbol |-> symbol, priced |-> TRUE, sl |-> sl, tp |-> tp]

\* Two good ones, and the two that nobody checks.
MCCandidates == {
  Signal("gold", 2, 4), Signal("micro", 3, 5), Signal("alien", 2, Missing),
  [Signal("gold", 2, Missing) EXCEPT !.priced = FALSE] }

=============================================================================
