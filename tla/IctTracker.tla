----------------------------- MODULE IctTracker -----------------------------
(***************************************************************************)
(* M5Tracker, the walk of the ICT strategy over the M5 candles: a sweep of *)
(* an H1 liquidity pool opens a setup, a confirmation close turns it into  *)
(* a signal, a close beyond the level or age ends it without one.  Every   *)
(* setup uses up one of the attempts its level has.                        *)
(*                                                                         *)
(* Longs and shorts share the candles and nothing else; the model follows  *)
(* one of them, chosen at the start.  Prices are whole cents, so rounding  *)
(* the level for the attempts' key changes nothing.  What the H1 and H4    *)
(* snapshots say is chosen anew for every candle.                          *)
(***************************************************************************)
EXTENDS Integers, FiniteSets

CONSTANTS
  MaxPrice,      \* prices are in 1..MaxPrice
  Levels,        \* prices of liquidity pools
  FreshBars,     \* sweep.fresh_bars
  LookbackBars,  \* confirmation.lookback_bars
  MaxDistance,   \* sweep.max_distance_points
  MaxAttempts,   \* reentry.max_attempts_per_level
  Zone,          \* how far a block or a trendline may be from the level
  Buffer,        \* sl_buffer_atr times the ATR
  MinRR          \* min_rr

ASSUME IctTrackerAssumption ==
  /\ {FreshBars, LookbackBars, MaxDistance, MaxAttempts, Zone, Buffer, MinRR} \subseteq Nat
  /\ MaxPrice \in Nat \ {0} /\ Levels \subseteq 1..MaxPrice

VARIABLES
  direction,  \* of the setups followed
  setup,      \* the active setup, or NoSetup
  attempts,   \* _attempts
  targets,    \* M5 liquidity confirmed since the sweep of the setup
  inside,     \* the newest candle lay in a session
  signal,     \* of the newest candle, or NoSignal
  sweeps      \* setups so far, by level (history)

vars == <<direction, setup, attempts, targets, inside, signal, sweeps>>

Prices == 1..MaxPrice
NoSetup == [level |-> 0, age |-> 0]
NoSignal == [level |-> 0]

\* Price a is worse for the direction than price b; n points in its favour.
Worse(a, b) == IF direction = "long" THEN a < b ELSE a > b
Ahead(p, n) == IF direction = "long" THEN p + n ELSE p - n
Distance(a, b) == IF a < b THEN b - a ELSE a - b

\* A candle as the direction sees it: how far it went against it, and its close.
Candles == {c \in [wick : Prices, close : Prices] : ~Worse(c.close, c.wick)}

Init ==
  /\ direction \in {"long", "short"}
  /\ setup = NoSetup /\ targets = {} /\ inside = FALSE /\ signal = NoSignal
  /\ attempts = [l \in Levels |-> 0] /\ sweeps = [l \in Levels |-> 0]

(***************************************************************************)
(* The steps of advance() in a session, each from a setup and its attempts *)
(* to a setup and attempts.                                                *)
(***************************************************************************)
Active(s) == s.setup # NoSetup

\* mutated: the setup ends and its attempt is not counted
EndedFree(s) == [s EXCEPT !.setup = NoSetup]

\* active = False, _consume_attempt
Ended(s) == [setup |-> NoSetup, attempts |-> [s.attempts EXCEPT ![s.setup.level] = @ + 1]]

TooOld(s) == s.setup.age > FreshBars

\* _expire_setups
Expired(s) == IF Active(s) /\ TooOld(s) THEN Ended(s) ELSE s

\* The liquidity an H1 snapshot may list, any; an active setup does not look.
Pools(s) == IF Active(s) THEN {{}} ELSE SUBSET Levels

SweptLevels(c, pools) ==
  {l \in pools : Worse(c.wick, l) /\ Worse(l, c.close) /\ ~Worse(l, Ahead(c.close, -MaxDistance))}

\* _can_attempt
MayAttempt(s, l) == s.attempts[l] < MaxAttempts

\* _check_sweep: of the levels swept, the nearest to the close.
Opened(s, c, pools) ==
  LET swept == SweptLevels(c, pools)
      nearest == CHOOSE l \in swept : \A k \in swept : ~Worse(l, k)
  IN IF ~Active(s) /\ swept # {} /\ MayAttempt(s, nearest)
     THEN [s EXCEPT !.setup = [level |-> nearest, age |-> 0]]
     ELSE s

NoEdge == [far |-> 0, structural |-> 0]

\* _select_plus_one: an order block around the level, a trendline near it, or
\* the alignment of both biases; none of them, or a veto of the H4 bias.
Edges(l) ==
  {NoEdge, [far |-> l, structural |-> l]}
    \cup {[far |-> p, structural |-> p] : p \in {q \in Prices : Distance(q, l) <= Zone}}
    \cup {e \in [far : Prices, structural : Prices] :
            /\ Worse(e.structural, e.far) /\ ~Worse(e.far, l)
            /\ ~Worse(l, Ahead(e.structural, -Zone))}

\* mutated: any age will do
InTimeAlways(s) == TRUE

InTime(s) == s.setup.age <= LookbackBars

Confirmed(s, c, edge) == Active(s) /\ edge # NoEdge /\ Worse(edge.far, c.close)

\* _check_invalidation, of a setup that was not confirmed
Invalid(s, c) == Active(s) /\ Worse(c.close, s.setup.level)

(***************************************************************************)
(* _build_signal                                                           *)
(***************************************************************************)
Beyond(c, known) == {t \in known : Worse(c.close, t)}

\* Liquidity counts from the candle behind the sweep on.
Known(s, known) == IF s.setup.age = 0 THEN {} ELSE known

Built(s, c, edge, known) ==
  LET candidates == Beyond(c, Known(s, known))
      tp == CHOOSE t \in candidates : \A u \in candidates : ~Worse(u, t)
      sl == Ahead(edge.structural, -Buffer)
  IN IF /\ Worse(edge.structural, c.close) /\ candidates # {} /\ Worse(sl, c.close)
        /\ Distance(tp, c.close) >= MinRR * Distance(c.close, sl)
     THEN [level |-> s.setup.level, age |-> s.setup.age,
           entry |-> c.close, sl |-> sl, tp |-> tp, structural |-> edge.structural]
     ELSE NoSignal

(***************************************************************************)
(* A candle.                                                               *)
(***************************************************************************)
Aged == IF setup = NoSetup THEN setup
        ELSE [setup EXCEPT !.age = IF @ > FreshBars THEN @ ELSE @ + 1]

\* _update_structure: a swing that the candle confirms lies beyond it, and so
\* does the level of a pair of equal ones, which it adds.
Confirms(c) ==
  {new \in SUBSET {u \in Prices : Worse(c.close, u)} : Cardinality(new) <= 2}

\* Outside the sessions only the structure is kept.
Idle(c, new) ==
  /\ setup' = Aged
  /\ targets' = IF setup = NoSetup THEN {} ELSE targets \cup new
  /\ inside' = FALSE /\ signal' = NoSignal
  /\ UNCHANGED <<direction, attempts, sweeps>>

\* advance() in a session: expiry, sweep, confirmation, invalidation.
Advance(c, new) ==
  LET known == targets \cup new
      aged == Expired([setup |-> Aged, attempts |-> attempts])
  IN \E pools \in Pools(aged) :
     LET s == Opened(aged, c, pools)
         fresh == s # aged
     IN
     \E edge \in (IF Active(s) /\ InTime(s) THEN Edges(s.setup.level) ELSE {NoEdge}) :
       LET end == IF Confirmed(s, c, edge) \/ Invalid(s, c) THEN Ended(s) ELSE s
       IN /\ setup' = end.setup /\ attempts' = end.attempts
          /\ inside' = TRUE
          /\ signal' = IF Confirmed(s, c, edge) THEN Built(s, c, edge, known) ELSE NoSignal
          /\ targets' = IF ~Active(end) \/ fresh THEN {} ELSE known
          /\ sweeps' = IF fresh THEN [sweeps EXCEPT ![s.setup.level] = @ + 1] ELSE sweeps
          /\ UNCHANGED direction

Outside == \E c \in Candles : \E new \in Confirms(c) : Idle(c, new)
Inside == \E c \in Candles : \E new \in Confirms(c) : Advance(c, new)

Next == Outside \/ Inside

Spec == Init /\ [][Next]_vars

-----------------------------------------------------------------------------
Setups == {NoSetup} \cup [level : Levels, age : 0..(FreshBars + 1)]

TypeOK ==
  /\ direction \in {"long", "short"}
  /\ setup \in Setups
  /\ attempts \in [Levels -> 0..MaxAttempts]
  /\ sweeps \in [Levels -> Nat]
  /\ targets \subseteq Prices /\ inside \in BOOLEAN

\* Every sweep that opens a setup uses up exactly one attempt of its level,
\* however the setup ends: with a signal, confirmed without one, invalidated
\* or by its age; never two, though two of them fall on the same candle.
SweepsPaid ==
  \A l \in Levels : sweeps[l] = attempts[l] + (IF setup.level = l THEN 1 ELSE 0)

\* "1 initial attempt + 1 re-entry": a walk never tries a level more often.
AttemptsBounded == \A l \in Levels : sweeps[l] <= MaxAttempts

\* A signal comes from a sweep that is at most LookbackBars candles old,
\* candles outside the sessions included, and never on the sweep's own candle:
\* a setup that is confirmed there uses up its attempt for nothing.
SignalInTime == signal # NoSignal => signal.age \in 1..LookbackBars

\* No setup blocks its direction for long: a candle in a session never leaves
\* one that is older than FreshBars, however many candles the pause took.
NoStaleSetup == inside => setup.age <= FreshBars

\* In one walk (each run of _run makes new trackers and walks the window it was
\* given), attempts are counted once and bounded, and no signal or setup outlives
\* its age, pauses included.
AttemptInv == TypeOK /\ SweepsPaid /\ AttemptsBounded /\ SignalInTime /\ NoStaleSetup

=============================================================================
