---------------------------- MODULE EventChannel ----------------------------
(***************************************************************************)
(* What a one-way channel of events promises while it may drop some of     *)
(* them: an event that was accepted is sent at most once, and events are   *)
(* sent in the order in which they were accepted.  Module AgentMesh        *)
(* implements it.                                                          *)
(***************************************************************************)
EXTENDS Naturals, Sequences, SequencesExt

CONSTANT Events

VARIABLES
  waiting,   \* events accepted and not yet sent or dropped
  sent       \* events sent, in order

Init == waiting = <<>> /\ sent = <<>>

Accept(e) ==
  /\ e \notin ToSet(waiting) \cup ToSet(sent)
  /\ waiting' = Append(waiting, e)
  /\ UNCHANGED sent

SendFirst ==
  /\ waiting # <<>>
  /\ sent' = Append(sent, Head(waiting))
  /\ waiting' = Tail(waiting)

Drop(i) == waiting' = RemoveAt(waiting, i) /\ UNCHANGED sent

DropAll == waiting' = <<>> /\ UNCHANGED sent

Next ==
  \/ \E e \in Events : Accept(e)
  \/ SendFirst \/ DropAll
  \/ \E i \in DOMAIN waiting : Drop(i)

Spec == Init /\ [][Next]_<<waiting, sent>>

=============================================================================
