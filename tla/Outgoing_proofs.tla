-------------------------- MODULE Outgoing_proofs ---------------------------
(***************************************************************************)
(* Theorems about what leaves the process: the events of module AgentMesh  *)
(* and the messages of module Notifier, for every value of their           *)
(* constants.                                                              *)
(***************************************************************************)
EXTENDS AgentMesh, Notifier, Integers, FiniteSetTheorems, SequenceTheorems, TLAPS

-----------------------------------------------------------------------------
(***************************************************************************)
(* AgentMesh: MeshInv and the refinement of EventChannel, for every number *)
(* of events, commands and broken connections and every size of the        *)
(* outbox. Both rest on where an event can be: with one producer that      *)
(* brings it, in the outbox, in the thread's hand, sent, or gone.          *)
(***************************************************************************)

\* The thread has one event in hand while it sends it, and none otherwise.
InHand ==
  /\ thread = "send" => \E e \in Events : held = <<e>>
  /\ thread # "send" => held = <<>>

\* The connection is behind the thread: after stop() it gets no other.
Leaving == {"closing", "left", "none"}

\* A broken connection is counted, but for the one stop() breaks.
Booked ==
  Cardinality(lost) <= drops + (IF running \/ thread \notin Leaving THEN 0 ELSE 1)

\* While there is a thread, the failures in a row stay below the one that
\* ends it.
Counted ==
  running => IF thread = "none" THEN fails = LastExponent + 2
                                ELSE fails <= LastExponent + 1

Known == ToSet(outbox) \cup ToSet(held) \cup ToSet(sent)

\* An event a producer still carries has been nowhere yet.
Sole ==
  /\ Known \subseteq 1..events
  /\ \A p \in Producers : carried[p] # NoEvent => carried[p] \in (1..events) \ Known
  /\ \A p, q \in Producers : p # q /\ carried[p] # NoEvent => carried[p] # carried[q]
  /\ \A p \in Producers : place[p] = "idle" <=> carried[p] = NoEvent

IMesh == TypeOK /\ SessionIsLive /\ InHand /\ Booked /\ Counted /\ Sole

-----------------------------------------------------------------------------
(* The elements of a sequence, and sequences put together.                 *)

LEMMA Elements ==
  ASSUME NEW S, NEW s \in Seq(S)
  PROVE  /\ \A e \in S : ToSet(Append(s, e)) = ToSet(s) \cup {e}
         /\ ToSet(<<>>) = {} /\ \A e \in S : ToSet(<<e>>) = {e}
         /\ s # <<>> => /\ Head(s) \in ToSet(s) /\ Head(s) \in S
                        /\ ToSet(Tail(s)) \subseteq ToSet(s) /\ Tail(s) \in Seq(S)
                        /\ Len(Tail(s)) = Len(s) - 1
<1>1. ASSUME NEW e \in S PROVE ToSet(Append(s, e)) = ToSet(s) \cup {e}
  <2>1. Append(s, e) \in Seq(S) /\ Len(Append(s, e)) = Len(s) + 1 /\ Len(s) \in Nat
        OBVIOUS
  <2>2. \A i \in 1..Len(s) : Append(s, e)[i] = s[i]
        OBVIOUS
  <2>3. Append(s, e)[Len(s) + 1] = e
        OBVIOUS
  <2>4. DOMAIN Append(s, e) = 1..(Len(s) + 1) /\ DOMAIN s = 1..Len(s)
        BY <2>1
  <2>5. \A i \in 1..(Len(s) + 1) : i \in 1..Len(s) \/ i = Len(s) + 1
        BY <2>1
  <2>6. 1..Len(s) \subseteq 1..(Len(s) + 1) /\ Len(s) + 1 \in 1..(Len(s) + 1)
        BY <2>1
  <2>7. QED
        BY <2>2, <2>3, <2>4, <2>5, <2>6 DEF ToSet
<1>2. ToSet(<<>>) = {} /\ \A e \in S : ToSet(<<e>>) = {e}
      BY DEF ToSet
<1>3. ASSUME s # <<>>
      PROVE  /\ Head(s) \in ToSet(s) /\ Head(s) \in S
             /\ ToSet(Tail(s)) \subseteq ToSet(s) /\ Tail(s) \in Seq(S)
             /\ Len(Tail(s)) = Len(s) - 1
  <2>1. Len(s) \in Nat /\ Len(s) # 0 /\ DOMAIN s = 1..Len(s)
        BY <1>3
  <2>2. Head(s) = s[1] /\ Head(s) \in S /\ 1 \in DOMAIN s
        BY <1>3, <2>1
  <2>3. Tail(s) \in Seq(S) /\ Len(Tail(s)) = Len(s) - 1 /\ DOMAIN Tail(s) = 1..(Len(s) - 1)
        BY <1>3, <2>1
  <2>4. \A i \in 1..(Len(s) - 1) : Tail(s)[i] = s[i + 1] /\ i + 1 \in DOMAIN s
        BY <1>3, <2>1
  <2>5. QED
        BY <2>2, <2>3, <2>4 DEF ToSet
<1>4. QED
  BY <1>1, <1>2, <1>3

\* What the outbox looks like behind the event in hand.
LEMMA Behind ==
  ASSUME NEW S, NEW s \in Seq(S), NEW e \in S
  PROVE  /\ <<>> \o s = s
         /\ <<e>> \o s # <<>> /\ Head(<<e>> \o s) = e /\ Tail(<<e>> \o s) = s
         /\ RemoveAt(<<e>> \o s, 1) = s
         /\ s # <<>> => /\ <<Head(s)>> \o Tail(s) = s /\ RemoveAt(s, 1) = Tail(s)
                        /\ RemoveAt(<<e>> \o s, 2) = <<e>> \o Tail(s)
<1>1. <<>> \o s = s
      OBVIOUS
<1>2. <<e>> \o s # <<>> /\ Head(<<e>> \o s) = e /\ Tail(<<e>> \o s) = s
      OBVIOUS
<1>3. RemoveAt(<<e>> \o s, 1) = s
      BY DEF RemoveAt
<1>4. s # <<>> => /\ <<Head(s)>> \o Tail(s) = s /\ RemoveAt(s, 1) = Tail(s)
                  /\ RemoveAt(<<e>> \o s, 2) = <<e>> \o Tail(s)
      BY DEF RemoveAt
<1>5. QED
  BY <1>1, <1>2, <1>3, <1>4

LEMMA ElementsBehind ==
  ASSUME NEW S, NEW s \in Seq(S), NEW e \in S
  PROVE  ToSet(<<e>> \o s) = ToSet(s) \cup {e}
<1> DEFINE u == <<e>> \o s
<1>1. Len(s) \in Nat /\ DOMAIN s = 1..Len(s) /\ DOMAIN u = 1..(Len(s) + 1)
      OBVIOUS
<1>2. u[1] = e /\ 1 \in DOMAIN u
      OBVIOUS
<1>3. \A i \in 1..Len(s) : u[i + 1] = s[i] /\ i + 1 \in DOMAIN u
      OBVIOUS
<1> HIDE DEF u
<1>4. \A j \in DOMAIN u : u[j] = e \/ u[j] \in ToSet(s)
  <2>1. \A j \in DOMAIN u : j = 1 \/ \E i \in 1..Len(s) : j = i + 1
    <3>1. \A j \in DOMAIN u : j = 1 \/ (j - 1 \in 1..Len(s) /\ (j - 1) + 1 = j)
          BY <1>1
    <3>2. QED
          BY <3>1
  <2>2. \A i \in 1..Len(s) : u[i + 1] \in ToSet(s)
        BY <1>1, <1>3 DEF ToSet
  <2>3. QED
        BY <1>2, <2>1, <2>2
<1>5. \A i \in DOMAIN s : s[i] \in ToSet(u)
      BY <1>1, <1>3 DEF ToSet
<1>6. e \in ToSet(u)
      BY <1>2 DEF ToSet
<1>7. ToSet(u) = ToSet(s) \cup {e}
      BY <1>4, <1>5, <1>6 DEF ToSet
<1>8. QED
  BY <1>7 DEF u

LEMMA FirstRemoved ==
  ASSUME NEW S, NEW s \in Seq(S), s # <<>>
  PROVE  RemoveAt(s, 1) = Tail(s)
BY DEF RemoveAt

LEMMA AppendBehind ==
  ASSUME NEW S, NEW s \in Seq(S), NEW h \in S, NEW e \in S
  PROVE  Append(<<h>> \o s, e) = <<h>> \o Append(s, e)
OBVIOUS

-----------------------------------------------------------------------------
(* The steps.                                                              *)

\* Neither the channel nor a producer is touched, and the thread goes on to
\* where it has as many events in hand.
Moves ==
  /\ UNCHANGED <<channel, producers>> /\ drops' = drops
  /\ commands' \in 0..MaxCommands /\ thread' \in Threads
  /\ running' \in BOOLEAN /\ session' \in BOOLEAN /\ SessionIsLive'
  /\ fails' \in 0..(LastExponent + 2) /\ Counted'
  /\ thread' = "send" <=> thread = "send"
  /\ running' => running
  /\ ~running /\ thread \in Leaving => thread' \in Leaving

\* What IMesh says of the events is kept when they are.
LEMMA MovesKeep ==
  ASSUME IMesh, Moves
  PROVE  IMesh'
<1>1. TypeOK'
      BY DEF IMesh, Moves, TypeOK, channel, producers
<1>2. InHand'
      BY DEF IMesh, Moves, InHand, channel
<1>3. Sole'
      BY DEF IMesh, Moves, Sole, Known, channel, producers
<1>4. Booked'
  <2>1. lost' = lost /\ drops' = drops
        BY DEF Moves, channel
  <2>2. Cardinality(lost) \in Int /\ drops \in Nat
    <3>1. IsFiniteSet(lost)
      <4>1. 1 \in Int /\ MaxEvents \in Int
            BY AgentMeshAssumption
      <4>2. IsFiniteSet(Events)
            BY <4>1, FS_Interval DEF Events
      <4>3. QED
            BY <4>2, FS_Subset DEF IMesh, TypeOK
    <3>2. QED
          BY <3>1, FS_CardinalityType DEF IMesh, TypeOK
  <2>3. (running' => running) /\ (~running /\ thread \in Leaving => thread' \in Leaving)
        BY DEF Moves
  <2>4. QED
        BY <2>1, <2>2, <2>3 DEF IMesh, Booked
<1>5. QED
  BY <1>1, <1>2, <1>3, <1>4 DEF IMesh, Moves

\* Every step of the thread that is about the connection, and stop().
Connection ==
  \/ Closed \/ Failed \/ Leave \/ Ends \/ Retry \/ Open \/ Connect \/ DeviceRegistered
  \/ Registered \/ Polled \/ Command \/ Handled \/ Reply \/ DrainEnds \/ Beat \/ Stop

LEMMA ConnectionMoves ==
  ASSUME IMesh, Connection
  PROVE  Moves
<1>1. running \in BOOLEAN /\ session \in BOOLEAN /\ thread \in Threads /\ SessionIsLive
      /\ commands \in 0..MaxCommands /\ Counted
      /\ fails \in 0..(LastExponent + 2) /\ LastExponent \in Nat
      BY AgentMeshAssumption DEF IMesh, TypeOK
<1> USE DEF Calm, GoTo, At, GoesOn, Reset, Threads, InSession, SessionIsLive, Counted, Leaving, Moves
<1>2. CASE Ends
  <2>1. session' = FALSE /\ running' = running /\ ~running /\ thread' = "none"
        /\ thread \in {"idle", "wait", "left"} /\ UNCHANGED <<fails, drops>>
        /\ UNCHANGED <<channel, producers, commands>>
        BY <1>2 DEF Ends
  <2>2. session' \in BOOLEAN
        BY <2>1, Zenon
  <2>3. QED
        BY <1>1, <2>1, <2>2
<1>3. CASE Retry
      BY <1>1, <1>3 DEF Retry
<1>4. CASE Open
      BY <1>1, <1>4 DEF Open
<1>5. CASE Connect
      BY <1>1, <1>5 DEF Connect
<1>6. CASE DeviceRegistered
      BY <1>1, <1>6 DEF DeviceRegistered
<1>7. CASE Registered
  <2>1. session' \in BOOLEAN /\ running' = running /\ thread' = "poll" /\ thread = "declare"
        /\ fails' = 0 /\ drops' = drops /\ UNCHANGED <<channel, producers, commands>>
        BY <1>7 DEF Registered
  <2>2. QED
        BY <1>1, <2>1
<1>8. CASE Polled
      BY <1>1, <1>8 DEF Polled
<1>9. CASE Command
  <2>1. commands' \in 0..MaxCommands
        BY <1>1, <1>9, AgentMeshAssumption DEF Command
  <2>2. QED
        BY <1>1, <1>9, <2>1 DEF Command
<1>10. CASE Handled
      BY <1>1, <1>10 DEF Handled
<1>11. CASE Reply
      BY <1>1, <1>11 DEF Reply
<1>12. CASE DrainEnds
      BY <1>1, <1>12 DEF DrainEnds
<1>13. CASE Beat
      BY <1>1, <1>13 DEF Beat
<1>14. CASE Stop
  <2>1. running' = FALSE /\ UNCHANGED <<thread, session, fails, drops, channel, producers, commands>>
        BY <1>14 DEF Stop
  <2>2. running' \in BOOLEAN
        BY <2>1, Zenon
  <2>3. QED
        BY <1>1, <2>1, <2>2
<1>15. CASE Closed
  <2>1. session' = FALSE /\ running' = running /\ thread = "closing" /\ thread' = "left"
        /\ UNCHANGED <<fails, drops>> /\ UNCHANGED <<channel, producers, commands>>
        BY <1>15 DEF Closed
  <2>2. session' \in BOOLEAN
        BY <2>1, Zenon
  <2>3. QED
        BY <1>1, <2>1, <2>2
<1>16. CASE Failed
  <2>1. running /\ thread = "left" /\ fails' = fails + 1 /\ fails <= LastExponent + 1
        /\ UNCHANGED <<running, session, drops, channel, producers, commands>>
        BY <1>1, <1>16 DEF Failed
  <2>2. thread' = IF fails' > LastExponent + 1 THEN "none" ELSE "wait"
        BY <1>16 DEF Failed, AfterError
  <2>3. ~session
        BY <1>1, <2>1
  <2>4. fails' \in 0..(LastExponent + 2) /\ Counted'
        BY <1>1, <2>1, <2>2
  <2>5. QED
        BY <1>1, <2>1, <2>2, <2>3, <2>4
<1>17. CASE Leave
      BY <1>1, <1>17 DEF Leave
<1>18. QED
  BY <1>2, <1>3, <1>4, <1>5, <1>6, <1>7, <1>8, <1>9, <1>10, <1>11, <1>12, <1>13, <1>14,
     <1>15, <1>16, <1>17
     DEF Connection

\* What the channel says of a step of the mesh.
ChannelStep == [Channel!Next]_<<held \o outbox, sent>>

LEMMA MovesStutter ==
  ASSUME Moves
  PROVE  ChannelStep
BY DEF Moves, channel, ChannelStep

\* An event enters the outbox, if there is room; e is one no queue has seen.
LEMMA AcceptStep ==
  ASSUME IMesh, NEW e \in Events, e \notin Known, HasRoom,
         outbox' = Append(outbox, e), UNCHANGED <<held, sent>>
  PROVE  /\ outbox' \in Seq(Events) /\ Len(outbox') <= OutboxMax
         /\ Known' = Known \cup {e} /\ Channel!Accept(e)
<1>1. outbox \in Seq(Events) /\ held \in Seq(Events) /\ held' = held /\ sent' = sent
      BY DEF IMesh, TypeOK
<1>2. Len(outbox) < OutboxMax /\ Len(outbox) \in Nat /\ OutboxMax \in Nat
      BY <1>1, AgentMeshAssumption DEF HasRoom
<1>3. outbox' \in Seq(Events) /\ Len(outbox') <= OutboxMax
      BY <1>1, <1>2
<1>4. ToSet(outbox') = ToSet(outbox) \cup {e}
      BY <1>1, Elements
<1>5. Known' = Known \cup {e}
      BY <1>1, <1>4 DEF Known
<1>6. held' \o outbox' = Append(held \o outbox, e) /\ ToSet(held \o outbox) \subseteq Known
  <2>1. CASE held = <<>>
    <3>1. held \o outbox = outbox /\ held' \o outbox' = outbox'
          BY <1>1, <1>3, <2>1, Behind
    <3>2. QED
          BY <3>1 DEF Known
  <2>2. CASE thread = "send"
    <3>1. PICK h \in Events : held = <<h>>
          BY <2>2 DEF IMesh, InHand
    <3>2. Append(<<h>> \o outbox, e) = <<h>> \o Append(outbox, e)
          BY <1>1, AppendBehind
    <3>3. ToSet(<<h>> \o outbox) = ToSet(outbox) \cup {h}
          BY <1>1, ElementsBehind
    <3>4. ToSet(held) = {h}
          BY <1>1, <3>1, Elements
    <3>5. ToSet(held \o outbox) \subseteq Known
          BY <3>1, <3>3, <3>4 DEF Known
    <3>6. held' \o outbox' = Append(held \o outbox, e)
          BY <1>1, <3>1, <3>2
    <3>7. QED
          BY <3>5, <3>6
  <2>3. QED
        BY <2>1, <2>2 DEF IMesh, InHand
<1>7. e \notin ToSet(held \o outbox) \cup ToSet(sent)
      BY <1>6 DEF Known
<1>8. Channel!Accept(e)
      BY <1>1, <1>6, <1>7 DEF Channel!Accept, Channel!ToSet, ToSet
<1>9. QED
  BY <1>3, <1>5, <1>8

\* A producer's step leaves the thread alone.
LEMMA ProducerKeeps ==
  ASSUME IMesh, UNCHANGED <<link, held, sent, lost, commands>>,
         outbox' \in Seq(Events), Len(outbox') <= OutboxMax, Sole',
         place' \in [Producers -> {"idle", "full", "again"}],
         carried' \in [Producers -> 0..MaxEvents], events' \in 0..MaxEvents
  PROVE  IMesh'
<1>1. TypeOK'
      BY DEF IMesh, TypeOK, link
<1>2. SessionIsLive' /\ InHand' /\ Booked' /\ Counted'
      BY DEF IMesh, SessionIsLive, InHand, Booked, Counted, link
<1>3. QED
  BY <1>1, <1>2 DEF IMesh

LEMMA EnqueueStep ==
  ASSUME IMesh, NEW p \in Producers, Enqueue(p)
  PROVE  IMesh' /\ ChannelStep
<1> DEFINE e == events + 1
<1>1. /\ events' = e /\ e \in Events /\ e \notin 1..events /\ events' \in 0..MaxEvents
      /\ 1..events \subseteq 1..events' /\ e \in 1..events' /\ e # NoEvent /\ events \in Nat
      BY AgentMeshAssumption DEF Enqueue, IMesh, TypeOK, Events, NoEvent
<1>2. Known \subseteq 1..events
      BY DEF IMesh, Sole
<1>3. outbox \in Seq(Events) /\ Len(outbox) <= OutboxMax
      /\ place \in [Producers -> {"idle", "full", "again"}]
      /\ carried \in [Producers -> 0..MaxEvents]
      BY DEF IMesh, TypeOK
<1>4. UNCHANGED <<link, held, sent, lost, commands>> /\ place[p] = "idle"
      BY DEF Enqueue
<1> HIDE DEF e
<1>5. CASE HasRoom
  <2>1. outbox' = Append(outbox, e) /\ UNCHANGED <<place, carried>>
        BY <1>1, <1>5 DEF Enqueue
  <2>2. /\ outbox' \in Seq(Events) /\ Len(outbox') <= OutboxMax
        /\ Known' = Known \cup {e} /\ Channel!Accept(e)
        BY <1>1, <1>2, <1>4, <1>5, <2>1, AcceptStep
  <2>3. Sole'
    <3>1. Known' \subseteq 1..events'
          BY <1>1, <1>2, <2>2
    <3>2. \A q \in Producers : carried'[q] # NoEvent => carried'[q] \in (1..events') \ Known'
      <4>1. \A q \in Producers : carried[q] # NoEvent => carried[q] \in (1..events) \ Known
            BY DEF IMesh, Sole
      <4>2. QED
            BY <1>1, <2>1, <2>2, <4>1
    <3>3. QED
          BY <2>1, <3>1, <3>2 DEF IMesh, Sole
  <2>4. IMesh'
        BY <1>1, <1>3, <1>4, <2>1, <2>2, <2>3, ProducerKeeps
  <2>5. QED
        BY <1>1, <2>2, <2>4 DEF ChannelStep, Channel!Next
<1>6. CASE ~HasRoom
  <2>1. /\ outbox' = outbox
        /\ place' = [place EXCEPT ![p] = "full"] /\ carried' = [carried EXCEPT ![p] = e]
        BY <1>1, <1>6 DEF Enqueue, Bring
  <2>2. Known' = Known
        BY <1>4, <2>1 DEF Known
  <2>3. Sole'
    <3>1. Known' \subseteq 1..events'
          BY <1>1, <1>2, <2>2
    <3>2. \A q \in Producers : carried[q] # NoEvent => carried[q] \in (1..events) \ Known
          BY DEF IMesh, Sole
    <3>3. \A q \in Producers : carried'[q] = IF q = p THEN e ELSE carried[q]
          BY <1>3, <2>1
    <3>4. \A q \in Producers : carried'[q] # NoEvent => carried'[q] \in (1..events') \ Known'
          BY <1>1, <1>2, <2>2, <3>2, <3>3
    <3>5. \A q, r \in Producers : q # r /\ carried'[q] # NoEvent => carried'[q] # carried'[r]
      <4>1. \A q, r \in Producers : q # r /\ carried[q] # NoEvent => carried[q] # carried[r]
            BY DEF IMesh, Sole
      <4>2. \A q \in Producers : carried[q] # e
            BY <1>1, <3>2
      <4>3. QED
            BY <3>3, <4>1, <4>2
    <3>6. \A q \in Producers : place'[q] = "idle" <=> carried'[q] = NoEvent
      <4>1. \A q \in Producers : place[q] = "idle" <=> carried[q] = NoEvent
            BY DEF IMesh, Sole
      <4>2. \A q \in Producers : place'[q] = IF q = p THEN "full" ELSE place[q]
            BY <1>3, <2>1
      <4>3. QED
            BY <1>1, <3>3, <4>1, <4>2
    <3>7. QED
          BY <3>1, <3>4, <3>5, <3>6 DEF Sole
  <2>4. /\ place' \in [Producers -> {"idle", "full", "again"}]
        /\ carried' \in [Producers -> 0..MaxEvents]
        BY <1>1, <1>3, <2>1 DEF Events
  <2>5. IMesh'
        BY <1>1, <1>3, <1>4, <2>1, <2>3, <2>4, ProducerKeeps
  <2>6. QED
        BY <1>4, <2>1, <2>5 DEF ChannelStep
<1>7. QED
  BY <1>5, <1>6

\* The oldest event goes: the channel drops its first event, or its second
\* when the thread has the first in hand.
LEMMA DropStep ==
  ASSUME IMesh, outbox # <<>>, outbox' = Tail(outbox), UNCHANGED <<held, sent>>
  PROVE  /\ outbox' \in Seq(Events) /\ Len(outbox') <= OutboxMax
         /\ Known' \subseteq Known /\ ChannelStep
<1>1. outbox \in Seq(Events) /\ Len(outbox) <= OutboxMax /\ Len(outbox) \in Nat
      BY DEF IMesh, TypeOK
<1>2. OutboxMax \in Nat
      BY AgentMeshAssumption
<1>3. /\ outbox' \in Seq(Events) /\ Len(outbox') = Len(outbox) - 1
      /\ ToSet(outbox') \subseteq ToSet(outbox)
      BY <1>1, Elements
<1>4. Len(outbox') <= OutboxMax
      BY <1>1, <1>2, <1>3
<1>5. Known' \subseteq Known
      BY <1>3 DEF Known
<1>6. \E i \in DOMAIN (held \o outbox) : Channel!Drop(i)
  <2>1. CASE held = <<>>
    <3>1. held \o outbox = outbox /\ held' \o outbox' = outbox'
          BY <1>1, <1>3, <2>1, Behind
    <3>2. RemoveAt(outbox, 1) = Tail(outbox)
          BY <1>1, FirstRemoved
    <3>3. 1 \in DOMAIN outbox
      <4>1. Len(outbox) # 0 /\ DOMAIN outbox = 1..Len(outbox)
            BY <1>1
      <4>2. QED
            BY <1>1, <4>1
    <3>4. QED
          BY <3>1, <3>2, <3>3 DEF Channel!Drop, Channel!RemoveAt, RemoveAt
  <2>2. CASE thread = "send"
    <3>1. PICK h \in Events : held = <<h>>
          BY <2>2 DEF IMesh, InHand
    <3>2. RemoveAt(<<h>> \o outbox, 2) = <<h>> \o Tail(outbox)
          BY <1>1, Behind
    <3>3. 2 \in DOMAIN (<<h>> \o outbox)
          BY <1>1
    <3>4. Channel!RemoveAt(held \o outbox, 2) = RemoveAt(held \o outbox, 2)
          BY DEF Channel!RemoveAt, RemoveAt
    <3>5. (held \o outbox)' = <<h>> \o Tail(outbox)
          BY <3>1
    <3>6. Channel!Drop(2)
          BY <3>1, <3>2, <3>4, <3>5 DEF Channel!Drop
    <3>7. QED
          BY <3>1, <3>3, <3>6
  <2>3. QED
        BY <2>1, <2>2 DEF IMesh, InHand
<1>7. QED
  BY <1>3, <1>4, <1>5, <1>6 DEF ChannelStep, Channel!Next

LEMMA MakeRoomStep ==
  ASSUME IMesh, NEW p \in Producers, MakeRoom(p)
  PROVE  IMesh' /\ ChannelStep
<1>1. /\ place[p] = "full" /\ UNCHANGED <<link, held, sent, lost, events, commands>>
      /\ place' = [place EXCEPT ![p] = "again"]
      /\ carried' = [carried EXCEPT ![p] = carried[p]]
      BY DEF MakeRoom, Bring
<1>2. /\ outbox \in Seq(Events) /\ Len(outbox) <= OutboxMax /\ events \in 0..MaxEvents
      /\ place \in [Producers -> {"idle", "full", "again"}]
      /\ carried \in [Producers -> 0..MaxEvents]
      BY DEF IMesh, TypeOK
<1>3. carried' = carried
      BY <1>1, <1>2
<1>4. /\ outbox' \in Seq(Events) /\ Len(outbox') <= OutboxMax
      /\ Known' \subseteq Known /\ ChannelStep
  <2>1. CASE outbox = <<>>
    <3>1. outbox' = outbox
          BY <2>1 DEF MakeRoom
    <3>2. QED
          BY <1>1, <1>2, <3>1 DEF Known, ChannelStep
  <2>2. CASE outbox # <<>>
    <3>1. outbox' = Tail(outbox)
          BY <2>2 DEF MakeRoom
    <3>2. QED
          BY <1>1, <2>2, <3>1, DropStep
  <2>3. QED
        BY <2>1, <2>2
<1>5. Sole'
  <2>1. \A q \in Producers : place[q] = "idle" <=> place'[q] = "idle"
        BY <1>1, <1>2
  <2>2. QED
        BY <1>1, <1>3, <1>4, <2>1 DEF IMesh, Sole
<1>6. place' \in [Producers -> {"idle", "full", "again"}]
      BY <1>1, <1>2
<1>7. IMesh'
      BY <1>1, <1>2, <1>3, <1>4, <1>5, <1>6, ProducerKeeps
<1>8. QED
  BY <1>4, <1>7

LEMMA PutAgainStep ==
  ASSUME IMesh, NEW p \in Producers, PutAgain(p)
  PROVE  IMesh' /\ ChannelStep
<1> DEFINE e == carried[p]
<1>1. /\ place[p] = "again" /\ UNCHANGED <<link, held, sent, lost, events, commands>>
      /\ place' = [place EXCEPT ![p] = "idle"]
      /\ carried' = [carried EXCEPT ![p] = NoEvent]
      /\ outbox' = IF HasRoom THEN Append(outbox, e) ELSE outbox
      BY DEF PutAgain, Bring
<1>2. /\ outbox \in Seq(Events) /\ Len(outbox) <= OutboxMax /\ events \in 0..MaxEvents
      /\ place \in [Producers -> {"idle", "full", "again"}]
      /\ carried \in [Producers -> 0..MaxEvents]
      BY DEF IMesh, TypeOK
<1>3. e # NoEvent /\ e \in (1..events) \ Known
      BY <1>1 DEF IMesh, Sole
<1>4. e \in Events
      BY <1>2, <1>3, AgentMeshAssumption DEF Events
<1> HIDE DEF e
<1>5. /\ outbox' \in Seq(Events) /\ Len(outbox') <= OutboxMax
      /\ Known' \subseteq Known \cup {e} /\ ChannelStep
  <2>1. CASE HasRoom
    <3>1. outbox' = Append(outbox, e)
          BY <1>1, <2>1
    <3>2. /\ outbox' \in Seq(Events) /\ Len(outbox') <= OutboxMax
          /\ Known' = Known \cup {e} /\ Channel!Accept(e)
          BY <1>1, <1>3, <1>4, <2>1, <3>1, AcceptStep
    <3>3. QED
          BY <1>4, <3>2 DEF ChannelStep, Channel!Next
  <2>2. CASE ~HasRoom
    <3>1. outbox' = outbox
          BY <1>1, <2>2
    <3>2. QED
          BY <1>1, <1>2, <3>1 DEF Known, ChannelStep
  <2>3. QED
        BY <2>1, <2>2
<1>6. \A q \in Producers : carried'[q] = IF q = p THEN NoEvent ELSE carried[q]
      BY <1>1, <1>2
<1>7. Sole'
  <2>1. Known' \subseteq 1..events'
        BY <1>1, <1>3, <1>5 DEF IMesh, Sole
  <2>2. \A q \in Producers : carried'[q] # NoEvent => carried'[q] \in (1..events') \ Known'
    <3>1. \A q \in Producers : carried[q] # NoEvent => carried[q] \in (1..events) \ Known
          BY DEF IMesh, Sole
    <3>2. \A q \in Producers : q # p /\ carried[q] # NoEvent => carried[q] # e
          BY DEF IMesh, Sole, e
    <3>3. QED
          BY <1>1, <1>5, <1>6, <3>1, <3>2
  <2>3. \A q, r \in Producers : q # r /\ carried'[q] # NoEvent => carried'[q] # carried'[r]
    <3>1. \A q, r \in Producers : q # r /\ carried[q] # NoEvent => carried[q] # carried[r]
          BY DEF IMesh, Sole
    <3>2. QED
          BY <1>6, <3>1
  <2>4. \A q \in Producers : place'[q] = "idle" <=> carried'[q] = NoEvent
    <3>1. \A q \in Producers : place[q] = "idle" <=> carried[q] = NoEvent
          BY DEF IMesh, Sole
    <3>2. \A q \in Producers : place'[q] = IF q = p THEN "idle" ELSE place[q]
          BY <1>1, <1>2
    <3>3. QED
          BY <1>6, <3>1, <3>2
  <2>5. QED
        BY <2>1, <2>2, <2>3, <2>4 DEF Sole
<1>8. /\ place' \in [Producers -> {"idle", "full", "again"}]
      /\ carried' \in [Producers -> 0..MaxEvents]
      BY <1>1, <1>2, AgentMeshAssumption DEF NoEvent
<1>9. IMesh'
      BY <1>1, <1>2, <1>5, <1>7, <1>8, ProducerKeeps
<1>10. QED
  BY <1>5, <1>9

\* The thread takes the oldest event in hand: the channel has not moved.
LEMMA PopStep ==
  ASSUME IMesh, Pop
  PROVE  IMesh' /\ ChannelStep
<1>1. /\ outbox \in Seq(Events) /\ Len(outbox) <= OutboxMax /\ Len(outbox) \in Nat
      /\ OutboxMax \in Nat
      BY AgentMeshAssumption DEF IMesh, TypeOK
<1>2. /\ thread = "drain" /\ outbox # <<>> /\ held = <<>>
      /\ held' = <<Head(outbox)>> /\ outbox' = Tail(outbox) /\ thread' = "send"
      /\ UNCHANGED <<running, session, fails, drops, sent, lost, producers, commands>>
      BY DEF Pop, Popped, GoTo, At, IMesh, InHand
<1>3. /\ Head(outbox) \in Events /\ Head(outbox) \in ToSet(outbox)
      /\ outbox' \in Seq(Events) /\ Len(outbox') = Len(outbox) - 1
      /\ ToSet(outbox') \subseteq ToSet(outbox)
      BY <1>1, <1>2, Elements
<1>4. ToSet(held') = {Head(outbox)}
      BY <1>1, <1>2, <1>3, Elements
<1>5. Known' \subseteq Known
      BY <1>2, <1>3, <1>4 DEF Known
<1>6. Sole'
      BY <1>2, <1>5 DEF IMesh, Sole, producers
<1>7. TypeOK'
  <2>1. Len(outbox') <= OutboxMax /\ held' \in Seq(Events) /\ thread' \in Threads
        BY <1>1, <1>2, <1>3 DEF Threads, InSession
  <2>2. QED
        BY <1>2, <1>3, <2>1 DEF IMesh, TypeOK, producers
<1>8. SessionIsLive'
      BY <1>2 DEF IMesh, SessionIsLive, InSession
<1>9. InHand' /\ Booked' /\ Counted'
      BY <1>2, <1>3 DEF IMesh, InHand, Booked, Counted, Leaving
<1>10. held' \o outbox' = held \o outbox
  <2>1. <<Head(outbox)>> \o Tail(outbox) = outbox /\ <<>> \o outbox = outbox
        BY <1>1, <1>2, Behind
  <2>2. QED
        BY <1>2, <2>1
<1>11. QED
  BY <1>2, <1>6, <1>7, <1>8, <1>9, <1>10 DEF IMesh, ChannelStep

LEMMA SendEventStep ==
  ASSUME IMesh, SendEvent
  PROVE  IMesh' /\ ChannelStep
<1>1. /\ outbox \in Seq(Events) /\ sent \in Seq(Events) /\ thread = "send"
      BY DEF IMesh, TypeOK, SendEvent, At
<1>2. PICK h \in Events : held = <<h>>
      BY <1>1 DEF IMesh, InHand
<1>3. /\ sent' = Append(sent, h) /\ held' = <<>> /\ thread' = "drain"
      /\ UNCHANGED <<running, session, fails, drops, outbox, lost, producers, commands>>
      BY <1>2 DEF SendEvent, GoTo
<1>4. ToSet(sent') = ToSet(sent) \cup {h} /\ ToSet(held) = {h} /\ ToSet(held') = {}
      BY <1>1, <1>2, <1>3, Elements
<1>5. Known' = Known
      BY <1>3, <1>4 DEF Known
<1>6. Sole'
      BY <1>3, <1>5 DEF IMesh, Sole, producers
<1>7. TypeOK'
  <2>1. sent' \in Seq(Events) /\ held' \in Seq(Events) /\ thread' \in Threads
        BY <1>1, <1>3 DEF Threads, InSession
  <2>2. QED
        BY <1>3, <2>1 DEF IMesh, TypeOK, producers
<1>8. SessionIsLive' /\ InHand' /\ Booked' /\ Counted'
      BY <1>1, <1>3 DEF IMesh, SessionIsLive, InSession, InHand, Booked, Counted, Leaving
<1>9. Channel!SendFirst
  <2>1. /\ <<h>> \o outbox # <<>> /\ Head(<<h>> \o outbox) = h
        /\ Tail(<<h>> \o outbox) = outbox /\ <<>> \o outbox = outbox
        BY <1>1, Behind
  <2>2. QED
        BY <1>2, <1>3, <2>1 DEF Channel!SendFirst
<1>10. QED
  BY <1>6, <1>7, <1>8, <1>9 DEF IMesh, ChannelStep, Channel!Next

\* A broken connection takes the event in hand: the channel drops its first.
LEMMA BreaksStep ==
  ASSUME IMesh, Breaks
  PROVE  IMesh' /\ ChannelStep
<1>1. /\ outbox \in Seq(Events) /\ held \in Seq(Events) /\ lost \subseteq Events
      /\ drops \in 0..MaxDrops /\ running \in BOOLEAN /\ MaxDrops \in Nat
      BY AgentMeshAssumption DEF IMesh, TypeOK
<1>2. /\ IF running THEN drops < MaxDrops /\ drops' = drops + 1 ELSE drops' = drops
      /\ thread' = (IF thread = "open" THEN "left" ELSE "closing")
      /\ lost' = lost \cup ToSet(held) /\ held' = <<>> /\ thread \notin Leaving
      /\ thread \in InSession \cup {"open", "gate", "declare"}
      /\ UNCHANGED <<running, session, fails, outbox, sent, producers, commands>>
      BY DEF Breaks, At, InSession, Leaving
<1>3. /\ ToSet(held) = {} \/ \E h \in Events : held = <<h>> /\ ToSet(held) = {h}
      /\ ToSet(held') = {}
      BY <1>1, <1>2, Elements DEF IMesh, InHand
<1>4. Known' \subseteq Known
      BY <1>2, <1>3 DEF Known
<1>5. Sole'
      BY <1>2, <1>4 DEF IMesh, Sole, producers
<1>6. TypeOK'
  <2>1. drops' \in 0..MaxDrops
        BY <1>1, <1>2
  <2>2. lost' \subseteq Events /\ held' \in Seq(Events) /\ thread' \in Threads
        BY <1>1, <1>2, <1>3 DEF Threads, InSession
  <2>3. QED
        BY <1>2, <2>1, <2>2 DEF IMesh, TypeOK, producers
<1>7. SessionIsLive' /\ InHand' /\ Counted'
      BY <1>2 DEF IMesh, SessionIsLive, InSession, InHand, Counted
<1>8. Booked'
  <2>1. IsFiniteSet(lost) /\ Cardinality(lost) \in Nat
    <3>1. 1 \in Int /\ MaxEvents \in Int
          BY AgentMeshAssumption
    <3>2. IsFiniteSet(Events)
          BY <3>1, FS_Interval DEF Events
    <3>3. QED
          BY <1>1, <3>2, FS_Subset, FS_CardinalityType
  <2>2. \A h : Cardinality(lost \cup {h}) <= Cardinality(lost) + 1
        BY <2>1, FS_AddElement
  <2>3. Cardinality(lost') <= Cardinality(lost) + 1 /\ Cardinality(lost') \in Nat
    <3>1. lost' = lost \/ \E h : lost' = lost \cup {h}
          BY <1>2, <1>3
    <3>2. \A h : Cardinality(lost \cup {h}) \in Nat
          BY <2>1, FS_AddElement, FS_CardinalityType
    <3>3. CASE lost' = lost
          BY <2>1, <3>3
    <3>4. CASE \E h : lost' = lost \cup {h}
      <4>1. PICK h : lost' = lost \cup {h}
            BY <3>4
      <4>2. Cardinality(lost') = Cardinality(lost \cup {h})
            BY <4>1
      <4>3. Cardinality(lost \cup {h}) <= Cardinality(lost) + 1 /\ Cardinality(lost \cup {h}) \in Nat
            BY <2>2, <3>2
      <4>4. QED
            BY <4>2, <4>3
    <3>5. QED
          BY <3>1, <3>3, <3>4
  <2>4. Cardinality(lost) <= drops
        BY <1>1, <1>2, <2>1 DEF IMesh, Booked
  <2>5. thread' \in Leaving
        BY <1>2 DEF Leaving
  <2>6. QED
        BY <1>1, <1>2, <2>1, <2>3, <2>4, <2>5 DEF Booked
<1>9. ChannelStep
  <2>1. CASE held = <<>>
        BY <1>2, <2>1 DEF ChannelStep
  <2>2. CASE thread = "send"
    <3>1. PICK h \in Events : held = <<h>>
          BY <2>2 DEF IMesh, InHand
    <3>2. RemoveAt(<<h>> \o outbox, 1) = outbox /\ <<>> \o outbox = outbox
          BY <1>1, Behind
    <3>3. Channel!RemoveAt(held \o outbox, 1) = RemoveAt(held \o outbox, 1)
          BY DEF Channel!RemoveAt, RemoveAt
    <3>4. Channel!Drop(1)
          BY <1>2, <3>1, <3>2, <3>3 DEF Channel!Drop
    <3>5. 1 \in DOMAIN (<<h>> \o outbox)
      <4>1. DOMAIN (<<h>> \o outbox) = 1..(Len(outbox) + 1) /\ Len(outbox) \in Nat
            BY <1>1
      <4>2. QED
            BY <4>1
    <3>6. QED
          BY <3>1, <3>4, <3>5 DEF ChannelStep, Channel!Next
  <2>3. QED
        BY <2>1, <2>2 DEF IMesh, InHand
<1>10. QED
  BY <1>5, <1>6, <1>7, <1>8, <1>9 DEF IMesh

-----------------------------------------------------------------------------
LEMMA Starts == Init => IMesh /\ Channel!Init
<1> SUFFICES ASSUME Init PROVE IMesh /\ Channel!Init
    OBVIOUS
<1>1. /\ running = TRUE /\ thread = "idle" /\ session = FALSE /\ fails = 0 /\ drops = 0
      /\ outbox = <<>> /\ held = <<>> /\ sent = <<>> /\ lost = {}
      /\ place = [p \in Producers |-> "idle"]
      /\ carried = [p \in Producers |-> NoEvent]
      /\ events = 0 /\ commands = 0
      BY DEF Init
<1>2. running \in BOOLEAN /\ session \in BOOLEAN
      BY <1>1, Zenon
<1>3. TypeOK
      BY <1>1, <1>2, AgentMeshAssumption DEF TypeOK, Threads, NoEvent
<1>4. SessionIsLive /\ InHand /\ Counted
      BY <1>1, AgentMeshAssumption DEF SessionIsLive, InSession, InHand, Counted
<1>5. Booked
      BY <1>1, FS_EmptySet DEF Booked
<1>6. Sole
      BY <1>1 DEF Sole, Known, ToSet, NoEvent
<1>7. Channel!Init
      BY <1>1 DEF Channel!Init
<1>8. QED
  BY <1>3, <1>4, <1>5, <1>6, <1>7 DEF IMesh

LEMMA NextKeeps ==
  ASSUME IMesh, [Next]_vars
  PROVE  IMesh' /\ ChannelStep
<1>1. CASE Connection
      BY <1>1, ConnectionMoves, MovesKeep, MovesStutter
<1>2. CASE Pop
      BY <1>2, PopStep
<1>3. CASE SendEvent
      BY <1>3, SendEventStep
<1>4. CASE Breaks
      BY <1>4, BreaksStep
<1>5. CASE \E p \in Producers : Enqueue(p) \/ MakeRoom(p) \/ PutAgain(p)
      BY <1>5, EnqueueStep, MakeRoomStep, PutAgainStep
<1>6. CASE UNCHANGED vars
  <2>1. Moves
        BY <1>6, AgentMeshAssumption
           DEF vars, link, Moves, IMesh, TypeOK, SessionIsLive, Counted
  <2>2. QED
        BY <2>1, MovesKeep, MovesStutter
<1>7. QED
  BY <1>1, <1>2, <1>3, <1>4, <1>5, <1>6 DEF Next, Thread, Connection

\* "connected" is answered only until the session's socket is closed, the
\* outbox keeps its bound, a broken connection takes one event at most, and
\* only an overflow of the backoff ends the thread of a running client
\* (MercuryAgentClient._thread_main, enqueue_event, _drain_outbox).
THEOREM MeshHolds == Spec => []MeshInv
<1>1. Init => IMesh
      BY Starts
<1>2. IMesh /\ [Next]_vars => IMesh'
      BY NextKeeps
<1>3. IMesh => MeshInv
  <2> SUFFICES ASSUME IMesh PROVE MeshInv
      OBVIOUS
  <2>1. OneLostPerDrop
    <3>1. IsFiniteSet(lost)
      <4>1. 1 \in Int /\ MaxEvents \in Int
            BY AgentMeshAssumption
      <4>2. IsFiniteSet(Events)
            BY <4>1, FS_Interval DEF Events
      <4>3. QED
            BY <4>2, FS_Subset DEF IMesh, TypeOK
    <3>2. Cardinality(lost) \in Nat /\ drops \in Nat
          BY <3>1, FS_CardinalityType DEF IMesh, TypeOK
    <3>3. QED
          BY <3>2 DEF IMesh, Booked, OneLostPerDrop
  <2>2. OnlyBackoffKills
        BY DEF IMesh, Counted, OnlyBackoffKills
  <2>3. QED
        BY <2>1, <2>2 DEF IMesh, MeshInv
<1>4. QED
  BY <1>1, <1>2, <1>3, PTL DEF Spec

\* The client implements EventChannel: across reconnects, two producers, a
\* full outbox and stop(), no event is sent twice or before an earlier one.
THEOREM MeshImplementsChannel == Spec => ChannelSpec
<1>1. Init => IMesh /\ Channel!Init
      BY Starts
<1>2. IMesh /\ [Next]_vars => IMesh' /\ [Channel!Next]_<<held \o outbox, sent>>
      BY NextKeeps DEF ChannelStep
<1>3. QED
  BY <1>1, <1>2, PTL DEF Spec, ChannelSpec, Channel!Spec

-----------------------------------------------------------------------------
(***************************************************************************)
(* Notifier: QueueInv and PostedOnce, for every number of messages and     *)
(* every size of the queue. Both rest on what is under way, in the queue   *)
(* or with the worker, being unsent and having an attempt left.            *)
(***************************************************************************)

\* The messages in a queue.
Items(q) == {q[i] : i \in DOMAIN q}

\* A queue within its bound that has each message once, those the rate limit has
\* not turned away in the order in which they were sent.
Orderly(q, tries) ==
  /\ q \in Seq(Messages) /\ Len(q) <= QueueSize
  /\ \A i, j \in DOMAIN q : q[i] = q[j] => i = j
  /\ \A i, j \in DOMAIN q : i < j /\ tries[q[i]] = 0 /\ tries[q[j]] = 0 => q[i] < q[j]

\* m is not in q, and may stand at its end.
MayFollowIn(q, tries, m) ==
  /\ m \in Messages \ Items(q)
  /\ tries[m] = 0 => \A k \in Items(q) : tries[k] = 0 => k < m

UnderWay == Items(queue) \cup ({inHand} \ {Nothing})

(***************************************************************************)
(* The inductive invariant.  What the properties do not say: a message     *)
(* that is under way was sent, has an attempt left and is not in the chat, *)
(* the worker holds one exactly while it posts or cools down, and it cools *)
(* down only with a message the rate limit has turned away.                *)
(***************************************************************************)
IQueue ==
  /\ NotifierTypeOK
  /\ Orderly(queue, attempts)
  /\ inHand # Nothing => /\ inHand \notin Items(queue)
                         /\ attempts[inHand] = 0 =>
                              \A k \in Items(queue) : attempts[k] = 0 => inHand < k
  /\ \A m \in UnderWay : m <= sends /\ attempts[m] < MaxRetries /\ m \notin posted
  /\ \A m \in Messages : m > sends => future[m] = "none" /\ attempts[m] = 0 /\ m \notin posted
  /\ \A m \in Messages : future[m] = "pending" => m \in UnderWay
  /\ worker \in {"post", "cool"} <=> inHand # Nothing
  /\ worker = "cool" => attempts[inHand] > 0

\* What the assumption says of the constants.
LEMMA NotifierConstants ==
  /\ MaxMessages \in Nat /\ QueueSize \in Nat \ {0} /\ MaxRetries \in Nat \ {0}
  /\ Messages \subseteq Nat /\ Nothing \notin Messages /\ Nothing \in Nat
BY NotifierAssumption DEF Messages, Nothing

-----------------------------------------------------------------------------
(* What putting, taking and dropping do to a queue.                        *)

\* The empty queue is orderly.
LEMMA EmptyOrderly == \A tries : Orderly(<<>>, tries) /\ Items(<<>>) = {}
BY NotifierConstants DEF Orderly, Items

\* A message that may stand at the end is put there.
LEMMA PutOrderly ==
  ASSUME NEW q, NEW tries, NEW m, Orderly(q, tries), Len(q) < QueueSize, MayFollowIn(q, tries, m)
  PROVE  Orderly(Put(q, m), tries) /\ Items(Put(q, m)) = Items(q) \cup {m}
<1> DEFINE p == Append(q, m)
<1>1. PICK n \in Nat : n = Len(q)
      BY DEF Orderly
<1>2. /\ q \in Seq(Messages) /\ m \in Messages /\ DOMAIN q = 1..n
      /\ \A i \in 1..n : q[i] \in Items(q) /\ q[i] \in Messages
      BY <1>1 DEF Orderly, MayFollowIn, Items
<1>3. /\ p \in Seq(Messages) /\ Len(p) = n + 1 /\ DOMAIN p = 1..(n + 1)
      /\ p[n + 1] = m /\ \A i \in 1..n : p[i] = q[i]
  <2>1. /\ p \in Seq(Messages) /\ Len(p) = Len(q) + 1
        /\ \A i \in 1..Len(q) : p[i] = q[i]
        /\ p[Len(q) + 1] = m
        BY <1>2, AppendProperties
  <2> HIDE DEF p
  <2>2. DOMAIN p = 1..(n + 1)
        BY <2>1, <1>1
  <2>3. QED
        BY <2>1, <2>2, <1>1
<1> HIDE DEF p
<1>4. \A i \in 1..(n + 1) : i \in 1..n \/ i = n + 1
      OBVIOUS
<1>5. Items(p) = Items(q) \cup {m}
  <2>1. n + 1 \in 1..(n + 1) /\ 1..n \subseteq 1..(n + 1)
        OBVIOUS
  <2>2. QED
        BY <2>1, <1>2, <1>3, <1>4 DEF Items
<1>6. \A i, j \in DOMAIN p : p[i] = p[j] => i = j
      BY <1>2, <1>3, <1>4 DEF Orderly, MayFollowIn
<1>7. ASSUME NEW i \in DOMAIN p, NEW j \in DOMAIN p, i < j, tries[p[i]] = 0, tries[p[j]] = 0
      PROVE  p[i] < p[j]
  <2>1. i \in 1..n
        BY <1>3, <1>7
  <2>2. CASE j \in 1..n
        BY <2>1, <2>2, <1>2, <1>3, <1>7 DEF Orderly
  <2>3. CASE j = n + 1
        BY <2>1, <2>3, <1>2, <1>3, <1>7 DEF MayFollowIn
  <2>4. QED
        BY <2>2, <2>3, <1>3, <1>4
<1>8. Len(p) <= QueueSize
      BY <1>1, <1>3, NotifierConstants
<1>9. Orderly(p, tries)
      BY <1>3, <1>6, <1>7, <1>8 DEF Orderly
<1>10. QED
  BY <1>5, <1>9 DEF Put, p

\* Without its head a queue is orderly, and behind it may stand what could before.
LEMMA TailOrderly ==
  ASSUME NEW q, NEW tries, Orderly(q, tries), q # <<>>
  PROVE  /\ Orderly(Tail(q), tries) /\ Len(Tail(q)) < QueueSize
         /\ Head(q) \in Messages /\ Items(q) = Items(Tail(q)) \cup {Head(q)}
         /\ Head(q) \notin Items(Tail(q))
         /\ tries[Head(q)] = 0 =>
              \A k \in Items(Tail(q)) : tries[k] = 0 => Head(q) < k
         /\ \A m : MayFollowIn(q, tries, m) => MayFollowIn(Tail(q), tries, m)
<1> DEFINE p == Tail(q)
<1>1. PICK n \in Nat : n = Len(q)
      BY DEF Orderly
<1>2. n # 0 /\ q \in Seq(Messages) /\ DOMAIN q = 1..n
      BY <1>1, EmptySeq DEF Orderly
<1>3. /\ p \in Seq(Messages) /\ Len(p) = n - 1 /\ DOMAIN p = 1..(n - 1)
      /\ \A i \in 1..(n - 1) : p[i] = q[i + 1]
      /\ Head(q) = q[1] /\ Head(q) \in Messages
  <2>1. /\ Head(q) \in Messages
        /\ p \in Seq(Messages) /\ Len(p) = Len(q) - 1
        /\ \A i \in 1..Len(p) : p[i] = q[i + 1]
        BY <1>2, HeadTailProperties DEF Orderly
  <2>2. Head(q) = q[1]
        BY <1>2
  <2> HIDE DEF p
  <2>3. Len(p) = n - 1 /\ DOMAIN p = 1..(n - 1)
        BY <2>1, <1>1
  <2>4. QED
        BY <2>1, <2>2, <2>3
<1> HIDE DEF p
<1>4. /\ \A i \in 1..(n - 1) : i + 1 \in 1..n /\ i + 1 # 1
      /\ \A i \in 1..n : i = 1 \/ (i - 1 \in 1..(n - 1) /\ (i - 1) + 1 = i)
      /\ 1 \in 1..n
      BY <1>2
<1>5. Items(q) = Items(p) \cup {q[1]}
  <2>1. ASSUME NEW k \in Items(q) PROVE k \in Items(p) \cup {q[1]}
    <3>1. PICK i \in 1..n : k = q[i]
          BY <1>2 DEF Items
    <3>2. CASE i = 1
          BY <3>1, <3>2
    <3>3. CASE i # 1
      <4>1. i - 1 \in DOMAIN p /\ p[i - 1] = q[(i - 1) + 1] /\ (i - 1) + 1 = i
            BY <3>3, <1>3, <1>4
      <4>2. k = p[i - 1]
            BY <3>1, <4>1
      <4>3. QED
            BY <4>1, <4>2 DEF Items
    <3>4. QED
          BY <3>2, <3>3
  <2>2. ASSUME NEW k \in Items(p) PROVE k \in Items(q)
    <3>1. PICK i \in 1..(n - 1) : k = q[i + 1]
          BY <1>3 DEF Items
    <3>2. QED
          BY <3>1, <1>2, <1>4 DEF Items
  <2>3. q[1] \in Items(q)
        BY <1>2, <1>4 DEF Items
  <2>4. QED
        BY <2>1, <2>2, <2>3
<1>6. q[1] \notin Items(p)
  <2> SUFFICES ASSUME NEW i \in 1..(n - 1), q[1] = q[i + 1] PROVE FALSE
      BY <1>3 DEF Items
  <2>1. 1 \in DOMAIN q /\ i + 1 \in DOMAIN q /\ i + 1 # 1
        BY <1>2, <1>4
  <2>2. QED
        BY <2>1 DEF Orderly
<1>7. \A i, j \in DOMAIN p : p[i] = p[j] => i = j
  <2> SUFFICES ASSUME NEW i \in 1..(n - 1), NEW j \in 1..(n - 1), p[i] = p[j] PROVE i = j
      BY <1>3
  <2>1. q[i + 1] = q[j + 1] /\ i + 1 \in DOMAIN q /\ j + 1 \in DOMAIN q
        BY <1>2, <1>3, <1>4
  <2>2. i + 1 = j + 1
        BY <2>1 DEF Orderly
  <2>3. QED
        BY <2>2
<1>8. ASSUME NEW i \in 1..(n - 1), NEW j \in 1..(n - 1), i < j, tries[p[i]] = 0, tries[p[j]] = 0
      PROVE  p[i] < p[j]
  <2>1. i + 1 < j + 1 /\ i + 1 \in DOMAIN q /\ j + 1 \in DOMAIN q
        BY <1>2, <1>4, <1>8
  <2>2. QED
        BY <2>1, <1>3, <1>8 DEF Orderly
<1>9. ASSUME tries[q[1]] = 0, NEW k \in Items(p), tries[k] = 0 PROVE q[1] < k
  <2>1. PICK i \in 1..(n - 1) : k = q[i + 1]
        BY <1>3 DEF Items
  <2>2. 1 \in DOMAIN q /\ i + 1 \in DOMAIN q /\ 1 < i + 1
        BY <1>2, <1>4
  <2>3. QED
        BY <2>1, <2>2, <1>9 DEF Orderly
<1>10. Len(p) < QueueSize /\ Len(p) <= QueueSize
       BY <1>1, <1>3, NotifierConstants DEF Orderly
<1>11. Orderly(p, tries)
       BY <1>3, <1>7, <1>8, <1>10 DEF Orderly
<1>12. \A m : MayFollowIn(q, tries, m) => MayFollowIn(p, tries, m)
       BY <1>5 DEF MayFollowIn
<1>13. QED
  BY <1>3, <1>5, <1>6, <1>9, <1>10, <1>11, <1>12 DEF p

\* _enqueue keeps the queue orderly.  It resolves no future but that of what it
\* drops, and what is still waited for is in the queue.
LEMMA PutOrDropStep ==
  ASSUME NEW tries, Orderly(queue, tries), NEW f \in [Messages -> Futures], NEW m,
         MayFollowIn(queue, tries, m), NEW unput \in Futures \ {"none", "pending"},
         PutOrDrop(f, m, unput)
  PROVE  /\ Orderly(queue', tries) /\ Items(queue') \subseteq Items(queue) \cup {m}
         /\ future' \in [Messages -> Futures]
         /\ \A k \in Messages : f[k] = "none" => future'[k] = "none"
         /\ \A k \in Messages : future'[k] = "pending" =>
              f[k] = "pending" /\ (k \in Items(queue) \cup {m} => k \in Items(queue'))
<1>1. /\ queue \in Seq(Messages) /\ Len(queue) \in Nat /\ Len(queue) <= QueueSize
      /\ m \in Messages
      BY DEF Orderly, MayFollowIn
<1>2. \A k \in Messages, r \in Futures \ {"none", "pending"} :
        /\ SetResult(f, k, r) \in [Messages -> Futures]
        /\ \A l \in Messages : f[l] = "none" => SetResult(f, k, r)[l] = "none"
        /\ \A l \in Messages : SetResult(f, k, r)[l] = "pending" => f[l] = "pending" /\ l # k
      BY DEF SetResult
<1>3. CASE ~Full
  <2>1. queue' = Put(queue, m) /\ future' = f
        BY <1>3 DEF PutOrDrop
  <2>2. Len(queue) < QueueSize
        BY <1>1, <1>3, NotifierConstants DEF Full
  <2>3. QED
        BY <2>1, <2>2, PutOrderly
<1>4. CASE Full
  <2>1. queue # <<>>
        BY <1>1, <1>4, NotifierConstants, EmptySeq DEF Full
  <2> DEFINE rest == Tail(queue)
             head == Head(queue)
  <2>2. /\ Orderly(rest, tries) /\ Len(rest) < QueueSize /\ MayFollowIn(rest, tries, m)
        /\ head \in Messages /\ Items(queue) = Items(rest) \cup {head}
        BY <2>1, TailOrderly
  <2>3. CASE f[head] = "cancelled"
    <3>1. queue' = rest /\ future' = SetResult(f, m, unput)
          BY <1>4, <2>3 DEF PutOrDrop
    <3>2. \A k \in Messages : future'[k] = "pending" => k # head
          BY <3>1, <1>1, <1>2, <2>3
    <3> HIDE DEF rest, head
    <3>3. QED
          BY <3>1, <3>2, <1>1, <1>2, <2>2
  <2>4. CASE f[head] # "cancelled"
    <3>1. queue' = Put(rest, m) /\ future' = SetResult(f, head, "failed")
          BY <1>4, <2>4 DEF PutOrDrop
    <3>2. "failed" \in Futures \ {"none", "pending"}
          BY DEF Futures, Resolved
    <3> HIDE DEF rest, head
    <3>3. Orderly(queue', tries) /\ Items(queue') = Items(rest) \cup {m}
          BY <3>1, <2>2, PutOrderly
    <3>4. QED
          BY <3>1, <3>2, <3>3, <1>1, <1>2, <2>2
  <2>5. QED
        BY <2>3, <2>4
<1>5. QED
  BY <1>3, <1>4

-----------------------------------------------------------------------------
(* The invariant, step by step.                                            *)

\* What is under way is a message, and 0 is not.
LEMMA UnderWayMessages ==
  ASSUME IQueue
  PROVE  /\ UnderWay \subseteq Messages /\ Items(queue) \subseteq UnderWay
         /\ inHand # Nothing => inHand \in UnderWay
         /\ sends \in Nat /\ queue \in Seq(Messages)
<1>1. Items(queue) \subseteq Messages
      BY DEF IQueue, Orderly, Items
<1>2. inHand # Nothing => inHand \in Messages
      BY NotifierConstants DEF IQueue, NotifierTypeOK, Messages, Nothing
<1>3. QED
  BY <1>1, <1>2, NotifierConstants DEF UnderWay, IQueue, NotifierTypeOK, Orderly

\* send(): a new message stands behind all others.
LEMMA SendStep ==
  ASSUME IQueue, Send
  PROVE  IQueue'
<1> DEFINE m == sends'
<1>1. /\ m \in Messages /\ m = sends + 1 /\ m \in 0..MaxMessages
      /\ m \notin UnderWay /\ attempts[m] = 0 /\ future[m] = "none" /\ m \notin posted
      /\ \A k \in UnderWay : k < m /\ k <= m /\ attempts[k] < MaxRetries /\ k \notin posted
      /\ \A k \in Messages : k > m => k > sends
  <2>1. sends \in Nat /\ sends < MaxMessages /\ m = sends + 1
        BY UnderWayMessages DEF Send
  <2>2. m \in Messages /\ m \in 0..MaxMessages
        BY <2>1, NotifierConstants DEF Messages
  <2>3. \A k \in UnderWay : k <= sends /\ k \in Nat
        BY UnderWayMessages, NotifierConstants DEF IQueue
  <2>4. attempts[m] = 0 /\ future[m] = "none" /\ m \notin posted
        BY <2>1, <2>2 DEF IQueue
  <2>5. \A k \in Messages : k > m => k > sends
        BY <2>1, NotifierConstants
  <2>6. \A k \in UnderWay : k < m /\ k <= m
        BY <2>1, <2>3
  <2>7. m \notin UnderWay
        BY <2>1, <2>3
  <2>8. \A k \in UnderWay : attempts[k] < MaxRetries /\ k \notin posted
        BY DEF IQueue
  <2>9. QED
        BY <2>1, <2>2, <2>4, <2>5, <2>6, <2>7, <2>8
<1>2. UNCHANGED <<inHand, attempts, closed, posted, forwarded>>
      BY DEF Send
<1>3. CASE closed
  <2>1. future' = [future EXCEPT ![m] = "failed"] /\ UNCHANGED <<queue, worker>>
        BY <1>3 DEF Send
  <2>2. UnderWay' = UnderWay
        BY <2>1, <1>2 DEF UnderWay, Items
  <2>3. future' \in [Messages -> Futures]
        BY <2>1, <1>1 DEF IQueue, NotifierTypeOK, Futures, Resolved
  <2> HIDE DEF m
  <2>4. \A k \in Messages : k # m => future'[k] = future[k]
        BY <2>1, <1>1 DEF IQueue, NotifierTypeOK
  <2>5. future'[m] = "failed"
        BY <2>1, <1>1 DEF IQueue, NotifierTypeOK
  <2>6. NotifierTypeOK'
        BY <2>1, <2>3, <1>1, <1>2 DEF IQueue, NotifierTypeOK, m
  <2>7. /\ \A k \in UnderWay : k <= sends' /\ attempts'[k] < MaxRetries /\ k \notin posted'
        BY <1>1, <1>2 DEF m
  <2>8. \A k \in Messages : k > sends' =>
          future'[k] = "none" /\ attempts'[k] = 0 /\ k \notin posted'
        BY <2>4, <1>1, <1>2, NotifierConstants DEF IQueue, m
  <2>9. \A k \in Messages : future'[k] = "pending" => k \in UnderWay
        BY <2>4, <2>5 DEF IQueue
  <2>10. QED
         BY <2>1, <2>2, <2>6, <2>7, <2>8, <2>9, <1>2 DEF IQueue, Orderly, Items
<1>4. CASE ~closed
  <2> DEFINE f == [future EXCEPT ![m] = "pending"]
  <2>1. /\ PutOrDrop(f, m, "raised")
        /\ worker' = IF worker = "none" THEN "get" ELSE worker
        BY <1>4 DEF Send
  <2>2. f \in [Messages -> Futures] /\ \A k \in Messages : k # m => f[k] = future[k]
        BY <1>1 DEF IQueue, NotifierTypeOK, Futures
  <2>3. MayFollowIn(queue, attempts, m) /\ Orderly(queue, attempts)
        BY <1>1, UnderWayMessages DEF MayFollowIn, IQueue
  <2>4. "raised" \in Futures \ {"none", "pending"}
        BY DEF Futures, Resolved
  <2> HIDE DEF f, m
  <2>5. /\ Orderly(queue', attempts) /\ Items(queue') \subseteq Items(queue) \cup {m}
        /\ future' \in [Messages -> Futures]
        /\ \A k \in Messages : f[k] = "none" => future'[k] = "none"
        /\ \A k \in Messages : future'[k] = "pending" =>
             f[k] = "pending" /\ (k \in Items(queue) \cup {m} => k \in Items(queue'))
        BY <2>1, <2>2, <2>3, <2>4, PutOrDropStep
  <2>6. UnderWay' = Items(queue') \cup ({inHand} \ {Nothing})
        BY <1>2 DEF UnderWay, Items
  <2>7. worker' \in {"post", "cool"} <=> worker \in {"post", "cool"}
        BY <2>1
  <2>8. NotifierTypeOK'
        BY <2>1, <2>5, <1>1, <1>2 DEF IQueue, NotifierTypeOK, Orderly, m
  <2>9. ASSUME NEW k \in UnderWay'
        PROVE  k <= sends' /\ attempts'[k] < MaxRetries /\ k \notin posted'
    <3>1. CASE k = m
          BY <3>1, <1>1, <1>2, NotifierConstants DEF m
    <3>2. CASE k \in UnderWay
          BY <3>2, <1>1, <1>2 DEF m
    <3>3. QED
          BY <3>1, <3>2, <2>5, <2>6 DEF UnderWay
  <2>10. \A k \in Messages : k > sends' =>
           future'[k] = "none" /\ attempts'[k] = 0 /\ k \notin posted'
    <3>1. \A k \in Messages : k > m => k > sends /\ k # m
          BY <1>1, NotifierConstants
    <3>2. QED
          BY <3>1, <2>2, <2>5, <1>2 DEF IQueue, m
  <2>11. \A k \in Messages : future'[k] = "pending" => k \in UnderWay'
    <3>1. \A k \in Messages : future'[k] = "pending" =>
            k = m \/ k \in Items(queue) \/ k \in {inHand} \ {Nothing}
          BY <2>2, <2>5 DEF IQueue, UnderWay
    <3>2. QED
          BY <3>1, <2>5, <2>6
  <2>12. inHand # Nothing => /\ inHand \notin Items(queue')
                             /\ attempts[inHand] = 0 =>
                                  \A k \in Items(queue') : attempts[k] = 0 => inHand < k
         BY <2>5, <1>1, UnderWayMessages DEF IQueue
  <2>13. QED
         BY <2>5, <2>7, <2>8, <2>9, <2>10, <2>11, <2>12, <1>2, <2>1 DEF IQueue, Orderly, Items
<1>5. QED
  BY <1>3, <1>4

\* The worker takes the head of the queue.
LEMMA TakeStep ==
  ASSUME IQueue, Take
  PROVE  IQueue' /\ inHand' \notin posted
<1> DEFINE rest == Tail(queue)
           head == Head(queue)
<1>1. /\ worker' = "post" /\ inHand' = head /\ queue' = rest /\ queue # <<>>
      /\ UNCHANGED <<sends, attempts, future, closed, posted, forwarded>>
      /\ inHand = Nothing
      BY DEF Take, IQueue
<1>2. /\ Orderly(rest, attempts) /\ head \in Messages /\ Items(queue) = Items(rest) \cup {head}
      /\ head \notin Items(rest)
      /\ attempts[head] = 0 => \A k \in Items(rest) : attempts[k] = 0 => head < k
      BY <1>1, TailOrderly DEF IQueue
<1> HIDE DEF rest, head
<1>3. UnderWay' = Items(rest) \cup ({head} \ {Nothing}) /\ UnderWay = Items(queue)
      BY <1>1 DEF UnderWay, Items
<1>4. UnderWay' = UnderWay /\ head # Nothing
      BY <1>2, <1>3, NotifierConstants
<1>5. NotifierTypeOK'
      BY <1>1, <1>2, NotifierConstants DEF IQueue, NotifierTypeOK, Orderly, Messages
<1>6. head \notin posted
      BY <1>2, <1>3 DEF IQueue
<1>7. QED
  BY <1>1, <1>2, <1>4, <1>5, <1>6 DEF IQueue, Orderly, Items

\* A message leaves the worker's hands for good.
LEMMA FinishStep ==
  ASSUME IQueue, worker = "post", NEW result \in Resolved, Finish(result),
         UNCHANGED <<sends, queue, closed, forwarded>>,
         posted' \in {posted, posted \cup {inHand}},
         attempts' \in [Messages -> 0..MaxRetries],
         \A m \in Messages \ {inHand} : attempts'[m] = attempts[m]
  PROVE  IQueue'
<1>1. /\ inHand \in Messages /\ inHand \notin Items(queue) /\ inHand # Nothing /\ inHand <= sends
      /\ inHand' = Nothing /\ worker' = "get" /\ future' = SetResult(future, inHand, result)
      BY UnderWayMessages DEF IQueue, Finish
<1>2. UnderWay' = Items(queue) /\ UnderWay = Items(queue) \cup {inHand}
      BY <1>1 DEF UnderWay, Items
<1>3. /\ future' \in [Messages -> Futures] /\ future'[inHand] # "pending"
      /\ \A m \in Messages \ {inHand} : future'[m] = future[m]
      BY <1>1 DEF SetResult, IQueue, NotifierTypeOK, Futures, Resolved
<1>4. \A m \in Items(queue) : m \in Messages /\ m # inHand
      BY <1>1, UnderWayMessages
<1>5. Orderly(queue', attempts')
  <2>1. \A i \in DOMAIN queue : attempts'[queue[i]] = attempts[queue[i]]
        BY <1>4 DEF Items
  <2>2. QED
        BY <2>1 DEF IQueue, Orderly
<1>6. NotifierTypeOK'
      BY <1>1, <1>3, NotifierConstants DEF IQueue, NotifierTypeOK, Nothing
<1>7. \A m \in Messages : m > sends => m # inHand
      BY <1>1, NotifierConstants, UnderWayMessages
<1>8. \A m \in UnderWay' : m <= sends' /\ attempts'[m] < MaxRetries /\ m \notin posted'
      BY <1>2, <1>4 DEF IQueue
<1>9. \A m \in Messages : m > sends' =>
        future'[m] = "none" /\ attempts'[m] = 0 /\ m \notin posted'
      BY <1>3, <1>7 DEF IQueue
<1>10. \A m \in Messages : future'[m] = "pending" => m \in UnderWay'
       BY <1>2, <1>3 DEF IQueue
<1>11. QED
  BY <1>1, <1>5, <1>6, <1>8, <1>9, <1>10 DEF IQueue

\* The rate limit: one attempt less, and a cooldown while one is left.
LEMMA LimitedStep ==
  ASSUME IQueue, Limited
  PROVE  IQueue'
<1>1. /\ inHand \in Messages /\ inHand \notin Items(queue) /\ inHand # Nothing /\ inHand <= sends
      /\ worker = "post" /\ UNCHANGED <<sends, queue, closed, posted, forwarded>>
      /\ attempts[inHand] \in Nat /\ attempts[inHand] < MaxRetries
      BY UnderWayMessages DEF IQueue, Limited, NotifierTypeOK
<1>2. attempts' = [attempts EXCEPT ![inHand] = @ + 1]
      BY DEF Limited
<1>3. /\ attempts' \in [Messages -> 0..MaxRetries]
      /\ attempts'[inHand] = attempts[inHand] + 1
      /\ \A m \in Messages \ {inHand} : attempts'[m] = attempts[m]
  <2>1. attempts[inHand] + 1 \in 0..MaxRetries
        BY <1>1, NotifierConstants
  <2>2. QED
        BY <2>1, <1>1, <1>2 DEF IQueue, NotifierTypeOK
<1>4. CASE GivesUp
  <2>1. Finish("failed") /\ "failed" \in Resolved
        BY <1>4 DEF Limited, Resolved
  <2>2. QED
        BY <2>1, <1>1, <1>3, FinishStep
<1>5. CASE ~GivesUp
  <2>1. worker' = "cool" /\ UNCHANGED <<inHand, future>>
        BY <1>5 DEF Limited
  <2>2. attempts'[inHand] < MaxRetries /\ attempts'[inHand] > 0
        BY <1>1, <1>3, <1>5, NotifierConstants DEF GivesUp
  <2>3. UnderWay' = UnderWay
        BY <2>1, <1>1 DEF UnderWay, Items
  <2>4. \A m \in Items(queue) : m \in Messages /\ m # inHand
        BY <1>1, UnderWayMessages
  <2>5. Orderly(queue', attempts')
    <3>1. \A i \in DOMAIN queue : attempts'[queue[i]] = attempts[queue[i]]
          BY <1>3, <2>4 DEF Items
    <3>2. QED
          BY <3>1, <1>1 DEF IQueue, Orderly
  <2>6. NotifierTypeOK'
        BY <2>1, <1>1, <1>3 DEF IQueue, NotifierTypeOK
  <2>7. \A m \in UnderWay : m <= sends' /\ attempts'[m] < MaxRetries /\ m \notin posted'
        BY <2>2, <1>1, <1>3, UnderWayMessages DEF IQueue
  <2>8. \A m \in Messages : m > sends => m # inHand
        BY <1>1, NotifierConstants, UnderWayMessages
  <2>9. \A m \in Messages : m > sends' =>
          future'[m] = "none" /\ attempts'[m] = 0 /\ m \notin posted'
        BY <2>1, <2>8, <1>1, <1>3 DEF IQueue
  <2>10. QED
         BY <2>1, <2>2, <2>3, <2>5, <2>6, <2>7, <2>9, <1>1 DEF IQueue, Items
<1>6. QED
  BY <1>4, <1>5

\* After the cooldown the message goes to the end, or makes the head go.
LEMMA RequeueStep ==
  ASSUME IQueue, Requeue
  PROVE  IQueue'
<1>1. /\ inHand \in Messages /\ inHand \notin Items(queue) /\ inHand # Nothing
      /\ attempts[inHand] # 0 /\ Orderly(queue, attempts) /\ future \in [Messages -> Futures]
      /\ UNCHANGED <<sends, attempts, closed, posted, forwarded>>
      /\ PutOrDrop(future, inHand, "failed") /\ worker' = "get" /\ inHand' = Nothing
      BY UnderWayMessages, NotifierConstants DEF IQueue, Requeue, Requeued, NotifierTypeOK
<1>2. MayFollowIn(queue, attempts, inHand) /\ "failed" \in Futures \ {"none", "pending"}
      BY <1>1 DEF MayFollowIn, Futures, Resolved
<1>3. /\ Orderly(queue', attempts) /\ Items(queue') \subseteq Items(queue) \cup {inHand}
      /\ future' \in [Messages -> Futures]
      /\ \A k \in Messages : future[k] = "none" => future'[k] = "none"
      /\ \A k \in Messages : future'[k] = "pending" =>
           future[k] = "pending" /\ (k \in Items(queue) \cup {inHand} => k \in Items(queue'))
      BY <1>1, <1>2, PutOrDropStep
<1>4. UnderWay' = Items(queue') /\ UnderWay = Items(queue) \cup {inHand}
      BY <1>1 DEF UnderWay, Items
<1>5. NotifierTypeOK'
      BY <1>1, <1>3, NotifierConstants DEF IQueue, NotifierTypeOK, Orderly, Nothing
<1>6. \A m \in UnderWay' : m <= sends' /\ attempts'[m] < MaxRetries /\ m \notin posted'
      BY <1>1, <1>3, <1>4 DEF IQueue
<1>7. \A m \in Messages : future'[m] = "pending" => m \in UnderWay'
      BY <1>3, <1>4 DEF IQueue
<1>8. QED
  BY <1>1, <1>3, <1>5, <1>6, <1>7 DEF IQueue

\* Shutdown fails whatever is under way.
LEMMA CloseStep ==
  ASSUME IQueue, Close
  PROVE  IQueue'
<1>1. /\ queue' = <<>> /\ inHand' = Nothing /\ worker' = "none" /\ closed' = TRUE
      /\ UNCHANGED <<sends, attempts, posted, forwarded>>
      /\ future' = [m \in Messages |->
           IF m \in UnderWay /\ future[m] = "pending" THEN "failed" ELSE future[m]]
      BY DEF Close, Abandoned, UnderWay, Items
<1>2. Items(queue') = {} /\ Orderly(queue', attempts') /\ UnderWay' = {}
      BY <1>1, EmptyOrderly DEF UnderWay
<1>3. future' \in [Messages -> Futures]
      BY <1>1 DEF IQueue, NotifierTypeOK, Futures, Resolved
<1>4. \A m \in Messages : future'[m] # "pending" /\ (future[m] = "none" => future'[m] = "none")
      BY <1>1 DEF IQueue
<1>5. NotifierTypeOK'
      BY <1>1, <1>2, <1>3, NotifierConstants DEF IQueue, NotifierTypeOK, Orderly, Nothing
<1>6. QED
  BY <1>1, <1>2, <1>4, <1>5 DEF IQueue

\* A caller that is cancelled leaves its message where it is.
LEMMA CancelStep ==
  ASSUME IQueue, NEW m \in Messages, CallerCancelled(m)
  PROVE  IQueue'
<1>1. /\ future[m] = "pending" /\ future' = [future EXCEPT ![m] = "cancelled"]
      /\ UNCHANGED <<sends, queue, worker, inHand, attempts, closed, posted, forwarded>>
      BY DEF CallerCancelled
<1>2. UnderWay' = UnderWay
      BY <1>1 DEF UnderWay, Items
<1>3. /\ future' \in [Messages -> Futures]
      /\ \A k \in Messages : future'[k] = "pending" => future[k] = "pending"
      /\ \A k \in Messages : future[k] = "none" => future'[k] = "none"
      BY <1>1 DEF IQueue, NotifierTypeOK, Futures
<1>4. NotifierTypeOK'
      BY <1>1, <1>3 DEF IQueue, NotifierTypeOK
<1>5. QED
  BY <1>1, <1>2, <1>3, <1>4 DEF IQueue, Orderly, Items

\* The queue's invariant is inductive.
LEMMA QueueInductive == IQueue /\ [NotifierNext]_notifierVars => IQueue'
<1> SUFFICES ASSUME IQueue, [NotifierNext]_notifierVars PROVE IQueue'
    OBVIOUS
<1>1. CASE Send
      BY <1>1, SendStep
<1>2. CASE Take
      BY <1>2, TakeStep
<1>3. CASE Accepted
      BY <1>3, FinishStep DEF Accepted, Resolved, IQueue, NotifierTypeOK
<1>4. CASE Refused
      BY <1>4, FinishStep DEF Refused, Resolved, IQueue, NotifierTypeOK
<1>5. CASE Limited
      BY <1>5, LimitedStep
<1>6. CASE Requeue
      BY <1>6, RequeueStep
<1>7. CASE Close
      BY <1>7, CloseStep
<1>8. ASSUME NEW m \in Messages, CallerCancelled(m) PROVE IQueue'
      BY <1>8, CancelStep
<1>9. ASSUME NEW m \in Messages, Forward(m) PROVE IQueue'
  <2>1. /\ forwarded' \subseteq Messages
        /\ UNCHANGED <<sends, queue, worker, inHand, attempts, future, closed, posted>>
        BY <1>9 DEF Forward, IQueue, NotifierTypeOK
  <2>2. QED
        BY <2>1 DEF IQueue, NotifierTypeOK, Orderly, Items, UnderWay
<1>10. CASE UNCHANGED notifierVars
       BY <1>10 DEF notifierVars, IQueue, NotifierTypeOK, Orderly, Items, UnderWay
<1>11. QED
  BY <1>1, <1>2, <1>3, <1>4, <1>5, <1>6, <1>7, <1>8, <1>9, <1>10 DEF NotifierNext, Worker

\* Before the first message nothing is under way.
LEMMA QueueBegins == NotifierInit => IQueue
<1> SUFFICES ASSUME NotifierInit PROVE IQueue
    OBVIOUS
<1>1. Orderly(queue, attempts) /\ Items(queue) = {} /\ UnderWay = {}
      BY EmptyOrderly DEF NotifierInit, UnderWay
<1>2. NotifierTypeOK
  <2>1. /\ attempts \in [Messages -> 0..MaxRetries] /\ future \in [Messages -> Futures]
        /\ sends \in 0..MaxMessages /\ inHand \in 0..MaxMessages
        BY NotifierConstants DEF NotifierInit, Futures, Nothing
  <2>2. QED
        BY <2>1, <1>1 DEF NotifierInit, NotifierTypeOK, Orderly
<1>3. QED
  BY <1>1, <1>2, NotifierConstants DEF IQueue, NotifierInit

\* The inductive invariant says what QueueInv does of places in the queue.
LEMMA QueueTrusted == IQueue => QueueInv
<1> SUFFICES ASSUME IQueue PROVE QueueInv
    OBVIOUS
<1>1. \A m \in Messages : InQueue(m) # {} <=> m \in Items(queue)
      BY DEF InQueue, Items
<1>2. WaitedForIsUnderWay
  <2> SUFFICES ASSUME NEW m \in Messages
               PROVE  /\ \A i, j \in InQueue(m) : i = j
                      /\ InQueue(m) # {} => m # inHand
                      /\ future[m] = "pending" => InQueue(m) # {} \/ m = inHand
      BY DEF WaitedForIsUnderWay
  <2>1. \A i, j \in InQueue(m) : i = j
        BY DEF InQueue, IQueue, Orderly
  <2>2. InQueue(m) # {} => m # inHand
        BY <1>1, NotifierConstants DEF IQueue
  <2>3. future[m] = "pending" => InQueue(m) # {} \/ m = inHand
        BY <1>1 DEF IQueue, UnderWay
  <2>4. QED
        BY <2>1, <2>2, <2>3
<1>3. InOrderUnlessLimited
  <2> DEFINE fresh(m) == m # Nothing /\ attempts[m] = 0
             line == <<inHand>> \o queue
  <2>1. PICK n \in Nat : n = Len(queue) /\ DOMAIN queue = 1..n
        BY UnderWayMessages
  <2>2. /\ DOMAIN line = 1..(n + 1) /\ line[1] = inHand
        /\ \A i \in 2..(n + 1) : line[i] = queue[i - 1] /\ i - 1 \in DOMAIN queue
    <3>1. PICK S : S = Nat
          OBVIOUS
    <3>2. queue \in Seq(S) /\ <<inHand>> \in Seq(S)
          BY <3>1, UnderWayMessages, NotifierConstants DEF IQueue, NotifierTypeOK
    <3>3. Len(<<inHand>>) = 1 /\ <<inHand>>[1] = inHand
          OBVIOUS
    <3>4. /\ line \in Seq(S) /\ Len(line) = n + 1
          /\ \A i \in 1..(n + 1) : line[i] = IF i <= 1 THEN <<inHand>>[i] ELSE queue[i - 1]
          BY <3>2, <3>3, <2>1, ConcatProperties
    <3> HIDE DEF line
    <3>5. QED
          BY <3>3, <3>4, <2>1
  <2> HIDE DEF line
  <2>3. SUFFICES ASSUME NEW i \in 1..(n + 1), NEW j \in 1..(n + 1), i < j,
                        fresh(line[i]), fresh(line[j])
                 PROVE  line[i] < line[j]
        BY <2>2 DEF InOrderUnlessLimited, line
  <2>4. j \in 2..(n + 1) /\ line[j] = queue[j - 1] /\ j - 1 \in DOMAIN queue
        BY <2>2, <2>3
  <2>5. CASE i = 1
        BY <2>2, <2>3, <2>4, <2>5 DEF IQueue, Items
  <2>6. CASE i # 1
    <3>1. i \in 2..(n + 1) /\ i - 1 < j - 1
          BY <2>3, <2>6
    <3>2. QED
          BY <3>1, <2>2, <2>3, <2>4 DEF IQueue, Orderly
  <2>7. QED
        BY <2>5, <2>6
<1>4. QED
  BY <1>2, <1>3 DEF QueueInv, IQueue

\* The queue is bounded and in order and a waiting caller's message is in one
\* place, whatever is dropped, queued again, cancelled or shut down.
THEOREM QueueHolds == NotifierSpec => []QueueInv
BY QueueBegins, QueueInductive, QueueTrusted, PTL DEF NotifierSpec

\* A message the chat has accepted does not come into the worker's hands again.
THEOREM NeverPostedAgain == NotifierSpec => PostedOnce
<1>1. IQueue /\ [NotifierNext]_notifierVars => (inHand' # inHand => inHand' \notin posted)
  <2> SUFFICES ASSUME IQueue, [NotifierNext]_notifierVars, inHand' # inHand
               PROVE  inHand' \notin posted
      OBVIOUS
  <2>1. CASE Take
        BY <2>1, TakeStep
  <2>2. CASE inHand' = Nothing
        BY <2>2, NotifierConstants DEF IQueue, NotifierTypeOK
  <2>3. CASE UNCHANGED inHand
        BY <2>3
  <2>4. QED
        BY <2>1, <2>2, <2>3 DEF NotifierNext, Worker, Send, Accepted, Refused, Limited, Requeue,
           Requeued, Finish, Close, CallerCancelled, Forward, notifierVars
<1>2. QED
  BY <1>1, QueueBegins, QueueInductive, PTL DEF NotifierSpec, PostedOnce
=============================================================================
