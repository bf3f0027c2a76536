----------------------------- MODULE AgentMesh -----------------------------
(***************************************************************************)
(* MercuryAgentClient: the connection to the Eden core.  One daemon thread *)
(* connects, registers in two phases, executes commands inline, drains the *)
(* outbox of events, sends heartbeats, and connects again after any error. *)
(* Events are queued by the event loop (the notification service) and by   *)
(* command handlers on the thread itself.                                  *)
(*                                                                         *)
(* The threads share the flag _running, the outbox and the socket; each    *)
(* operation on one of them is a step.                                     *)
(***************************************************************************)
EXTENDS Naturals, Sequences, FiniteSets, SequencesExt

CONSTANTS
  MaxEvents,     \* bound on the events
  OutboxMax,     \* _EVENT_OUTBOX_MAX
  MaxCommands,   \* bound on the commands the core sends
  MaxDrops,      \* bound on broken connections
  LastExponent   \* the largest exponent for which the backoff factor's power is
                 \* a float: 1023 for the default 2.0

ASSUME AgentMeshAssumption ==
  /\ MaxEvents \in Nat /\ OutboxMax \in Nat \ {0}
  /\ MaxCommands \in Nat /\ MaxDrops \in Nat /\ LastExponent \in Nat

VARIABLES
  running,   \* _running
  thread,    \* where _thread_main is
  session,   \* _session_id is set: the property "connected"
  fails,     \* _reconnects: failures since the last registration
  drops,     \* broken connections so far
  outbox,    \* _outbox
  held,      \* events taken from it and not sent yet
  place,     \* where each producer is in enqueue_event
  carried,   \* the event it brings
  events,    \* events so far; they are numbered
  commands,  \* commands so far
  sent,      \* events sent (history)
  lost       \* events a broken connection took (history)

link == <<running, thread, session, fails, drops>>
channel == <<outbox, held, sent, lost>>
producers == <<place, carried, events>>
vars == <<link, channel, producers, commands>>

Events == 1..MaxEvents
NoEvent == 0
Producers == {"loop", "handler"}
InSession == {"poll", "run", "reply", "drain", "send", "beat"}
Threads ==
  {"none", "idle", "open", "gate", "declare", "closing", "left", "wait"} \cup InSession

Init ==
  /\ running = TRUE /\ thread = "idle" /\ session = FALSE /\ fails = 0 /\ drops = 0
  /\ outbox = <<>> /\ held = <<>> /\ sent = <<>> /\ lost = {}
  /\ place = [p \in Producers |-> "idle"]
  /\ carried = [p \in Producers |-> NoEvent]
  /\ events = 0 /\ commands = 0

(***************************************************************************)
(* enqueue_event, three operations on the queue at most.                   *)
(***************************************************************************)
Bring(p, where, e) ==
  place' = [place EXCEPT ![p] = where] /\ carried' = [carried EXCEPT ![p] = e]

HasRoom == Len(outbox) < OutboxMax

\* The handler's producer is the client's thread, busy with a command.
MayCall(p) == p = "handler" => thread = "run"

Enqueue(p) ==
  /\ running /\ MayCall(p) /\ place[p] = "idle"
  /\ events < MaxEvents /\ events' = events + 1
  /\ IF HasRoom THEN outbox' = Append(outbox, events') /\ UNCHANGED <<place, carried>>
                ELSE Bring(p, "full", events') /\ UNCHANGED outbox
  /\ UNCHANGED <<link, held, sent, lost, commands>>

\* Drop the oldest, unless the thread has drained the outbox meanwhile.
MakeRoom(p) ==
  /\ place[p] = "full" /\ Bring(p, "again", carried[p])
  /\ outbox' = IF outbox = <<>> THEN outbox ELSE Tail(outbox)
  /\ UNCHANGED <<link, held, sent, lost, events, commands>>

\* The other producer may have taken the room: then the answer is False.
PutAgain(p) ==
  /\ place[p] = "again" /\ Bring(p, "idle", NoEvent)
  /\ outbox' = IF HasRoom THEN Append(outbox, carried[p]) ELSE outbox
  /\ UNCHANGED <<link, held, sent, lost, events, commands>>

(***************************************************************************)
(* _thread_main and _connect_and_run.                                      *)
(***************************************************************************)
At(where) == thread = where
GoTo(where) == thread' = where /\ UNCHANGED <<running, session, fails, drops>>
Calm == UNCHANGED <<channel, producers, commands>>

\* Anything in _connect_and_run raises: peer gone, timeout, rejected or
\* unexpected message.  After stop() the socket is closed under the thread.
\* _open_socket is called before the try, so that its failure closes nothing.
Breaks ==
  /\ thread \in {"open", "gate", "declare", "poll", "reply", "send", "beat"}
  /\ IF running THEN drops < MaxDrops /\ drops' = drops + 1 ELSE UNCHANGED drops
  /\ thread' = IF At("open") THEN "left" ELSE "closing"
  /\ lost' = lost \cup ToSet(held) /\ held' = <<>>
  /\ UNCHANGED <<running, session, fails, outbox, sent, producers, commands>>

\* mutated: the loops go on after stop()
GoesOnAlways == TRUE

\* The conditions of the three loops.
GoesOn == running

\* The session's loop ends in the finally clause as well.
Leave == At("poll") /\ ~running /\ GoTo("closing") /\ Calm

\* _reset_session
Reset == FALSE

\* The finally clause closes the socket, which takes its time, and only then
\* resets the session.
Closed ==
  /\ At("closing") /\ thread' = "left" /\ session' = Reset
  /\ UNCHANGED <<running, fails, drops>> /\ Calm

\* The except branch of _thread_main, after n failures in a row.  The backoff
\* is a power of a float, and one too large raises OverflowError, where
\* nothing catches it: the thread is over while _running is still set.
AfterError(n) == IF n > LastExponent + 1 THEN "none" ELSE "wait"

Failed ==
  /\ At("left") /\ running
  /\ fails' = fails + 1 /\ thread' = AfterError(fails')
  /\ UNCHANGED <<running, session, drops>> /\ Calm

\* After stop() the loop is over, or left by the break.
Ends ==
  /\ ~running /\ thread \in {"idle", "wait", "left"}
  /\ thread' = "none" /\ session' = Reset
  /\ UNCHANGED <<running, fails, drops>> /\ Calm

Retry == At("wait") /\ GoesOn /\ GoTo("idle") /\ Calm
Open == At("idle") /\ GoesOn /\ GoTo("open") /\ Calm

\* stop() may have come while the socket was being opened; it closes only a
\* socket that is already in _sock, so the handshake may still go through.
Connect == At("open") /\ GoTo("gate") /\ Calm

\* Phase 1: register, perhaps a challenge, registered.
DeviceRegistered == At("gate") /\ GoTo("declare") /\ Calm

\* Phase 2: agent.register, perhaps a challenge, agent.registered.  The core
\* may name no session: then the client does not call itself connected.
Registered ==
  /\ At("declare") /\ thread' = "poll" /\ session' \in BOOLEAN /\ fails' = 0
  /\ UNCHANGED <<running, drops>> /\ Calm

\* recv: nothing within the poll interval, a pong, an error or rubbish ...
Polled == At("poll") /\ GoesOn /\ GoTo("drain") /\ Calm

\* ... or a command.
Command ==
  /\ At("poll") /\ GoesOn /\ commands < MaxCommands
  /\ commands' = commands + 1 /\ GoTo("run")
  /\ UNCHANGED <<channel, producers>>

\* The handler returns or raises; both make a result.
Handled == At("run") /\ place["handler"] = "idle" /\ GoTo("reply") /\ Calm

Reply == At("reply") /\ GoTo("drain") /\ Calm

\* mutated: the event stays in the outbox until it was sent
PoppedPeeks == held' = <<Head(outbox)>> /\ UNCHANGED outbox

\* mutated: the outbox is emptied before the first event is sent
PoppedAll == held' = outbox /\ outbox' = <<>>

Popped == held' = <<Head(outbox)>> /\ outbox' = Tail(outbox)

\* _drain_outbox: take the oldest event, send it, until there is none.
Pop ==
  /\ At("drain") /\ outbox # <<>>
  /\ Popped /\ GoTo("send")
  /\ UNCHANGED <<sent, lost, producers, commands>>

SendEvent ==
  /\ At("send")
  /\ sent' = Append(sent, Head(held)) /\ held' = Tail(held)
  /\ IF Len(held) = 1 THEN GoTo("drain") ELSE UNCHANGED link
  /\ UNCHANGED <<outbox, lost, producers, commands>>

\* mutated: an outbox that holds one event is taken for empty
DrainedEarly == Len(outbox) <= 1

Drained == outbox = <<>>

DrainEnds == At("drain") /\ Drained /\ GoTo("beat") /\ Calm

\* A heartbeat, when one is due.
Beat == At("beat") /\ GoTo("poll") /\ Calm

Thread ==
  \/ Closed \/ Failed \/ Leave \/ Ends \/ Retry \/ Open \/ Connect \/ DeviceRegistered \/ Registered
  \/ Polled \/ Command \/ Handled \/ Reply \/ Pop \/ SendEvent \/ DrainEnds \/ Beat

\* stop()
Stop ==
  /\ running /\ running' = FALSE
  /\ UNCHANGED <<thread, session, fails, drops>> /\ Calm

Next ==
  \/ Thread \/ Breaks \/ Stop
  \/ \E p \in Producers : Enqueue(p) \/ MakeRoom(p) \/ PutAgain(p)

Spec == Init /\ [][Next]_vars

\* The threads run; recv, connect, handshake and close have timeouts.  Of the
\* peer it is assumed that it breaks the connection MaxDrops times at most.
FairSpec ==
  /\ Spec /\ WF_vars(Thread \/ Breaks)
  /\ \A p \in Producers : WF_vars(MakeRoom(p) \/ PutAgain(p))

-----------------------------------------------------------------------------
TypeOK ==
  /\ running \in BOOLEAN /\ thread \in Threads /\ session \in BOOLEAN
  /\ fails \in 0..(LastExponent + 2) /\ drops \in 0..MaxDrops
  /\ outbox \in Seq(Events) /\ Len(outbox) <= OutboxMax
  /\ held \in Seq(Events) /\ sent \in Seq(Events) /\ lost \subseteq Events
  /\ place \in [Producers -> {"idle", "full", "again"}]
  /\ carried \in [Producers -> 0..MaxEvents]
  /\ events \in 0..MaxEvents /\ commands \in 0..MaxCommands

\* The outbox, with the event just taken from it, is a channel that sends
\* each event at most once and in the order of acceptance, across reconnects,
\* two producers and dropped events.
Channel == INSTANCE EventChannel WITH waiting <- held \o outbox
ChannelSpec == Channel!Spec

\* "Survives reconnects so nothing is lost across a brief drop" is not quite
\* true: a broken connection takes an event with it, but one at most.
OneLostPerDrop == Cardinality(lost) <= drops + (IF running THEN 0 ELSE 1)

\* "connected" is answered from registration until the socket of that
\* connection is closed at most: no later connection, wait or dead thread
\* shows the session of an earlier one.
SessionIsLive == session => thread \in InSession \cup {"closing"}

\* A client that was not stopped has lost its thread only if so many
\* connections failed without a registration in between that the backoff's
\* power left the floats, and then on the very first such failure.
OnlyBackoffKills == running /\ thread = "none" => fails = LastExponent + 2

\* The outbox keeps its bound, the session its connection, the events theirs,
\* and the client its thread.
MeshInv == TypeOK /\ SessionIsLive /\ OneLostPerDrop /\ OnlyBackoffKills

\* While the session lasts, what is in the outbox goes out or is dropped.
OutboxDrains ==
  \A e \in Events :
    (thread \in InSession /\ e \in ToSet(outbox))
      ~> (e \notin ToSet(outbox) \/ thread \notin InSession)

\* The client registers again after every lost connection, until it is stopped
\* or the backoff's power leaves the floats.
Reconnects == running ~> (thread \in InSession \/ ~running \/ fails > LastExponent + 1)

\* What is to be told to the hub gets another connection and goes out on it.
KeepsTelling == OutboxDrains /\ Reconnects

\* stop() ends the thread, wherever it is, and with it the session.
StopEnds == ~running ~> (thread = "none" /\ ~session)

=============================================================================
