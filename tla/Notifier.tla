------------------------------ MODULE Notifier ------------------------------
(***************************************************************************)
(* TelegramNotifier and the handlers of the notification service.  A       *)
(* handler queues a message, waits until the message's future is resolved  *)
(* and then forwards the event to the agent mesh.  One worker posts the    *)
(* messages; a message the chat's rate limit turned away (429) is queued   *)
(* again, at the end; a full queue drops its oldest message.               *)
(*                                                                         *)
(* Messages are numbered in the order in which send() is called.  Every    *)
(* stretch between two awaits is one step: nothing else runs in it.        *)
(***************************************************************************)
EXTENDS Naturals, Sequences

CONSTANTS
  MaxMessages,   \* bound on the calls of send()
  QueueSize,     \* queue_size
  MaxRetries,    \* max_retries
  Cancels        \* whether the scheduler's shutdown cancels waiting callers

ASSUME NotifierAssumption ==
  /\ MaxMessages \in Nat
  /\ QueueSize \in Nat \ {0} /\ MaxRetries \in Nat \ {0}
  /\ Cancels \in BOOLEAN

VARIABLES
  sends,      \* calls of send() so far
  queue,      \* _queue
  worker,     \* where _worker is
  inHand,     \* the item it has taken from the queue
  attempts,   \* Notification.attempts
  future,     \* Notification.future
  closed,     \* _closed
  posted,     \* messages the chat has accepted (history)
  forwarded   \* events passed on to the agent mesh

notifierVars == <<sends, queue, worker, inHand, attempts, future, closed, posted, forwarded>>

Messages == 1..MaxMessages
Nothing == 0
Resolved == {"delivered", "failed"}
Futures == {"none", "pending", "cancelled", "raised"} \cup Resolved

NotifierInit ==
  /\ sends = 0 /\ queue = <<>>
  /\ worker = "none" /\ inHand = Nothing
  /\ attempts = [m \in Messages |-> 0]
  /\ future = [m \in Messages |-> "none"]
  /\ closed = FALSE
  /\ posted = {} /\ forwarded = {}

\* set_result on a future its caller has cancelled raises and changes nothing
SetResult(f, m, result) == [f EXCEPT ![m] = IF @ = "pending" THEN result ELSE @]

Full == Len(queue) = QueueSize

\* mutated: the queue is a stack
PutFirst(q, m) == <<m>> \o q

Put(q, m) == Append(q, m)

\* _enqueue.  f: the futures at the call.  On a full queue the oldest item
\* makes room; when its caller was cancelled, failing its future raises after
\* it was removed and before the new item is put.
PutOrDrop(f, m, unput) ==
  IF ~Full
  THEN queue' = Put(queue, m) /\ future' = f
  ELSE IF f[Head(queue)] = "cancelled"
       THEN queue' = Tail(queue) /\ future' = SetResult(f, m, unput)
       ELSE /\ queue' = Put(Tail(queue), m)
            /\ future' = SetResult(f, Head(queue), "failed")

\* send(): starts the worker when there is none.
Send ==
  /\ sends < MaxMessages /\ sends' = sends + 1
  /\ IF closed
     THEN /\ future' = [future EXCEPT ![sends'] = "failed"]
          /\ UNCHANGED <<queue, worker>>
     ELSE /\ PutOrDrop([future EXCEPT ![sends'] = "pending"], sends', "raised")
          /\ worker' = IF worker = "none" THEN "get" ELSE worker
  /\ UNCHANGED <<inHand, attempts, closed, posted, forwarded>>

(***************************************************************************)
(* _worker                                                                 *)
(***************************************************************************)
Take ==
  /\ worker = "get" /\ queue # <<>>
  /\ worker' = "post" /\ inHand' = Head(queue) /\ queue' = Tail(queue)
  /\ UNCHANGED <<sends, attempts, future, closed, posted, forwarded>>

Finish(result) ==
  /\ worker' = "get" /\ inHand' = Nothing
  /\ future' = SetResult(future, inHand, result)

\* 200
Accepted ==
  /\ worker = "post" /\ Finish("delivered")
  /\ posted' = posted \cup {inHand}
  /\ UNCHANGED <<sends, queue, attempts, closed, forwarded>>

\* Another status, or no answer within the timeout: the message may or may
\* not have reached the chat.
Refused ==
  /\ worker = "post" /\ Finish("failed")
  /\ posted' \in {posted, posted \cup {inHand}}
  /\ UNCHANGED <<sends, queue, attempts, closed, forwarded>>

GivesUp == attempts'[inHand] >= MaxRetries

\* 429
Limited ==
  /\ worker = "post"
  /\ attempts' = [attempts EXCEPT ![inHand] = @ + 1]
  /\ IF GivesUp THEN Finish("failed")
                ELSE worker' = "cool" /\ UNCHANGED <<inHand, future>>
  /\ UNCHANGED <<sends, queue, closed, posted, forwarded>>

\* mutated: the item goes to the front of the queue and stays with the worker
RequeueKeeps ==
  /\ PutOrDrop(future, inHand, "failed")
  /\ worker' = "post" /\ UNCHANGED inHand

\* After the cooldown, behind what has been queued meanwhile.
Requeued ==
  /\ PutOrDrop(future, inHand, "failed")
  /\ worker' = "get" /\ inHand' = Nothing

Requeue ==
  /\ worker = "cool" /\ Requeued
  /\ UNCHANGED <<sends, attempts, closed, posted, forwarded>>

(***************************************************************************)
(* Callers and shutdown.                                                   *)
(***************************************************************************)
\* mutated: the item in the worker's hands is forgotten
AbandonedQueueOnly == {queue[i] : i \in DOMAIN queue}

Abandoned == {queue[i] : i \in DOMAIN queue} \cup ({inHand} \ {Nothing})

\* close(): the worker is cancelled, what it holds and what is queued fails.
\* While close() awaits the worker, send() already sees _closed.
Close ==
  /\ ~closed /\ closed' = TRUE
  /\ worker' = "none" /\ inHand' = Nothing /\ queue' = <<>>
  /\ future' = [m \in Messages |->
                  IF m \in Abandoned /\ future[m] = "pending" THEN "failed" ELSE future[m]]
  /\ UNCHANGED <<sends, attempts, posted, forwarded>>

\* The scheduler's shutdown cancels the jobs under way, and with them the
\* send() that one of them may be awaiting.
CallerCancelled(m) ==
  /\ Cancels /\ future[m] = "pending"
  /\ future' = [future EXCEPT ![m] = "cancelled"]
  /\ UNCHANGED <<sends, queue, worker, inHand, attempts, closed, posted, forwarded>>

\* The handler goes on: whatever Telegram said, the event goes to the mesh.
Forward(m) ==
  /\ future[m] \in Resolved /\ m \notin forwarded
  /\ forwarded' = forwarded \cup {m}
  /\ UNCHANGED <<sends, queue, worker, inHand, attempts, future, closed, posted>>

Worker == Take \/ Accepted \/ Refused \/ Limited \/ Requeue

NotifierNext ==
  \/ Send \/ Worker \/ Close
  \/ \E m \in Messages : CallerCancelled(m) \/ Forward(m)

NotifierSpec == NotifierInit /\ [][NotifierNext]_notifierVars

\* Every post ends within the client's timeout, every cooldown is finite, and
\* the loop runs whoever is ready.
NotifierFairSpec == NotifierSpec /\ WF_notifierVars(Worker) /\ \A m \in Messages : WF_notifierVars(Forward(m))

-----------------------------------------------------------------------------
InQueue(m) == {i \in DOMAIN queue : queue[i] = m}

NotifierTypeOK ==
  /\ sends \in 0..MaxMessages
  /\ queue \in Seq(Messages) /\ Len(queue) <= QueueSize
  /\ worker \in {"none", "get", "post", "cool"} /\ inHand \in 0..MaxMessages
  /\ attempts \in [Messages -> 0..MaxRetries]
  /\ future \in [Messages -> Futures]
  /\ closed \in BOOLEAN
  /\ posted \subseteq Messages /\ forwarded \subseteq Messages

\* A message somebody waits for is in exactly one place: once in the queue,
\* or with the worker.  No retry, drop or shutdown duplicates it or loses it.
WaitedForIsUnderWay ==
  \A m \in Messages :
    /\ \A i, j \in InQueue(m) : i = j
    /\ InQueue(m) # {} => m # inHand
    /\ future[m] = "pending" => InQueue(m) # {} \/ m = inHand

\* No message is posted again once the chat has accepted it.
PostedOnce == [][inHand' # inHand => inHand' \notin posted]_notifierVars

\* Messages the rate limit has not turned away are posted in the order in
\* which they were sent, whatever is queued again or dropped around them.
InOrderUnlessLimited ==
  LET fresh(m) == m # Nothing /\ attempts[m] = 0
      line == <<inHand>> \o queue
  IN \A i, j \in DOMAIN line : i < j /\ fresh(line[i]) /\ fresh(line[j]) => line[i] < line[j]

\* The queue keeps its bound and its order, and every waiting caller its message.
QueueInv == NotifierTypeOK /\ WaitedForIsUnderWay /\ InOrderUnlessLimited

\* The mesh hears of every event, whatever became of the message about it,
\* unless the handler was cancelled or its send() raised.
MeshHears ==
  \A m \in Messages :
    (future[m] = "pending") ~> (m \in forwarded \/ future[m] \in {"cancelled", "raised"})

=============================================================================
