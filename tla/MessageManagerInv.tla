------------------------- MODULE MessageManagerInv --------------------------
(* The parts of the inductive invariant of MessageManager.                 *)
EXTENDS MessageManager

(* Control and locks *)

\* The control points a client and a handler can be at.
PcShape ==
  /\ pc \in [Threads -> ClientPC \cup HandlerPC]
  /\ \A c \in Clients : pc[c] \in ClientPC
  /\ \A h \in Handlers : pc[h] \in HandlerPC

\* The control points inside a call, at which arg holds the call's
\* message_id.
InCall == {"lookup", "enqueue", "enqueue_doze", "announce", "wait_lookup", "drain",
           "drain_doze", "dispose", "dispose_base", "dispose_stop",
           "dispose_notify", "dispose_join"}

\* The control points before the enqueue of send_message, at which limit
\* holds max_queued_messages.
Sending == {"lookup", "enqueue", "enqueue_doze"}

\* The control points of ~message_handler, at which victim holds the object.
Destroying == {"dispose_base", "dispose_stop", "dispose_notify", "dispose_join"}

\* Calls know their arguments: the identifier, the limit, the object under
\* destruction, and the handlers registered under each identifier.
CallInv ==
  /\ \A t \in Threads : pc[t] \in InCall => arg[t] \in Ids
  /\ \A t \in Threads : pc[t] \in Sending => limit[t] \in Limits
  /\ \A c \in Clients : pc[c] \in Destroying => victim[c] \in HandlersOf(arg[c])
  /\ \A id \in Ids : threads[id] \subseteq HandlersOf(id)

\* dispose runs under manager_mutex; a handler of threads whose destruction
\* has begun is the victim of the thread that holds it, so no object is
\* destroyed twice.
DisposeInv ==
  /\ \A c \in Clients : pc[c] \in Destroying \cup {"dispose"} => manager_mutex = c
  /\ \A c \in Clients : pc[c] \in Destroying => pc[victim[c]] # "unborn"
  /\ \A h \in Handlers : pc[h] = "unborn" => object[h] = "alive"
  /\ \A id \in Ids : \A h \in threads[id] :
        /\ pc[h] # "unborn"
        /\ object[h] # "alive" => /\ manager_mutex \in Clients
                                  /\ pc[manager_mutex] \in Destroying
                                  /\ victim[manager_mutex] = h

\* The queue's mutex is held across every test-then-sleep and test-then-pop.
MutexInv ==
  /\ \A h \in Handlers :
        pc[h] \in {"get", "doze"} => queue_mutex[HandlerId[h]] = h
  /\ \A t \in Threads :
        pc[t] \in {"enqueue_doze", "drain_doze"} => queue_mutex[arg[t]] = t

\* A worker that is about to sleep still has no reason not to.
DozeInv ==
  \A h \in Handlers : pc[h] = "doze" => running[h] /\ ~is_message_available(h)

\* What the queue's mutex protects.
LockInv == MutexInv /\ DozeInv

-----------------------------------------------------------------------------
(* Messages and their places *)

\* s is strictly increasing and within 1 .. b.
Sorted(s, b) ==
  /\ \A i \in 1 .. Len(s) : s[i] \in 1 .. b
  /\ \A i, j \in 1 .. Len(s) : i < j => s[i] < s[j]

\* m is an element of the sequence s.
Has(s, m) == \E i \in 1 .. Len(s) : s[i] = m

\* Queues hold accepted messages, oldest first.
QueueInv == \A id \in Ids : Sorted(queue[id], accepted[id])

\* m waits in the queue of id.
InQueue(id, m) == Has(queue[id], m)

\* The control points between get_message and the end of on_message.
Holding == {"popped", "callback", "lookup", "enqueue", "enqueue_doze",
            "announce", "uncount"}

\* message[h] is set exactly while h has a message, and the message a worker
\* found under the mutex is still there when it pops it.
HoldOk(h) ==
     /\ pc[h] \notin Holding => message[h] = 0
     /\ pc[h] \in Holding \ {"popped"} => message[h] # 0
     /\ pc[h] = "popped" /\ running[h] /\ Derived(h) => message[h] # 0
     /\ pc[h] = "get" /\ running[h] /\ Derived(h) => queue[HandlerId[h]] # <<>>

\* HoldOk of every handler.
HoldInv == \A h \in Handlers : HoldOk(h)

\* The elementwise form of EveryMessageInOnePlace, strengthened with the
\* control point that tells an active message from a handled one.
Placed(id) ==
     /\ \A m \in 1 .. accepted[id] :
           \/ InQueue(id, m) \/ m \in handled[id] \/ m \in dropped[id]
           \/ \E h \in HandlersOf(id) : message[h] = m
     /\ \A m \in handled[id] \cup dropped[id] :
           m \in 1 .. accepted[id] /\ ~InQueue(id, m)
     /\ \A m \in handled[id] : m \notin dropped[id]
     /\ \A h \in HandlersOf(id) : message[h] # 0 =>
           /\ message[h] \in 1 .. accepted[id]
           /\ ~InQueue(id, message[h])
           /\ message[h] \notin dropped[id]
           /\ message[h] \in handled[id] <=> pc[h] = "uncount"
     /\ \A g, h \in HandlersOf(id) :
           message[g] # 0 /\ message[g] = message[h] => g = h

\* Placed, of every identifier.
PlaceInv == \A id \in Ids : Placed(id)

\* If all handlers of an identifier are FIFO, its queue is the newest part of
\* what was accepted.
FifoInv ==
  \A id \in Ids : (\A h \in HandlersOf(id) : Order[h] = "FIFO") =>
     \A m, n \in 1 .. accepted[id] :
        ~Has(queue[id], m) /\ Has(queue[id], n) => m < n

-----------------------------------------------------------------------------
(* Counting *)

\* A wait_until_empty that is about to sleep although the queue is drained
\* will be notified by the worker that drained it.
DrainDozeInv ==
  \A c \in Clients : pc[c] = "drain_doze" /\ IsDrained(arg[c]) =>
     \E h \in HandlersOf(arg[c]) : pc[h] = "notify" /\ still_busy[h] = 0

\* The value on_message read from fetch_sub was positive.
StillBusyInv == still_busy \in [Handlers -> Nat]

\* The inductive invariant.  The types need the counts (busy_count never goes
\* below zero), the counts need the places (no message is dropped twice), the
\* places need HoldInv (a worker never calls back without a message), HoldInv
\* needs LockInv and QueueInv, and the lost-wakeup properties need all of
\* them.
IInv ==
    /\ Shape /\ CallInv /\ DisposeInv /\ LockInv
    /\ QueueInv /\ HoldInv /\ PlaceInv
    /\ BusyCountAccounts /\ StillBusyInv
    /\ DrainDozeInv /\ FifoInv
    /\ NoLostMessageWakeup /\ NoLostDrainWakeup /\ NoLostStopWakeup
    /\ QueueWithinLimit

-----------------------------------------------------------------------------
(* Calls of send_message *)

\* The threads whose send_message to id has not enqueued its message yet.
Senders(id) == {t \in Threads : pc[t] \in Sending /\ arg[t] = id}

\* A queue exists before anything is enqueued into it, callbacks send where
\* they may, and every started send_message has enqueued its message or is
\* still on its way.
SendInv ==
  /\ \A t \in Threads :
        pc[t] \in {"enqueue", "enqueue_doze"} => arg[t] \in message_queues
  /\ \A id \in Ids : accepted[id] # 0 => id \in message_queues
  /\ \A h \in Handlers : pc[h] \in Sending => arg[h] \in Forward[HandlerId[h]]
  /\ \A id \in Ids : /\ IsFiniteSet(Senders(id))
                      /\ started[id] = accepted[id] + Cardinality(Senders(id))
=============================================================================
