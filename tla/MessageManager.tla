--------------------------- MODULE MessageManager ---------------------------
(***************************************************************************)
(* cbeam::concurrency::message_manager and its base threaded_object: the   *)
(* queues, the handler threads that serve them, the client threads that    *)
(* call send_message, wait_until_empty, add_handler and dispose, and the   *)
(* steps of a handler's destructor.                                        *)
(*                                                                         *)
(* A critical section that nothing outside it can affect is one step,      *)
(* taken when its mutex is free.  Two kinds of section take two steps and  *)
(* hold the mutex between them: a thread that found its wait predicate     *)
(* false before it is asleep, and a worker between is_message_available    *)
(* and get_message, whose vtable a destructor may switch meanwhile.  A     *)
(* thread asleep in a condition variable is a member of that variable's    *)
(* set; notify_all empties the set, and a thread that left it must find    *)
(* the mutex free to evaluate its predicate again.                         *)
(*                                                                         *)
(* The message of an identifier is its number in the order of enqueueing;  *)
(* 0 is "no message".  Loggers are user code called outside every other    *)
(* lock; they and the thread names are left out.                           *)
(*                                                                         *)
(* A definition named Faulty... is what a plausible mistake would make of  *)
(* the definition after it.  No action uses it: it is there to show that   *)
(* the properties would notice.                                            *)
(***************************************************************************)
EXTENDS Integers, FiniteSets, Sequences, Functions

CONSTANTS Ids,          \* message identifiers
          Clients,      \* threads of the program that call the manager
          Handlers,     \* the handlers that add_handler may create
          HandlerId,    \* HandlerId[h]: the identifier h is registered for
          Order,        \* Order[h]: the order_type h is registered with
          Forward,      \* Forward[id]: where a callback of id may send to
          OnException,  \* the handlers registered with an on_exception
          Throwing,     \* the handlers whose on_message callback may throw
          Limits,       \* the values passed as max_queued_messages
          Disposable,   \* the identifiers that clients may dispose
          MaxSends,     \* bound: send_message calls per identifier
          None          \* no thread, no identifier

Threads == Clients \cup Handlers

ASSUME ConstantsAssumption ==
    /\ IsFiniteSet(Handlers)
    /\ Clients \cap Handlers = {}
    /\ HandlerId \in [Handlers -> Ids]
    /\ Order \in [Handlers -> {"FIFO", "FILO", "RANDOM"}]
    /\ Forward \in [Ids -> SUBSET Ids]
    /\ OnException \subseteq Handlers
    /\ Throwing \subseteq Handlers
    /\ Limits \subseteq Nat
    /\ Disposable \subseteq Ids
    /\ MaxSends \in Nat
    /\ None \notin Ids \cup Threads

VARIABLES
    pc,             \* where each thread is
    arg,            \* arg[t]: the identifier of t's current call, or None
    limit,          \* limit[t]: max_queued_messages of t's send_message
    victim,         \* victim[c]: the handler a dispose of c is destroying
    message_queues, \* the identifiers whose message_queue exists
    queue,          \* queue[id]: the deque
    busy_count,     \* busy_count[id]
    queue_mutex,    \* queue_mutex[id]: the thread inside a two-step section
    queue_cv,       \* queue_cv[id]: threads asleep in queue_cv
    queue_cv_empty, \* queue_cv_empty[id]: clients asleep in queue_cv_empty
    threads,        \* threads[id]: the handlers owned by the manager
    manager_mutex,  \* client that holds _threads_mutex and _message_queues_mutex
    running,        \* running[h]: the worker's _running
    object,         \* object[h]: how much of the message_handler is left
    message,        \* message[h]: the message_data of h's current iteration
    still_busy,     \* still_busy[h]: local of on_message
    exited,         \* the handlers whose on_exit callback was called
    crashed,        \* std::terminate or a fault ended the process
    started,        \* started[id]: send_message calls so far (bound only)
    accepted,       \* accepted[id]: messages enqueued so far
    handled,        \* handled[id]: messages whose callback has completed
    dropped         \* dropped[id]: messages popped, then never dispatched

callVars == <<arg, limit, victim>>
queueVars == <<message_queues, queue, busy_count, queue_mutex>>
cvVars == <<queue_cv, queue_cv_empty>>
ownerVars == <<threads, manager_mutex>>
objectVars == <<running, object>>
localVars == <<message, still_busy>>
historyVars == <<started, accepted, handled, dropped>>
vars == <<pc, callVars, queueVars, cvVars, ownerVars, objectVars, localVars,
          exited, crashed, historyVars>>

ClientPC == {"idle", "lookup", "enqueue", "enqueue_doze", "announce",
             "wait_lookup", "drain", "drain_doze", "dispose", "dispose_base",
             "dispose_stop", "dispose_notify", "dispose_join"}
HandlerPC == {"unborn", "loop", "lock", "doze", "wait", "get", "popped", "callback",
              "lookup", "enqueue", "enqueue_doze", "announce", "uncount",
              "notify", "terminated"}

\* The stages of ~message_handler: everything alive; the members destroyed
\* while virtual calls still reach message_handler; virtual calls reach
\* threaded_object, whose hooks do nothing.
ObjectStage == {"alive", "members_gone", "base"}

\* The shape of the state, with counters that could be negative.
Shape ==
    /\ pc \in [Threads -> ClientPC \cup HandlerPC]
    /\ \A c \in Clients : pc[c] \in ClientPC
    /\ \A h \in Handlers : pc[h] \in HandlerPC
    /\ arg \in [Threads -> Ids \cup {None}]
    /\ limit \in [Threads -> Nat]
    /\ victim \in [Clients -> Handlers \cup {None}]
    /\ message_queues \subseteq Ids
    /\ queue \in [Ids -> Seq(Nat)]
    /\ busy_count \in [Ids -> Int]
    /\ queue_mutex \in [Ids -> Threads \cup {None}]
    /\ queue_cv \in [Ids -> SUBSET Threads]
    /\ queue_cv_empty \in [Ids -> SUBSET Clients]
    /\ threads \in [Ids -> SUBSET Handlers]
    /\ manager_mutex \in Clients \cup {None}
    /\ running \in [Handlers -> BOOLEAN]
    /\ object \in [Handlers -> ObjectStage]
    /\ message \in [Handlers -> Nat]
    /\ still_busy \in [Handlers -> Int]
    /\ exited \subseteq Handlers
    /\ crashed \in BOOLEAN
    /\ started \in [Ids -> Nat]
    /\ accepted \in [Ids -> Nat]
    /\ handled \in [Ids -> SUBSET Nat]
    /\ dropped \in [Ids -> SUBSET Nat]

\* The type invariant: busy_count, an unsigned counter that one thread raises
\* and another lowers, never wraps below zero.
TypeOK ==
    /\ Shape
    /\ busy_count \in [Ids -> Nat]
    /\ still_busy \in [Handlers -> Nat]

Init ==
    /\ pc = [t \in Threads |-> IF t \in Clients THEN "idle" ELSE "unborn"]
    /\ arg = [t \in Threads |-> None]
    /\ limit = [t \in Threads |-> 0]
    /\ victim = [c \in Clients |-> None]
    /\ message_queues = {}
    /\ queue = [id \in Ids |-> <<>>]
    /\ busy_count = [id \in Ids |-> 0]
    /\ queue_mutex = [id \in Ids |-> None]
    /\ queue_cv = [id \in Ids |-> {}]
    /\ queue_cv_empty = [id \in Ids |-> {}]
    /\ threads = [id \in Ids |-> {}]
    /\ manager_mutex = None
    /\ running = [h \in Handlers |-> TRUE]
    /\ object = [h \in Handlers |-> "alive"]
    /\ message = [h \in Handlers |-> 0]
    /\ still_busy = [h \in Handlers |-> 0]
    /\ exited = {}
    /\ crashed = FALSE
    /\ started = [id \in Ids |-> 0]
    /\ accepted = [id \in Ids |-> 0]
    /\ handled = [id \in Ids |-> {}]
    /\ dropped = [id \in Ids |-> {}]

Goto(t, label) == pc' = [pc EXCEPT ![t] = label]

\* What notify_all leaves of the threads asleep in a condition variable.
notify_all(sleepers) == {}

-----------------------------------------------------------------------------
(* send_message, called by a client or from inside an on_message callback. *)

\* Where a thread is before and after send_message.
Home(t) == IF t \in Handlers THEN "callback" ELSE "idle"

StartSend(t, id, max) ==
    /\ pc[t] = Home(t)
    /\ t \in Handlers => id \in Forward[HandlerId[t]]
    /\ started[id] < MaxSends
    /\ started' = [started EXCEPT ![id] = @ + 1]
    /\ arg' = [arg EXCEPT ![t] = id]
    /\ limit' = [limit EXCEPT ![t] = max]
    /\ Goto(t, "lookup")
    /\ UNCHANGED <<victim, queueVars, cvVars, ownerVars, objectVars, localVars,
                   exited, crashed, accepted, handled, dropped>>

\* _message_queues[message_id], created on first use.
SendLookup(t) ==
    /\ pc[t] = "lookup"
    /\ manager_mutex = None
    /\ message_queues' = message_queues \cup {arg[t]}
    /\ Goto(t, "enqueue")
    /\ UNCHANGED <<callVars, queue, busy_count, queue_mutex, cvVars, ownerVars,
                   objectVars, localVars, exited, crashed, historyVars>>

FaultyHasSpace(t, id) == limit[t] = 0 \/ Len(queue[id]) <= limit[t]
HasSpace(t, id) == limit[t] = 0 \/ Len(queue[id]) < limit[t]

\* The wait predicate holds, at once or after a wakeup.
SendEnqueue(t) ==
    LET id == arg[t] IN
    /\ pc[t] = "enqueue"
    /\ t \notin queue_cv[id]
    /\ queue_mutex[id] = None
    /\ HasSpace(t, id)
    /\ queue' = [queue EXCEPT ![id] = Append(@, accepted[id] + 1)]
    /\ accepted' = [accepted EXCEPT ![id] = @ + 1]
    /\ Goto(t, "announce")
    /\ UNCHANGED <<callVars, message_queues, busy_count, queue_mutex, cvVars,
                   ownerVars, objectVars, localVars, exited, crashed, started,
                   handled, dropped>>

SendFindsFull(t) ==
    LET id == arg[t] IN
    /\ pc[t] = "enqueue"
    /\ t \notin queue_cv[id]
    /\ queue_mutex[id] = None
    /\ ~HasSpace(t, id)
    /\ queue_mutex' = [queue_mutex EXCEPT ![id] = t]
    /\ Goto(t, "enqueue_doze")
    /\ UNCHANGED <<callVars, message_queues, queue, busy_count, cvVars,
                   ownerVars, objectVars, localVars, exited, crashed,
                   historyVars>>

\* wait() releases the mutex and falls asleep in one step.
SendDoze(t) ==
    /\ pc[t] = "enqueue_doze"
    /\ queue_cv' = [queue_cv EXCEPT ![arg[t]] = @ \cup {t}]
    /\ queue_mutex' = [queue_mutex EXCEPT ![arg[t]] = None]
    /\ Goto(t, "enqueue")
    /\ UNCHANGED <<callVars, message_queues, queue, busy_count, queue_cv_empty,
                   ownerVars, objectVars, localVars, exited, crashed,
                   historyVars>>

\* queue_cv->notify_all(), after the mutex was released.
SendAnnounce(t) ==
    /\ pc[t] = "announce"
    /\ queue_cv' = [queue_cv EXCEPT ![arg[t]] = notify_all(@)]
    /\ arg' = [arg EXCEPT ![t] = None]
    /\ limit' = [limit EXCEPT ![t] = 0]
    /\ Goto(t, Home(t))
    /\ UNCHANGED <<victim, queueVars, queue_cv_empty, ownerVars, objectVars,
                   localVars, exited, crashed, historyVars>>

-----------------------------------------------------------------------------
(* wait_until_empty *)

StartWait(c, id) ==
    /\ pc[c] = "idle"
    /\ arg' = [arg EXCEPT ![c] = id]
    /\ Goto(c, "wait_lookup")
    /\ UNCHANGED <<limit, victim, queueVars, cvVars, ownerVars, objectVars,
                   localVars, exited, crashed, historyVars>>

\* Returns at once if the identifier has no queue.
WaitUnknown(c) ==
    /\ pc[c] = "wait_lookup"
    /\ manager_mutex = None
    /\ arg[c] \notin message_queues
    /\ arg' = [arg EXCEPT ![c] = None]
    /\ Goto(c, "idle")
    /\ UNCHANGED <<limit, victim, queueVars, cvVars, ownerVars, objectVars,
                   localVars, exited, crashed, historyVars>>

WaitLookup(c) ==
    /\ pc[c] = "wait_lookup"
    /\ manager_mutex = None
    /\ arg[c] \in message_queues
    /\ Goto(c, "drain")
    /\ UNCHANGED <<callVars, queueVars, cvVars, ownerVars, objectVars,
                   localVars, exited, crashed, historyVars>>

FaultyIsDrained(id) == queue[id] = <<>>
IsDrained(id) == queue[id] = <<>> /\ busy_count[id] = 0

WaitReturn(c) ==
    /\ pc[c] = "drain"
    /\ c \notin queue_cv_empty[arg[c]]
    /\ queue_mutex[arg[c]] = None
    /\ IsDrained(arg[c])
    /\ arg' = [arg EXCEPT ![c] = None]
    /\ Goto(c, "idle")
    /\ UNCHANGED <<limit, victim, queueVars, cvVars, ownerVars, objectVars,
                   localVars, exited, crashed, historyVars>>

WaitFindsBusy(c) ==
    LET id == arg[c] IN
    /\ pc[c] = "drain"
    /\ c \notin queue_cv_empty[id]
    /\ queue_mutex[id] = None
    /\ ~IsDrained(id)
    /\ queue_mutex' = [queue_mutex EXCEPT ![id] = c]
    /\ Goto(c, "drain_doze")
    /\ UNCHANGED <<callVars, message_queues, queue, busy_count, cvVars,
                   ownerVars, objectVars, localVars, exited, crashed,
                   historyVars>>

WaitDoze(c) ==
    /\ pc[c] = "drain_doze"
    /\ queue_cv_empty' = [queue_cv_empty EXCEPT ![arg[c]] = @ \cup {c}]
    /\ queue_mutex' = [queue_mutex EXCEPT ![arg[c]] = None]
    /\ Goto(c, "drain")
    /\ UNCHANGED <<callVars, message_queues, queue, busy_count, queue_cv,
                   ownerVars, objectVars, localVars, exited, crashed,
                   historyVars>>

-----------------------------------------------------------------------------
(* add_handler and threaded_object::create *)

AddHandler(c, h) ==
    /\ pc[c] = "idle"
    /\ pc[h] = "unborn"
    /\ manager_mutex = None
    /\ message_queues' = message_queues \cup {HandlerId[h]}
    /\ threads' = [threads EXCEPT ![HandlerId[h]] = @ \cup {h}]
    /\ Goto(h, "loop")
    /\ UNCHANGED <<callVars, queue, busy_count, queue_mutex, cvVars,
                   manager_mutex, objectVars, localVars, exited, crashed,
                   historyVars>>

-----------------------------------------------------------------------------
(* threaded_object::worker with the hooks of message_handler.  A virtual   *)
(* call reaches message_handler until ~threaded_object has begun.          *)

Derived(h) == object[h] # "base"

is_message_available(h) == Derived(h) /\ queue[HandlerId[h]] # <<>>

\* while (_running), tested without the mutex.
WorkerLoop(h) ==
    /\ pc[h] = "loop"
    /\ running[h]
    /\ Goto(h, "lock")
    /\ UNCHANGED <<callVars, queueVars, cvVars, ownerVars, objectVars,
                   localVars, exited, crashed, historyVars>>

\* With the mutex held, go on to get_message or go to sleep.
TakeLockAndTest(h, predicate) ==
    /\ queue_mutex[HandlerId[h]] = None
    /\ queue_mutex' = [queue_mutex EXCEPT ![HandlerId[h]] = h]
    /\ Goto(h, IF predicate THEN "get" ELSE "doze")
    /\ UNCHANGED <<callVars, message_queues, queue, busy_count, cvVars,
                   ownerVars, objectVars, localVars, exited, crashed,
                   historyVars>>

\* The test before the wait: a notification may have been missed during work
\* outside the lock.
FaultyNeedNotWait(h) == ~running[h]
NeedNotWait(h) == is_message_available(h) \/ ~running[h]

WorkerLock(h) ==
    /\ pc[h] = "lock"
    /\ TakeLockAndTest(h, NeedNotWait(h))

\* Woken inside wait().
WorkerWake(h) ==
    /\ pc[h] = "wait"
    /\ h \notin queue_cv[HandlerId[h]]
    /\ TakeLockAndTest(h, is_message_available(h) \/ ~running[h])

WorkerDoze(h) ==
    LET id == HandlerId[h] IN
    /\ pc[h] = "doze"
    /\ queue_cv' = [queue_cv EXCEPT ![id] = @ \cup {h}]
    /\ queue_mutex' = [queue_mutex EXCEPT ![id] = None]
    /\ Goto(h, "wait")
    /\ UNCHANGED <<callVars, message_queues, queue, busy_count, queue_cv_empty,
                   ownerVars, objectVars, localVars, exited, crashed,
                   historyVars>>

\* The positions of the deque that get_message may take from.
PopPositions(h) ==
    LET last == Len(queue[HandlerId[h]]) IN
    CASE Order[h] = "FIFO"   -> {1}
      [] Order[h] = "FILO"   -> {last}
      [] Order[h] = "RANDOM" -> 1 .. last

FaultyRestOfFront(q, i) == Tail(q)
\* q without its element i.
Rest(q, i) == SubSeq(q, 1, i - 1) \o SubSeq(q, i + 1, Len(q))

FaultyCounted(id) == busy_count[id]
Counted(id) == busy_count[id] + 1

\* get_message of message_handler, and the end of the critical section.
WorkerGet(h) ==
    LET id == HandlerId[h] IN
    /\ pc[h] = "get"
    /\ running[h] /\ Derived(h)
    /\ \E i \in PopPositions(h) :
          /\ message' = [message EXCEPT ![h] = queue[id][i]]
          /\ queue' = [queue EXCEPT ![id] = Rest(@, i)]
    /\ busy_count' = [busy_count EXCEPT ![id] = Counted(id)]
    /\ queue_mutex' = [queue_mutex EXCEPT ![id] = None]
    /\ Goto(h, "popped")
    /\ UNCHANGED <<callVars, message_queues, cvVars, ownerVars, objectVars,
                   still_busy, exited, crashed, historyVars>>

\* No get_message after _running was cleared; the base class's returns {}.
WorkerGetNothing(h) ==
    /\ pc[h] = "get"
    /\ ~(running[h] /\ Derived(h))
    /\ queue_mutex' = [queue_mutex EXCEPT ![HandlerId[h]] = None]
    /\ Goto(h, "popped")
    /\ UNCHANGED <<callVars, message_queues, queue, busy_count, cvVars,
                   ownerVars, objectVars, localVars, exited, crashed,
                   historyVars>>

\* if (_running) on_message(message_data): the callback starts only if the
\* object is still a running message_handler.
WorkerDispatch(h) ==
    /\ pc[h] = "popped"
    /\ running[h] /\ Derived(h)
    /\ Goto(h, "callback")
    /\ UNCHANGED <<callVars, queueVars, cvVars, ownerVars, objectVars,
                   localVars, exited, crashed, historyVars>>

\* Otherwise message_data, if any, goes out of scope and busy_count is left as
\* it is.
WorkerDrop(h) ==
    LET id == HandlerId[h] IN
    /\ pc[h] = "popped"
    /\ ~(running[h] /\ Derived(h))
    /\ dropped' = [dropped EXCEPT ![id] = @ \cup ({message[h]} \ {0})]
    /\ message' = [message EXCEPT ![h] = 0]
    /\ Goto(h, "loop")
    /\ UNCHANGED <<callVars, queueVars, cvVars, ownerVars, objectVars,
                   still_busy, exited, crashed, started, accepted, handled>>

\* _on_message returns, or throws and _on_exception handles it.
CallbackReturns(h) ==
    /\ pc[h] = "callback"
    /\ handled' = [handled EXCEPT ![HandlerId[h]] = @ \cup {message[h]}]
    /\ Goto(h, "uncount")
    /\ UNCHANGED <<callVars, queueVars, cvVars, ownerVars, objectVars,
                   localVars, exited, crashed, started, accepted, dropped>>

\* A throwing callback whose _on_exception(ex) is an empty std::function: its
\* bad_function_call leaves a noexcept function.
CallbackTerminates(h) ==
    /\ pc[h] = "callback"
    /\ h \in Throwing \ OnException
    /\ crashed' = TRUE
    /\ UNCHANGED <<pc, callVars, queueVars, cvVars, ownerVars, objectVars,
                   localVars, exited, historyVars>>

Uncounted(id) == busy_count[id] - 1

\* still_busy = busy_count.fetch_sub(1) - 1, without the mutex.
WorkerUncount(h) ==
    LET id == HandlerId[h] IN
    /\ pc[h] = "uncount"
    /\ busy_count' = [busy_count EXCEPT ![id] = Uncounted(id)]
    /\ still_busy' = [still_busy EXCEPT ![h] = Uncounted(id)]
    /\ message' = [message EXCEPT ![h] = 0]
    /\ Goto(h, "notify")
    /\ UNCHANGED <<callVars, message_queues, queue, queue_mutex, cvVars,
                   ownerVars, objectVars, exited, crashed, historyVars>>

\* The mutex is needed: a waiter between its test and its sleep holds it.
FaultyMayNotify(id) == TRUE
MayNotify(id) == queue_mutex[id] = None

FaultyIsLastBusy(h) == queue[HandlerId[h]] = <<>> /\ still_busy[h] = 1
IsLastBusy(h) == queue[HandlerId[h]] = <<>> /\ still_busy[h] = 0

\* Under the mutex: the last busy worker of an empty queue wakes the waiters.
WorkerNotify(h) ==
    LET id == HandlerId[h] IN
    /\ pc[h] = "notify"
    /\ MayNotify(id)
    /\ IsLastBusy(h)
    /\ queue_cv_empty' = [queue_cv_empty EXCEPT ![id] = notify_all(@)]
    /\ still_busy' = [still_busy EXCEPT ![h] = 0]
    /\ Goto(h, "loop")
    /\ UNCHANGED <<callVars, queueVars, queue_cv, ownerVars, objectVars,
                   message, exited, crashed, historyVars>>

WorkerNeedNotNotify(h) ==
    /\ pc[h] = "notify"
    /\ MayNotify(HandlerId[h])
    /\ ~IsLastBusy(h)
    /\ still_busy' = [still_busy EXCEPT ![h] = 0]
    /\ Goto(h, "loop")
    /\ UNCHANGED <<callVars, queueVars, cvVars, ownerVars, objectVars,
                   message, exited, crashed, historyVars>>

\* The loop ends and on_exit is called through the vtable of that moment.
WorkerExit(h) ==
    /\ pc[h] = "loop"
    /\ ~running[h]
    /\ exited' = IF Derived(h) THEN exited \cup {h} ELSE exited
    /\ Goto(h, "terminated")
    /\ UNCHANGED <<callVars, queueVars, cvVars, ownerVars, objectVars,
                   localVars, crashed, historyVars>>

-----------------------------------------------------------------------------
(* dispose: _threads[message_id].clear() with both manager mutexes held.   *)
(* Each handler is destroyed in turn: ~message_handler destroys the        *)
(* members, then ~threaded_object takes over the vtable, stops the worker, *)
(* notifies it and joins it.                                               *)

StartDispose(c, id) ==
    /\ pc[c] = "idle"
    /\ manager_mutex = None
    /\ manager_mutex' = c
    /\ arg' = [arg EXCEPT ![c] = id]
    /\ Goto(c, "dispose")
    /\ UNCHANGED <<limit, victim, queueVars, cvVars, threads, objectVars,
                   localVars, exited, crashed, historyVars>>

DisposeMembers(c) ==
    /\ pc[c] = "dispose"
    /\ \E h \in threads[arg[c]] :
          /\ victim' = [victim EXCEPT ![c] = h]
          /\ object' = [object EXCEPT ![h] = "members_gone"]
    /\ Goto(c, "dispose_base")
    /\ UNCHANGED <<arg, limit, queueVars, cvVars, ownerVars, running,
                   localVars, exited, crashed, historyVars>>

DisposeBase(c) ==
    /\ pc[c] = "dispose_base"
    /\ object' = [object EXCEPT ![victim[c]] = "base"]
    /\ Goto(c, "dispose_stop")
    /\ UNCHANGED <<callVars, queueVars, cvVars, ownerVars, running, localVars,
                   exited, crashed, historyVars>>

\* _running is set under the mutex: a worker between its test and its sleep
\* holds it.
FaultyMayStop(id) == TRUE
MayStop(id) == queue_mutex[id] = None

DisposeStop(c) ==
    /\ pc[c] = "dispose_stop"
    /\ MayStop(arg[c])
    /\ running' = [running EXCEPT ![victim[c]] = FALSE]
    /\ Goto(c, "dispose_notify")
    /\ UNCHANGED <<callVars, queueVars, cvVars, ownerVars, object, localVars,
                   exited, crashed, historyVars>>

DisposeNotify(c) ==
    /\ pc[c] = "dispose_notify"
    /\ queue_cv' = [queue_cv EXCEPT ![arg[c]] = notify_all(@)]
    /\ Goto(c, "dispose_join")
    /\ UNCHANGED <<callVars, queueVars, queue_cv_empty, ownerVars, objectVars,
                   localVars, exited, crashed, historyVars>>

DisposeJoin(c) ==
    /\ pc[c] = "dispose_join"
    /\ pc[victim[c]] = "terminated"
    /\ threads' = [threads EXCEPT ![arg[c]] = @ \ {victim[c]}]
    /\ victim' = [victim EXCEPT ![c] = None]
    /\ Goto(c, "dispose")
    /\ UNCHANGED <<arg, limit, queueVars, cvVars, manager_mutex, objectVars,
                   localVars, exited, crashed, historyVars>>

DisposeReturn(c) ==
    /\ pc[c] = "dispose"
    /\ threads[arg[c]] = {}
    /\ manager_mutex' = None
    /\ arg' = [arg EXCEPT ![c] = None]
    /\ Goto(c, "idle")
    /\ UNCHANGED <<limit, victim, queueVars, cvVars, threads, objectVars,
                   localVars, exited, crashed, historyVars>>

-----------------------------------------------------------------------------
(* The environment: condition variables and undefined behaviour.           *)

\* A condition variable may wake a thread nobody notified.
SpuriousWakeup(t) ==
    /\ \E id \in Ids : t \in queue_cv[id] \cup queue_cv_empty[id]
    /\ queue_cv' = [id \in Ids |-> queue_cv[id] \ {t}]
    /\ queue_cv_empty' = [id \in Ids |-> queue_cv_empty[id] \ {t}]
    /\ UNCHANGED <<pc, callVars, queueVars, ownerVars, objectVars, localVars,
                   exited, crashed, historyVars>>

\* The worker is inside message_handler::on_message.
InOnMessage(h) ==
    pc[h] \in {"callback", "lookup", "enqueue", "enqueue_doze", "announce",
               "uncount", "notify"}

\* The next statement of the worker reads members of message_handler that its
\* destructor has already destroyed.
ReadsDestroyedMembers(h) ==
    \/ InOnMessage(h) /\ object[h] # "alive"
    \/ pc[h] \in {"lock", "wait", "get", "popped"}
       /\ object[h] = "members_gone"
       /\ h \notin queue_cv[HandlerId[h]]

\* Such a read finds the old bits, and every action above goes on as if
\* nothing had happened, or it ends the process.
ReadFaults(h) ==
    /\ ReadsDestroyedMembers(h)
    /\ crashed' = TRUE
    /\ UNCHANGED <<pc, callVars, queueVars, cvVars, ownerVars, objectVars,
                   localVars, exited, historyVars>>

-----------------------------------------------------------------------------
\* The steps a thread takes by itself once it is inside a call.
SendStep(t) ==
    \/ SendLookup(t) \/ SendEnqueue(t) \/ SendFindsFull(t)
    \/ SendDoze(t) \/ SendAnnounce(t)

WaitStep(c) ==
    \/ WaitUnknown(c) \/ WaitLookup(c)
    \/ WaitReturn(c) \/ WaitFindsBusy(c) \/ WaitDoze(c)

DisposeStep(c) ==
    \/ DisposeMembers(c) \/ DisposeBase(c) \/ DisposeStop(c)
    \/ DisposeNotify(c) \/ DisposeJoin(c) \/ DisposeReturn(c)

WorkerStep(h) ==
    \/ WorkerLoop(h) \/ WorkerLock(h) \/ WorkerWake(h) \/ WorkerDoze(h)
    \/ WorkerGet(h) \/ WorkerGetNothing(h)
    \/ WorkerDispatch(h) \/ WorkerDrop(h) \/ WorkerExit(h)

OnMessageStep(h) ==
    \/ CallbackReturns(h) \/ WorkerUncount(h)
    \/ WorkerNotify(h) \/ WorkerNeedNotNotify(h)

ClientStep(c) == SendStep(c) \/ WaitStep(c) \/ DisposeStep(c)
HandlerStep(h) == SendStep(h) \/ WorkerStep(h) \/ OnMessageStep(h)

Call(c) ==
    \/ \E id \in Ids, max \in Limits : StartSend(c, id, max)
    \/ \E id \in Ids : StartWait(c, id)
    \/ \E h \in Handlers : AddHandler(c, h)
    \/ \E id \in Disposable : StartDispose(c, id)

Next ==
    /\ ~crashed
    /\ \/ \E c \in Clients : Call(c) \/ ClientStep(c) \/ SpuriousWakeup(c)
       \/ \E h \in Handlers :
             \/ HandlerStep(h) \/ SpuriousWakeup(h)
             \/ CallbackTerminates(h) \/ ReadFaults(h)
             \/ \E id \in Ids, max \in Limits : StartSend(h, id, max)

Spec == Init /\ [][Next]_vars

\* Every thread inside a call keeps being scheduled and callbacks return.  The
\* fairness is strong because a mutex that is released again and again is
\* eventually granted to a thread that keeps asking for it.  Nothing obliges a
\* client to make a call, or a wakeup to be spurious.
FairSpec ==
    /\ Spec
    /\ \A c \in Clients : SF_vars(~crashed /\ ClientStep(c))
    /\ \A h \in Handlers : SF_vars(~crashed /\ HandlerStep(h))

-----------------------------------------------------------------------------
(* Safety *)

HandlersOf(id) == {h \in Handlers : HandlerId[h] = id}

\* The handlers of id that have popped a message and not yet uncounted it.
Holders(id) == {h \in HandlersOf(id) : message[h] # 0}

\* The messages of id whose callback has not completed yet.
InHand(id) == {message[h] : h \in Holders(id)} \ handled[id]

Queued(id) == Range(queue[id])

\* A message that send_message enqueued is queued, in the hands of exactly one
\* worker, handled or dropped, and never two of these: no message is delivered
\* twice, whatever the order_types, and none vanishes from a live process.
EveryMessageInOnePlace ==
    \A id \in Ids :
        /\ 1 .. accepted[id]
              = Queued(id) \cup InHand(id) \cup handled[id] \cup dropped[id]
        /\ \A i, j \in DOMAIN queue[id] : i < j => queue[id][i] < queue[id][j]
        /\ Queued(id) \cap (InHand(id) \cup handled[id] \cup dropped[id]) = {}
        /\ dropped[id] \cap (InHand(id) \cup handled[id]) = {}
        /\ \A g, h \in Holders(id) : message[g] = message[h] => g = h

\* busy_count is the number of workers between get_message and the fetch_sub of
\* on_message, plus one for every message dropped on the way.
BusyCountAccounts ==
    \A id \in Ids :
        busy_count[id] = Cardinality(Holders(id)) + Cardinality(dropped[id])

\* The worker is asleep in threaded_object::worker (not in a send_message of its
\* callback).
WorkerAsleep(h) == pc[h] = "wait" /\ h \in queue_cv[HandlerId[h]]

\* A worker never sleeps through a message: if it is asleep in queue_cv while
\* it would find a message, the notify_all of some send_message is still to
\* come.
NoLostMessageWakeup ==
    \A h \in Handlers :
        WorkerAsleep(h) /\ is_message_available(h) =>
            \E t \in Threads : pc[t] = "announce" /\ arg[t] = HandlerId[h]

\* A wait_until_empty never sleeps through its condition: if it is asleep in
\* queue_cv_empty while the queue is drained, the worker that made it so has
\* still to take the mutex and notify, and will find still_busy = 0.
NoLostDrainWakeup ==
    \A id \in Ids, c \in Clients :
        c \in queue_cv_empty[id] /\ IsDrained(id) =>
            \E h \in HandlersOf(id) : pc[h] = "notify" /\ still_busy[h] = 0

\* A worker never sleeps through its own shutdown: if it is asleep although
\* _running is false, its destructor has still to notify.
NoLostStopWakeup ==
    \A h \in Handlers :
        WorkerAsleep(h) /\ ~running[h] =>
            \E c \in Clients : pc[c] = "dispose_notify" /\ victim[c] = h

\* No thread sleeps through what it waits for: neither a worker through a
\* message or its own shutdown, nor a wait_until_empty through its condition.
NoLostWakeup == NoLostMessageWakeup /\ NoLostDrainWakeup /\ NoLostStopWakeup

\* Among FIFO handlers, whatever was taken from the queue is older than
\* everything still in it.
FifoTakesOldest ==
    \A id \in Ids :
        (\A h \in HandlersOf(id) : Order[h] = "FIFO") =>
            \A m \in InHand(id) \cup handled[id] \cup dropped[id] :
                \A n \in Queued(id) : m < n

\* If every send_message passes a limit, the queue never outgrows the largest.
QueueWithinLimit ==
    0 \notin Limits =>
        \A id \in Ids : queue[id] # <<>> =>
            \E max \in Limits : Len(queue[id]) <= max

\* The promises of MessageService, read off this state.
Service == INSTANCE MessageService WITH
    Orders <- [id \in Ids |-> {Order[h] : h \in HandlersOf(id)}],
    pending <- [id \in Ids |-> Queued(id)],
    active <- [id \in Ids |-> InHand(id)],
    lost <- dropped,
    waiting <- [c \in Clients |->
                   IF pc[c] \in {"wait_lookup", "drain", "drain_doze"}
                   THEN arg[c] ELSE None]

\* message_manager implements MessageService: in particular messages are taken
\* in the order_type of a handler, and wait_until_empty returns only when every
\* message enqueued before has been popped and its callback has completed.
ImplementsService == Service!Spec

\* The pipeline of the class documentation: when wait_until_empty(id) returns
\* while everything that forwards to id is drained, and no client is inside a
\* send_message of its own, every message ever sent to id has been handled.
PipelineDrained ==
    [][\A c \in Clients :
          LET id == arg[c]
              upstream == {u \in Ids : id \in Forward[u]}
          IN  /\ pc[c] = "drain" /\ pc'[c] = "idle"
              /\ \A u \in upstream : IsDrained(u)
              /\ \A d \in Clients :
                    pc[d] \notin {"lookup", "enqueue", "enqueue_doze"}
              => handled[id] = 1 .. started[id]]_vars

-----------------------------------------------------------------------------
(* Liveness *)

\* While a handler of its identifier exists, a queued message is eventually
\* handled (checked where nobody disposes the handlers).
EveryMessageHandled ==
    \A id \in Ids, m \in 1 .. MaxSends :
        m \in Queued(id) /\ threads[id] # {} ~> m \in handled[id]

Waits(c, id) == pc[c] \in {"drain", "drain_doze"} /\ arg[c] = id

\* wait_until_empty on an identifier with a handler eventually returns (the
\* number of messages is bounded by MaxSends).
WaitReturns ==
    \A c \in Clients, id \in Ids :
        Waits(c, id) /\ threads[id] # {} ~> ~Waits(c, id)

\* A send_message with a limit, blocked on a full queue, proceeds once there is
\* space, unless the queue fills again.
BlockedSendProceeds ==
    \A t \in Threads, id \in Ids :
        pc[t] = "enqueue" /\ arg[t] = id /\ HasSpace(t, id)
            ~> pc[t] # "enqueue" \/ ~HasSpace(t, id)

\* dispose returns: the worker it joins leaves its loop and terminates.
DisposeReturns ==
    \A c \in Clients :
        pc[c] = "dispose_join" ~> pc[c] # "dispose_join" \/ crashed

-----------------------------------------------------------------------------
(* What the documentation says of the end of a handler. *)

\* No worker runs message_handler code on members that are already destroyed.
ShutdownIsSafe == \A h \in Handlers : ~ReadsDestroyedMembers(h)
=============================================================================
