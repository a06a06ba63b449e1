----------------------- MODULE MessageManagerTheorems -----------------------
(* What is proved of message_manager for every choice of the constants.      *)
EXTENDS MessageManagerSteps

\* The steps that need arithmetic, or many equalities, name SMT.
USE Zenon

(* No wakeup of a handler, of a stopping handler or of a waiting client is  *)
(* lost: one step per action in each lemma.                                 *)

\* Every step preserves NoLostStopWakeup: ~threaded_object clears _running
\* under the mutex.
LEMMA StopWakeStep ==
    ASSUME Shape, CallInv, DisposeInv, LockInv, NoLostStopWakeup, [Next]_vars
    PROVE  NoLostStopWakeup'
<1>c. ASSUME NEW c \in Clients, DisposeMembers(c)
      PROVE  DestroyEffect(c)
  BY <1>c, DestroyFrame
<1>t. /\ pc \in [Threads -> ClientPC \cup HandlerPC]
      /\ victim \in [Clients -> Handlers \cup {None}]
      /\ queue_cv \in [Ids -> SUBSET Threads]
      /\ queue_mutex \in [Ids -> Threads \cup {None}]
      /\ running \in [Handlers -> BOOLEAN]
  BY DEF Shape
<1> USE ConstantsAssumption, <1>t DEF Goto, Threads, callVars, queueVars,
        cvVars, ownerVars, objectVars, localVars, historyVars, CallInv,
        InCall, Sending, Destroying, HandlersOf, LockInv, DozeInv, MutexInv,
        NoLostStopWakeup, WorkerAsleep
<1>1. CASE UNCHANGED vars  BY <1>1 DEF vars
<1>2. ASSUME NEW t \in Threads, NEW id \in Ids, NEW max \in Limits,
             StartSend(t, id, max)
      PROVE  NoLostStopWakeup'
  BY <1>2 DEF StartSend, Home
<1>3. ASSUME NEW c \in Clients, NEW id \in Ids, StartWait(c, id)
      PROVE  NoLostStopWakeup'
  BY <1>3 DEF StartWait
<1>4. ASSUME NEW c \in Clients, NEW h \in Handlers, AddHandler(c, h)
      PROVE  NoLostStopWakeup'
  BY <1>4 DEF AddHandler
<1>5. ASSUME NEW c \in Clients, NEW id \in Disposable, StartDispose(c, id)
      PROVE  NoLostStopWakeup'
  BY <1>5 DEF StartDispose
<1>6. ASSUME NEW t \in Threads, SendStep(t)
      PROVE  NoLostStopWakeup'
  <2>1. CASE SendLookup(t)  BY <2>1 DEF SendLookup
  <2>2. CASE SendEnqueue(t)  BY <2>2 DEF SendEnqueue
  <2>3. CASE SendFindsFull(t)  BY <2>3 DEF SendFindsFull
  <2>4. CASE SendDoze(t)  BY <2>4 DEF SendDoze
  <2>5. CASE SendAnnounce(t)  BY <2>5 DEF SendAnnounce, Home, notify_all
  <2> QED  BY <1>6, <2>1, <2>2, <2>3, <2>4, <2>5 DEF SendStep
<1>7. ASSUME NEW c \in Clients, WaitStep(c)
      PROVE  NoLostStopWakeup'
  <2>1. CASE WaitUnknown(c)  BY <2>1 DEF WaitUnknown
  <2>2. CASE WaitLookup(c)  BY <2>2 DEF WaitLookup
  <2>3. CASE WaitReturn(c)  BY <2>3 DEF WaitReturn
  <2>4. CASE WaitFindsBusy(c)  BY <2>4 DEF WaitFindsBusy
  <2>5. CASE WaitDoze(c)  BY <2>5 DEF WaitDoze
  <2> QED  BY <1>7, <2>1, <2>2, <2>3, <2>4, <2>5 DEF WaitStep
<1>8. ASSUME NEW c \in Clients, DisposeStep(c)
      PROVE  NoLostStopWakeup'
  <2>1. CASE DisposeMembers(c)
    <3>1. DestroyEffect(c)  BY <2>1, <1>c
    <3>2. /\ pc[c] = "dispose" /\ pc' = [pc EXCEPT ![c] = "dispose_base"]
          /\ UNCHANGED <<queue_cv, running>>
      BY <2>1 DEF DisposeMembers
    <3>3. \A h \in Handlers : pc'[h] = pc[h]
      BY <3>2, SMT
    <3>4. \A d \in Clients :
             pc[d] = "dispose_notify" => pc'[d] = pc[d] /\ victim'[d] = victim[d]
      BY <3>1, <3>2 DEF DestroyEffect
    <3>5. ASSUME NEW h \in Handlers, pc'[h] = "wait",
                 h \in queue_cv'[HandlerId[h]], ~running'[h]
          PROVE  \E d \in Clients : pc'[d] = "dispose_notify" /\ victim'[d] = h
      <4>1. PICK d \in Clients : pc[d] = "dispose_notify" /\ victim[d] = h
        BY <3>2, <3>3, <3>5
      <4> QED  BY <3>4, <4>1
    <3> QED  BY <3>5
  <2>2. CASE DisposeBase(c)  BY <2>2 DEF DisposeBase
  <2>3. CASE DisposeStop(c)  BY <2>3, SMT DEF DisposeStop, MayStop
  <2>4. CASE DisposeNotify(c)  BY <2>4, SMT DEF DisposeNotify, notify_all
  <2>5. CASE DisposeJoin(c)  BY <2>5 DEF DisposeJoin
  <2>6. CASE DisposeReturn(c)  BY <2>6 DEF DisposeReturn
  <2> QED  BY <1>8, <2>1, <2>2, <2>3, <2>4, <2>5, <2>6 DEF DisposeStep
<1>9. ASSUME NEW h \in Handlers, WorkerStep(h)
      PROVE  NoLostStopWakeup'
  <2>1. CASE WorkerLoop(h)  BY <2>1 DEF WorkerLoop
  <2>2. CASE WorkerLock(h)
    BY <2>2 DEF WorkerLock, TakeLockAndTest, NeedNotWait
  <2>3. CASE WorkerWake(h)  BY <2>3 DEF WorkerWake, TakeLockAndTest
  <2>4. CASE WorkerDoze(h)  BY <2>4 DEF WorkerDoze
  <2>5. CASE WorkerGet(h)  BY <2>5 DEF WorkerGet, Counted
  <2>6. CASE WorkerGetNothing(h)  BY <2>6 DEF WorkerGetNothing
  <2>7. CASE WorkerDispatch(h)  BY <2>7 DEF WorkerDispatch
  <2>8. CASE WorkerDrop(h)  BY <2>8 DEF WorkerDrop
  <2>9. CASE WorkerExit(h)  BY <2>9 DEF WorkerExit
  <2> QED
    BY <1>9, <2>1, <2>2, <2>3, <2>4, <2>5, <2>6, <2>7, <2>8, <2>9 DEF
      WorkerStep
<1>10. ASSUME NEW h \in Handlers, OnMessageStep(h)
      PROVE  NoLostStopWakeup'
  <2>1. CASE CallbackReturns(h)  BY <2>1 DEF CallbackReturns
  <2>2. CASE WorkerUncount(h)  BY <2>2 DEF WorkerUncount, Uncounted
  <2>3. CASE WorkerNotify(h)
    BY <2>3 DEF WorkerNotify, notify_all, MayNotify, IsLastBusy
  <2>4. CASE WorkerNeedNotNotify(h)
    BY <2>4 DEF WorkerNeedNotNotify, MayNotify, IsLastBusy
  <2> QED  BY <1>10, <2>1, <2>2, <2>3, <2>4 DEF OnMessageStep
<1>11. ASSUME NEW t \in Threads, SpuriousWakeup(t)
      PROVE  NoLostStopWakeup'
  BY <1>11 DEF SpuriousWakeup
<1>12. ASSUME NEW h \in Handlers, CallbackTerminates(h)
      PROVE  NoLostStopWakeup'
  BY <1>12 DEF CallbackTerminates
<1>13. ASSUME NEW h \in Handlers, ReadFaults(h)
      PROVE  NoLostStopWakeup'
  BY <1>13 DEF ReadFaults
<1> HIDE DEF NoLostStopWakeup
<1> QED
  BY <1>1, <1>2, <1>3, <1>4, <1>5, <1>6, <1>7, <1>8, <1>9, <1>10, <1>11,
     <1>12, <1>13 DEF Next, Call, ClientStep, HandlerStep, Threads

\* Every step preserves NoLostMessageWakeup: the notification of send_message
\* reaches the worker that slept before it.
LEMMA MessageWakeStep ==
    ASSUME Shape, CallInv, DisposeInv, LockInv, QueueInv, HoldInv,
           NoLostMessageWakeup, [Next]_vars
    PROVE  NoLostMessageWakeup'
<1>a. ASSUME NEW h \in Handlers, WorkerGet(h)
      PROVE  PopEffect(h)
  BY <1>a, PopFrame
<1>c. ASSUME NEW c \in Clients, DisposeMembers(c)
      PROVE  DestroyEffect(c)
  BY <1>c, DestroyFrame
<1>t. /\ pc \in [Threads -> ClientPC \cup HandlerPC]
      /\ arg \in [Threads -> Ids \cup {None}]
      /\ queue_cv \in [Ids -> SUBSET Threads]
      /\ queue \in [Ids -> Seq(Nat)]
      /\ queue_mutex \in [Ids -> Threads \cup {None}]
      /\ object \in [Handlers -> ObjectStage]
  BY DEF Shape
<1> USE ConstantsAssumption, <1>t DEF Goto, Threads, callVars, queueVars,
        cvVars, ownerVars, objectVars, localVars, historyVars, CallInv,
        InCall, Sending, Destroying, HandlersOf, LockInv, MutexInv, DozeInv,
        is_message_available, Derived, NoLostMessageWakeup, WorkerAsleep
<1>1. CASE UNCHANGED vars  BY <1>1 DEF vars
<1>2. ASSUME NEW t \in Threads, NEW id \in Ids, NEW max \in Limits,
             StartSend(t, id, max)
      PROVE  NoLostMessageWakeup'
  BY <1>2 DEF StartSend, Home
<1>3. ASSUME NEW c \in Clients, NEW id \in Ids, StartWait(c, id)
      PROVE  NoLostMessageWakeup'
  BY <1>3 DEF StartWait
<1>4. ASSUME NEW c \in Clients, NEW h \in Handlers, AddHandler(c, h)
      PROVE  NoLostMessageWakeup'
  BY <1>4 DEF AddHandler
<1>5. ASSUME NEW c \in Clients, NEW id \in Disposable, StartDispose(c, id)
      PROVE  NoLostMessageWakeup'
  BY <1>5 DEF StartDispose
<1>6. ASSUME NEW t \in Threads, SendStep(t)
      PROVE  NoLostMessageWakeup'
  <2>1. CASE SendLookup(t)  BY <2>1 DEF SendLookup
  <2>2. CASE SendEnqueue(t)  BY <2>2 DEF SendEnqueue
  <2>3. CASE SendFindsFull(t)  BY <2>3 DEF SendFindsFull
  <2>4. CASE SendDoze(t)  BY <2>4 DEF SendDoze
  <2>5. CASE SendAnnounce(t)  BY <2>5 DEF SendAnnounce, Home, notify_all
  <2> QED  BY <1>6, <2>1, <2>2, <2>3, <2>4, <2>5 DEF SendStep
<1>7. ASSUME NEW c \in Clients, WaitStep(c)
      PROVE  NoLostMessageWakeup'
  <2>1. CASE WaitUnknown(c)  BY <2>1 DEF WaitUnknown
  <2>2. CASE WaitLookup(c)  BY <2>2 DEF WaitLookup
  <2>3. CASE WaitReturn(c)  BY <2>3 DEF WaitReturn
  <2>4. CASE WaitFindsBusy(c)  BY <2>4 DEF WaitFindsBusy
  <2>5. CASE WaitDoze(c)  BY <2>5 DEF WaitDoze
  <2> QED  BY <1>7, <2>1, <2>2, <2>3, <2>4, <2>5 DEF WaitStep
<1>8. ASSUME NEW c \in Clients, DisposeStep(c)
      PROVE  NoLostMessageWakeup'
  <2>1. CASE DisposeMembers(c)
    <3>1. DestroyEffect(c)  BY <2>1, <1>c
    <3>2. /\ pc[c] = "dispose" /\ pc' = [pc EXCEPT ![c] = "dispose_base"]
          /\ UNCHANGED <<arg, queueVars, cvVars, ownerVars, running, localVars>>
      BY <2>1 DEF DisposeMembers
    <3> QED  BY <3>1, <3>2, SMT DEF DestroyEffect
  <2>2. CASE DisposeBase(c)  BY <2>2, SMT DEF DisposeBase
  <2>3. CASE DisposeStop(c)  BY <2>3 DEF DisposeStop, MayStop
  <2>4. CASE DisposeNotify(c)  BY <2>4 DEF DisposeNotify, notify_all
  <2>5. CASE DisposeJoin(c)  BY <2>5 DEF DisposeJoin
  <2>6. CASE DisposeReturn(c)  BY <2>6 DEF DisposeReturn
  <2> QED  BY <1>8, <2>1, <2>2, <2>3, <2>4, <2>5, <2>6 DEF DisposeStep
<1>9. ASSUME NEW h \in Handlers, WorkerStep(h)
      PROVE  NoLostMessageWakeup'
  <2>1. CASE WorkerLoop(h)  BY <2>1 DEF WorkerLoop
  <2>2. CASE WorkerLock(h)
    BY <2>2 DEF WorkerLock, TakeLockAndTest, NeedNotWait
  <2>3. CASE WorkerWake(h)  BY <2>3 DEF WorkerWake, TakeLockAndTest
  <2>4. CASE WorkerDoze(h)  BY <2>4, SMT DEF WorkerDoze
  <2>5. CASE WorkerGet(h)
    <3>1. PopEffect(h)  BY <2>5, <1>a
    <3> QED  BY <2>5, <3>1, SMT DEF WorkerGet, PopEffect
  <2>6. CASE WorkerGetNothing(h)  BY <2>6 DEF WorkerGetNothing
  <2>7. CASE WorkerDispatch(h)  BY <2>7 DEF WorkerDispatch
  <2>8. CASE WorkerDrop(h)  BY <2>8, SMT DEF WorkerDrop
  <2>9. CASE WorkerExit(h)  BY <2>9 DEF WorkerExit
  <2> QED
    BY <1>9, <2>1, <2>2, <2>3, <2>4, <2>5, <2>6, <2>7, <2>8, <2>9 DEF
      WorkerStep
<1>10. ASSUME NEW h \in Handlers, OnMessageStep(h)
      PROVE  NoLostMessageWakeup'
  <2>1. CASE CallbackReturns(h)  BY <2>1 DEF CallbackReturns
  <2>2. CASE WorkerUncount(h)  BY <2>2 DEF WorkerUncount, Uncounted
  <2>3. CASE WorkerNotify(h)
    BY <2>3, SMT DEF WorkerNotify, notify_all, MayNotify, IsLastBusy
  <2>4. CASE WorkerNeedNotNotify(h)
    BY <2>4 DEF WorkerNeedNotNotify, MayNotify, IsLastBusy
  <2> QED  BY <1>10, <2>1, <2>2, <2>3, <2>4 DEF OnMessageStep
<1>11. ASSUME NEW t \in Threads, SpuriousWakeup(t)
      PROVE  NoLostMessageWakeup'
  BY <1>11 DEF SpuriousWakeup
<1>12. ASSUME NEW h \in Handlers, CallbackTerminates(h)
      PROVE  NoLostMessageWakeup'
  BY <1>12 DEF CallbackTerminates
<1>13. ASSUME NEW h \in Handlers, ReadFaults(h)
      PROVE  NoLostMessageWakeup'
  BY <1>13 DEF ReadFaults
<1> HIDE DEF NoLostMessageWakeup
<1> QED
  BY <1>1, <1>2, <1>3, <1>4, <1>5, <1>6, <1>7, <1>8, <1>9, <1>10, <1>11,
     <1>12, <1>13 DEF Next, Call, ClientStep, HandlerStep, Threads

\* Every step preserves DrainDozeInv: on_message notifies under the mutex.
LEMMA DrainDozeStep ==
    ASSUME Shape, CallInv, LockInv, DrainDozeInv, [Next]_vars
    PROVE  DrainDozeInv'
<1>t. /\ pc \in [Threads -> ClientPC \cup HandlerPC]
      /\ arg \in [Threads -> Ids \cup {None}]
      /\ queue \in [Ids -> Seq(Nat)]
      /\ busy_count \in [Ids -> Int]
      /\ still_busy \in [Handlers -> Int]
      /\ queue_mutex \in [Ids -> Threads \cup {None}]
  BY DEF Shape
<1> USE ConstantsAssumption, <1>t DEF Goto, Threads, callVars, queueVars,
        cvVars, ownerVars, objectVars, localVars, historyVars, CallInv,
        InCall, Sending, Destroying, HandlersOf, LockInv, MutexInv,
        DrainDozeInv, IsDrained
<1>1. CASE UNCHANGED vars  BY <1>1 DEF vars
<1>2. ASSUME NEW t \in Threads, NEW id \in Ids, NEW max \in Limits,
             StartSend(t, id, max)
      PROVE  DrainDozeInv'
  BY <1>2, SMT DEF StartSend, Home
<1>3. ASSUME NEW c \in Clients, NEW id \in Ids, StartWait(c, id)
      PROVE  DrainDozeInv'
  BY <1>3, SMT DEF StartWait
<1>4. ASSUME NEW c \in Clients, NEW h \in Handlers, AddHandler(c, h)
      PROVE  DrainDozeInv'
  BY <1>4 DEF AddHandler
<1>5. ASSUME NEW c \in Clients, NEW id \in Disposable, StartDispose(c, id)
      PROVE  DrainDozeInv'
  BY <1>5, SMT DEF StartDispose
<1>6. ASSUME NEW t \in Threads, SendStep(t)
      PROVE  DrainDozeInv'
  <2>1. CASE SendLookup(t)  BY <2>1 DEF SendLookup
  <2>2. CASE SendEnqueue(t)  BY <2>2, SMT DEF SendEnqueue
  <2>3. CASE SendFindsFull(t)  BY <2>3, ZenonT(40) DEF SendFindsFull
  <2>4. CASE SendDoze(t)  BY <2>4 DEF SendDoze
  <2>5. CASE SendAnnounce(t)  BY <2>5, SMT DEF SendAnnounce, Home, notify_all
  <2> QED  BY <1>6, <2>1, <2>2, <2>3, <2>4, <2>5 DEF SendStep
<1>7. ASSUME NEW c \in Clients, WaitStep(c)
      PROVE  DrainDozeInv'
  <2>1. CASE WaitUnknown(c)  BY <2>1, SMT DEF WaitUnknown
  <2>2. CASE WaitLookup(c)  BY <2>2 DEF WaitLookup
  <2>3. CASE WaitReturn(c)  BY <2>3, SMT DEF WaitReturn
  <2>4. CASE WaitFindsBusy(c)  BY <2>4, SMT DEF WaitFindsBusy
  <2>5. CASE WaitDoze(c)  BY <2>5 DEF WaitDoze
  <2> QED  BY <1>7, <2>1, <2>2, <2>3, <2>4, <2>5 DEF WaitStep
<1>8. ASSUME NEW c \in Clients, DisposeStep(c)
      PROVE  DrainDozeInv'
  <2>1. CASE DisposeMembers(c)  BY <2>1 DEF DisposeMembers
  <2>2. CASE DisposeBase(c)  BY <2>2 DEF DisposeBase
  <2>3. CASE DisposeStop(c)  BY <2>3, SMT DEF DisposeStop, MayStop
  <2>4. CASE DisposeNotify(c)  BY <2>4 DEF DisposeNotify, notify_all
  <2>5. CASE DisposeJoin(c)  BY <2>5 DEF DisposeJoin
  <2>6. CASE DisposeReturn(c)  BY <2>6, ZenonT(40) DEF DisposeReturn
  <2> QED  BY <1>8, <2>1, <2>2, <2>3, <2>4, <2>5, <2>6 DEF DisposeStep
<1>9. ASSUME NEW h \in Handlers, WorkerStep(h)
      PROVE  DrainDozeInv'
  <2>1. CASE WorkerLoop(h)  BY <2>1 DEF WorkerLoop
  <2>2. CASE WorkerLock(h)
    BY <2>2, SMT DEF WorkerLock, TakeLockAndTest, NeedNotWait
  <2>3. CASE WorkerWake(h)  BY <2>3, SMT DEF WorkerWake, TakeLockAndTest
  <2>4. CASE WorkerDoze(h)  BY <2>4 DEF WorkerDoze
  <2>5. CASE WorkerGet(h)  BY <2>5, SMT DEF WorkerGet, Counted
  <2>6. CASE WorkerGetNothing(h)  BY <2>6 DEF WorkerGetNothing
  <2>7. CASE WorkerDispatch(h)  BY <2>7 DEF WorkerDispatch
  <2>8. CASE WorkerDrop(h)  BY <2>8 DEF WorkerDrop
  <2>9. CASE WorkerExit(h)  BY <2>9 DEF WorkerExit
  <2> QED
    BY <1>9, <2>1, <2>2, <2>3, <2>4, <2>5, <2>6, <2>7, <2>8, <2>9 DEF
      WorkerStep
<1>10. ASSUME NEW h \in Handlers, OnMessageStep(h)
      PROVE  DrainDozeInv'
  <2>1. CASE CallbackReturns(h)  BY <2>1 DEF CallbackReturns
  <2>2. CASE WorkerUncount(h)  BY <2>2, SMT DEF WorkerUncount, Uncounted
  <2>3. CASE WorkerNotify(h)
    BY <2>3, SMT DEF WorkerNotify, notify_all, MayNotify, IsLastBusy
  <2>4. CASE WorkerNeedNotNotify(h)
    BY <2>4, SMT DEF WorkerNeedNotNotify, MayNotify, IsLastBusy
  <2> QED  BY <1>10, <2>1, <2>2, <2>3, <2>4 DEF OnMessageStep
<1>11. ASSUME NEW t \in Threads, SpuriousWakeup(t)
      PROVE  DrainDozeInv'
  BY <1>11 DEF SpuriousWakeup
<1>12. ASSUME NEW h \in Handlers, CallbackTerminates(h)
      PROVE  DrainDozeInv'
  BY <1>12 DEF CallbackTerminates
<1>13. ASSUME NEW h \in Handlers, ReadFaults(h)
      PROVE  DrainDozeInv'
  BY <1>13 DEF ReadFaults
<1> HIDE DEF DrainDozeInv
<1> QED
  BY <1>1, <1>2, <1>3, <1>4, <1>5, <1>6, <1>7, <1>8, <1>9, <1>10, <1>11,
     <1>12, <1>13 DEF Next, Call, ClientStep, HandlerStep, Threads

\* NoLostDrainWakeup survives a step that leaves the queue and the counts
\* alone, puts nobody to sleep and keeps the workers about to notify where
\* they are.
LEMMA DrainFrame ==
    ASSUME NoLostDrainWakeup, UNCHANGED <<queue, busy_count, still_busy>>,
           \A id \in Ids : queue_cv_empty'[id] \subseteq queue_cv_empty[id],
           \A h \in Handlers : pc[h] = "notify" => pc'[h] = "notify"
    PROVE  NoLostDrainWakeup'
BY DEF NoLostDrainWakeup, IsDrained, HandlersOf

\* Every step preserves NoLostDrainWakeup: the worker that brings busy_count
\* to zero on an empty queue notifies wait_until_empty.
LEMMA DrainWakeStep ==
    ASSUME Shape, TypeOK, CallInv, QueueInv, HoldInv, DrainDozeInv,
           NoLostDrainWakeup, [Next]_vars
    PROVE  NoLostDrainWakeup'
<1>a. ASSUME NEW h \in Handlers, WorkerGet(h)
      PROVE  PopEffect(h)
  BY <1>a, PopFrame
<1>b. ASSUME NEW t \in Threads, SendEnqueue(t)
      PROVE  PushEffect
  BY <1>b, PushFrame
<1>t. /\ pc \in [Threads -> ClientPC \cup HandlerPC]
      /\ arg \in [Threads -> Ids \cup {None}]
      /\ queue \in [Ids -> Seq(Nat)]
      /\ queue_cv_empty \in [Ids -> SUBSET Clients]
      /\ busy_count \in [Ids -> Int]
      /\ still_busy \in [Handlers -> Int]
  BY DEF Shape
<1> USE ConstantsAssumption, <1>t DEF Goto, Threads, callVars, queueVars,
        cvVars, ownerVars, objectVars, localVars, historyVars
<1>1. CASE UNCHANGED vars  BY <1>1, DrainFrame DEF vars
<1>2. ASSUME NEW t \in Threads, NEW id \in Ids, NEW max \in Limits,
             StartSend(t, id, max)
      PROVE  NoLostDrainWakeup'
  BY <1>2, DrainFrame DEF StartSend, Home
<1>3. ASSUME NEW c \in Clients, NEW id \in Ids, StartWait(c, id)
      PROVE  NoLostDrainWakeup'
  BY <1>3, DrainFrame DEF StartWait
<1>4. ASSUME NEW c \in Clients, NEW h \in Handlers, AddHandler(c, h)
      PROVE  NoLostDrainWakeup'
  BY <1>4, DrainFrame DEF AddHandler
<1>5. ASSUME NEW c \in Clients, NEW id \in Disposable, StartDispose(c, id)
      PROVE  NoLostDrainWakeup'
  BY <1>5, DrainFrame DEF StartDispose
<1>6. ASSUME NEW t \in Threads, SendStep(t)
      PROVE  NoLostDrainWakeup'
  <2>1. CASE SendLookup(t)  BY <2>1, DrainFrame DEF SendLookup
  <2>2. CASE SendEnqueue(t)
    <3>1. PushEffect  BY <2>2, <1>b
    <3>2. /\ pc[t] = "enqueue" /\ pc' = [pc EXCEPT ![t] = "announce"]
          /\ UNCHANGED <<message, running, object>>
          /\ UNCHANGED <<busy_count, queue_cv_empty, still_busy>>
      BY <2>2 DEF SendEnqueue
    <3> QED  BY <3>1, <3>2, SMT DEF PushEffect, NoLostDrainWakeup,
           IsDrained, HandlersOf
  <2>3. CASE SendFindsFull(t)  BY <2>3, DrainFrame DEF SendFindsFull
  <2>4. CASE SendDoze(t)  BY <2>4, DrainFrame DEF SendDoze
  <2>5. CASE SendAnnounce(t)
    BY <2>5, DrainFrame DEF SendAnnounce, Home, notify_all
  <2> QED  BY <1>6, <2>1, <2>2, <2>3, <2>4, <2>5 DEF SendStep
<1>7. ASSUME NEW c \in Clients, WaitStep(c)
      PROVE  NoLostDrainWakeup'
  <2>1. CASE WaitUnknown(c)  BY <2>1, DrainFrame DEF WaitUnknown
  <2>2. CASE WaitLookup(c)  BY <2>2, DrainFrame DEF WaitLookup
  <2>3. CASE WaitReturn(c)  BY <2>3, DrainFrame DEF WaitReturn
  <2>4. CASE WaitFindsBusy(c)  BY <2>4, DrainFrame DEF WaitFindsBusy
  <2>5. CASE WaitDoze(c)
    <3>1. ASSUME NEW id \in Ids, NEW d \in Clients,
                 d \in queue_cv_empty'[id], IsDrained(id)'
          PROVE  \E h \in HandlersOf(id) : pc'[h] = "notify" /\ still_busy'[h] = 0
      <4>0. queue_cv_empty' = [queue_cv_empty EXCEPT ![arg[c]] = @ \cup {c}]
        BY <2>5 DEF WaitDoze
      <4>1. d \in queue_cv_empty[id] \/ (d = c /\ id = arg[c])
        BY <3>1, <4>0
      <4>2. IsDrained(id)
        BY <2>5, <3>1 DEF WaitDoze, IsDrained
      <4>3. PICK h \in HandlersOf(id) : pc[h] = "notify" /\ still_busy[h] = 0
        BY <2>5, <4>1, <4>2 DEF WaitDoze, DrainDozeInv, NoLostDrainWakeup
      <4>4. pc'[h] = "notify" /\ still_busy'[h] = 0
        BY <2>5, <4>3 DEF WaitDoze, HandlersOf
      <4> QED  BY <4>3, <4>4
    <3> QED  BY <3>1 DEF NoLostDrainWakeup, HandlersOf
  <2> QED  BY <1>7, <2>1, <2>2, <2>3, <2>4, <2>5 DEF WaitStep
<1>8. ASSUME NEW c \in Clients, DisposeStep(c)
      PROVE  NoLostDrainWakeup'
  <2>1. CASE DisposeMembers(c)  BY <2>1, DrainFrame DEF DisposeMembers
  <2>2. CASE DisposeBase(c)  BY <2>2, DrainFrame DEF DisposeBase
  <2>3. CASE DisposeStop(c)  BY <2>3, DrainFrame DEF DisposeStop, MayStop
  <2>4. CASE DisposeNotify(c)
    BY <2>4, DrainFrame DEF DisposeNotify, notify_all
  <2>5. CASE DisposeJoin(c)  BY <2>5, DrainFrame DEF DisposeJoin
  <2>6. CASE DisposeReturn(c)  BY <2>6, DrainFrame DEF DisposeReturn
  <2> QED  BY <1>8, <2>1, <2>2, <2>3, <2>4, <2>5, <2>6 DEF DisposeStep
<1>9. ASSUME NEW h \in Handlers, WorkerStep(h)
      PROVE  NoLostDrainWakeup'
  <2>1. CASE WorkerLoop(h)  BY <2>1, DrainFrame DEF WorkerLoop
  <2>2. CASE WorkerLock(h)
    BY <2>2, DrainFrame DEF WorkerLock, TakeLockAndTest, NeedNotWait
  <2>3. CASE WorkerWake(h)  BY <2>3, DrainFrame DEF WorkerWake, TakeLockAndTest
  <2>4. CASE WorkerDoze(h)  BY <2>4, DrainFrame DEF WorkerDoze
  <2>5. CASE WorkerGet(h)
    <3>1. \A id \in Ids :
             busy_count'[id] = 0 => busy_count[id] = 0 /\ id # HandlerId[h]
      BY <2>5, SMT DEF WorkerGet, Counted, TypeOK
    <3>2. PopEffect(h)  BY <2>5, <1>a
    <3> QED
      BY <2>5, <3>1, <3>2, SMT DEF WorkerGet, PopEffect, NoLostDrainWakeup,
         IsDrained, HandlersOf
  <2>6. CASE WorkerGetNothing(h)  BY <2>6, DrainFrame DEF WorkerGetNothing
  <2>7. CASE WorkerDispatch(h)  BY <2>7, DrainFrame DEF WorkerDispatch
  <2>8. CASE WorkerDrop(h)  BY <2>8, DrainFrame DEF WorkerDrop
  <2>9. CASE WorkerExit(h)  BY <2>9, DrainFrame DEF WorkerExit
  <2> QED
    BY <1>9, <2>1, <2>2, <2>3, <2>4, <2>5, <2>6, <2>7, <2>8, <2>9 DEF
      WorkerStep
<1>10. ASSUME NEW h \in Handlers, OnMessageStep(h)
      PROVE  NoLostDrainWakeup'
  <2>1. CASE CallbackReturns(h)  BY <2>1, DrainFrame DEF CallbackReturns
  <2>2. CASE WorkerUncount(h)
    BY <2>2 DEF WorkerUncount, Uncounted, NoLostDrainWakeup, IsDrained,
      HandlersOf
  <2>3. CASE WorkerNotify(h)
    BY <2>3, SMT DEF WorkerNotify, notify_all, MayNotify, IsLastBusy,
      NoLostDrainWakeup, IsDrained, HandlersOf
  <2>4. CASE WorkerNeedNotNotify(h)
    BY <2>4, SMT DEF WorkerNeedNotNotify, MayNotify, IsLastBusy, NoLostDrainWakeup,
      IsDrained, HandlersOf
  <2> QED  BY <1>10, <2>1, <2>2, <2>3, <2>4 DEF OnMessageStep
<1>11. ASSUME NEW t \in Threads, SpuriousWakeup(t)
      PROVE  NoLostDrainWakeup'
  BY <1>11, DrainFrame DEF SpuriousWakeup
<1>12. ASSUME NEW h \in Handlers, CallbackTerminates(h)
      PROVE  NoLostDrainWakeup'
  BY <1>12, DrainFrame DEF CallbackTerminates
<1>13. ASSUME NEW h \in Handlers, ReadFaults(h)
      PROVE  NoLostDrainWakeup'
  BY <1>13, DrainFrame DEF ReadFaults
<1> HIDE DEF NoLostDrainWakeup
<1> QED
  BY <1>1, <1>2, <1>3, <1>4, <1>5, <1>6, <1>7, <1>8, <1>9, <1>10, <1>11,
     <1>12, <1>13 DEF Next, Call, ClientStep, HandlerStep, Threads

-----------------------------------------------------------------------------
(* busy_count, and the invariant *)

INSTANCE FiniteSetTheorems

\* There are finitely many workers.
LEMMA HoldersFinite ==
    ASSUME NEW id
    PROVE  IsFiniteSet(Holders(id))
<1>1. Holders(id) \subseteq Handlers /\ IsFiniteSet(Handlers)
  BY ConstantsAssumption DEF Holders, HandlersOf
<1> QED
  BY <1>1, FS_Subset

\* Finitely many messages were accepted, so finitely many were dropped.
LEMMA DroppedFinite ==
    ASSUME Shape, PlaceInv, NEW id \in Ids
    PROVE  IsFiniteSet(dropped[id])
<1>1. accepted[id] \in Nat /\ dropped[id] \subseteq 1 .. accepted[id]
  BY DEF Shape, PlaceInv, Placed
<1>2. IsFiniteSet(1 .. accepted[id])
  BY <1>1, FS_Interval, SMT
<1> QED
  BY <1>1, <1>2, FS_Subset

\* busy_count is a sum of two cardinalities.
LEMMA BusyCountIsNat ==
    ASSUME Shape, PlaceInv, BusyCountAccounts
    PROVE  busy_count \in [Ids -> Nat]
<1>1. \A id \in Ids : busy_count[id] \in Nat
  BY HoldersFinite, DroppedFinite, FS_CardinalityType, SMT DEF BusyCountAccounts
<1> QED
  BY <1>1 DEF Shape

\* Every step preserves BusyCountAccounts: get_message counts, on_message
\* uncounts, and a drop moves the count from the holder to the dropped
\* message.
LEMMA BusyCountStep ==
    ASSUME Shape, CallInv, QueueInv, HoldInv, PlaceInv, BusyCountAccounts,
           [Next]_vars
    PROVE  BusyCountAccounts'
<1>1. MessageMove
  BY MessageFrame
<1> SUFFICES ASSUME NEW id \in Ids
             PROVE  busy_count'[id] = Cardinality(Holders(id)') + Cardinality(dropped'[id])
  BY DEF BusyCountAccounts
<1> DEFINE Count == busy_count[id] = Cardinality(Holders(id)) + Cardinality(dropped[id])
           Count1 == busy_count'[id] = Cardinality(Holders(id)') + Cardinality(dropped'[id])
<1>2. /\ Count
      /\ IsFiniteSet(Holders(id)) /\ Cardinality(Holders(id)) \in Nat
      /\ IsFiniteSet(dropped[id]) /\ Cardinality(dropped[id]) \in Nat
  BY HoldersFinite, DroppedFinite, FS_CardinalityType DEF BusyCountAccounts
<1>3. ASSUME Holders(id)' = Holders(id), dropped'[id] = dropped[id],
             busy_count'[id] = busy_count[id]
      PROVE  Count1
  BY <1>2, <1>3
<1>4. CASE MessagesUnmoved
  BY <1>3, <1>4 DEF MessagesUnmoved, Holders, HandlersOf
<1>5. ASSUME NEW t \in Threads, SendEnqueue(t)  PROVE  Count1
  BY <1>3, <1>5 DEF SendEnqueue, Holders, HandlersOf, localVars
<1>6. ASSUME NEW h \in Handlers, CallbackReturns(h)  PROVE  Count1
  BY <1>3, <1>6 DEF CallbackReturns, Holders, HandlersOf, localVars, queueVars
<1>7. ASSUME NEW h \in Handlers, WorkerGet(h)  PROVE  Count1
  <2>1. PopEffect(h)
    BY <1>7, PopFrame
  <2>2. message[h] = 0
    BY <1>7 DEF WorkerGet, HoldInv, HoldOk, Holding
  <2>3. dropped' = dropped
    BY <1>7 DEF WorkerGet, historyVars
  <2>4. CASE HandlerId[h] = id
    <3>1. Holders(id)' = Holders(id) \cup {h} /\ h \notin Holders(id)
      BY <2>1, <2>2, <2>4 DEF PopEffect, Holders, HandlersOf
    <3>2. Cardinality(Holders(id)') = Cardinality(Holders(id)) + 1
      BY <1>2, <3>1, FS_AddElement
    <3>3. busy_count'[id] = busy_count[id] + 1
      BY <1>7, <2>4 DEF WorkerGet, Counted, Shape
    <3> QED
      BY <1>2, <2>3, <3>2, <3>3, SMT
  <2>5. CASE HandlerId[h] # id
    <3>1. Holders(id)' = Holders(id)
      BY <2>1, <2>5 DEF PopEffect, Holders, HandlersOf
    <3>2. busy_count'[id] = busy_count[id]
      BY <1>7, <2>5 DEF WorkerGet, Shape
    <3> QED
      BY <1>3, <2>3, <3>1, <3>2
  <2> QED
    BY <2>4, <2>5
<1>8. ASSUME NEW h \in Handlers, WorkerDrop(h)  PROVE  Count1
  <2>1. /\ busy_count' = busy_count
        /\ message'[h] = 0 /\ \A g \in Handlers \ {h} : message'[g] = message[g]
        /\ pc[h] = "popped"
    BY <1>8 DEF WorkerDrop, Shape, queueVars
  <2>2. CASE HandlerId[h] # id \/ message[h] = 0
    <3>1. Holders(id)' = Holders(id)
      BY <2>1, <2>2 DEF Holders, HandlersOf
    <3>2. dropped'[id] = dropped[id]
      BY <1>8, <2>2 DEF WorkerDrop, Shape
    <3> QED
      BY <1>3, <2>1, <3>1, <3>2
  <2>3. CASE HandlerId[h] = id /\ message[h] # 0
    <3>1. Holders(id)' = Holders(id) \ {h} /\ h \in Holders(id)
      BY <2>1, <2>3 DEF Holders, HandlersOf
    <3>2. Cardinality(Holders(id)') = Cardinality(Holders(id)) - 1
      BY <1>2, <3>1, FS_RemoveElement
    <3>3. dropped'[id] = dropped[id] \cup {message[h]}
      BY <1>8, <2>3 DEF WorkerDrop, Shape
    <3>4. message[h] \notin dropped[id]
      BY <2>3 DEF PlaceInv, Placed, HandlersOf
    <3>5. Cardinality(dropped'[id]) = Cardinality(dropped[id]) + 1
      BY <1>2, <3>3, <3>4, FS_AddElement
    <3> QED
      BY <1>2, <2>1, <3>2, <3>5, SMT
  <2> QED
    BY <2>2, <2>3
<1>9. ASSUME NEW h \in Handlers, WorkerUncount(h)  PROVE  Count1
  <2>1. /\ dropped' = dropped
        /\ message'[h] = 0 /\ \A g \in Handlers \ {h} : message'[g] = message[g]
        /\ pc[h] = "uncount"
    BY <1>9 DEF WorkerUncount, Shape, historyVars
  <2>2. message[h] # 0
    BY <2>1 DEF HoldInv, HoldOk, Holding
  <2>3. CASE HandlerId[h] = id
    <3>1. Holders(id)' = Holders(id) \ {h} /\ h \in Holders(id)
      BY <2>1, <2>2, <2>3 DEF Holders, HandlersOf
    <3>2. Cardinality(Holders(id)') = Cardinality(Holders(id)) - 1
      BY <1>2, <3>1, FS_RemoveElement
    <3>3. busy_count'[id] = busy_count[id] - 1
      BY <1>9, <2>3 DEF WorkerUncount, Uncounted, Shape
    <3> QED
      BY <1>2, <2>1, <3>2, <3>3, SMT
  <2>4. CASE HandlerId[h] # id
    <3>1. Holders(id)' = Holders(id)
      BY <2>1, <2>4 DEF Holders, HandlersOf
    <3>2. busy_count'[id] = busy_count[id]
      BY <1>9, <2>4 DEF WorkerUncount, Shape
    <3> QED
      BY <1>3, <2>1, <3>1, <3>2
  <2> QED
    BY <2>3, <2>4
<1> QED
  BY <1>1, <1>4, <1>5, <1>6, <1>7, <1>8, <1>9 DEF MessageMove

\* still_busy is copied from busy_count, which is never negative.
LEMMA StillBusyStep ==
    ASSUME Shape, CallInv, StillBusyInv, busy_count' \in [Ids -> Nat], [Next]_vars
    PROVE  StillBusyInv'
<1>1. MessageMove
  BY MessageFrame
<1>2. ASSUME NEW h \in Handlers, WorkerUncount(h)
      PROVE  StillBusyInv'
  <2>1. /\ still_busy' = [still_busy EXCEPT ![h] = Uncounted(HandlerId[h])]
        /\ busy_count'[HandlerId[h]] = Uncounted(HandlerId[h])
    BY <1>2, ConstantsAssumption DEF WorkerUncount, Shape
  <2>2. Uncounted(HandlerId[h]) \in Nat
    BY <2>1, ConstantsAssumption
  <2> QED
    BY <2>1, <2>2 DEF StillBusyInv
<1>3. ASSUME UNCHANGED still_busy
      PROVE  StillBusyInv'
  BY <1>3 DEF StillBusyInv
<1>4. ASSUME NEW h \in Handlers, still_busy' = [still_busy EXCEPT ![h] = 0]
      PROVE  StillBusyInv'
  BY <1>4 DEF StillBusyInv
<1> QED
  BY <1>1, <1>2, <1>3, <1>4
     DEF MessageMove, MessagesUnmoved, SendEnqueue, WorkerGet, WorkerDrop,
         CallbackReturns, localVars

-----------------------------------------------------------------------------
(* The invariant *)

\* The inductive invariant implies the type invariant.
LEMMA TypeFromIInv ==
    ASSUME IInv
    PROVE  TypeOK
  BY BusyCountIsNat DEF IInv, TypeOK, StillBusyInv

\* The inductive invariant holds when the manager has just been constructed.
LEMMA InitIInv ==
    ASSUME Init
    PROVE  IInv
<1> USE ConstantsAssumption DEF Init, Threads
<1>1. Shape
  <2>1. /\ pc \in [Threads -> ClientPC \cup HandlerPC]
        /\ \A c \in Clients : pc[c] \in ClientPC
        /\ \A h \in Handlers : pc[h] \in HandlerPC
    BY DEF ClientPC, HandlerPC
  <2>2. queue \in [Ids -> Seq(Nat)]
    BY SMT
  <2>3. object \in [Handlers -> ObjectStage]
    BY DEF ObjectStage
  <2>4. running \in [Handlers -> BOOLEAN] /\ crashed \in BOOLEAN
    OBVIOUS
  <2>5. /\ arg \in [Threads -> Ids \cup {None}]
        /\ limit \in [Threads -> Nat]
        /\ victim \in [Clients -> Handlers \cup {None}]
        /\ message_queues \subseteq Ids
        /\ busy_count \in [Ids -> Int]
        /\ queue_mutex \in [Ids -> Threads \cup {None}]
    BY SMT
  <2>6. /\ queue_cv \in [Ids -> SUBSET Threads]
        /\ queue_cv_empty \in [Ids -> SUBSET Clients]
        /\ threads \in [Ids -> SUBSET Handlers]
        /\ manager_mutex \in Clients \cup {None}
        /\ exited \subseteq Handlers
    OBVIOUS
  <2>7. /\ message \in [Handlers -> Nat] /\ still_busy \in [Handlers -> Int]
        /\ started \in [Ids -> Nat] /\ accepted \in [Ids -> Nat]
        /\ handled \in [Ids -> SUBSET Nat] /\ dropped \in [Ids -> SUBSET Nat]
    BY SMT
  <2> HIDE DEF Init, Threads
  <2> QED
    BY <2>1, <2>2, <2>3, <2>4, <2>5, <2>6, <2>7 DEF Shape
<1>2. CallInv /\ DisposeInv /\ LockInv
  BY DEF CallInv, InCall, Sending, Destroying, DisposeInv, LockInv, MutexInv, DozeInv, HandlersOf
<1>3. HoldInv /\ StillBusyInv /\ DrainDozeInv
  BY DEF HoldInv, HoldOk, Holding, StillBusyInv, DrainDozeInv
<1>4. \A id \in Ids : /\ queue[id] = <<>> /\ accepted[id] = 0
                      /\ handled[id] = {} /\ dropped[id] = {}
                      /\ busy_count[id] = 0 /\ Holders(id) = {}
                      /\ queue_cv[id] = {} /\ queue_cv_empty[id] = {}
  BY DEF Holders, HandlersOf
<1>5. \A n : ~Has(<<>>, n)
  BY SMT DEF Has
<1>6. QueueInv /\ FifoInv /\ QueueWithinLimit
  BY <1>4, <1>5, SMT DEF QueueInv, Sorted, FifoInv, QueueWithinLimit
<1>7. PlaceInv
  BY <1>4, <1>5, SMT DEF PlaceInv, Placed, InQueue, HandlersOf
<1>8. BusyCountAccounts
  <2>1. Cardinality({}) = 0
    BY FS_EmptySet
  <2>2. ASSUME NEW id \in Ids
        PROVE  busy_count[id] = Cardinality(Holders(id)) + Cardinality(dropped[id])
    <3>1. busy_count[id] = 0 /\ Holders(id) = {} /\ dropped[id] = {}
      BY <1>4
    <3> HIDE DEF Init
    <3> QED  BY <2>1, <3>1, SMT
  <2> QED
    BY <2>2 DEF BusyCountAccounts
<1>9. NoLostMessageWakeup /\ NoLostDrainWakeup /\ NoLostStopWakeup
  BY <1>4 DEF NoLostMessageWakeup, NoLostDrainWakeup, NoLostStopWakeup, WorkerAsleep
<1> QED
  BY <1>1, <1>2, <1>3, <1>6, <1>7, <1>8, <1>9 DEF IInv

\* The inductive invariant is preserved by every step, one lemma per part.
LEMMA NextIInv ==
    ASSUME IInv, [Next]_vars
    PROVE  IInv'
<1>0. TypeOK
  BY TypeFromIInv
<1> USE DEF IInv
<1>1. Shape'  BY ShapeStep
<1>2. CallInv'  BY CallStep
<1>3. DisposeInv'  BY DisposeInvStep
<1>4. LockInv'  BY LockStep
<1>5. PlaceInv' /\ QueueInv'  BY PlaceStep
<1>6. HoldInv'  BY HoldStep
<1>7. BusyCountAccounts'  BY BusyCountStep
<1>8. busy_count' \in [Ids -> Nat]
  <2>1. (Shape /\ PlaceInv /\ BusyCountAccounts => busy_count \in [Ids -> Nat])'
    BY BusyCountIsNat, PTL
  <2> QED  BY <1>1, <1>5, <1>7, <2>1
<1>9. StillBusyInv'  BY <1>8, StillBusyStep
<1>10. DrainDozeInv'  BY DrainDozeStep
<1>11. FifoInv'  BY FifoStep
<1>12. NoLostMessageWakeup'  BY MessageWakeStep
<1>13. NoLostDrainWakeup'  BY <1>0, DrainWakeStep
<1>14. NoLostStopWakeup'  BY StopWakeStep
<1>15. QueueWithinLimit'  BY QueueLimitStep
<1> QED
  BY <1>1, <1>2, <1>3, <1>4, <1>5, <1>6, <1>7, <1>9, <1>10, <1>11, <1>12,
     <1>13, <1>14, <1>15

\* The inductive invariant holds throughout every execution of
\* message_manager, for all sets of clients and handlers, all order_types,
\* limits and callbacks that forward or throw.
THEOREM Invariance == Spec => []IInv
<1>1. Init => IInv
  BY InitIInv
<1>2. IInv /\ [Next]_vars => IInv'
  BY NextIInv
<1> QED
  BY <1>1, <1>2, PTL DEF Spec

-----------------------------------------------------------------------------
(* What it implies *)

\* Type correctness of message_manager; in particular busy_count (an
\* std::atomic<size_t>) never wraps below zero.
THEOREM TypeCorrectness == Spec => []TypeOK
<1>1. IInv => TypeOK
  BY TypeFromIInv
<1> QED
  BY <1>1, Invariance, PTL

\* No message is lost or delivered twice: whatever send_message accepted is
\* queued, with one worker, handled, or dropped by a stopping worker.
THEOREM NoMessageLostOrDuplicated == Spec => []EveryMessageInOnePlace
<1>1. IInv => EveryMessageInOnePlace
  BY PlacesPartition DEF IInv
<1> QED
  BY <1>1, Invariance, PTL

\* busy_count equals the workers between get_message and fetch_sub plus the
\* dropped messages; without shutdown, it is exactly the number of busy
\* workers, which is what wait_until_empty relies on.
THEOREM BusyCountIsExact == Spec => []BusyCountAccounts
<1>1. IInv => BusyCountAccounts
  BY DEF IInv
<1> QED
  BY <1>1, Invariance, PTL

\* No wakeup is lost: a worker asleep with a message to take, a
\* wait_until_empty asleep on a drained queue, and a worker asleep after
\* _running was cleared will each be notified by a thread already on its way.
THEOREM NoWakeupLost == Spec => []NoLostWakeup
<1>1. IInv => NoLostWakeup
  BY DEF IInv, NoLostWakeup
<1> QED
  BY <1>1, Invariance, PTL

\* With FIFO handlers only, messages are taken in the order send_message
\* accepted them, by any number of workers.
THEOREM FifoOrder == Spec => []FifoTakesOldest
<1>1. IInv => FifoTakesOldest
  BY FifoInvSuffices DEF IInv
<1> QED
  BY <1>1, Invariance, PTL

\* If every send_message passes a limit, the queue never outgrows the largest
\* one.
THEOREM LimitRespected == Spec => []QueueWithinLimit
<1>1. IInv => QueueWithinLimit
  BY DEF IInv
<1> QED
  BY <1>1, Invariance, PTL

-----------------------------------------------------------------------------
(* The calls in progress *)

\* The control points of send_message at which the queue has been found, and
\* those of wait_until_empty.
Enqueueing == {"enqueue", "enqueue_doze"}
Waiting == {"wait_lookup", "drain", "drain_doze"}

\* A step at which no send_message starts or enqueues, and no
\* wait_until_empty starts or returns.
CallsUnmoved ==
  /\ UNCHANGED <<started, accepted>>
  /\ message_queues \subseteq message_queues'
  /\ \A t \in Threads :
        /\ pc'[t] \in Sending <=> pc[t] \in Sending
        /\ pc'[t] \in Waiting <=> pc[t] \in Waiting
        /\ pc[t] \in Sending \cup Waiting => arg'[t] = arg[t]
        /\ pc'[t] \in Enqueueing => pc[t] \in Enqueueing \/ arg[t] \in message_queues'

\* The steps that do.
CallMove ==
  \/ CallsUnmoved
  \/ \E t \in Threads, id \in Ids, max \in Limits : StartSend(t, id, max)
  \/ \E t \in Threads : SendEnqueue(t)
  \/ \E c \in Clients, id \in Ids : StartWait(c, id)
  \/ \E c \in Clients : WaitUnknown(c) \/ WaitReturn(c)

\* Every step is one of them.
LEMMA CallFrame ==
    ASSUME Shape, [Next]_vars
    PROVE  CallMove
<1>t. /\ pc \in [Threads -> ClientPC \cup HandlerPC]
      /\ arg \in [Threads -> Ids \cup {None}]
  BY DEF Shape
<1> USE ConstantsAssumption, <1>t DEF Goto, Threads, callVars, queueVars,
        cvVars, ownerVars, objectVars, localVars, historyVars, CallMove,
        CallsUnmoved, Sending, Waiting, Enqueueing
<1>1. CASE UNCHANGED vars  BY <1>1 DEF vars
<1>2. ASSUME NEW t \in Threads, NEW id \in Ids, NEW max \in Limits,
             StartSend(t, id, max)
      PROVE  CallMove
  BY <1>2
<1>3. ASSUME NEW c \in Clients, NEW id \in Ids, StartWait(c, id)
      PROVE  CallMove
  BY <1>3
<1>4. ASSUME NEW c \in Clients, NEW h \in Handlers, AddHandler(c, h)
      PROVE  CallMove
  BY <1>4 DEF AddHandler
<1>5. ASSUME NEW c \in Clients, NEW id \in Disposable, StartDispose(c, id)
      PROVE  CallMove
  BY <1>5 DEF StartDispose
<1>6. ASSUME NEW t \in Threads, SendStep(t)
      PROVE  CallMove
  <2>1. CASE SendLookup(t)  BY <2>1 DEF SendLookup
  <2>2. CASE SendEnqueue(t)  BY <2>2
  <2>3. CASE SendFindsFull(t)  BY <2>3 DEF SendFindsFull
  <2>4. CASE SendDoze(t)  BY <2>4 DEF SendDoze
  <2>5. CASE SendAnnounce(t)  BY <2>5 DEF SendAnnounce, Home, notify_all
  <2> QED  BY <1>6, <2>1, <2>2, <2>3, <2>4, <2>5 DEF SendStep
<1>7. ASSUME NEW c \in Clients, WaitStep(c)
      PROVE  CallMove
  <2>1. CASE WaitUnknown(c)  BY <2>1
  <2>2. CASE WaitLookup(c)  BY <2>2 DEF WaitLookup
  <2>3. CASE WaitReturn(c)  BY <2>3
  <2>4. CASE WaitFindsBusy(c)  BY <2>4 DEF WaitFindsBusy
  <2>5. CASE WaitDoze(c)  BY <2>5 DEF WaitDoze
  <2> QED  BY <1>7, <2>1, <2>2, <2>3, <2>4, <2>5 DEF WaitStep
<1>8. ASSUME NEW c \in Clients, DisposeStep(c)
      PROVE  CallMove
  <2>1. CASE DisposeMembers(c)  BY <2>1 DEF DisposeMembers
  <2>2. CASE DisposeBase(c)  BY <2>2 DEF DisposeBase
  <2>3. CASE DisposeStop(c)  BY <2>3 DEF DisposeStop, MayStop
  <2>4. CASE DisposeNotify(c)  BY <2>4 DEF DisposeNotify, notify_all
  <2>5. CASE DisposeJoin(c)  BY <2>5 DEF DisposeJoin
  <2>6. CASE DisposeReturn(c)  BY <2>6 DEF DisposeReturn
  <2> QED  BY <1>8, <2>1, <2>2, <2>3, <2>4, <2>5, <2>6 DEF DisposeStep
<1>9. ASSUME NEW h \in Handlers, WorkerStep(h)
      PROVE  CallMove
  <2>1. CASE WorkerLoop(h)  BY <2>1 DEF WorkerLoop
  <2>2. CASE WorkerLock(h)
    BY <2>2 DEF WorkerLock, TakeLockAndTest, NeedNotWait
  <2>3. CASE WorkerWake(h)  BY <2>3 DEF WorkerWake, TakeLockAndTest
  <2>4. CASE WorkerDoze(h)  BY <2>4 DEF WorkerDoze
  <2>5. CASE WorkerGet(h)  BY <2>5 DEF WorkerGet
  <2>6. CASE WorkerGetNothing(h)  BY <2>6 DEF WorkerGetNothing
  <2>7. CASE WorkerDispatch(h)  BY <2>7 DEF WorkerDispatch
  <2>8. CASE WorkerDrop(h)  BY <2>8 DEF WorkerDrop
  <2>9. CASE WorkerExit(h)  BY <2>9 DEF WorkerExit
  <2> QED
    BY <1>9, <2>1, <2>2, <2>3, <2>4, <2>5, <2>6, <2>7, <2>8, <2>9 DEF
      WorkerStep
<1>10. ASSUME NEW h \in Handlers, OnMessageStep(h)
      PROVE  CallMove
  <2>1. CASE CallbackReturns(h)  BY <2>1 DEF CallbackReturns
  <2>2. CASE WorkerUncount(h)  BY <2>2 DEF WorkerUncount
  <2>3. CASE WorkerNotify(h)
    BY <2>3 DEF WorkerNotify, notify_all, MayNotify, IsLastBusy
  <2>4. CASE WorkerNeedNotNotify(h)
    BY <2>4 DEF WorkerNeedNotNotify, MayNotify, IsLastBusy
  <2> QED  BY <1>10, <2>1, <2>2, <2>3, <2>4 DEF OnMessageStep
<1>11. ASSUME NEW t \in Threads, SpuriousWakeup(t)
      PROVE  CallMove
  BY <1>11 DEF SpuriousWakeup
<1>12. ASSUME NEW h \in Handlers, CallbackTerminates(h)
      PROVE  CallMove
  BY <1>12 DEF CallbackTerminates
<1>13. ASSUME NEW h \in Handlers, ReadFaults(h)
      PROVE  CallMove
  BY <1>13 DEF ReadFaults
<1> HIDE DEF CallMove
<1> QED
  BY <1>1, <1>2, <1>3, <1>4, <1>5, <1>6, <1>7, <1>8, <1>9, <1>10, <1>11,
     <1>12, <1>13 DEF Next, Call, ClientStep, HandlerStep, Threads

\* SendInv holds when the manager has just been constructed.
LEMMA SendInvInit ==
    ASSUME Init
    PROVE  SendInv
<1>1. /\ \A t \in Threads : pc[t] \in {"idle", "unborn"}
      /\ \A id \in Ids : started[id] = 0 /\ accepted[id] = 0
  BY DEF Init
<1>2. \A id \in Ids : Senders(id) = {}
  BY <1>1 DEF Senders, Sending
<1>3. IsFiniteSet({}) /\ Cardinality({}) = 0
  BY FS_EmptySet
<1>4. \A id \in Ids : /\ IsFiniteSet(Senders(id))
                      /\ started[id] = accepted[id] + Cardinality(Senders(id))
  BY <1>1, <1>2, <1>3, SMT
<1> QED
  BY <1>1, <1>4 DEF SendInv, Sending, Threads

\* Every step preserves SendInv: a send_message joins the senders of its
\* identifier when it starts and leaves them when it enqueues.
LEMMA SendInvStep ==
    ASSUME Shape, CallInv, SendInv, [Next]_vars
    PROVE  SendInv'
<1> DEFINE Count(id) == /\ IsFiniteSet(Senders(id))
                        /\ started[id] = accepted[id] + Cardinality(Senders(id))
<1>t. /\ pc \in [Threads -> ClientPC \cup HandlerPC]
      /\ arg \in [Threads -> Ids \cup {None}]
      /\ started \in [Ids -> Nat] /\ accepted \in [Ids -> Nat]
      /\ \A id \in Ids : Count(id) /\ Cardinality(Senders(id)) \in Nat
  BY FS_CardinalityType DEF Shape, SendInv
<1>0. CallMove
  BY CallFrame
<1>1. ASSUME CallsUnmoved  PROVE  SendInv'
  <2>1. \A id \in Ids : Senders(id)' = Senders(id)
    BY <1>1 DEF CallsUnmoved, Senders
  <2>2. \A t \in Threads :
           pc'[t] \in {"enqueue", "enqueue_doze"} => arg'[t] \in message_queues'
    BY <1>1 DEF CallsUnmoved, SendInv, Enqueueing, Sending
  <2> QED
    BY <1>1, <2>1, <2>2 DEF CallsUnmoved, SendInv, Threads
<1>2. ASSUME NEW t \in Threads, NEW id \in Ids, NEW max \in Limits,
             StartSend(t, id, max)
      PROVE  SendInv'
  <2>1. /\ pc' = [pc EXCEPT ![t] = "lookup"] /\ arg' = [arg EXCEPT ![t] = id]
        /\ started' = [started EXCEPT ![id] = started[id] + 1]
        /\ accepted' = accepted /\ message_queues' = message_queues
        /\ t \in Handlers => id \in Forward[HandlerId[t]]
        /\ pc[t] \notin Sending
    BY <1>2 DEF StartSend, Goto, Home, Sending, queueVars
  <2>2. Senders(id)' = Senders(id) \cup {t} /\ t \notin Senders(id)
    BY <1>t, <2>1 DEF Senders, Sending
  <2>3. \A o \in Ids \ {id} : Senders(o)' = Senders(o)
    BY <1>t, <2>1 DEF Senders, Sending
  <2>4. /\ IsFiniteSet(Senders(id)')
        /\ Cardinality(Senders(id)') = Cardinality(Senders(id)) + 1
    <3>1. IsFiniteSet(Senders(id))  BY <1>t
    <3> QED  BY <2>2, <3>1, FS_AddElement
  <2>5. started'[id] = started[id] + 1 /\ \A o \in Ids \ {id} : started'[o] = started[o]
    BY <1>t, <2>1
  <2>6. Count(id)'
    BY <1>t, <2>1, <2>4, <2>5, SMT
  <2>7. \A o \in Ids : Count(o)'
    BY <1>t, <2>1, <2>3, <2>5, <2>6
  <2>8. \A u \in Threads :
           pc'[u] \in {"enqueue", "enqueue_doze"} => arg'[u] \in message_queues'
    BY <1>t, <2>1 DEF SendInv
  <2>9. \A h \in Handlers : pc'[h] \in Sending => arg'[h] \in Forward[HandlerId[h]]
    BY <1>t, <2>1 DEF SendInv, Threads
  <2> QED
    BY <2>1, <2>7, <2>8, <2>9 DEF SendInv
<1>3. ASSUME NEW t \in Threads, SendEnqueue(t)
      PROVE  SendInv'
  <2> DEFINE id == arg[t]
  <2>1. /\ pc[t] = "enqueue" /\ pc' = [pc EXCEPT ![t] = "announce"] /\ arg' = arg
        /\ accepted' = [accepted EXCEPT ![id] = accepted[id] + 1]
        /\ started' = started /\ message_queues' = message_queues
    BY <1>3 DEF SendEnqueue, Goto, callVars
  <2>2. id \in Ids /\ id \in message_queues
    BY <2>1 DEF CallInv, InCall, SendInv
  <2>3. Senders(id)' = Senders(id) \ {t} /\ t \in Senders(id)
    BY <1>t, <2>1 DEF Senders, Sending
  <2>4. \A o \in Ids \ {id} : Senders(o)' = Senders(o)
    BY <1>t, <2>1 DEF Senders, Sending
  <2>5. /\ IsFiniteSet(Senders(id)')
        /\ Cardinality(Senders(id)') = Cardinality(Senders(id)) - 1
    <3>1. IsFiniteSet(Senders(id))  BY <1>t, <2>2
    <3> QED  BY <2>3, <3>1, FS_RemoveElement
  <2>6. accepted'[id] = accepted[id] + 1 /\ \A o \in Ids \ {id} : accepted'[o] = accepted[o]
    BY <1>t, <2>1, <2>2
  <2>7. Count(id)'
    BY <1>t, <2>1, <2>2, <2>5, <2>6, SMT
  <2>8. \A o \in Ids : Count(o)'
    BY <1>t, <2>1, <2>4, <2>6, <2>7
  <2>9. \A u \in Threads :
           pc'[u] \in {"enqueue", "enqueue_doze"} => arg'[u] \in message_queues'
    BY <1>t, <2>1 DEF SendInv
  <2>10. \A h \in Handlers : pc'[h] \in Sending => arg'[h] \in Forward[HandlerId[h]]
    BY <1>t, <2>1 DEF SendInv, Threads, Sending
  <2>11. \A o \in Ids : accepted'[o] # 0 => o \in message_queues'
    BY <2>1, <2>2, <2>6 DEF SendInv
  <2> QED
    BY <2>8, <2>9, <2>10, <2>11 DEF SendInv
<1>4. ASSUME NEW c \in Clients, pc[c] \in {"idle"} \cup Waiting,
             \E l \in {"idle", "wait_lookup"} : pc' = [pc EXCEPT ![c] = l],
             \E a : arg' = [arg EXCEPT ![c] = a],
             UNCHANGED <<message_queues, started, accepted>>
      PROVE  SendInv'
  <2>1. c \in Threads /\ pc[c] \notin Sending /\ pc'[c] \notin Sending
    BY <1>t, <1>4 DEF Threads, Sending, Waiting
  <2>2. \A t \in Threads \ {c} : pc'[t] = pc[t] /\ arg'[t] = arg[t]
    BY <1>t, <1>4
  <2>3. \A id \in Ids : Senders(id)' = Senders(id)
    BY <2>1, <2>2 DEF Senders
  <2> QED
    BY <1>4, <2>1, <2>2, <2>3 DEF SendInv, Sending, Threads
<1>5. ASSUME NEW c \in Clients, NEW id \in Ids, StartWait(c, id)
      PROVE  SendInv'
  BY <1>4, <1>5 DEF StartWait, Goto, queueVars, historyVars
<1>6. ASSUME NEW c \in Clients, WaitUnknown(c) \/ WaitReturn(c)
      PROVE  SendInv'
  BY <1>4, <1>6 DEF WaitUnknown, WaitReturn, Goto, queueVars, historyVars, Waiting
<1> QED
  BY <1>0, <1>1, <1>2, <1>3, <1>5, <1>6 DEF CallMove

\* Every started send_message has enqueued its message or is on its way.
THEOREM SendInvariance == Spec => []SendInv
<1>1. Init => SendInv
  BY SendInvInit
<1>2. IInv /\ SendInv /\ [Next]_vars => SendInv'
  BY SendInvStep DEF IInv
<1> QED
  BY <1>1, <1>2, Invariance, PTL DEF Spec

-----------------------------------------------------------------------------
(* What wait_until_empty promises *)

\* busy_count = 0 and an empty queue leave no message but handled ones.
LEMMA DrainedIsHandled ==
    ASSUME IInv, NEW id \in Ids, IsDrained(id)
    PROVE  /\ Holders(id) = {}
           /\ Queued(id) = {} /\ InHand(id) = {}
           /\ handled[id] = 1 .. accepted[id]
<1>1. IsFiniteSet(Holders(id)) /\ Cardinality(Holders(id)) \in Nat
  BY HoldersFinite, FS_CardinalityType
<1>2. IsFiniteSet(dropped[id]) /\ Cardinality(dropped[id]) \in Nat
  BY DroppedFinite, FS_CardinalityType DEF IInv
<1>3. Cardinality(Holders(id)) + Cardinality(dropped[id]) = 0
  BY DEF IsDrained, IInv, BusyCountAccounts
<1>4. Cardinality(Holders(id)) = 0 /\ Cardinality(dropped[id]) = 0
  BY <1>1, <1>2, <1>3, SMT
<1>5. Holders(id) = {} /\ dropped[id] = {}
  BY <1>1, <1>2, <1>4, FS_EmptySet
<1>6. Queued(id) = {}
  <2>1. queue[id] = <<>>
    BY DEF IsDrained
  <2> QED
    BY <2>1, SMT DEF Queued, Range
<1>7. InHand(id) = {}
  BY <1>5 DEF InHand
<1>8. 1 .. accepted[id] = Queued(id) \cup InHand(id) \cup handled[id] \cup dropped[id]
  BY PlacesPartition DEF IInv, EveryMessageInOnePlace
<1> QED
  BY <1>5, <1>6, <1>7, <1>8

\* A client leaves the wait of wait_until_empty by returning.
LEMMA DrainEnds ==
    ASSUME Shape, [Next]_vars, NEW c \in Clients, pc[c] = "drain", pc'[c] = "idle"
    PROVE  WaitReturn(c)
<1>1. pc \in [Threads -> ClientPC \cup HandlerPC] /\ c \in Threads
  BY DEF Shape, Threads
<1>2. CallMove
  BY CallFrame
<1>3. ~CallsUnmoved
  BY <1>1 DEF CallsUnmoved, Waiting
<1>4. ASSUME NEW t \in Threads, NEW l, pc' = [pc EXCEPT ![t] = l], pc[t] # "drain"
      PROVE  FALSE
  BY <1>1, <1>4
<1>5. ASSUME NEW t \in Threads, NEW id \in Ids, NEW max \in Limits,
             StartSend(t, id, max)
      PROVE  FALSE
  BY <1>4, <1>5 DEF StartSend, Goto, Home
<1>6. ASSUME NEW t \in Threads, SendEnqueue(t)  PROVE  FALSE
  BY <1>4, <1>6 DEF SendEnqueue, Goto
<1>7. ASSUME NEW d \in Clients, NEW id \in Ids, StartWait(d, id)  PROVE  FALSE
  BY <1>4, <1>7 DEF StartWait, Goto, Threads
<1>8. ASSUME NEW d \in Clients, WaitUnknown(d)  PROVE  FALSE
  BY <1>4, <1>8 DEF WaitUnknown, Goto, Threads
<1>9. ASSUME NEW d \in Clients, WaitReturn(d)  PROVE  d = c
  BY <1>1, <1>9 DEF WaitReturn, Goto
<1> QED
  BY <1>2, <1>3, <1>5, <1>6, <1>7, <1>8, <1>9 DEF CallMove

\* The pipeline of the class documentation: a wait_until_empty that returns when
\* everything upstream is drained, and no client sends, has waited for every
\* message.
LEMMA PipelineStep ==
    ASSUME IInv, SendInv, [Next]_vars, NEW c \in Clients,
           pc[c] = "drain", pc'[c] = "idle",
           \A u \in Ids : arg[c] \in Forward[u] => IsDrained(u),
           \A d \in Clients : pc[d] \notin Sending
    PROVE  handled[arg[c]] = 1 .. started[arg[c]]
<1> DEFINE id == arg[c]
<1>1. WaitReturn(c)
  BY DrainEnds DEF IInv
<1>2. id \in Ids /\ IsDrained(id)
  BY <1>1 DEF WaitReturn, IInv, CallInv, InCall, Threads
<1>3. handled[id] = 1 .. accepted[id]
  BY <1>2, DrainedIsHandled
<1>4. ASSUME NEW h \in Handlers, pc[h] \in Sending, arg[h] = id  PROVE  FALSE
  <2>1. HandlerId[h] \in Ids /\ id \in Forward[HandlerId[h]]
    BY <1>4, ConstantsAssumption DEF SendInv
  <2>2. Holders(HandlerId[h]) = {}
    BY <2>1, DrainedIsHandled
  <2>3. message[h] # 0
    BY <1>4 DEF IInv, HoldInv, HoldOk, Holding, Sending
  <2> QED
    BY <2>2, <2>3 DEF Holders, HandlersOf
<1>5. Senders(id) = {}
  BY <1>4 DEF Senders, Threads
<1>6. Cardinality({}) = 0
  BY FS_EmptySet
<1>7. started[id] = accepted[id]
  <2>1. started[id] = accepted[id] + Cardinality({}) /\ accepted[id] \in Nat
    BY <1>2, <1>5 DEF SendInv, IInv, Shape
  <2> QED
    BY <1>6, <2>1, SMT
<1> QED
  BY <1>3, <1>7

\* PipelineDrained: wait_until_empty on the stages in turn waits for all that
\* was ever sent, whatever the number of stages, handlers and clients.
THEOREM PipelineIsDrained == Spec => PipelineDrained
<1>1. IInv /\ SendInv /\ [Next]_vars =>
        [\A c \in Clients :
          LET id == arg[c]
              upstream == {u \in Ids : id \in Forward[u]}
          IN  /\ pc[c] = "drain" /\ pc'[c] = "idle"
              /\ \A u \in upstream : IsDrained(u)
              /\ \A d \in Clients :
                    pc[d] \notin {"lookup", "enqueue", "enqueue_doze"}
              => handled[id] = 1 .. started[id]]_vars
  BY PipelineStep DEF Sending
<1> QED
  BY <1>1, Invariance, SendInvariance, PTL DEF Spec, PipelineDrained

-----------------------------------------------------------------------------
(* message_manager implements MessageService *)

\* What MessageService calls pending, active and waiting, read off the state.
pendingOf == [id \in Ids |-> Queued(id)]
activeOf == [id \in Ids |-> InHand(id)]
waitingOf == [c \in Clients |->
                 IF pc[c] \in {"wait_lookup", "drain", "drain_doze"}
                 THEN arg[c] ELSE None]

\* A function that differs from another one in one place.
LEMMA ExceptOne ==
    ASSUME NEW S, NEW f, NEW g, f = [s \in S |-> f[s]], g = [s \in S |-> g[s]],
           NEW a \in S, NEW v, g[a] = v, \A s \in S \ {a} : g[s] = f[s]
    PROVE  g = [f EXCEPT ![a] = v]
  BY SMT

\* The elements of a deque.
LEMMA DequeElements ==
    ASSUME NEW q \in Seq(Nat)
    PROVE  \A m : m \in Range(q) <=> m \in Nat /\ Has(q, m)
<1>1. DOMAIN q = 1 .. Len(q) /\ \A i \in 1 .. Len(q) : q[i] \in Nat
  BY SMT
<1> QED
  BY <1>1 DEF Range, Has

\* One deque changes.
LEMMA PendingChanges ==
    ASSUME NEW a \in Ids, NEW v, Queued(a)' = v,
           \A o \in Ids \ {a} : Queued(o)' = Queued(o)
    PROVE  pendingOf' = [pendingOf EXCEPT ![a] = v]
<1> DEFINE f == pendingOf
           g == pendingOf'
<1>1. /\ f = [o \in Ids |-> f[o]] /\ g = [o \in Ids |-> g[o]]
      /\ g[a] = v /\ \A o \in Ids \ {a} : g[o] = f[o]
  BY DEF pendingOf
<1> HIDE DEF f, g
<1>2. g = [f EXCEPT ![a] = v]
  BY <1>1, ExceptOne
<1> QED
  BY <1>2 DEF f, g

\* What the workers of one identifier have in their hands changes.
LEMMA ActiveChanges ==
    ASSUME NEW a \in Ids, NEW v, InHand(a)' = v,
           \A o \in Ids \ {a} : InHand(o)' = InHand(o)
    PROVE  activeOf' = [activeOf EXCEPT ![a] = v]
<1> DEFINE f == activeOf
           g == activeOf'
<1>1. /\ f = [o \in Ids |-> f[o]] /\ g = [o \in Ids |-> g[o]]
      /\ g[a] = v /\ \A o \in Ids \ {a} : g[o] = f[o]
  BY DEF activeOf
<1> HIDE DEF f, g
<1>2. g = [f EXCEPT ![a] = v]
  BY <1>1, ExceptOne
<1> QED
  BY <1>2 DEF f, g

\* A step that leaves the messages where they are.
LEMMA SamePlaces ==
    ASSUME UNCHANGED <<queue, message, handled>>
    PROVE  pendingOf' = pendingOf /\ activeOf' = activeOf
  BY DEF pendingOf, activeOf, Queued, InHand, Holders, HandlersOf

\* A step of a handler, or of a client that is in no wait_until_empty before or
\* after it, leaves the waiting clients alone.
LEMMA SameWaiting ==
    ASSUME Shape, NEW t \in Threads, NEW l, pc' = [pc EXCEPT ![t] = l], arg' = arg,
           t \in Clients => pc[t] \notin Waiting /\ l \notin Waiting
    PROVE  waitingOf' = waitingOf
<1>1. pc \in [Threads -> ClientPC \cup HandlerPC]
  BY DEF Shape
<1>2. \A c \in Clients : /\ arg'[c] = arg[c]
                         /\ pc'[c] \in Waiting <=> pc[c] \in Waiting
  BY <1>1 DEF Threads
<1> QED
  BY <1>2 DEF waitingOf, Waiting

\* The enqueue of send_message accepts a message.
LEMMA EnqueueAccepts ==
    ASSUME Shape, CallInv, QueueInv, Shape', NEW t \in Threads, SendEnqueue(t)
    PROVE  Service!Next
<1>1. PushMoves(t)
  BY PushMovesOne
<1>0. PICK a \in Ids : a = arg[t]
  BY <1>1 DEF PushMoves
<1> DEFINE n == accepted[a] + 1
<1>2. /\ a \in Ids /\ accepted' = [accepted EXCEPT ![a] = n]
      /\ \A k \in Nat : Has(queue'[a], k) <=> Has(queue[a], k) \/ k = n
      /\ \A o \in Ids \ {a} : queue'[o] = queue[o]
  BY <1>0, <1>1 DEF PushMoves
<1>3. n \in Nat
  BY <1>2, SMT DEF Shape
<1>4. /\ \A m : m \in Queued(a) <=> m \in Nat /\ Has(queue[a], m)
      /\ \A m : m \in Queued(a)' <=> m \in Nat /\ Has(queue'[a], m)
  BY <1>2, DequeElements DEF Shape, Queued
<1> HIDE DEF n
<1>5. pendingOf' = [pendingOf EXCEPT ![a] = Queued(a) \cup {n}]
  <2>1. \A m : m \in Queued(a)' <=> m \in Queued(a) \/ m = n
    BY <1>2, <1>3, <1>4
  <2>2. Queued(a)' = Queued(a) \cup {n}
    BY <2>1
  <2>3. \A o \in Ids \ {a} : Queued(o)' = Queued(o)
    BY <1>2 DEF Queued
  <2> QED
    BY <2>2, <2>3, PendingChanges
<1>6. /\ UNCHANGED <<message, handled, dropped, arg>>
      /\ pc[t] = "enqueue" /\ pc' = [pc EXCEPT ![t] = "announce"]
  BY DEF SendEnqueue, localVars, callVars, Goto
<1>7. activeOf' = activeOf
  BY <1>6 DEF activeOf, InHand, Holders, HandlersOf
<1>8. waitingOf' = waitingOf
  BY <1>6, SameWaiting DEF Waiting
<1>9. Service!Accept(a)
  BY <1>2, <1>5, <1>6, <1>7, <1>8 DEF Service!Accept, pendingOf, activeOf, waitingOf, n
<1> QED
  BY <1>2, <1>9 DEF Service!Next

\* get_message takes the oldest, the newest or any pending message, as the
\* order_type of the handler says.
LEMMA GetTakes ==
    ASSUME Shape, QueueInv, HoldInv, PlaceInv, Shape', NEW h \in Handlers, WorkerGet(h)
    PROVE  Service!Next
<1>1. PICK a \in Ids : a = HandlerId[h]
  BY ConstantsAssumption
<1> DEFINE q == queue[a]
<1>2. PICK m \in Nat : PopMoves(h, m)
  BY PopMovesOne
<1>3. /\ m \in 1 .. accepted[a] /\ Has(q, m)
      /\ message' = [message EXCEPT ![h] = m]
      /\ \A k \in Nat : Has(queue'[a], k) <=> Has(q, k) /\ k # m
      /\ \A o \in Ids \ {a} : queue'[o] = queue[o]
  BY <1>1, <1>2 DEF PopMoves
<1>4. /\ q \in Seq(Nat) /\ Len(q) \in Nat /\ accepted[a] \in Nat
      /\ Sorted(q, accepted[a]) /\ Placed(a)
  <2>1. /\ q \in Seq(Nat) /\ accepted[a] \in Nat
        /\ Sorted(q, accepted[a]) /\ Placed(a)
    BY DEF Shape, QueueInv, PlaceInv
  <2> QED  BY <2>1, SMT
<1>5. /\ \A k : k \in Queued(a) <=> k \in Nat /\ Has(q, k)
      /\ \A k : k \in Queued(a)' <=> k \in Nat /\ Has(queue'[a], k)
  BY DequeElements DEF Shape, Queued
<1>6. pendingOf' = [pendingOf EXCEPT ![a] = Queued(a) \ {m}]
  <2>1. \A k : k \in Queued(a)' <=> k \in Queued(a) /\ k # m
    BY <1>3, <1>5
  <2>2. Queued(a)' = Queued(a) \ {m}
    BY <2>1
  <2>3. \A o \in Ids \ {a} : Queued(o)' = Queued(o)
    BY <1>3 DEF Queued
  <2> QED
    BY <2>2, <2>3, PendingChanges
<1>7. /\ UNCHANGED <<accepted, handled, dropped, arg>>
      /\ pc[h] = "get" /\ pc' = [pc EXCEPT ![h] = "popped"]
  BY DEF WorkerGet, historyVars, callVars, Goto
<1>8. /\ message[h] = 0 /\ message'[h] = m
      /\ \A g \in Handlers \ {h} : message'[g] = message[g]
  BY <1>3, <1>7 DEF Shape, HoldInv, HoldOk, Holding
<1>9. m # 0 /\ m \notin handled[a]
  BY <1>3, <1>4, SMT DEF Placed, InQueue
<1>10. activeOf' = [activeOf EXCEPT ![a] = InHand(a) \cup {m}]
  <2>1. \A k : k \in InHand(a)' <=> k \in InHand(a) \/ k = m
    BY <1>1, <1>7, <1>8, <1>9 DEF InHand, Holders, HandlersOf
  <2>2. InHand(a)' = InHand(a) \cup {m}
    BY <2>1
  <2>3. \A o \in Ids \ {a} : InHand(o)' = InHand(o)
    BY <1>1, <1>7, <1>8 DEF InHand, Holders, HandlersOf
  <2> QED
    BY <2>2, <2>3, ActiveChanges
<1>11. waitingOf' = waitingOf
  BY <1>7, SameWaiting, ConstantsAssumption DEF Threads
<1>12. PICK i \in 1 .. Len(q) : q[i] = m /\ i \in PopPositions(h)
  <2>1. PICK i \in 1 .. Len(q) : /\ message' = [message EXCEPT ![h] = q[i]]
                                 /\ i \in PopPositions(h)
    BY <1>1, PopTakesOne
  <2>2. message'[h] = q[i]
    BY <2>1 DEF Shape
  <2> QED
    BY <1>8, <2>1, <2>2
<1>13. Order[h] \in {"FIFO", "FILO", "RANDOM"}
  BY ConstantsAssumption
<1>14. /\ Order[h] = "FIFO" => \A n \in Queued(a) : m <= n
       /\ Order[h] = "FILO" => \A n \in Queued(a) : n <= m
  <2>1. Order[h] = "FIFO" => i = 1
    BY <1>12 DEF PopPositions
  <2>2. Order[h] = "FILO" => i = Len(q)
    BY <1>1, <1>12 DEF PopPositions
  <2>3. ASSUME NEW n \in Queued(a)
        PROVE  /\ i = 1 => m <= n
               /\ i = Len(q) => n <= m
    <3>1. PICK j \in 1 .. Len(q) : q[j] = n
      BY <1>5 DEF Has
    <3>2. /\ q[i] \in Nat /\ q[j] \in Nat
          /\ i < j => q[i] < q[j]
          /\ j < i => q[j] < q[i]
      BY <1>4, <1>5, <1>12, <3>1 DEF Sorted
    <3> HIDE DEF q
    <3> QED
      BY <1>4, <1>12, <3>1, <3>2, SMT
  <2> QED
    BY <2>1, <2>2, <2>3
<1>15. m \in pendingOf[a]
  BY <1>3, <1>5 DEF pendingOf
<1>16. Service!MayTake(Order[h], a, m)
  BY <1>13, <1>14 DEF Service!MayTake
<1>17. Order[h] \in [id \in Ids |-> {Order[g] : g \in HandlersOf(id)}][a]
  BY <1>1 DEF HandlersOf
<1>18. Service!Take(a, m)
  BY <1>6, <1>7, <1>10, <1>11, <1>15, <1>16, <1>17
     DEF Service!Take, pendingOf, activeOf, waitingOf
<1> QED
  BY <1>15, <1>18 DEF Service!Next, pendingOf

\* A worker that is stopped between get_message and on_message loses the
\* message it has popped, if any.
LEMMA DropLoses ==
    ASSUME Shape, PlaceInv, NEW h \in Handlers, WorkerDrop(h)
    PROVE  Service!Next \/ UNCHANGED Service!vars
<1>1. PICK a \in Ids : a = HandlerId[h]
  BY ConstantsAssumption
<1>2. PICK m \in Nat : m = message[h]
  BY DEF Shape
<1>3. /\ UNCHANGED <<queue, accepted, handled, arg>>
      /\ pc[h] = "popped" /\ pc' = [pc EXCEPT ![h] = "loop"]
      /\ dropped' = [dropped EXCEPT ![a] = dropped[a] \cup ({m} \ {0})]
      /\ message'[h] = 0 /\ \A g \in Handlers \ {h} : message'[g] = message[g]
  BY <1>1, <1>2 DEF WorkerDrop, queueVars, callVars, Goto, Shape
<1>4. pendingOf' = pendingOf
  BY <1>3 DEF pendingOf, Queued
<1>5. waitingOf' = waitingOf
  BY <1>3, SameWaiting, ConstantsAssumption DEF Threads
<1>6. CASE m = 0
  <2>1. activeOf' = activeOf
    BY <1>2, <1>3, <1>6 DEF activeOf, InHand, Holders, HandlersOf
  <2>2. dropped[a] \cup ({m} \ {0}) = dropped[a]
    BY <1>6
  <2>3. dropped' = dropped
    BY <1>3, <2>2 DEF Shape
  <2> QED
    BY <1>3, <1>4, <1>5, <2>1, <2>3 DEF Service!vars, pendingOf, activeOf, waitingOf
<1>7. CASE m # 0
  <2>1. h \in HandlersOf(a) /\ Placed(a)
    BY <1>1 DEF HandlersOf, PlaceInv
  <2>2. /\ m \notin handled[a]
        /\ \A g \in HandlersOf(a) \ {h} : message[g] # m
    BY <1>2, <1>3, <1>7, <2>1 DEF Placed
  <2>3. m \in InHand(a)
    BY <1>2, <1>7, <2>1, <2>2 DEF InHand, Holders
  <2>4. \A k : k \in InHand(a)' <=> k \in InHand(a) /\ k # m
    BY <1>2, <1>3, <2>2 DEF InHand, Holders, HandlersOf
  <2>5. InHand(a)' = InHand(a) \ {m}
    BY <2>4
  <2>6. \A o \in Ids \ {a} : InHand(o)' = InHand(o)
    BY <1>1, <1>3 DEF InHand, Holders, HandlersOf
  <2>7. activeOf' = [activeOf EXCEPT ![a] = InHand(a) \ {m}]
    BY <2>5, <2>6, ActiveChanges
  <2>8. dropped' = [dropped EXCEPT ![a] = dropped[a] \cup {m}]
    <3>1. {m} \ {0} = {m}
      BY <1>7
    <3> QED  BY <1>3, <3>1
  <2>9. Service!Lose(a, m)
    BY <1>3, <1>4, <1>5, <2>3, <2>7, <2>8
       DEF Service!Lose, pendingOf, activeOf, waitingOf
  <2> QED
    BY <2>3, <2>9 DEF Service!Next
<1> QED
  BY <1>6, <1>7

\* The end of a callback handles the message of its worker.
LEMMA ReturnHandles ==
    ASSUME Shape, HoldInv, PlaceInv, NEW h \in Handlers, CallbackReturns(h)
    PROVE  Service!Next
<1>1. PICK a \in Ids : a = HandlerId[h]
  BY ConstantsAssumption
<1>2. PICK m \in Nat : m = message[h]
  BY DEF Shape
<1>3. /\ UNCHANGED <<queue, accepted, dropped, message, arg>>
      /\ pc[h] = "callback" /\ pc' = [pc EXCEPT ![h] = "uncount"]
      /\ handled' = [handled EXCEPT ![a] = handled[a] \cup {m}]
  BY <1>1, <1>2 DEF CallbackReturns, queueVars, callVars, localVars, Goto
<1>4. pendingOf' = pendingOf
  BY <1>3 DEF pendingOf, Queued
<1>5. waitingOf' = waitingOf
  BY <1>3, SameWaiting, ConstantsAssumption DEF Threads
<1>6. /\ handled'[a] = handled[a] \cup {m}
      /\ \A o \in Ids \ {a} : handled'[o] = handled[o]
  BY <1>3 DEF Shape
<1>7. m # 0 /\ m \in InHand(a)
  <2>1. h \in HandlersOf(a) /\ Placed(a) /\ m # 0
    BY <1>1, <1>2, <1>3 DEF HandlersOf, PlaceInv, HoldInv, HoldOk, Holding
  <2> QED
    BY <1>2, <1>3, <2>1 DEF Placed, InHand, Holders
<1>8. InHand(a)' = InHand(a) \ {m}
  BY <1>3, <1>6 DEF InHand, Holders, HandlersOf
<1>9. \A o \in Ids \ {a} : InHand(o)' = InHand(o)
  BY <1>3, <1>6 DEF InHand, Holders, HandlersOf
<1>10. activeOf' = [activeOf EXCEPT ![a] = InHand(a) \ {m}]
  BY <1>8, <1>9, ActiveChanges
<1>11. Service!Handle(a, m)
  BY <1>3, <1>4, <1>5, <1>7, <1>10
     DEF Service!Handle, pendingOf, activeOf, waitingOf
<1> QED
  BY <1>7, <1>11 DEF Service!Next

\* The fetch_sub of on_message is no step of the service: the message has been
\* handled before.
LEMMA UncountIsSilent ==
    ASSUME Shape, HoldInv, PlaceInv, NEW h \in Handlers, WorkerUncount(h)
    PROVE  UNCHANGED Service!vars
<1>1. /\ UNCHANGED <<queue, accepted, handled, dropped, arg>>
      /\ pc[h] = "uncount" /\ pc' = [pc EXCEPT ![h] = "notify"]
      /\ message'[h] = 0 /\ \A g \in Handlers \ {h} : message'[g] = message[g]
  BY DEF WorkerUncount, historyVars, callVars, Goto, Shape
<1>2. pendingOf' = pendingOf
  BY <1>1 DEF pendingOf, Queued
<1>3. waitingOf' = waitingOf
  BY <1>1, SameWaiting, ConstantsAssumption DEF Threads
<1>4. HandlerId[h] \in Ids /\ h \in HandlersOf(HandlerId[h]) /\ message[h] # 0
  BY <1>1, ConstantsAssumption DEF HandlersOf, HoldInv, HoldOk, Holding
<1>5. message[h] \in handled[HandlerId[h]]
  BY <1>1, <1>4 DEF PlaceInv, Placed
<1>6. \A id \in Ids : InHand(id)' = InHand(id)
  <2> TAKE id \in Ids
  <2>1. \A k : k \in InHand(id)' <=> k \in InHand(id)
    BY <1>1, <1>5 DEF InHand, Holders, HandlersOf
  <2> QED  BY <2>1
<1>7. activeOf' = activeOf
  BY <1>6 DEF activeOf
<1> QED
  BY <1>1, <1>2, <1>3, <1>7 DEF Service!vars, pendingOf, activeOf, waitingOf

\* One client begins or ends a wait_until_empty.
LEMMA WaitingChanges ==
    ASSUME Shape, NEW c \in Clients, NEW l, NEW a, NEW v,
           pc' = [pc EXCEPT ![c] = l], arg' = [arg EXCEPT ![c] = a],
           v = IF l \in Waiting THEN a ELSE None
    PROVE  waitingOf' = [waitingOf EXCEPT ![c] = v]
<1>1. /\ pc'[c] = l /\ arg'[c] = a
      /\ \A d \in Clients \ {c} : pc'[d] = pc[d] /\ arg'[d] = arg[d]
  BY DEF Shape, Threads
<1> DEFINE f == waitingOf
           g == waitingOf'
<1>2. /\ f = [d \in Clients |-> f[d]] /\ g = [d \in Clients |-> g[d]]
      /\ g[c] = v /\ \A d \in Clients \ {c} : g[d] = f[d]
  BY <1>1 DEF waitingOf, Waiting
<1> HIDE DEF f, g
<1>3. g = [f EXCEPT ![c] = v]
  BY <1>2, ExceptOne
<1> QED
  BY <1>3 DEF f, g

\* A call of wait_until_empty waits.
LEMMA StartWaits ==
    ASSUME Shape, NEW c \in Clients, NEW id \in Ids, StartWait(c, id)
    PROVE  Service!Next
<1>1. /\ pc[c] = "idle" /\ pc' = [pc EXCEPT ![c] = "wait_lookup"]
      /\ arg' = [arg EXCEPT ![c] = id]
      /\ UNCHANGED <<queue, message, accepted, handled, dropped>>
  BY DEF StartWait, Goto, queueVars, localVars, historyVars
<1>2. waitingOf' = [waitingOf EXCEPT ![c] = id]
  BY <1>1, WaitingChanges DEF Waiting
<1>3. waitingOf[c] = None
  BY <1>1 DEF waitingOf
<1>4. pendingOf' = pendingOf /\ activeOf' = activeOf
  BY <1>1, SamePlaces
<1>5. Service!Wait(c, id)
  BY <1>1, <1>2, <1>3, <1>4 DEF Service!Wait, pendingOf, activeOf, waitingOf
<1> QED
  BY <1>5 DEF Service!Next

\* wait_until_empty returns when nothing is pending or active: it has tested
\* that under the queue's mutex, or there is no queue.
LEMMA ReturnReleases ==
    ASSUME IInv, SendInv, NEW c \in Clients, WaitUnknown(c) \/ WaitReturn(c)
    PROVE  Service!Next
<1>1. PICK a \in Ids : a = arg[c]
  BY DEF WaitUnknown, WaitReturn, IInv, CallInv, InCall, Threads
<1>2. /\ pc[c] \in Waiting /\ pc' = [pc EXCEPT ![c] = "idle"]
      /\ arg' = [arg EXCEPT ![c] = None]
      /\ UNCHANGED <<queue, message, accepted, handled, dropped>>
  BY DEF WaitUnknown, WaitReturn, Goto, queueVars, localVars, historyVars, Waiting
<1>3. waitingOf' = [waitingOf EXCEPT ![c] = None]
  BY <1>2, WaitingChanges DEF Waiting, IInv
<1>4. waitingOf[c] = a /\ a # None
  BY <1>1, <1>2, ConstantsAssumption DEF waitingOf, Waiting
<1>5. pendingOf' = pendingOf /\ activeOf' = activeOf
  BY <1>2, SamePlaces
<1>6. CASE WaitUnknown(c)
  <2>1. accepted[a] = 0
    BY <1>1, <1>6 DEF WaitUnknown, SendInv
  <2>2. 1 .. accepted[a] = {}
    BY <2>1, SMT
  <2>3. 1 .. accepted[a] = Queued(a) \cup InHand(a) \cup handled[a] \cup dropped[a]
    BY PlacesPartition DEF IInv, EveryMessageInOnePlace
  <2>4. Queued(a) = {} /\ InHand(a) = {}
    BY <2>2, <2>3
  <2>5. Service!Release(c)
    BY <1>2, <1>3, <1>4, <1>5, <2>4 DEF Service!Release, pendingOf, activeOf, waitingOf
  <2> QED
    BY <2>5 DEF Service!Next
<1>7. CASE WaitReturn(c)
  <2>1. Queued(a) = {} /\ InHand(a) = {}
    BY <1>1, <1>7, DrainedIsHandled DEF WaitReturn
  <2>2. Service!Release(c)
    BY <1>2, <1>3, <1>4, <1>5, <2>1 DEF Service!Release, pendingOf, activeOf, waitingOf
  <2> QED
    BY <2>2 DEF Service!Next
<1> QED
  BY <1>6, <1>7

\* Every step of message_manager is a step of MessageService or none.
LEMMA ServiceStep ==
    ASSUME IInv, IInv', SendInv, [Next]_vars
    PROVE  Service!Next \/ UNCHANGED Service!vars
<1>1. MessageMove /\ CallMove
  BY MessageFrame, CallFrame DEF IInv
<1>2. ASSUME NEW t \in Threads, SendEnqueue(t)  PROVE  Service!Next
  BY <1>2, EnqueueAccepts DEF IInv
<1>3. ASSUME NEW h \in Handlers, WorkerGet(h)  PROVE  Service!Next
  BY <1>3, GetTakes DEF IInv
<1>4. ASSUME NEW h \in Handlers, WorkerDrop(h)
      PROVE  Service!Next \/ UNCHANGED Service!vars
  BY <1>4, DropLoses DEF IInv
<1>5. ASSUME NEW h \in Handlers, CallbackReturns(h)  PROVE  Service!Next
  BY <1>5, ReturnHandles DEF IInv
<1>6. ASSUME NEW h \in Handlers, WorkerUncount(h)  PROVE  UNCHANGED Service!vars
  BY <1>6, UncountIsSilent DEF IInv
<1>7. ASSUME NEW c \in Clients, NEW id \in Ids, StartWait(c, id)  PROVE  Service!Next
  BY <1>7, StartWaits DEF IInv
<1>8. ASSUME NEW c \in Clients, WaitUnknown(c) \/ WaitReturn(c)  PROVE  Service!Next
  BY <1>8, ReturnReleases
<1>9. ASSUME MessagesUnmoved, waitingOf' = waitingOf  PROVE  UNCHANGED Service!vars
  <2>1. pendingOf' = pendingOf /\ activeOf' = activeOf
    BY <1>9, SamePlaces DEF MessagesUnmoved
  <2> QED
    BY <1>9, <2>1 DEF MessagesUnmoved, Service!vars, pendingOf, activeOf, waitingOf
<1>10. ASSUME CallsUnmoved  PROVE  waitingOf' = waitingOf
  BY <1>10 DEF CallsUnmoved, waitingOf, Waiting, Threads
<1>11. ASSUME NEW t \in Threads, NEW id \in Ids, NEW max \in Limits,
              StartSend(t, id, max)
       PROVE  waitingOf' = waitingOf
  <2>1. /\ pc[t] \notin Waiting /\ pc' = [pc EXCEPT ![t] = "lookup"]
        /\ arg' = [arg EXCEPT ![t] = id]
    BY <1>11 DEF StartSend, Goto, Home, Waiting
  <2>2. \A c \in Clients : /\ pc'[c] \in Waiting <=> pc[c] \in Waiting
                           /\ pc[c] \in Waiting => arg'[c] = arg[c]
    BY <2>1 DEF IInv, Shape, Threads, Waiting
  <2> QED
    BY <2>2 DEF waitingOf, Waiting
<1> QED
  BY <1>1, <1>2, <1>3, <1>4, <1>5, <1>6, <1>7, <1>8, <1>9, <1>10, <1>11
     DEF MessageMove, CallMove

\* message_manager implements MessageService, for any clients, handlers,
\* order_types, limits and forwarding callbacks: messages are taken in the
\* order_type of a handler, and wait_until_empty returns only when nothing is
\* pending or active.
THEOREM ServiceRefinement == Spec => ImplementsService
<1>1. Init => Service!Init
  <2> SUFFICES ASSUME Init PROVE Service!Init
    OBVIOUS
  <2>1. \A id \in Ids : queue[id] = <<>> /\ Holders(id) = {}
    BY DEF Init, Holders, HandlersOf
  <2>2. Range(<<>>) = {}
    BY SMT DEF Range
  <2>3. \A id \in Ids : Queued(id) = {} /\ InHand(id) = {}
    BY <2>1, <2>2 DEF Queued, InHand
  <2>4. \A c \in Clients : pc[c] = "idle"
    BY DEF Init, Threads
  <2> QED
    BY <2>3, <2>4 DEF Init, Service!Init
<1>2. IInv /\ IInv' /\ SendInv /\ [Next]_vars => [Service!Next]_(Service!vars)
  BY ServiceStep
<1> QED
  BY <1>1, <1>2, Invariance, SendInvariance, PTL DEF Spec, ImplementsService, Service!Spec
=============================================================================
