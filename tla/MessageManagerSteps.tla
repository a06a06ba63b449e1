------------------------ MODULE MessageManagerSteps -------------------------
(* What the actions of MessageManager that move messages or destroy handlers *)
(* do, and that every action keeps what the mutexes protect, the shape of the *)
(* state, the arguments of the calls in progress, and every message in its   *)
(* place.                                                                    *)
EXTENDS MessageManagerInv, TLAPS

\* The steps that need arithmetic, or many equalities, name SMT.
USE Zenon

(* Sequences *)

\* Removing one element of a strictly increasing sequence removes exactly
\* that value and keeps the order (get_message on the deque, all three
\* order_types).
LEMMA SortedPop ==
    ASSUME NEW q \in Seq(Nat), NEW b \in Nat, Sorted(q, b),
           NEW i \in 1 .. Len(q), NEW r \in Seq(Nat),
           Len(r) = Len(q) - 1,
           \A j \in 1 .. Len(q) - 1 :
              r[j] = IF j < i THEN q[j] ELSE q[j + 1]
    PROVE  /\ Sorted(r, b)
           /\ \A n \in Nat : Has(r, n) <=> Has(q, n) /\ n # q[i]
<1> DEFINE src(j) == IF j < i THEN j ELSE j + 1
<1>1. Len(q) \in Nat /\ Len(r) \in Nat
  BY SMT
<1>2. ASSUME NEW j \in 1 .. Len(r)
      PROVE  src(j) \in 1 .. Len(q) /\ src(j) # i /\ r[j] = q[src(j)]
  <2>1. j \in 1 .. Len(q) - 1 /\ r[j] = IF j < i THEN q[j] ELSE q[j + 1]
    BY <1>1
  <2>2. CASE j < i  BY <1>1, <2>1, <2>2, SMT
  <2>3. CASE ~(j < i)  BY <1>1, <2>1, <2>3, SMT
  <2> QED  BY <2>2, <2>3
<1>3. ASSUME NEW j \in 1 .. Len(r), NEW k \in 1 .. Len(r), j < k
      PROVE  src(j) < src(k)
  <2>1. i \in Int /\ j \in Int /\ k \in Int
    BY <1>1, SMT
  <2>2. CASE k < i  BY <1>3, <2>1, <2>2, SMT
  <2>3. CASE ~(k < i) /\ j < i  BY <1>3, <2>1, <2>3, SMT
  <2>4. CASE ~(k < i) /\ ~(j < i)  BY <1>3, <2>1, <2>4, SMT
  <2> QED  BY <2>2, <2>3, <2>4
<1>4. ASSUME NEW k \in 1 .. Len(q), k # i
      PROVE  \E j \in 1 .. Len(r) : src(j) = k
  <2>1. CASE k < i
    <3>1. k \in 1 .. Len(r) /\ src(k) = k  BY <1>1, <2>1, SMT
    <3> QED  BY <3>1
  <2>2. CASE k > i
    <3>1. k - 1 \in 1 .. Len(r) /\ src(k - 1) = k  BY <1>1, <2>2, SMT
    <3> QED  BY <3>1
  <2> QED  BY <1>4, <2>1, <2>2, SMT
<1> HIDE DEF src
<1>5. \A k \in 1 .. Len(q) : k # i => q[k] # q[i]
  <2> TAKE k \in 1 .. Len(q)
  <2>1. q[k] \in Int /\ q[i] \in Int
    BY SMT
  <2>2. CASE k < i  BY <2>1, <2>2, SMT DEF Sorted
  <2>3. CASE i < k  BY <2>1, <2>3, SMT DEF Sorted
  <2> QED  BY <2>2, <2>3, SMT
<1>6. Sorted(r, b)
  <2>1. \A j \in 1 .. Len(r) : r[j] \in 1 .. b
    BY <1>2 DEF Sorted
  <2>2. ASSUME NEW j \in 1 .. Len(r), NEW k \in 1 .. Len(r), j < k
        PROVE  r[j] < r[k]
    <3>1. src(j) < src(k)  BY <1>3, <2>2
    <3>2. q[src(j)] < q[src(k)]  BY <1>2, <3>1 DEF Sorted
    <3> QED  BY <1>2, <3>2
  <2> QED  BY <2>1, <2>2 DEF Sorted
<1>7. ASSUME NEW n \in Nat
      PROVE  Has(r, n) <=> Has(q, n) /\ n # q[i]
  <2>1. ASSUME NEW j \in 1 .. Len(r), r[j] = n
        PROVE  Has(q, n) /\ n # q[i]
    BY <1>2, <1>5, <2>1 DEF Has
  <2>2. ASSUME NEW k \in 1 .. Len(q), q[k] = n, n # q[i]
        PROVE  Has(r, n)
    <3>1. PICK j \in 1 .. Len(r) : src(j) = k  BY <1>4, <2>2
    <3> QED  BY <1>2, <2>2, <3>1 DEF Has
  <2> QED  BY <2>1, <2>2 DEF Has
<1> QED
  BY <1>6, <1>7

\* Appending the next number to a strictly increasing sequence (the push_back
\* of send_message).
LEMMA SortedPush ==
    ASSUME NEW q \in Seq(Nat), NEW b \in Nat, Sorted(q, b),
           NEW r \in Seq(Nat),
           Len(r) = Len(q) + 1,
           r[Len(q) + 1] = b + 1,
           \A j \in 1 .. Len(q) : r[j] = q[j]
    PROVE  /\ Sorted(r, b + 1)
           /\ \A n \in Nat : Has(r, n) <=> Has(q, n) \/ n = b + 1
<1>1. Len(q) \in Nat /\ Len(r) \in Nat
  BY SMT
<1>2. ASSUME NEW j \in 1 .. Len(r)
      PROVE  \/ j \in 1 .. Len(q) /\ r[j] = q[j]
             \/ j = Len(q) + 1 /\ r[j] = b + 1
  BY <1>1, SMT
<1>3. \A j \in 1 .. Len(q) : j \in 1 .. Len(r) /\ r[j] = q[j] /\ q[j] \in 1 .. b
  BY <1>1, SMT DEF Sorted
<1>4. ASSUME NEW j \in 1 .. Len(r)
      PROVE  r[j] \in 1 .. b + 1
  <2>1. CASE j \in 1 .. Len(q)
    <3>1. r[j] \in 1 .. b  BY <1>3, <2>1
    <3> QED  BY <3>1, SMT
  <2>2. CASE r[j] = b + 1  BY <2>2, SMT
  <2> QED  BY <1>2, <2>1, <2>2
<1>5. ASSUME NEW j \in 1 .. Len(r), NEW k \in 1 .. Len(r), j < k
      PROVE  r[j] < r[k]
  <2>1. j \in 1 .. Len(q) /\ r[j] = q[j] /\ q[j] \in 1 .. b
    <3>1. j \in 1 .. Len(q)  BY <1>1, <1>5, SMT
    <3> QED  BY <1>3, <3>1
  <2>2. CASE k \in 1 .. Len(q)  BY <1>3, <1>5, <2>1, <2>2 DEF Sorted
  <2>3. CASE r[k] = b + 1
    <3>1. \A x \in 1 .. b : x < b + 1  BY SMT
    <3> QED  BY <2>1, <2>3, <3>1
  <2> QED  BY <1>2, <2>2, <2>3
<1>6. ASSUME NEW n \in Nat
      PROVE  Has(r, n) <=> Has(q, n) \/ n = b + 1
  <2>1. ASSUME NEW j \in 1 .. Len(r), r[j] = n
        PROVE  Has(q, n) \/ n = b + 1
    BY <1>2, <2>1 DEF Has
  <2>2. ASSUME NEW k \in 1 .. Len(q), q[k] = n
        PROVE  Has(r, n)
    BY <1>3, <2>2 DEF Has
  <2>3. Len(q) + 1 \in 1 .. Len(r)
    BY <1>1, SMT
  <2> QED  BY <2>1, <2>2, <2>3 DEF Has
<1> QED
  BY <1>4, <1>5, <1>6 DEF Sorted

\* Rest(s, i) is s without its element i (the pop of get_message).
LEMMA RestProperties ==
    ASSUME NEW S, NEW s \in Seq(S), NEW i \in 1 .. Len(s)
    PROVE  /\ Rest(s, i) \in Seq(S)
           /\ Len(Rest(s, i)) = Len(s) - 1
           /\ \A j \in 1 .. Len(s) - 1 :
                 Rest(s, i)[j] = IF j < i THEN s[j] ELSE s[j + 1]
<1> DEFINE a == SubSeq(s, 1, i - 1)
           b == SubSeq(s, i + 1, Len(s))
<1>1. a \in Seq(S) /\ Len(a) = i - 1 /\ \A j \in 1 .. i - 1 : a[j] = s[j]
  BY SMT
<1>2. /\ b \in Seq(S) /\ Len(b) = Len(s) - i
      /\ \A j \in 1 .. Len(s) - i : b[j] = s[j + i]
  BY SMT
<1>3. Rest(s, i) = a \o b
  BY DEF Rest
<1> HIDE DEF a, b
<1>4. /\ a \o b \in Seq(S)
      /\ Len(a \o b) = Len(a) + Len(b)
      /\ \A j \in 1 .. Len(a) + Len(b) :
            (a \o b)[j] = IF j <= Len(a) THEN a[j] ELSE b[j - Len(a)]
  <2>1. a \in Seq(S) /\ b \in Seq(S)
    BY <1>1, <1>2
  <2>2. a \o b \in Seq(S) /\ Len(a \o b) = Len(a) + Len(b)
    BY <2>1, SMT
  <2>3. ASSUME NEW j \in 1 .. Len(a) + Len(b)
        PROVE  (a \o b)[j] = IF j <= Len(a) THEN a[j] ELSE b[j - Len(a)]
    BY <2>1, SMT
  <2> QED  BY <2>2, <2>3
<1>5. Len(a \o b) = Len(s) - 1
  BY <1>1, <1>2, <1>4, SMT
<1>6. \A j \in 1 .. Len(s) - 1 :
         (a \o b)[j] = IF j < i THEN s[j] ELSE s[j + 1]
  BY <1>1, <1>2, <1>4, SMT
<1>7. QED
  BY <1>3, <1>4, <1>5, <1>6

-----------------------------------------------------------------------------
(* Pop, push and destroy *)

\* get_message takes an element that exists: the test of is_message_available
\* under the mutex is still true.
LEMMA PopTakesOne ==
    ASSUME Shape, HoldInv, NEW h \in Handlers, WorkerGet(h)
    PROVE  LET id == HandlerId[h] IN
           \E i \in 1 .. Len(queue[id]) :
              /\ message' = [message EXCEPT ![h] = queue[id][i]]
              /\ queue' = [queue EXCEPT ![id] = Rest(queue[id], i)]
              /\ i \in PopPositions(h)
              /\ queue[id][i] \in Nat
              /\ Rest(queue[id], i) \in Seq(Nat)
              /\ Len(Rest(queue[id], i)) = Len(queue[id]) - 1
              /\ \A j \in 1 .. Len(queue[id]) - 1 :
                    Rest(queue[id], i)[j] =
                        IF j < i THEN queue[id][j] ELSE queue[id][j + 1]
<1> DEFINE q == queue[HandlerId[h]]
<1>1. q \in Seq(Nat) /\ Order[h] \in {"FIFO", "FILO", "RANDOM"}
  BY ConstantsAssumption DEF Shape
<1>2. q # <<>>
  BY DEF HoldInv, HoldOk, WorkerGet
<1>3. Len(q) \in Nat /\ Len(q) > 0
  BY <1>1, <1>2, SMT
<1>4. PopPositions(h) \subseteq 1 .. Len(q)
  BY <1>1, <1>3, SMT DEF PopPositions
<1>5. \E i \in PopPositions(h) :
         /\ message' = [message EXCEPT ![h] = queue[HandlerId[h]][i]]
         /\ queue' = [queue EXCEPT ![HandlerId[h]] = Rest(queue[HandlerId[h]], i)]
  BY ConstantsAssumption DEF WorkerGet, Shape
<1>6. \A i \in 1 .. Len(q) : q[i] \in Nat
  BY <1>1, SMT
<1>7. \A i \in 1 .. Len(q) :
         /\ Rest(q, i) \in Seq(Nat)
         /\ Len(Rest(q, i)) = Len(q) - 1
         /\ \A j \in 1 .. Len(q) - 1 :
               Rest(q, i)[j] = IF j < i THEN q[j] ELSE q[j + 1]
  <2> HIDE DEF q
  <2> QED  BY <1>1, RestProperties
<1> QED
  BY <1>4, <1>5, <1>6, <1>7

\* The enqueue of send_message appends one message to its own queue.
LEMMA PushAppends ==
    ASSUME Shape, CallInv, NEW t \in Threads, SendEnqueue(t)
    PROVE  LET id == arg[t] IN
           /\ id \in Ids
           /\ queue' = [queue EXCEPT ![id] = Append(queue[id], accepted[id] + 1)]
           /\ Append(queue[id], accepted[id] + 1) \in Seq(Nat)
           /\ Append(queue[id], accepted[id] + 1) # <<>>
           /\ Len(Append(queue[id], accepted[id] + 1)) = Len(queue[id]) + 1
           /\ Append(queue[id], accepted[id] + 1)[Len(queue[id]) + 1] = accepted[id] + 1
           /\ \A i \in 1 .. Len(queue[id]) :
                 Append(queue[id], accepted[id] + 1)[i] = queue[id][i]
<1> DEFINE q == queue[arg[t]]
           m == accepted[arg[t]] + 1
<1>1. arg[t] \in Ids /\ q \in Seq(Nat) /\ m \in Nat
  BY SMT DEF SendEnqueue, Shape, CallInv, InCall
<1>2. queue' = [queue EXCEPT ![arg[t]] = Append(q, m)]
  BY <1>1 DEF SendEnqueue, Shape
<1> HIDE DEF q, m
<1>3. /\ Append(q, m) \in Seq(Nat)
      /\ Append(q, m) # <<>>
      /\ Len(Append(q, m)) = Len(q) + 1
      /\ Append(q, m)[Len(q) + 1] = m
      /\ \A i \in 1 .. Len(q) : Append(q, m)[i] = q[i]
  BY <1>1, SMT
<1> QED
  BY <1>1, <1>2, <1>3 DEF q, m

\* dispose destroys a live object of its own identifier (~message_handler).
LEMMA DestroysOnce ==
    ASSUME Shape, CallInv, DisposeInv, NEW c \in Clients, DisposeMembers(c)
    PROVE  \E h \in HandlersOf(arg[c]) :
              /\ arg[c] \in Ids
              /\ h \in threads[arg[c]]
              /\ object[h] = "alive"
              /\ victim' = [victim EXCEPT ![c] = h]
              /\ object' = [object EXCEPT ![h] = "members_gone"]
<1>1. arg[c] \in Ids /\ threads[arg[c]] \subseteq HandlersOf(arg[c])
  BY DEF DisposeMembers, Shape, CallInv, InCall, Threads
<1>2. manager_mutex = c /\ pc[c] = "dispose"
  BY DEF DisposeMembers, DisposeInv
<1>3. \A h \in threads[arg[c]] : object[h] = "alive"
  BY <1>1, <1>2 DEF DisposeInv, Destroying
<1> QED
  BY <1>1, <1>3 DEF DisposeMembers, HandlersOf

\* What get_message leaves alone, and what it does to message.
PopEffect(h) ==
    /\ queue[HandlerId[h]] # <<>>
    /\ \A id \in Ids : id # HandlerId[h] => queue'[id] = queue[id]
    /\ message'[h] # 0
    /\ \A g \in Handlers : g # h => message'[g] = message[g]

\* PopEffect holds of get_message.
LEMMA PopFrame ==
    ASSUME Shape, QueueInv, HoldInv, NEW h \in Handlers, WorkerGet(h)
    PROVE  PopEffect(h)
<1> DEFINE id == HandlerId[h]
<1>1. PICK i \in 1 .. Len(queue[id]) :
         /\ message' = [message EXCEPT ![h] = queue[id][i]]
         /\ queue' = [queue EXCEPT ![id] = Rest(queue[id], i)]
  BY PopTakesOne
<1>2. id \in Ids /\ queue[id] \in Seq(Nat) /\ accepted[id] \in Nat
  BY ConstantsAssumption DEF Shape
<1>3. queue[id][i] \in 1 .. accepted[id]
  BY <1>2 DEF QueueInv, Sorted
<1>4. queue[id] # <<>>
  BY <1>2, SMT
<1>5. queue[id][i] # 0
  BY <1>2, <1>3, SMT
<1> QED
  BY <1>1, <1>2, <1>4, <1>5 DEF PopEffect, Shape

\* send_message empties no queue.
PushEffect ==
    \A id \in Ids : queue[id] # <<>> => queue'[id] # <<>>

\* PushEffect holds of the enqueue of send_message.
LEMMA PushFrame ==
    ASSUME Shape, CallInv, NEW t \in Threads, SendEnqueue(t)
    PROVE  PushEffect
<1>1. /\ arg[t] \in Ids
      /\ queue' = [queue EXCEPT ![arg[t]] = Append(queue[arg[t]], accepted[arg[t]] + 1)]
      /\ Append(queue[arg[t]], accepted[arg[t]] + 1) # <<>>
  BY PushAppends
<1> QED
  BY <1>1 DEF PushEffect, Shape

\* Entering ~message_handler leaves every object's dispatch to
\* message_handler as it is, and the other destructions alone.
DestroyEffect(c) ==
    /\ \A h \in Handlers : object'[h] = "base" <=> object[h] = "base"
    /\ \A d \in Clients : d # c => victim'[d] = victim[d]

\* DestroyEffect holds of the first step of ~message_handler.
LEMMA DestroyFrame ==
    ASSUME Shape, CallInv, DisposeInv, NEW c \in Clients, DisposeMembers(c)
    PROVE  DestroyEffect(c)
<1>1. PICK h \in HandlersOf(arg[c]) :
         /\ object[h] = "alive"
         /\ victim' = [victim EXCEPT ![c] = h]
         /\ object' = [object EXCEPT ![h] = "members_gone"]
  BY DestroysOnce
<1> QED
  BY <1>1 DEF DestroyEffect, Shape, HandlersOf

\* Effect of get_message on the places of messages: m leaves the queue of h's
\* identifier and is in the hands of h.
PopMoves(h, m) ==
  LET id == HandlerId[h] IN
    /\ m \in 1 .. accepted[id]
    /\ Has(queue[id], m)
    /\ message' = [message EXCEPT ![h] = m]
    /\ \A n \in Nat : Has(queue'[id], n) <=> Has(queue[id], n) /\ n # m
    /\ \A o \in Ids \ {id} : queue'[o] = queue[o]

\* get_message keeps the queue sorted and moves one message.
LEMMA PopMovesOne ==
    ASSUME Shape, QueueInv, HoldInv, NEW h \in Handlers, WorkerGet(h)
    PROVE  QueueInv' /\ \E m \in Nat : PopMoves(h, m)
<1> DEFINE id == HandlerId[h]
           q == queue[id]
<1>1. PICK i \in 1 .. Len(q) :
         /\ message' = [message EXCEPT ![h] = q[i]]
         /\ queue' = [queue EXCEPT ![id] = Rest(q, i)]
         /\ Rest(q, i) \in Seq(Nat)
         /\ Len(Rest(q, i)) = Len(q) - 1
         /\ \A j \in 1 .. Len(q) - 1 :
               Rest(q, i)[j] = IF j < i THEN q[j] ELSE q[j + 1]
  BY PopTakesOne
<1>2. id \in Ids /\ q \in Seq(Nat) /\ accepted[id] \in Nat
  BY ConstantsAssumption DEF Shape
<1>3. Sorted(q, accepted[id])
  BY <1>2 DEF QueueInv
<1>4. queue'[id] = Rest(q, i) /\ \A o \in Ids \ {id} : queue'[o] = queue[o]
  BY <1>1, <1>2 DEF Shape
<1>5. accepted' = accepted
  BY DEF WorkerGet, historyVars
<1> DEFINE r == Rest(q, i)
           b == accepted[id]
<1> HIDE DEF q, r, b
<1>6. /\ Sorted(r, b)
      /\ \A n \in Nat : Has(r, n) <=> Has(q, n) /\ n # q[i]
  <2>1. /\ Len(r) = Len(q) - 1
        /\ \A j \in 1 .. Len(q) - 1 : r[j] = IF j < i THEN q[j] ELSE q[j + 1]
        /\ r \in Seq(Nat) /\ q \in Seq(Nat) /\ b \in Nat /\ Sorted(q, b)
    BY <1>1, <1>2, <1>3 DEF r, b
  <2> QED
    BY <2>1, SortedPop
<1>7. q[i] \in 1 .. accepted[id] /\ Has(q, q[i]) /\ q[i] \in Nat
  BY <1>2, <1>3, SMT DEF Sorted, Has
<1>8. PopMoves(h, q[i])
  BY <1>1, <1>4, <1>6, <1>7 DEF PopMoves, q, r
<1>9. QueueInv'
  BY <1>4, <1>5, <1>6 DEF QueueInv, r, b
<1> QED
  BY <1>7, <1>8, <1>9

\* Effect of the enqueue of send_message: the next message joins the queue.
PushMoves(t) ==
  LET id == arg[t] IN
    /\ id \in Ids
    /\ accepted' = [accepted EXCEPT ![id] = accepted[id] + 1]
    /\ \A n \in Nat : Has(queue'[id], n) <=> Has(queue[id], n) \/ n = accepted[id] + 1
    /\ \A o \in Ids \ {id} : queue'[o] = queue[o]

\* send_message keeps the queue sorted and adds one message.
LEMMA PushMovesOne ==
    ASSUME Shape, CallInv, QueueInv, NEW t \in Threads, SendEnqueue(t)
    PROVE  QueueInv' /\ PushMoves(t)
<1> DEFINE id == arg[t]
           q == queue[id]
           b == accepted[id]
           r == Append(q, b + 1)
<1>1. /\ id \in Ids
      /\ queue' = [queue EXCEPT ![id] = r]
      /\ r \in Seq(Nat)
      /\ Len(r) = Len(q) + 1
      /\ r[Len(q) + 1] = b + 1
      /\ \A i \in 1 .. Len(q) : r[i] = q[i]
  BY PushAppends
<1>2. q \in Seq(Nat) /\ b \in Nat /\ Sorted(q, b)
  BY <1>1 DEF Shape, QueueInv
<1>3. queue'[id] = r /\ \A o \in Ids \ {id} : queue'[o] = queue[o]
  BY <1>1 DEF Shape
<1>4. /\ accepted' = [accepted EXCEPT ![id] = b + 1]
      /\ accepted'[id] = b + 1 /\ \A o \in Ids \ {id} : accepted'[o] = accepted[o]
  BY <1>1 DEF SendEnqueue, Shape
<1> HIDE DEF q, r, b
<1>5. /\ Sorted(r, b + 1)
      /\ \A n \in Nat : Has(r, n) <=> Has(q, n) \/ n = b + 1
  BY <1>1, <1>2, SortedPush
<1>6. PushMoves(t)
  <2>1. \A n \in Nat : Has(queue'[id], n) <=> Has(queue[id], n) \/ n = accepted[id] + 1
    BY <1>3, <1>5 DEF q, b
  <2> QED
    BY <1>1, <1>3, <1>4, <2>1 DEF PushMoves, b
<1>7. QueueInv'
  BY <1>3, <1>4, <1>5 DEF QueueInv
<1> QED
  BY <1>6, <1>7

-----------------------------------------------------------------------------
(* The frame of every other action *)

\* A step that moves no message.
MessagesUnmoved ==
  /\ UNCHANGED <<queue, accepted, message, handled, dropped, busy_count>>
  /\ \/ UNCHANGED still_busy
     \/ \E h \in Handlers : still_busy' = [still_busy EXCEPT ![h] = 0]
  /\ \A h \in Handlers : pc'[h] = "uncount" <=> pc[h] = "uncount"

\* The steps that move messages.
MessageMove ==
  \/ MessagesUnmoved
  \/ \E t \in Threads : SendEnqueue(t)
  \/ \E h \in Handlers : \/ WorkerGet(h) \/ WorkerDrop(h)
                          \/ CallbackReturns(h) \/ WorkerUncount(h)

\* Only send_message's enqueue, get_message, the dropped message_data of
\* worker, the end of the callback and the fetch_sub of on_message move
\* messages.
LEMMA MessageFrame ==
    ASSUME Shape, CallInv, [Next]_vars
    PROVE  MessageMove
<1>t. /\ pc \in [Threads -> ClientPC \cup HandlerPC]
  BY DEF Shape
<1> USE ConstantsAssumption, <1>t DEF Goto, Threads, callVars, queueVars,
        cvVars, ownerVars, objectVars, localVars, historyVars, MessageMove,
        MessagesUnmoved
<1>1. CASE UNCHANGED vars  BY <1>1 DEF vars
<1>2. ASSUME NEW t \in Threads, NEW id \in Ids, NEW max \in Limits,
             StartSend(t, id, max)
      PROVE  MessageMove
  BY <1>2 DEF StartSend, Home
<1>3. ASSUME NEW c \in Clients, NEW id \in Ids, StartWait(c, id)
      PROVE  MessageMove
  BY <1>3 DEF StartWait
<1>4. ASSUME NEW c \in Clients, NEW h \in Handlers, AddHandler(c, h)
      PROVE  MessageMove
  BY <1>4 DEF AddHandler
<1>5. ASSUME NEW c \in Clients, NEW id \in Disposable, StartDispose(c, id)
      PROVE  MessageMove
  BY <1>5 DEF StartDispose
<1>6. ASSUME NEW t \in Threads, SendStep(t)
      PROVE  MessageMove
  <2>1. CASE SendLookup(t)  BY <2>1 DEF SendLookup
  <2>2. CASE SendEnqueue(t)  BY <2>2
  <2>3. CASE SendFindsFull(t)  BY <2>3 DEF SendFindsFull
  <2>4. CASE SendDoze(t)  BY <2>4 DEF SendDoze
  <2>5. CASE SendAnnounce(t)  BY <2>5 DEF SendAnnounce, Home, notify_all
  <2> QED  BY <1>6, <2>1, <2>2, <2>3, <2>4, <2>5 DEF SendStep
<1>7. ASSUME NEW c \in Clients, WaitStep(c)
      PROVE  MessageMove
  <2>1. CASE WaitUnknown(c)  BY <2>1 DEF WaitUnknown
  <2>2. CASE WaitLookup(c)  BY <2>2 DEF WaitLookup
  <2>3. CASE WaitReturn(c)  BY <2>3 DEF WaitReturn
  <2>4. CASE WaitFindsBusy(c)  BY <2>4 DEF WaitFindsBusy
  <2>5. CASE WaitDoze(c)  BY <2>5 DEF WaitDoze
  <2> QED  BY <1>7, <2>1, <2>2, <2>3, <2>4, <2>5 DEF WaitStep
<1>8. ASSUME NEW c \in Clients, DisposeStep(c)
      PROVE  MessageMove
  <2>1. CASE DisposeMembers(c)  BY <2>1 DEF DisposeMembers
  <2>2. CASE DisposeBase(c)  BY <2>2 DEF DisposeBase
  <2>3. CASE DisposeStop(c)  BY <2>3 DEF DisposeStop, MayStop
  <2>4. CASE DisposeNotify(c)  BY <2>4 DEF DisposeNotify, notify_all
  <2>5. CASE DisposeJoin(c)  BY <2>5 DEF DisposeJoin
  <2>6. CASE DisposeReturn(c)  BY <2>6 DEF DisposeReturn
  <2> QED  BY <1>8, <2>1, <2>2, <2>3, <2>4, <2>5, <2>6 DEF DisposeStep
<1>9. ASSUME NEW h \in Handlers, WorkerStep(h)
      PROVE  MessageMove
  <2>1. CASE WorkerLoop(h)  BY <2>1 DEF WorkerLoop
  <2>2. CASE WorkerLock(h)
    BY <2>2 DEF WorkerLock, TakeLockAndTest, NeedNotWait
  <2>3. CASE WorkerWake(h)  BY <2>3 DEF WorkerWake, TakeLockAndTest
  <2>4. CASE WorkerDoze(h)  BY <2>4 DEF WorkerDoze
  <2>5. CASE WorkerGet(h)  BY <2>5
  <2>6. CASE WorkerGetNothing(h)  BY <2>6 DEF WorkerGetNothing
  <2>7. CASE WorkerDispatch(h)  BY <2>7 DEF WorkerDispatch
  <2>8. CASE WorkerDrop(h)  BY <2>8
  <2>9. CASE WorkerExit(h)  BY <2>9 DEF WorkerExit
  <2> QED
    BY <1>9, <2>1, <2>2, <2>3, <2>4, <2>5, <2>6, <2>7, <2>8, <2>9 DEF
      WorkerStep
<1>10. ASSUME NEW h \in Handlers, OnMessageStep(h)
      PROVE  MessageMove
  <2>1. CASE CallbackReturns(h)  BY <2>1
  <2>2. CASE WorkerUncount(h)  BY <2>2
  <2>3. CASE WorkerNotify(h)
    BY <2>3 DEF WorkerNotify, notify_all, MayNotify, IsLastBusy
  <2>4. CASE WorkerNeedNotNotify(h)
    BY <2>4 DEF WorkerNeedNotNotify, MayNotify, IsLastBusy
  <2> QED  BY <1>10, <2>1, <2>2, <2>3, <2>4 DEF OnMessageStep
<1>11. ASSUME NEW t \in Threads, SpuriousWakeup(t)
      PROVE  MessageMove
  BY <1>11 DEF SpuriousWakeup
<1>12. ASSUME NEW h \in Handlers, CallbackTerminates(h)
      PROVE  MessageMove
  BY <1>12 DEF CallbackTerminates
<1>13. ASSUME NEW h \in Handlers, ReadFaults(h)
      PROVE  MessageMove
  BY <1>13 DEF ReadFaults
<1> HIDE DEF MessageMove
<1> QED
  BY <1>1, <1>2, <1>3, <1>4, <1>5, <1>6, <1>7, <1>8, <1>9, <1>10, <1>11,
     <1>12, <1>13 DEF Next, Call, ClientStep, HandlerStep, Threads

-----------------------------------------------------------------------------
(* What the mutexes protect: the handler a dispose destroys, the order of   *)
(* test and sleep, the message a handler has seen under queue_mutex.        *)

\* Every step preserves DisposeInv: dispose holds its mutex until the joined
\* handler has left threads.
LEMMA DisposeInvStep ==
    ASSUME Shape, CallInv, DisposeInv, [Next]_vars
    PROVE  DisposeInv'
<1>t. /\ pc \in [Threads -> ClientPC \cup HandlerPC]
      /\ arg \in [Threads -> Ids \cup {None}]
      /\ victim \in [Clients -> Handlers \cup {None}]
      /\ threads \in [Ids -> SUBSET Handlers]
      /\ manager_mutex \in Clients \cup {None}
      /\ object \in [Handlers -> ObjectStage]
  BY DEF Shape
<1> USE ConstantsAssumption, <1>t DEF Goto, Threads, callVars, queueVars,
        cvVars, ownerVars, objectVars, localVars, historyVars, CallInv,
        InCall, Sending, Destroying, HandlersOf, DisposeInv
<1>1. CASE UNCHANGED vars  BY <1>1, SMTT(20) DEF vars
<1>2. ASSUME NEW t \in Threads, NEW id \in Ids, NEW max \in Limits,
             StartSend(t, id, max)
      PROVE  DisposeInv'
  BY <1>2, SMTT(20) DEF StartSend, Home
<1>3. ASSUME NEW c \in Clients, NEW id \in Ids, StartWait(c, id)
      PROVE  DisposeInv'
  BY <1>3, SMTT(20) DEF StartWait
<1>4. ASSUME NEW c \in Clients, NEW h \in Handlers, AddHandler(c, h)
      PROVE  DisposeInv'
  BY <1>4, SMTT(20) DEF AddHandler
<1>5. ASSUME NEW c \in Clients, NEW id \in Disposable, StartDispose(c, id)
      PROVE  DisposeInv'
  BY <1>5, SMTT(20) DEF StartDispose
<1>6. ASSUME NEW t \in Threads, SendStep(t)
      PROVE  DisposeInv'
  <2>1. CASE SendLookup(t)  BY <2>1, SMTT(20) DEF SendLookup
  <2>2. CASE SendEnqueue(t)  BY <2>2, SMTT(20) DEF SendEnqueue
  <2>3. CASE SendFindsFull(t)  BY <2>3, SMTT(20) DEF SendFindsFull
  <2>4. CASE SendDoze(t)  BY <2>4, SMTT(20) DEF SendDoze
  <2>5. CASE SendAnnounce(t)  BY <2>5, SMTT(20) DEF SendAnnounce, Home, notify_all
  <2> QED  BY <1>6, <2>1, <2>2, <2>3, <2>4, <2>5 DEF SendStep
<1>7. ASSUME NEW c \in Clients, WaitStep(c)
      PROVE  DisposeInv'
  <2>1. CASE WaitUnknown(c)  BY <2>1, SMTT(20) DEF WaitUnknown
  <2>2. CASE WaitLookup(c)  BY <2>2, SMTT(20) DEF WaitLookup
  <2>3. CASE WaitReturn(c)  BY <2>3, SMTT(20) DEF WaitReturn
  <2>4. CASE WaitFindsBusy(c)  BY <2>4, SMTT(20) DEF WaitFindsBusy
  <2>5. CASE WaitDoze(c)  BY <2>5, SMTT(20) DEF WaitDoze
  <2> QED  BY <1>7, <2>1, <2>2, <2>3, <2>4, <2>5 DEF WaitStep
<1>8. ASSUME NEW c \in Clients, DisposeStep(c)
      PROVE  DisposeInv'
  <2>1. CASE DisposeMembers(c)  BY <2>1, SMTT(20) DEF DisposeMembers
  <2>2. CASE DisposeBase(c)  BY <2>2, SMTT(20) DEF DisposeBase
  <2>3. CASE DisposeStop(c)  BY <2>3, SMTT(20) DEF DisposeStop, MayStop
  <2>4. CASE DisposeNotify(c)  BY <2>4, SMTT(20) DEF DisposeNotify, notify_all
  <2>5. CASE DisposeJoin(c)  BY <2>5, SMTT(20) DEF DisposeJoin
  <2>6. CASE DisposeReturn(c)  BY <2>6, SMTT(20) DEF DisposeReturn
  <2> QED  BY <1>8, <2>1, <2>2, <2>3, <2>4, <2>5, <2>6 DEF DisposeStep
<1>9. ASSUME NEW h \in Handlers, WorkerStep(h)
      PROVE  DisposeInv'
  <2>1. CASE WorkerLoop(h)  BY <2>1, SMTT(20) DEF WorkerLoop
  <2>2. CASE WorkerLock(h)
    BY <2>2, SMTT(20) DEF WorkerLock, TakeLockAndTest, NeedNotWait
  <2>3. CASE WorkerWake(h)  BY <2>3, SMTT(20) DEF WorkerWake, TakeLockAndTest
  <2>4. CASE WorkerDoze(h)  BY <2>4, SMTT(20) DEF WorkerDoze
  <2>5. CASE WorkerGet(h)  BY <2>5, SMTT(20) DEF WorkerGet, Counted
  <2>6. CASE WorkerGetNothing(h)  BY <2>6, SMTT(20) DEF WorkerGetNothing
  <2>7. CASE WorkerDispatch(h)  BY <2>7, SMTT(20) DEF WorkerDispatch
  <2>8. CASE WorkerDrop(h)  BY <2>8, SMTT(20) DEF WorkerDrop
  <2>9. CASE WorkerExit(h)  BY <2>9, SMTT(20) DEF WorkerExit
  <2> QED
    BY <1>9, <2>1, <2>2, <2>3, <2>4, <2>5, <2>6, <2>7, <2>8, <2>9 DEF
      WorkerStep
<1>10. ASSUME NEW h \in Handlers, OnMessageStep(h)
      PROVE  DisposeInv'
  <2>1. CASE CallbackReturns(h)  BY <2>1, SMTT(20) DEF CallbackReturns
  <2>2. CASE WorkerUncount(h)  BY <2>2, SMTT(20) DEF WorkerUncount, Uncounted
  <2>3. CASE WorkerNotify(h)
    BY <2>3, SMTT(20) DEF WorkerNotify, notify_all, MayNotify, IsLastBusy
  <2>4. CASE WorkerNeedNotNotify(h)
    BY <2>4, SMTT(20) DEF WorkerNeedNotNotify, MayNotify, IsLastBusy
  <2> QED  BY <1>10, <2>1, <2>2, <2>3, <2>4 DEF OnMessageStep
<1>11. ASSUME NEW t \in Threads, SpuriousWakeup(t)
      PROVE  DisposeInv'
  BY <1>11, SMTT(20) DEF SpuriousWakeup
<1>12. ASSUME NEW h \in Handlers, CallbackTerminates(h)
      PROVE  DisposeInv'
  BY <1>12, SMTT(20) DEF CallbackTerminates
<1>13. ASSUME NEW h \in Handlers, ReadFaults(h)
      PROVE  DisposeInv'
  BY <1>13, SMTT(20) DEF ReadFaults
<1> HIDE DEF DisposeInv
<1> QED
  BY <1>1, <1>2, <1>3, <1>4, <1>5, <1>6, <1>7, <1>8, <1>9, <1>10, <1>11,
     <1>12, <1>13 DEF Next, Call, ClientStep, HandlerStep, Threads

\* Every step preserves LockInv: nobody changes a queue while a thread holds
\* its mutex between test and sleep or pop.
LEMMA LockStep ==
    ASSUME Shape, CallInv, DisposeInv, LockInv, [Next]_vars
    PROVE  LockInv'
<1>c. ASSUME NEW c \in Clients, DisposeMembers(c)
      PROVE  DestroyEffect(c)
  BY <1>c, DestroyFrame
<1>t. /\ pc \in [Threads -> ClientPC \cup HandlerPC]
      /\ arg \in [Threads -> Ids \cup {None}]
      /\ queue_mutex \in [Ids -> Threads \cup {None}]
      /\ queue \in [Ids -> Seq(Nat)]
      /\ running \in [Handlers -> BOOLEAN]
      /\ object \in [Handlers -> ObjectStage]
  BY DEF Shape
<1> USE ConstantsAssumption, <1>t DEF Goto, Threads, callVars, queueVars,
        cvVars, ownerVars, objectVars, localVars, historyVars, CallInv,
        InCall, Sending, Destroying, HandlersOf, LockInv, MutexInv, DozeInv,
        is_message_available, Derived
<1>1. CASE UNCHANGED vars  BY <1>1 DEF vars
<1>2. ASSUME NEW t \in Threads, NEW id \in Ids, NEW max \in Limits,
             StartSend(t, id, max)
      PROVE  LockInv'
  BY <1>2 DEF StartSend, Home
<1>3. ASSUME NEW c \in Clients, NEW id \in Ids, StartWait(c, id)
      PROVE  LockInv'
  BY <1>3 DEF StartWait
<1>4. ASSUME NEW c \in Clients, NEW h \in Handlers, AddHandler(c, h)
      PROVE  LockInv'
  BY <1>4 DEF AddHandler
<1>5. ASSUME NEW c \in Clients, NEW id \in Disposable, StartDispose(c, id)
      PROVE  LockInv'
  BY <1>5 DEF StartDispose
<1>6. ASSUME NEW t \in Threads, SendStep(t)
      PROVE  LockInv'
  <2>1. CASE SendLookup(t)  BY <2>1 DEF SendLookup
  <2>2. CASE SendEnqueue(t)  BY <2>2, SMT DEF SendEnqueue
  <2>3. CASE SendFindsFull(t)  BY <2>3, SMT DEF SendFindsFull
  <2>4. CASE SendDoze(t)  BY <2>4, SMT DEF SendDoze
  <2>5. CASE SendAnnounce(t)  BY <2>5 DEF SendAnnounce, Home, notify_all
  <2> QED  BY <1>6, <2>1, <2>2, <2>3, <2>4, <2>5 DEF SendStep
<1>7. ASSUME NEW c \in Clients, WaitStep(c)
      PROVE  LockInv'
  <2>1. CASE WaitUnknown(c)  BY <2>1 DEF WaitUnknown
  <2>2. CASE WaitLookup(c)  BY <2>2 DEF WaitLookup
  <2>3. CASE WaitReturn(c)  BY <2>3 DEF WaitReturn
  <2>4. CASE WaitFindsBusy(c)  BY <2>4, SMT DEF WaitFindsBusy
  <2>5. CASE WaitDoze(c)  BY <2>5, SMT DEF WaitDoze
  <2> QED  BY <1>7, <2>1, <2>2, <2>3, <2>4, <2>5 DEF WaitStep
<1>8. ASSUME NEW c \in Clients, DisposeStep(c)
      PROVE  LockInv'
  <2>1. CASE DisposeMembers(c)
    <3>1. DestroyEffect(c)  BY <2>1, <1>c
    <3>2. /\ pc[c] = "dispose" /\ pc' = [pc EXCEPT ![c] = "dispose_base"]
          /\ UNCHANGED <<arg, queueVars, cvVars, ownerVars, running, localVars>>
      BY <2>1 DEF DisposeMembers
    <3> QED  BY <3>1, <3>2 DEF DestroyEffect
  <2>2. CASE DisposeBase(c)  BY <2>2, SMT DEF DisposeBase
  <2>3. CASE DisposeStop(c)  BY <2>3, SMT DEF DisposeStop, MayStop
  <2>4. CASE DisposeNotify(c)  BY <2>4 DEF DisposeNotify, notify_all
  <2>5. CASE DisposeJoin(c)  BY <2>5 DEF DisposeJoin
  <2>6. CASE DisposeReturn(c)  BY <2>6 DEF DisposeReturn
  <2> QED  BY <1>8, <2>1, <2>2, <2>3, <2>4, <2>5, <2>6 DEF DisposeStep
<1>9. ASSUME NEW h \in Handlers, WorkerStep(h)
      PROVE  LockInv'
  <2>1. CASE WorkerLoop(h)  BY <2>1 DEF WorkerLoop
  <2>2. CASE WorkerLock(h)
    BY <2>2, SMT DEF WorkerLock, TakeLockAndTest, NeedNotWait
  <2>3. CASE WorkerWake(h)  BY <2>3, SMT DEF WorkerWake, TakeLockAndTest
  <2>4. CASE WorkerDoze(h)  BY <2>4, SMT DEF WorkerDoze
  <2>5. CASE WorkerGet(h)
    <3>1. /\ pc[h] = "get" /\ pc' = [pc EXCEPT ![h] = "popped"]
          /\ queue_mutex' = [queue_mutex EXCEPT ![HandlerId[h]] = None]
          /\ \E q : queue' = [queue EXCEPT ![HandlerId[h]] = q]
          /\ UNCHANGED <<arg, running, object>>
      BY <2>5 DEF WorkerGet
    <3> QED
      BY <3>1, SMT
  <2>6. CASE WorkerGetNothing(h)  BY <2>6, SMT DEF WorkerGetNothing
  <2>7. CASE WorkerDispatch(h)  BY <2>7 DEF WorkerDispatch
  <2>8. CASE WorkerDrop(h)  BY <2>8 DEF WorkerDrop
  <2>9. CASE WorkerExit(h)  BY <2>9 DEF WorkerExit
  <2> QED
    BY <1>9, <2>1, <2>2, <2>3, <2>4, <2>5, <2>6, <2>7, <2>8, <2>9 DEF
      WorkerStep
<1>10. ASSUME NEW h \in Handlers, OnMessageStep(h)
      PROVE  LockInv'
  <2>1. CASE CallbackReturns(h)  BY <2>1 DEF CallbackReturns
  <2>2. CASE WorkerUncount(h)  BY <2>2 DEF WorkerUncount, Uncounted
  <2>3. CASE WorkerNotify(h)
    BY <2>3 DEF WorkerNotify, notify_all, MayNotify, IsLastBusy
  <2>4. CASE WorkerNeedNotNotify(h)
    BY <2>4 DEF WorkerNeedNotNotify, MayNotify, IsLastBusy
  <2> QED  BY <1>10, <2>1, <2>2, <2>3, <2>4 DEF OnMessageStep
<1>11. ASSUME NEW t \in Threads, SpuriousWakeup(t)
      PROVE  LockInv'
  BY <1>11 DEF SpuriousWakeup
<1>12. ASSUME NEW h \in Handlers, CallbackTerminates(h)
      PROVE  LockInv'
  BY <1>12 DEF CallbackTerminates
<1>13. ASSUME NEW h \in Handlers, ReadFaults(h)
      PROVE  LockInv'
  BY <1>13 DEF ReadFaults
<1> HIDE DEF LockInv
<1> QED
  BY <1>1, <1>2, <1>3, <1>4, <1>5, <1>6, <1>7, <1>8, <1>9, <1>10, <1>11,
     <1>12, <1>13 DEF Next, Call, ClientStep, HandlerStep, Threads

\* Every step preserves HoldInv: a second worker cannot empty the queue
\* between the test and the pop of the first.
LEMMA HoldStep ==
    ASSUME Shape, CallInv, LockInv, DisposeInv, QueueInv, HoldInv, [Next]_vars
    PROVE  HoldInv'
<1>a. ASSUME NEW h \in Handlers, WorkerGet(h)
      PROVE  PopEffect(h)
  BY <1>a, PopFrame
<1>b. ASSUME NEW t \in Threads, SendEnqueue(t)
      PROVE  PushEffect
  BY <1>b, PushFrame
<1>c. ASSUME NEW c \in Clients, DisposeMembers(c)
      PROVE  DestroyEffect(c)
  BY <1>c, DestroyFrame
<1>t. /\ pc \in [Threads -> ClientPC \cup HandlerPC]
      /\ queue \in [Ids -> Seq(Nat)]
      /\ message \in [Handlers -> Nat]
      /\ running \in [Handlers -> BOOLEAN]
      /\ object \in [Handlers -> ObjectStage]
  BY DEF Shape
<1> USE ConstantsAssumption, <1>t DEF Goto, Threads, callVars, queueVars,
        cvVars, ownerVars, objectVars, localVars, historyVars, HoldInv,
        HoldOk, Holding, is_message_available, Derived
<1>1. CASE UNCHANGED vars  BY <1>1 DEF vars
<1>2. ASSUME NEW t \in Threads, NEW id \in Ids, NEW max \in Limits,
             StartSend(t, id, max)
      PROVE  HoldInv'
  BY <1>2 DEF StartSend, Home
<1>3. ASSUME NEW c \in Clients, NEW id \in Ids, StartWait(c, id)
      PROVE  HoldInv'
  BY <1>3 DEF StartWait
<1>4. ASSUME NEW c \in Clients, NEW h \in Handlers, AddHandler(c, h)
      PROVE  HoldInv'
  BY <1>4 DEF AddHandler
<1>5. ASSUME NEW c \in Clients, NEW id \in Disposable, StartDispose(c, id)
      PROVE  HoldInv'
  BY <1>5 DEF StartDispose
<1>6. ASSUME NEW t \in Threads, SendStep(t)
      PROVE  HoldInv'
  <2>1. CASE SendLookup(t)  BY <2>1 DEF SendLookup
  <2>2. CASE SendEnqueue(t)
    <3>1. PushEffect  BY <2>2, <1>b
    <3>2. /\ pc[t] = "enqueue" /\ pc' = [pc EXCEPT ![t] = "announce"]
          /\ UNCHANGED <<message, running, object>>
          /\ UNCHANGED <<busy_count, queue_cv_empty, still_busy>>
      BY <2>2 DEF SendEnqueue
    <3> QED  BY <3>1, <3>2 DEF PushEffect
  <2>3. CASE SendFindsFull(t)  BY <2>3 DEF SendFindsFull
  <2>4. CASE SendDoze(t)  BY <2>4 DEF SendDoze
  <2>5. CASE SendAnnounce(t)
    <3>1. CASE t \in Clients  BY <2>5, <3>1 DEF SendAnnounce, Home
    <3>2. CASE t \notin Clients  BY <2>5, <3>2 DEF SendAnnounce, Home
    <3> QED  BY <3>1, <3>2
  <2> QED  BY <1>6, <2>1, <2>2, <2>3, <2>4, <2>5 DEF SendStep
<1>7. ASSUME NEW c \in Clients, WaitStep(c)
      PROVE  HoldInv'
  <2>1. CASE WaitUnknown(c)  BY <2>1 DEF WaitUnknown
  <2>2. CASE WaitLookup(c)  BY <2>2 DEF WaitLookup
  <2>3. CASE WaitReturn(c)  BY <2>3 DEF WaitReturn
  <2>4. CASE WaitFindsBusy(c)  BY <2>4 DEF WaitFindsBusy
  <2>5. CASE WaitDoze(c)  BY <2>5 DEF WaitDoze
  <2> QED  BY <1>7, <2>1, <2>2, <2>3, <2>4, <2>5 DEF WaitStep
<1>8. ASSUME NEW c \in Clients, DisposeStep(c)
      PROVE  HoldInv'
  <2>1. CASE DisposeMembers(c)
    <3>1. DestroyEffect(c)  BY <2>1, <1>c
    <3>2. /\ pc[c] = "dispose" /\ pc' = [pc EXCEPT ![c] = "dispose_base"]
          /\ UNCHANGED <<arg, queueVars, cvVars, ownerVars, running, localVars>>
      BY <2>1 DEF DisposeMembers
    <3> QED  BY <3>1, <3>2 DEF DestroyEffect
  <2>2. CASE DisposeBase(c)  BY <2>2 DEF DisposeBase
  <2>3. CASE DisposeStop(c)  BY <2>3 DEF DisposeStop, MayStop
  <2>4. CASE DisposeNotify(c)  BY <2>4 DEF DisposeNotify, notify_all
  <2>5. CASE DisposeJoin(c)  BY <2>5 DEF DisposeJoin
  <2>6. CASE DisposeReturn(c)  BY <2>6 DEF DisposeReturn
  <2> QED  BY <1>8, <2>1, <2>2, <2>3, <2>4, <2>5, <2>6 DEF DisposeStep
<1>9. ASSUME NEW h \in Handlers, WorkerStep(h)
      PROVE  HoldInv'
  <2>1. CASE WorkerLoop(h)  BY <2>1 DEF WorkerLoop
  <2>2. CASE WorkerLock(h)
    BY <2>2 DEF WorkerLock, TakeLockAndTest, NeedNotWait
  <2>3. CASE WorkerWake(h)  BY <2>3 DEF WorkerWake, TakeLockAndTest
  <2>4. CASE WorkerDoze(h)  BY <2>4 DEF WorkerDoze
  <2>5. CASE WorkerGet(h)
    <3>1. \A g \in Handlers : g # h /\ pc[g] = "get" => HandlerId[g] # HandlerId[h]
      BY <2>5, SMT DEF WorkerGet, LockInv, MutexInv
    <3>2. PopEffect(h)  BY <2>5, <1>a
    <3>3. /\ pc' = [pc EXCEPT ![h] = "popped"]
          /\ UNCHANGED <<running, object>>
      BY <2>5 DEF WorkerGet
    <3>4. HoldOk(h)'
      BY <3>2, <3>3 DEF PopEffect
    <3>5. ASSUME NEW g \in Handlers, g # h
          PROVE  HoldOk(g)'
      <4>1. /\ pc'[g] = pc[g] /\ running'[g] = running[g]
            /\ object'[g] = object[g] /\ message'[g] = message[g]
        BY <3>2, <3>3, <3>5 DEF PopEffect
      <4>2. pc[g] = "get" => queue'[HandlerId[g]] = queue[HandlerId[g]]
        BY <3>1, <3>2, <3>5 DEF PopEffect
      <4>3. HoldOk(g)  BY <3>5
      <4> QED  BY <4>1, <4>2, <4>3
    <3> QED  BY <3>4, <3>5
  <2>6. CASE WorkerGetNothing(h)  BY <2>6 DEF WorkerGetNothing
  <2>7. CASE WorkerDispatch(h)  BY <2>7 DEF WorkerDispatch
  <2>8. CASE WorkerDrop(h)  BY <2>8 DEF WorkerDrop
  <2>9. CASE WorkerExit(h)  BY <2>9 DEF WorkerExit
  <2> QED
    BY <1>9, <2>1, <2>2, <2>3, <2>4, <2>5, <2>6, <2>7, <2>8, <2>9 DEF
      WorkerStep
<1>10. ASSUME NEW h \in Handlers, OnMessageStep(h)
      PROVE  HoldInv'
  <2>1. CASE CallbackReturns(h)  BY <2>1 DEF CallbackReturns
  <2>2. CASE WorkerUncount(h)  BY <2>2 DEF WorkerUncount, Uncounted
  <2>3. CASE WorkerNotify(h)
    BY <2>3 DEF WorkerNotify, notify_all, MayNotify, IsLastBusy
  <2>4. CASE WorkerNeedNotNotify(h)
    BY <2>4 DEF WorkerNeedNotNotify, MayNotify, IsLastBusy
  <2> QED  BY <1>10, <2>1, <2>2, <2>3, <2>4 DEF OnMessageStep
<1>11. ASSUME NEW t \in Threads, SpuriousWakeup(t)
      PROVE  HoldInv'
  BY <1>11 DEF SpuriousWakeup
<1>12. ASSUME NEW h \in Handlers, CallbackTerminates(h)
      PROVE  HoldInv'
  BY <1>12 DEF CallbackTerminates
<1>13. ASSUME NEW h \in Handlers, ReadFaults(h)
      PROVE  HoldInv'
  BY <1>13 DEF ReadFaults
<1> HIDE DEF HoldInv
<1> QED
  BY <1>1, <1>2, <1>3, <1>4, <1>5, <1>6, <1>7, <1>8, <1>9, <1>10, <1>11,
     <1>12, <1>13 DEF Next, Call, ClientStep, HandlerStep, Threads

-----------------------------------------------------------------------------
(* The shape of the state and the arguments of the calls in progress: one   *)
(* step per action in each lemma.                                           *)

\* Every step preserves the shape of the state.
LEMMA ShapeStep ==
    ASSUME Shape, CallInv, HoldInv, [Next]_vars
    PROVE  Shape'
<1>arg. arg \in [Threads -> Ids \cup {None}]  BY DEF Shape
<1>victim. victim \in [Clients -> Handlers \cup {None}]  BY DEF Shape
<1>message_queues. message_queues \subseteq Ids  BY DEF Shape
<1>queue. queue \in [Ids -> Seq(Nat)]  BY DEF Shape
<1>busy_count. busy_count \in [Ids -> Int]  BY DEF Shape
<1>queue_mutex. queue_mutex \in [Ids -> Threads \cup {None}]  BY DEF Shape
<1>queue_cv. queue_cv \in [Ids -> SUBSET Threads]  BY DEF Shape
<1>queue_cv_empty. queue_cv_empty \in [Ids -> SUBSET Clients]  BY DEF Shape
<1>threads. threads \in [Ids -> SUBSET Handlers]  BY DEF Shape
<1>manager_mutex. manager_mutex \in Clients \cup {None}  BY DEF Shape
<1>running. running \in [Handlers -> BOOLEAN]  BY DEF Shape
<1>object. object \in [Handlers -> ObjectStage]  BY DEF Shape
<1>message. message \in [Handlers -> Nat]  BY DEF Shape
<1>still_busy. still_busy \in [Handlers -> Int]  BY DEF Shape
<1>accepted. accepted \in [Ids -> Nat]  BY DEF Shape
<1>handled. handled \in [Ids -> SUBSET Nat]  BY DEF Shape
<1>dropped. dropped \in [Ids -> SUBSET Nat]  BY DEF Shape
<1>exited. exited \subseteq Handlers  BY DEF Shape
<1>crashed. crashed \in BOOLEAN  BY DEF Shape
<1>started. started \in [Ids -> Nat]  BY DEF Shape
<1>limit. limit \in [Threads -> Nat]  BY DEF Shape
<1>pc. PcShape  BY DEF Shape, PcShape
<1>call. CallInv  OBVIOUS
<1>s. Shape  OBVIOUS
<1> USE ConstantsAssumption DEF Goto, Threads, callVars, queueVars, cvVars,
        ownerVars, objectVars, localVars, historyVars
<1>1. CASE UNCHANGED vars  BY <1>s, <1>1 DEF vars, Shape
<1>2. ASSUME NEW t \in Threads, NEW id \in Ids, NEW max \in Limits,
             StartSend(t, id, max)
      PROVE  Shape'
  <2>1. PcShape'
    <3>1. CASE t \in Clients
      BY <1>2, <1>pc, <3>1 DEF StartSend, Home, PcShape, ClientPC, HandlerPC
    <3>2. CASE t \in Handlers
      BY <1>2, <1>pc, <3>2 DEF StartSend, Home, PcShape, ClientPC, HandlerPC
    <3> QED  BY <3>1, <3>2
  <2>2. started' \in [Ids -> Nat]
    BY <1>2, <1>started, SMT DEF StartSend, Home
  <2>3. arg' \in [Threads -> Ids \cup {None}]
    BY <1>2, <1>arg DEF StartSend, Home
  <2>4. limit' \in [Threads -> Nat]
    BY <1>2, <1>limit DEF StartSend, Home
  <2> QED
    BY <1>2, <1>s, <2>1, <2>2, <2>3, <2>4 DEF StartSend, Home, Shape, PcShape
<1>3. ASSUME NEW c \in Clients, NEW id \in Ids, StartWait(c, id)
      PROVE  Shape'
  <2>1. PcShape'
    BY <1>3, <1>pc DEF StartWait, PcShape, ClientPC, HandlerPC
  <2>2. arg' \in [Threads -> Ids \cup {None}]
    BY <1>3, <1>arg DEF StartWait
  <2> QED
    BY <1>3, <1>s, <2>1, <2>2 DEF StartWait, Shape, PcShape
<1>4. ASSUME NEW c \in Clients, NEW h \in Handlers, AddHandler(c, h)
      PROVE  Shape'
  <2>1. PcShape'
    BY <1>4, <1>pc DEF AddHandler, PcShape, ClientPC, HandlerPC
  <2>2. message_queues' \subseteq Ids
    BY <1>4, <1>message_queues DEF AddHandler
  <2>3. threads' \in [Ids -> SUBSET Handlers]
    BY <1>4, <1>threads DEF AddHandler
  <2> QED
    BY <1>4, <1>s, <2>1, <2>2, <2>3 DEF AddHandler, Shape, PcShape
<1>5. ASSUME NEW c \in Clients, NEW id \in Disposable, StartDispose(c, id)
      PROVE  Shape'
  <2>1. PcShape'
    BY <1>5, <1>pc DEF StartDispose, PcShape, ClientPC, HandlerPC
  <2>2. manager_mutex' \in Clients \cup {None}
    BY <1>5, <1>manager_mutex DEF StartDispose
  <2>3. arg' \in [Threads -> Ids \cup {None}]
    BY <1>5, <1>arg DEF StartDispose
  <2> QED
    BY <1>5, <1>s, <2>1, <2>2, <2>3 DEF StartDispose, Shape, PcShape
<1>6. ASSUME NEW t \in Threads, SendStep(t)
      PROVE  Shape'
  <2>1. CASE SendLookup(t)
    <3>1. PcShape'
      <4>1. CASE t \in Clients
        BY <2>1, <1>pc, <4>1 DEF SendLookup, PcShape, ClientPC, HandlerPC
      <4>2. CASE t \in Handlers
        BY <2>1, <1>pc, <4>2 DEF SendLookup, PcShape, ClientPC, HandlerPC
      <4> QED  BY <4>1, <4>2
    <3>2. message_queues' \subseteq Ids
      BY <2>1, <1>message_queues, <1>call, SMT DEF SendLookup, CallInv, InCall,
         Destroying, HandlersOf
    <3> QED
      BY <2>1, <1>s, <3>1, <3>2 DEF SendLookup, Shape, PcShape
  <2>2. CASE SendEnqueue(t)
    <3>1. PcShape'
      <4>1. CASE t \in Clients
        BY <2>2, <1>pc, <4>1 DEF SendEnqueue, PcShape, ClientPC, HandlerPC
      <4>2. CASE t \in Handlers
        BY <2>2, <1>pc, <4>2 DEF SendEnqueue, PcShape, ClientPC, HandlerPC
      <4> QED  BY <4>1, <4>2
    <3>2. queue' \in [Ids -> Seq(Nat)]
      <4>1. /\ arg[t] \in Ids
            /\ queue' = [queue EXCEPT ![arg[t]] =
                            Append(queue[arg[t]], accepted[arg[t]] + 1)]
        BY <2>2, PushAppends
      <4>2. queue[arg[t]] \in Seq(Nat) /\ accepted[arg[t]] + 1 \in Nat
        BY <1>queue, <1>accepted, <4>1, SMT
      <4>3. Append(queue[arg[t]], accepted[arg[t]] + 1) \in Seq(Nat)
        BY <4>2, SMT
      <4> QED
        BY <1>queue, <4>1, <4>3
    <3>3. accepted' \in [Ids -> Nat]
      BY <2>2, <1>accepted, <1>call, SMT DEF SendEnqueue, CallInv, InCall, Destroying,
         HandlersOf
    <3> QED
      BY <2>2, <1>s, <3>1, <3>2, <3>3 DEF SendEnqueue, Shape, PcShape
  <2>3. CASE SendFindsFull(t)
    <3>1. PcShape'
      <4>1. CASE t \in Clients
        BY <2>3, <1>pc, <4>1 DEF SendFindsFull, PcShape, ClientPC, HandlerPC
      <4>2. CASE t \in Handlers
        BY <2>3, <1>pc, <4>2 DEF SendFindsFull, PcShape, ClientPC, HandlerPC
      <4> QED  BY <4>1, <4>2
    <3>2. queue_mutex' \in [Ids -> Threads \cup {None}]
      BY <2>3, <1>queue_mutex, <1>call DEF SendFindsFull, CallInv, InCall,
         Destroying, HandlersOf
    <3> QED
      BY <2>3, <1>s, <3>1, <3>2 DEF SendFindsFull, Shape, PcShape
  <2>4. CASE SendDoze(t)
    <3>1. PcShape'
      <4>1. CASE t \in Clients
        BY <2>4, <1>pc, <4>1 DEF SendDoze, PcShape, ClientPC, HandlerPC
      <4>2. CASE t \in Handlers
        BY <2>4, <1>pc, <4>2 DEF SendDoze, PcShape, ClientPC, HandlerPC
      <4> QED  BY <4>1, <4>2
    <3>2. queue_cv' \in [Ids -> SUBSET Threads]
      BY <2>4, <1>queue_cv DEF SendDoze
    <3>3. queue_mutex' \in [Ids -> Threads \cup {None}]
      BY <2>4, <1>queue_mutex DEF SendDoze
    <3> QED
      BY <2>4, <1>s, <3>1, <3>2, <3>3 DEF SendDoze, Shape, PcShape
  <2>5. CASE SendAnnounce(t)
    <3>1. PcShape'
      <4>1. CASE t \in Clients
        BY <2>5, <1>pc, <4>1 DEF SendAnnounce, Home, notify_all, PcShape, ClientPC, HandlerPC
      <4>2. CASE t \in Handlers
        BY <2>5, <1>pc, <4>2 DEF SendAnnounce, Home, notify_all, PcShape, ClientPC, HandlerPC
      <4> QED  BY <4>1, <4>2
    <3>2. queue_cv' \in [Ids -> SUBSET Threads]
      BY <2>5, <1>queue_cv DEF SendAnnounce, Home, notify_all
    <3>3. arg' \in [Threads -> Ids \cup {None}]
      BY <2>5, <1>arg DEF SendAnnounce, Home, notify_all
    <3>4. limit' \in [Threads -> Nat]
      BY <2>5, <1>limit DEF SendAnnounce, Home, notify_all
    <3> QED
      BY <2>5, <1>s, <3>1, <3>2, <3>3, <3>4 DEF SendAnnounce, Home, notify_all,
         Shape, PcShape
  <2> QED  BY <1>6, <2>1, <2>2, <2>3, <2>4, <2>5 DEF SendStep
<1>7. ASSUME NEW c \in Clients, WaitStep(c)
      PROVE  Shape'
  <2>1. CASE WaitUnknown(c)
    <3>1. PcShape'
      BY <2>1, <1>pc DEF WaitUnknown, PcShape, ClientPC, HandlerPC
    <3>2. arg' \in [Threads -> Ids \cup {None}]
      BY <2>1, <1>arg DEF WaitUnknown
    <3> QED
      BY <2>1, <1>s, <3>1, <3>2 DEF WaitUnknown, Shape, PcShape
  <2>2. CASE WaitLookup(c)
    <3>1. PcShape'
      BY <2>2, <1>pc DEF WaitLookup, PcShape, ClientPC, HandlerPC
    <3> QED
      BY <2>2, <1>s, <3>1 DEF WaitLookup, Shape, PcShape
  <2>3. CASE WaitReturn(c)
    <3>1. PcShape'
      BY <2>3, <1>pc DEF WaitReturn, PcShape, ClientPC, HandlerPC
    <3>2. arg' \in [Threads -> Ids \cup {None}]
      BY <2>3, <1>arg DEF WaitReturn
    <3> QED
      BY <2>3, <1>s, <3>1, <3>2 DEF WaitReturn, Shape, PcShape
  <2>4. CASE WaitFindsBusy(c)
    <3>1. PcShape'
      BY <2>4, <1>pc DEF WaitFindsBusy, PcShape, ClientPC, HandlerPC
    <3>2. queue_mutex' \in [Ids -> Threads \cup {None}]
      BY <2>4, <1>queue_mutex DEF WaitFindsBusy
    <3> QED
      BY <2>4, <1>s, <3>1, <3>2 DEF WaitFindsBusy, Shape, PcShape
  <2>5. CASE WaitDoze(c)
    <3>1. PcShape'
      BY <2>5, <1>pc DEF WaitDoze, PcShape, ClientPC, HandlerPC
    <3>2. queue_cv_empty' \in [Ids -> SUBSET Clients]
      BY <2>5, <1>queue_cv_empty DEF WaitDoze
    <3>3. queue_mutex' \in [Ids -> Threads \cup {None}]
      BY <2>5, <1>queue_mutex DEF WaitDoze
    <3> QED
      BY <2>5, <1>s, <3>1, <3>2, <3>3 DEF WaitDoze, Shape, PcShape
  <2> QED  BY <1>7, <2>1, <2>2, <2>3, <2>4, <2>5 DEF WaitStep
<1>8. ASSUME NEW c \in Clients, DisposeStep(c)
      PROVE  Shape'
  <2>1. CASE DisposeMembers(c)
    <3>1. PcShape'
      BY <2>1, <1>pc DEF DisposeMembers, PcShape, ClientPC, HandlerPC
    <3>2. victim' \in [Clients -> Handlers \cup {None}]
      BY <2>1, <1>victim, <1>call, SMT DEF DisposeMembers, CallInv, InCall, Destroying,
         HandlersOf
    <3>3. object' \in [Handlers -> ObjectStage]
      BY <2>1, <1>object, <1>call DEF DisposeMembers, ObjectStage, CallInv,
         InCall, Destroying, HandlersOf
    <3> QED
      BY <2>1, <1>s, <3>1, <3>2, <3>3 DEF DisposeMembers, Shape, PcShape
  <2>2. CASE DisposeBase(c)
    <3>1. PcShape'
      BY <2>2, <1>pc DEF DisposeBase, PcShape, ClientPC, HandlerPC
    <3>2. object' \in [Handlers -> ObjectStage]
      BY <2>2, <1>object, <1>call DEF DisposeBase, ObjectStage, CallInv, InCall,
         Destroying, HandlersOf
    <3> QED
      BY <2>2, <1>s, <3>1, <3>2 DEF DisposeBase, Shape, PcShape
  <2>3. CASE DisposeStop(c)
    <3>1. PcShape'
      BY <2>3, <1>pc DEF DisposeStop, MayStop, PcShape, ClientPC, HandlerPC
    <3>2. running' \in [Handlers -> BOOLEAN]
      BY <2>3, <1>running DEF DisposeStop, MayStop
    <3> QED
      BY <2>3, <1>s, <3>1, <3>2 DEF DisposeStop, MayStop, Shape, PcShape
  <2>4. CASE DisposeNotify(c)
    <3>1. PcShape'
      BY <2>4, <1>pc DEF DisposeNotify, notify_all, PcShape, ClientPC, HandlerPC
    <3>2. queue_cv' \in [Ids -> SUBSET Threads]
      BY <2>4, <1>queue_cv DEF DisposeNotify, notify_all
    <3> QED
      BY <2>4, <1>s, <3>1, <3>2 DEF DisposeNotify, notify_all, Shape, PcShape
  <2>5. CASE DisposeJoin(c)
    <3>1. PcShape'
      BY <2>5, <1>pc DEF DisposeJoin, PcShape, ClientPC, HandlerPC
    <3>2. threads' \in [Ids -> SUBSET Handlers]
      BY <2>5, <1>threads DEF DisposeJoin
    <3>3. victim' \in [Clients -> Handlers \cup {None}]
      BY <2>5, <1>victim DEF DisposeJoin
    <3> QED
      BY <2>5, <1>s, <3>1, <3>2, <3>3 DEF DisposeJoin, Shape, PcShape
  <2>6. CASE DisposeReturn(c)
    <3>1. PcShape'
      BY <2>6, <1>pc DEF DisposeReturn, PcShape, ClientPC, HandlerPC
    <3>2. manager_mutex' \in Clients \cup {None}
      BY <2>6, <1>manager_mutex DEF DisposeReturn
    <3>3. arg' \in [Threads -> Ids \cup {None}]
      BY <2>6, <1>arg DEF DisposeReturn
    <3> QED
      BY <2>6, <1>s, <3>1, <3>2, <3>3 DEF DisposeReturn, Shape, PcShape
  <2> QED  BY <1>8, <2>1, <2>2, <2>3, <2>4, <2>5, <2>6 DEF DisposeStep
<1>9. ASSUME NEW h \in Handlers, WorkerStep(h)
      PROVE  Shape'
  <2>1. CASE WorkerLoop(h)
    <3>1. PcShape'
      BY <2>1, <1>pc DEF WorkerLoop, PcShape, ClientPC, HandlerPC
    <3> QED
      BY <2>1, <1>s, <3>1 DEF WorkerLoop, Shape, PcShape
  <2>2. CASE WorkerLock(h)
    <3>1. PcShape'
      BY <2>2, <1>pc DEF WorkerLock, TakeLockAndTest, NeedNotWait, PcShape, ClientPC, HandlerPC
    <3>2. queue_mutex' \in [Ids -> Threads \cup {None}]
      BY <2>2, <1>queue_mutex DEF WorkerLock, TakeLockAndTest, NeedNotWait
    <3> QED
      BY <2>2, <1>s, <3>1, <3>2 DEF WorkerLock, TakeLockAndTest, NeedNotWait,
         Shape, PcShape
  <2>3. CASE WorkerWake(h)
    <3>1. PcShape'
      BY <2>3, <1>pc DEF WorkerWake, TakeLockAndTest, PcShape, ClientPC, HandlerPC
    <3>2. queue_mutex' \in [Ids -> Threads \cup {None}]
      BY <2>3, <1>queue_mutex DEF WorkerWake, TakeLockAndTest
    <3> QED
      BY <2>3, <1>s, <3>1, <3>2 DEF WorkerWake, TakeLockAndTest, Shape, PcShape
  <2>4. CASE WorkerDoze(h)
    <3>1. PcShape'
      BY <2>4, <1>pc DEF WorkerDoze, PcShape, ClientPC, HandlerPC
    <3>2. queue_cv' \in [Ids -> SUBSET Threads]
      BY <2>4, <1>queue_cv DEF WorkerDoze
    <3>3. queue_mutex' \in [Ids -> Threads \cup {None}]
      BY <2>4, <1>queue_mutex DEF WorkerDoze
    <3> QED
      BY <2>4, <1>s, <3>1, <3>2, <3>3 DEF WorkerDoze, Shape, PcShape
  <2>5. CASE WorkerGet(h)
    <3>1. PcShape'
      BY <2>5, <1>pc DEF WorkerGet, Counted, PcShape, ClientPC, HandlerPC
    <3>2. message' \in [Handlers -> Nat] /\ queue' \in [Ids -> Seq(Nat)]
      <4> DEFINE id == HandlerId[h]
      <4>1. PICK i \in 1 .. Len(queue[id]) :
               /\ message' = [message EXCEPT ![h] = queue[id][i]]
               /\ queue' = [queue EXCEPT ![id] = Rest(queue[id], i)]
               /\ queue[id][i] \in Nat
               /\ Rest(queue[id], i) \in Seq(Nat)
        BY <2>5, PopTakesOne
      <4> QED  BY <4>1, <1>message, <1>queue
    <3>3. busy_count' \in [Ids -> Int]
      BY <2>5, <1>busy_count, SMT DEF WorkerGet, Counted
    <3>4. queue_mutex' \in [Ids -> Threads \cup {None}]
      BY <2>5, <1>queue_mutex DEF WorkerGet, Counted
    <3> QED
      BY <2>5, <1>s, <3>1, <3>2, <3>3, <3>4 DEF WorkerGet, Counted, Shape, PcShape
  <2>6. CASE WorkerGetNothing(h)
    <3>1. PcShape'
      BY <2>6, <1>pc DEF WorkerGetNothing, PcShape, ClientPC, HandlerPC
    <3>2. queue_mutex' \in [Ids -> Threads \cup {None}]
      BY <2>6, <1>queue_mutex DEF WorkerGetNothing
    <3> QED
      BY <2>6, <1>s, <3>1, <3>2 DEF WorkerGetNothing, Shape, PcShape
  <2>7. CASE WorkerDispatch(h)
    <3>1. PcShape'
      BY <2>7, <1>pc DEF WorkerDispatch, PcShape, ClientPC, HandlerPC
    <3> QED
      BY <2>7, <1>s, <3>1 DEF WorkerDispatch, Shape, PcShape
  <2>8. CASE WorkerDrop(h)
    <3>1. PcShape'
      BY <2>8, <1>pc DEF WorkerDrop, PcShape, ClientPC, HandlerPC
    <3>2. dropped' \in [Ids -> SUBSET Nat]
      <4>1. {message[h]} \ {0} \in SUBSET Nat  BY <1>message
      <4> DEFINE new == {message[h]} \ {0}
      <4>2. dropped' = [dropped EXCEPT ![HandlerId[h]] = @ \cup new]
        BY <2>8 DEF WorkerDrop
      <4> HIDE DEF new
      <4>3. new \in SUBSET Nat  BY <4>1 DEF new
      <4> QED  BY <4>2, <4>3, <1>dropped
    <3>3. message' \in [Handlers -> Nat]
      BY <2>8, <1>message DEF WorkerDrop
    <3> QED
      BY <2>8, <1>s, <3>1, <3>2, <3>3 DEF WorkerDrop, Shape, PcShape
  <2>9. CASE WorkerExit(h)
    <3>1. PcShape'
      BY <2>9, <1>pc DEF WorkerExit, PcShape, ClientPC, HandlerPC
    <3>2. exited' \subseteq Handlers
      BY <2>9, <1>exited DEF WorkerExit
    <3> QED
      BY <2>9, <1>s, <3>1, <3>2 DEF WorkerExit, Shape, PcShape
  <2> QED
    BY <1>9, <2>1, <2>2, <2>3, <2>4, <2>5, <2>6, <2>7, <2>8, <2>9 DEF
      WorkerStep
<1>10. ASSUME NEW h \in Handlers, OnMessageStep(h)
      PROVE  Shape'
  <2>1. CASE CallbackReturns(h)
    <3>1. PcShape'
      BY <2>1, <1>pc DEF CallbackReturns, PcShape, ClientPC, HandlerPC
    <3>2. handled' \in [Ids -> SUBSET Nat]
      BY <2>1, <1>handled, <1>message DEF CallbackReturns
    <3> QED
      BY <2>1, <1>s, <3>1, <3>2 DEF CallbackReturns, Shape, PcShape
  <2>2. CASE WorkerUncount(h)
    <3>1. PcShape'
      BY <2>2, <1>pc DEF WorkerUncount, Uncounted, PcShape, ClientPC, HandlerPC
    <3>2. busy_count' \in [Ids -> Int]
      BY <2>2, <1>busy_count, SMT DEF WorkerUncount, Uncounted
    <3>3. still_busy' \in [Handlers -> Int]
      BY <2>2, <1>still_busy, <1>busy_count, SMT DEF WorkerUncount, Uncounted
    <3>4. message' \in [Handlers -> Nat]
      BY <2>2, <1>message DEF WorkerUncount, Uncounted
    <3> QED
      BY <2>2, <1>s, <3>1, <3>2, <3>3, <3>4 DEF WorkerUncount, Uncounted, Shape,
         PcShape
  <2>3. CASE WorkerNotify(h)
    <3>1. PcShape'
      BY <2>3, <1>pc DEF WorkerNotify, notify_all, MayNotify, IsLastBusy, PcShape, ClientPC, HandlerPC
    <3>2. queue_cv_empty' \in [Ids -> SUBSET Clients]
      BY <2>3, <1>queue_cv_empty DEF WorkerNotify, notify_all, MayNotify,
         IsLastBusy
    <3>3. still_busy' \in [Handlers -> Int]
      BY <2>3, <1>still_busy DEF WorkerNotify, notify_all, MayNotify, IsLastBusy
    <3> QED
      BY <2>3, <1>s, <3>1, <3>2, <3>3 DEF WorkerNotify, notify_all, MayNotify,
         IsLastBusy, Shape, PcShape
  <2>4. CASE WorkerNeedNotNotify(h)
    <3>1. PcShape'
      BY <2>4, <1>pc DEF WorkerNeedNotNotify, MayNotify, IsLastBusy, PcShape, ClientPC, HandlerPC
    <3>2. still_busy' \in [Handlers -> Int]
      BY <2>4, <1>still_busy, SMT DEF WorkerNeedNotNotify, MayNotify, IsLastBusy
    <3> QED
      BY <2>4, <1>s, <3>1, <3>2 DEF WorkerNeedNotNotify, MayNotify, IsLastBusy,
         Shape, PcShape
  <2> QED  BY <1>10, <2>1, <2>2, <2>3, <2>4 DEF OnMessageStep
<1>11. ASSUME NEW t \in Threads, SpuriousWakeup(t)
      PROVE  Shape'
  <2>1. queue_cv' \in [Ids -> SUBSET Threads]
    BY <1>11, <1>queue_cv DEF SpuriousWakeup
  <2>2. queue_cv_empty' \in [Ids -> SUBSET Clients]
    BY <1>11, <1>queue_cv_empty DEF SpuriousWakeup
  <2> QED
    BY <1>11, <1>s, <2>1, <2>2 DEF SpuriousWakeup, Shape, PcShape
<1>12. ASSUME NEW h \in Handlers, CallbackTerminates(h)
      PROVE  Shape'
  <2>1. crashed' \in BOOLEAN
    BY <1>12, <1>crashed DEF CallbackTerminates
  <2> QED
    BY <1>12, <1>s, <2>1 DEF CallbackTerminates, Shape, PcShape
<1>13. ASSUME NEW h \in Handlers, ReadFaults(h)
      PROVE  Shape'
  <2>1. crashed' \in BOOLEAN
    BY <1>13, <1>crashed DEF ReadFaults
  <2> QED
    BY <1>13, <1>s, <2>1 DEF ReadFaults, Shape, PcShape
<1> HIDE DEF Shape
<1> QED
  BY <1>1, <1>2, <1>3, <1>4, <1>5, <1>6, <1>7, <1>8, <1>9, <1>10, <1>11,
     <1>12, <1>13 DEF Next, Call, ClientStep, HandlerStep, Threads

\* Every step of message_manager preserves CallInv.
LEMMA CallStep ==
    ASSUME Shape, CallInv, [Next]_vars
    PROVE  CallInv'
<1>t. /\ pc \in [Threads -> ClientPC \cup HandlerPC]
      /\ arg \in [Threads -> Ids \cup {None}]
      /\ limit \in [Threads -> Nat]
      /\ victim \in [Clients -> Handlers \cup {None}]
      /\ threads \in [Ids -> SUBSET Handlers]
  BY DEF Shape
<1> USE ConstantsAssumption, <1>t DEF Goto, Threads, callVars, queueVars,
        cvVars, ownerVars, objectVars, localVars, historyVars, CallInv,
        InCall, Sending, Destroying, HandlersOf
<1>1. CASE UNCHANGED vars  BY <1>1 DEF vars
<1>2. ASSUME NEW t \in Threads, NEW id \in Ids, NEW max \in Limits,
             StartSend(t, id, max)
      PROVE  CallInv'
  BY <1>2 DEF StartSend, Home
<1>3. ASSUME NEW c \in Clients, NEW id \in Ids, StartWait(c, id)
      PROVE  CallInv'
  BY <1>3 DEF StartWait
<1>4. ASSUME NEW c \in Clients, NEW h \in Handlers, AddHandler(c, h)
      PROVE  CallInv'
  BY <1>4, SMT DEF AddHandler
<1>5. ASSUME NEW c \in Clients, NEW id \in Disposable, StartDispose(c, id)
      PROVE  CallInv'
  BY <1>5 DEF StartDispose
<1>6. ASSUME NEW t \in Threads, SendStep(t)
      PROVE  CallInv'
  <2>1. CASE SendLookup(t)  BY <2>1 DEF SendLookup
  <2>2. CASE SendEnqueue(t)  BY <2>2 DEF SendEnqueue
  <2>3. CASE SendFindsFull(t)  BY <2>3 DEF SendFindsFull
  <2>4. CASE SendDoze(t)  BY <2>4 DEF SendDoze
  <2>5. CASE SendAnnounce(t)  BY <2>5 DEF SendAnnounce, Home, notify_all
  <2> QED  BY <1>6, <2>1, <2>2, <2>3, <2>4, <2>5 DEF SendStep
<1>7. ASSUME NEW c \in Clients, WaitStep(c)
      PROVE  CallInv'
  <2>1. CASE WaitUnknown(c)  BY <2>1 DEF WaitUnknown
  <2>2. CASE WaitLookup(c)  BY <2>2 DEF WaitLookup
  <2>3. CASE WaitReturn(c)  BY <2>3 DEF WaitReturn
  <2>4. CASE WaitFindsBusy(c)  BY <2>4 DEF WaitFindsBusy
  <2>5. CASE WaitDoze(c)  BY <2>5 DEF WaitDoze
  <2> QED  BY <1>7, <2>1, <2>2, <2>3, <2>4, <2>5 DEF WaitStep
<1>8. ASSUME NEW c \in Clients, DisposeStep(c)
      PROVE  CallInv'
  <2>1. CASE DisposeMembers(c)  BY <2>1, SMT DEF DisposeMembers
  <2>2. CASE DisposeBase(c)  BY <2>2 DEF DisposeBase
  <2>3. CASE DisposeStop(c)  BY <2>3 DEF DisposeStop, MayStop
  <2>4. CASE DisposeNotify(c)  BY <2>4 DEF DisposeNotify, notify_all
  <2>5. CASE DisposeJoin(c)  BY <2>5, SMT DEF DisposeJoin
  <2>6. CASE DisposeReturn(c)  BY <2>6 DEF DisposeReturn
  <2> QED  BY <1>8, <2>1, <2>2, <2>3, <2>4, <2>5, <2>6 DEF DisposeStep
<1>9. ASSUME NEW h \in Handlers, WorkerStep(h)
      PROVE  CallInv'
  <2>1. CASE WorkerLoop(h)  BY <2>1 DEF WorkerLoop
  <2>2. CASE WorkerLock(h)
    BY <2>2 DEF WorkerLock, TakeLockAndTest, NeedNotWait
  <2>3. CASE WorkerWake(h)  BY <2>3 DEF WorkerWake, TakeLockAndTest
  <2>4. CASE WorkerDoze(h)  BY <2>4 DEF WorkerDoze
  <2>5. CASE WorkerGet(h)  BY <2>5 DEF WorkerGet, Counted
  <2>6. CASE WorkerGetNothing(h)  BY <2>6 DEF WorkerGetNothing
  <2>7. CASE WorkerDispatch(h)  BY <2>7 DEF WorkerDispatch
  <2>8. CASE WorkerDrop(h)  BY <2>8 DEF WorkerDrop
  <2>9. CASE WorkerExit(h)  BY <2>9 DEF WorkerExit
  <2> QED
    BY <1>9, <2>1, <2>2, <2>3, <2>4, <2>5, <2>6, <2>7, <2>8, <2>9 DEF
      WorkerStep
<1>10. ASSUME NEW h \in Handlers, OnMessageStep(h)
      PROVE  CallInv'
  <2>1. CASE CallbackReturns(h)  BY <2>1 DEF CallbackReturns
  <2>2. CASE WorkerUncount(h)  BY <2>2 DEF WorkerUncount, Uncounted
  <2>3. CASE WorkerNotify(h)
    BY <2>3 DEF WorkerNotify, notify_all, MayNotify, IsLastBusy
  <2>4. CASE WorkerNeedNotNotify(h)
    BY <2>4 DEF WorkerNeedNotNotify, MayNotify, IsLastBusy
  <2> QED  BY <1>10, <2>1, <2>2, <2>3, <2>4 DEF OnMessageStep
<1>11. ASSUME NEW t \in Threads, SpuriousWakeup(t)
      PROVE  CallInv'
  BY <1>11 DEF SpuriousWakeup
<1>12. ASSUME NEW h \in Handlers, CallbackTerminates(h)
      PROVE  CallInv'
  BY <1>12 DEF CallbackTerminates
<1>13. ASSUME NEW h \in Handlers, ReadFaults(h)
      PROVE  CallInv'
  BY <1>13 DEF ReadFaults
<1> HIDE DEF CallInv
<1> QED
  BY <1>1, <1>2, <1>3, <1>4, <1>5, <1>6, <1>7, <1>8, <1>9, <1>10, <1>11,
     <1>12, <1>13 DEF Next, Call, ClientStep, HandlerStep, Threads

-----------------------------------------------------------------------------
(* Every message stays in exactly one place, FIFO handlers take the oldest, *)
(* and queues respect the limits: one lemma per moving action.              *)

\* Placed(id) depends on the messages of id only.
LEMMA PlacedFrame ==
    ASSUME NEW id, Placed(id),
           queue'[id] = queue[id], accepted'[id] = accepted[id],
           handled'[id] = handled[id], dropped'[id] = dropped[id],
           \A h \in HandlersOf(id) : message'[h] = message[h] /\ pc'[h] = pc[h]
    PROVE  Placed(id)'
<1>1. HandlersOf(id)' = HandlersOf(id)
  BY DEF HandlersOf
<1>2. \A m : InQueue(id, m)' <=> InQueue(id, m)
  BY DEF InQueue
<1>3. \A m \in 1 .. accepted[id] :
         \/ InQueue(id, m) \/ m \in handled[id] \/ m \in dropped[id]
         \/ \E h \in HandlersOf(id) : message'[h] = m
  BY SMT DEF Placed
<1>4. \A h \in HandlersOf(id) : message'[h] # 0 =>
         /\ message'[h] \in 1 .. accepted[id]
         /\ ~InQueue(id, message'[h])
         /\ message'[h] \notin dropped[id]
         /\ message'[h] \in handled[id] <=> pc'[h] = "uncount"
  BY DEF Placed
<1>5. \A g, h \in HandlersOf(id) :
         message'[g] # 0 /\ message'[g] = message'[h] => g = h
  BY DEF Placed
<1>6. /\ \A m \in handled[id] \cup dropped[id] :
            m \in 1 .. accepted[id] /\ ~InQueue(id, m)
      /\ \A m \in handled[id] : m \notin dropped[id]
  BY DEF Placed
<1> QED
  BY <1>1, <1>2, <1>3, <1>4, <1>5, <1>6 DEF Placed

\* Every other step leaves the places of the messages alone.
LEMMA UnmovedKeepsPlaces ==
    ASSUME PlaceInv, QueueInv, MessagesUnmoved
    PROVE  PlaceInv' /\ QueueInv'
  BY SMT DEF PlaceInv, Placed, QueueInv, MessagesUnmoved, InQueue, HandlersOf

\* The enqueue of send_message puts a new message into the queue only.
LEMMA PushKeepsPlaces ==
    ASSUME Shape, CallInv, QueueInv, HoldInv, PlaceInv,
           NEW t \in Threads, SendEnqueue(t)
    PROVE  PlaceInv'
<1>1. PushMoves(t)
  BY PushMovesOne
<1>2. /\ UNCHANGED <<message, handled, dropped>>
      /\ \A h \in Handlers : pc'[h] = "uncount" <=> pc[h] = "uncount"
  BY DEF SendEnqueue, Goto, Shape, Threads, localVars
<1> SUFFICES ASSUME NEW id \in Ids PROVE Placed(id)'
  BY DEF PlaceInv
<1>3. Placed(id) /\ accepted[id] \in Nat
  BY DEF PlaceInv, Shape
<1>4. CASE id # arg[t]
  <2>1. queue'[id] = queue[id] /\ accepted'[id] = accepted[id]
    BY <1>1, <1>4 DEF PushMoves, Shape
  <2> QED
    BY <1>2, <1>3, <2>1 DEF Placed, InQueue, HandlersOf
<1>5. CASE id = arg[t]
  <2>1. /\ accepted'[id] = accepted[id] + 1
        /\ \A n \in Nat : Has(queue'[id], n) <=> Has(queue[id], n) \/ n = accepted[id] + 1
    BY <1>1, <1>5 DEF PushMoves, Shape
  <2>2. /\ \A n \in 1 .. accepted[id] : n \in Nat /\ n # accepted[id] + 1
        /\ \A n \in 1 .. accepted[id] : n \in 1 .. accepted[id] + 1
        /\ \A n \in 1 .. accepted[id] + 1 :
              n \in Nat /\ (n \in 1 .. accepted[id] \/ n = accepted[id] + 1)
    BY <1>3, SMT
  <2> QED
    BY <1>2, <1>3, <2>1, <2>2 DEF Placed, InQueue, HandlersOf
<1> QED
  BY <1>4, <1>5

\* get_message gives a queued message to one worker.
LEMMA PopKeepsPlaces ==
    ASSUME Shape, QueueInv, HoldInv, PlaceInv,
           NEW h \in Handlers, WorkerGet(h)
    PROVE  PlaceInv'
<1>1. PICK m \in Nat : PopMoves(h, m)
  BY PopMovesOne
<1>2. /\ UNCHANGED <<accepted, handled, dropped>>
      /\ pc[h] = "get" /\ pc'[h] = "popped"
      /\ \A g \in Handlers \ {h} : pc'[g] = pc[g]
  BY DEF WorkerGet, Goto, Shape, Threads, historyVars
<1>3. message[h] = 0
  BY <1>2 DEF HoldInv, HoldOk, Holding
<1>4. message'[h] = m /\ \A g \in Handlers \ {h} : message'[g] = message[g]
  BY <1>1 DEF PopMoves, Shape
<1> SUFFICES ASSUME NEW id \in Ids PROVE Placed(id)'
  BY DEF PlaceInv
<1>5. Placed(id) /\ accepted[id] \in Nat
  BY DEF PlaceInv, Shape
<1>6. CASE id # HandlerId[h]
  <2>1. queue'[id] = queue[id]
    BY <1>1, <1>6 DEF PopMoves
  <2>2. \A g \in HandlersOf(id) : g # h /\ message'[g] = message[g] /\ pc'[g] = pc[g]
    BY <1>2, <1>4, <1>6 DEF HandlersOf
  <2> QED
    BY <1>2, <1>5, <2>1, <2>2, SMT DEF Placed, InQueue, HandlersOf
<1>7. CASE id = HandlerId[h]
  <2>1. /\ m \in 1 .. accepted[id] /\ Has(queue[id], m)
        /\ \A n \in Nat : Has(queue'[id], n) <=> Has(queue[id], n) /\ n # m
    BY <1>1, <1>7 DEF PopMoves
  <2>2. m # 0 /\ \A n \in 1 .. accepted[id] : n \in Nat /\ n # 0
    BY <1>5, <2>1, SMT
  <2>3. m \notin handled[id] /\ m \notin dropped[id]
    BY <1>5, <2>1 DEF Placed, InQueue
  <2>4. \A g \in HandlersOf(id) : message[g] # m
    BY <1>5, <2>1, <2>2 DEF Placed, InQueue
  <2>5. h \in HandlersOf(id)
    BY <1>7 DEF HandlersOf
  <2>6. \A g \in HandlersOf(id) \ {h} : message'[g] = message[g] /\ pc'[g] = pc[g]
    BY <1>2, <1>4 DEF HandlersOf
  <2>7. \A n \in 1 .. accepted[id] :
           \/ Has(queue'[id], n) \/ n \in handled[id] \/ n \in dropped[id]
           \/ \E g \in HandlersOf(id) : message'[g] = n
    <3> SUFFICES ASSUME NEW n \in 1 .. accepted[id], n # m
                 PROVE  \/ Has(queue'[id], n) \/ n \in handled[id] \/ n \in dropped[id]
                        \/ \E g \in HandlersOf(id) : message'[g] = n
      BY <1>4, <2>5
    <3>1. CASE \E g \in HandlersOf(id) : message[g] = n
      BY <1>3, <2>2, <2>6, <3>1
    <3> QED
      BY <1>5, <2>1, <2>2, <3>1 DEF Placed, InQueue
  <2>8. \A g \in HandlersOf(id) : message'[g] # 0 =>
           /\ message'[g] \in 1 .. accepted[id]
           /\ ~Has(queue'[id], message'[g])
           /\ message'[g] \notin dropped[id]
           /\ message'[g] \in handled[id] <=> pc'[g] = "uncount"
    <3> SUFFICES ASSUME NEW g \in HandlersOf(id), message'[g] # 0
                 PROVE  /\ message'[g] \in 1 .. accepted[id]
                        /\ ~Has(queue'[id], message'[g])
                        /\ message'[g] \notin dropped[id]
                        /\ message'[g] \in handled[id] <=> pc'[g] = "uncount"
      OBVIOUS
    <3>1. CASE g = h  BY <1>2, <1>4, <2>1, <2>2, <2>3, <3>1
    <3>2. CASE g # h  BY <1>5, <2>1, <2>2, <2>6, <3>2 DEF Placed, InQueue
    <3> QED  BY <3>1, <3>2
  <2>9. \A f, g \in HandlersOf(id) :
           message'[f] # 0 /\ message'[f] = message'[g] => f = g
    BY <1>4, <1>5, <2>4, <2>6 DEF Placed
  <2>10. \A n \in handled[id] \cup dropped[id] :
            n \in 1 .. accepted[id] /\ ~Has(queue'[id], n)
    BY <1>5, <2>1, <2>2 DEF Placed, InQueue
  <2>11. \A n \in handled[id] : n \notin dropped[id]
    BY <1>5 DEF Placed
  <2> QED
    BY <1>2, <2>7, <2>8, <2>9, <2>10, <2>11 DEF Placed, InQueue, HandlersOf
<1> QED
  BY <1>6, <1>7

\* A message popped after _running was cleared is dropped and nowhere else.
LEMMA DropKeepsPlaces ==
    ASSUME Shape, HoldInv, PlaceInv, NEW h \in Handlers, WorkerDrop(h)
    PROVE  PlaceInv'
<1>1. /\ UNCHANGED <<queue, accepted, handled>>
      /\ pc[h] = "popped" /\ pc'[h] = "loop"
      /\ \A g \in Handlers \ {h} : pc'[g] = pc[g] /\ message'[g] = message[g]
      /\ message'[h] = 0
      /\ dropped'[HandlerId[h]] = dropped[HandlerId[h]] \cup ({message[h]} \ {0})
      /\ \A id \in Ids : id # HandlerId[h] => dropped'[id] = dropped[id]
  BY ConstantsAssumption DEF WorkerDrop, Goto, Shape, Threads, queueVars
<1> SUFFICES ASSUME NEW id \in Ids PROVE Placed(id)'
  BY DEF PlaceInv
<1>2. Placed(id) /\ accepted[id] \in Nat
  BY DEF PlaceInv, Shape
<1>3. \A n \in 1 .. accepted[id] : n # 0
  BY <1>2, SMT
<1>4. CASE id # HandlerId[h]
  <2>1. \A g \in HandlersOf(id) : g # h /\ message'[g] = message[g] /\ pc'[g] = pc[g]
    BY <1>1, <1>4 DEF HandlersOf
  <2>2. /\ queue'[id] = queue[id] /\ accepted'[id] = accepted[id]
        /\ handled'[id] = handled[id] /\ dropped'[id] = dropped[id]
    BY <1>1, <1>4
  <2> QED
    BY <1>2, <2>1, <2>2, PlacedFrame
<1>5. CASE id = HandlerId[h]
  <2>1. h \in HandlersOf(id)
    BY <1>5 DEF HandlersOf
  <2>2. \A g \in HandlersOf(id) \ {h} : message'[g] = message[g] /\ pc'[g] = pc[g]
    BY <1>1 DEF HandlersOf
  <2>3. \A n : n \in dropped'[id] <=> n \in dropped[id] \/ (n = message[h] /\ n # 0)
    BY <1>1, <1>5
  <2>4. message[h] # 0 => /\ message[h] \in 1 .. accepted[id]
                          /\ ~Has(queue[id], message[h])
                          /\ message[h] \notin handled[id]
                          /\ \A g \in HandlersOf(id) \ {h} : message[g] # message[h]
    BY <1>1, <1>2, <2>1 DEF Placed, InQueue
  <2>5. \A n \in 1 .. accepted[id] :
           \/ Has(queue[id], n) \/ n \in handled[id] \/ n \in dropped'[id]
           \/ \E g \in HandlersOf(id) : message'[g] = n
    BY <1>2, <1>3, <2>2, <2>3 DEF Placed, InQueue
  <2>6. \A n \in handled[id] \cup dropped'[id] :
           n \in 1 .. accepted[id] /\ ~Has(queue[id], n)
    <3>1. \A n \in handled[id] \cup dropped[id] :
             n \in 1 .. accepted[id] /\ ~Has(queue[id], n)
      BY <1>2 DEF Placed, InQueue
    <3>2. ASSUME NEW n \in dropped'[id]
          PROVE  n \in 1 .. accepted[id] /\ ~Has(queue[id], n)
      <4>1. CASE n \in dropped[id]
        BY <3>1, <4>1
      <4>2. CASE n = message[h] /\ n # 0
        BY <2>4, <4>2
      <4> QED
        BY <2>3, <4>1, <4>2
    <3> QED
      BY <3>1, <3>2
  <2>7. \A n \in handled[id] : n \notin dropped'[id]
    BY <1>2, <2>3, <2>4 DEF Placed
  <2>8. \A g \in HandlersOf(id) : message'[g] # 0 =>
           /\ message'[g] \in 1 .. accepted[id]
           /\ ~Has(queue[id], message'[g])
           /\ message'[g] \notin dropped'[id]
           /\ message'[g] \in handled[id] <=> pc'[g] = "uncount"
    <3> SUFFICES ASSUME NEW g \in HandlersOf(id), message'[g] # 0
                 PROVE  /\ message'[g] \in 1 .. accepted[id]
                        /\ ~Has(queue[id], message'[g])
                        /\ message'[g] \notin dropped'[id]
                        /\ message'[g] \in handled[id] <=> pc'[g] = "uncount"
      OBVIOUS
    <3>1. g # h /\ message'[g] = message[g] /\ pc'[g] = pc[g]
      BY <1>1, <2>2
    <3>2. /\ message[g] \in 1 .. accepted[id] /\ ~Has(queue[id], message[g])
          /\ message[g] \notin dropped[id]
          /\ message[g] \in handled[id] <=> pc[g] = "uncount"
      BY <1>2, <3>1 DEF Placed, InQueue
    <3>3. message[g] # message[h]
      BY <2>4, <3>1
    <3> QED
      BY <2>3, <3>1, <3>2, <3>3
  <2>9. \A f, g \in HandlersOf(id) :
           message'[f] # 0 /\ message'[f] = message'[g] => f = g
    BY <1>1, <1>2, <2>2 DEF Placed
  <2> QED
    BY <1>1, <2>5, <2>6, <2>7, <2>8, <2>9 DEF Placed, InQueue, HandlersOf
<1> QED
  BY <1>4, <1>5

\* A returning callback turns its own message, and no other, into a handled
\* one.
LEMMA ReturnKeepsPlaces ==
    ASSUME Shape, HoldInv, PlaceInv, NEW h \in Handlers, CallbackReturns(h)
    PROVE  PlaceInv'
<1>1. /\ UNCHANGED <<queue, accepted, message, dropped>>
      /\ pc[h] = "callback" /\ pc'[h] = "uncount"
      /\ \A g \in Handlers \ {h} : pc'[g] = pc[g]
      /\ handled'[HandlerId[h]] = handled[HandlerId[h]] \cup {message[h]}
      /\ \A id \in Ids : id # HandlerId[h] => handled'[id] = handled[id]
  BY ConstantsAssumption DEF CallbackReturns, Goto, Shape, Threads, queueVars, localVars
<1>2. message[h] # 0
  BY <1>1 DEF HoldInv, HoldOk, Holding
<1> SUFFICES ASSUME NEW id \in Ids PROVE Placed(id)'
  BY DEF PlaceInv
<1>3. Placed(id)
  BY DEF PlaceInv
<1>4. CASE id # HandlerId[h]
  <2>1. \A g \in HandlersOf(id) : g # h /\ pc'[g] = pc[g]
    BY <1>1, <1>4 DEF HandlersOf
  <2> QED
    BY <1>1, <1>3, <1>4, <2>1 DEF Placed, InQueue, HandlersOf
<1>5. CASE id = HandlerId[h]
  <2>1. h \in HandlersOf(id)
    BY <1>5 DEF HandlersOf
  <2>2. \A g \in HandlersOf(id) \ {h} :
           /\ pc'[g] = pc[g]
           /\ message[g] # 0 => message[g] # message[h]
    BY <1>1, <1>3, <2>1 DEF Placed, HandlersOf
  <2>3. handled'[id] = handled[id] \cup {message[h]}
    BY <1>1, <1>5
  <2>4. /\ message[h] \in 1 .. accepted[id] /\ ~Has(queue[id], message[h])
        /\ message[h] \notin dropped[id]
    BY <1>2, <1>3, <2>1 DEF Placed, InQueue
  <2>5. \A n \in 1 .. accepted[id] :
           \/ Has(queue[id], n) \/ n \in handled'[id] \/ n \in dropped[id]
           \/ \E g \in HandlersOf(id) : message[g] = n
    BY <1>3, <2>3 DEF Placed, InQueue
  <2>6. \A n \in handled'[id] \cup dropped[id] :
           n \in 1 .. accepted[id] /\ ~Has(queue[id], n)
    BY <1>3, <2>3, <2>4 DEF Placed, InQueue
  <2>7. \A n \in handled'[id] : n \notin dropped[id]
    BY <1>3, <2>3, <2>4 DEF Placed
  <2>8. \A g \in HandlersOf(id) : message[g] # 0 =>
           message[g] \in handled'[id] <=> pc'[g] = "uncount"
    <3> TAKE g \in HandlersOf(id)
    <3>1. CASE g = h
      BY <1>1, <2>3, <3>1
    <3>2. CASE g # h
      BY <1>3, <2>2, <2>3, <3>2 DEF Placed
    <3> QED
      BY <3>1, <3>2
  <2>9. /\ queue'[id] = queue[id] /\ accepted'[id] = accepted[id]
        /\ message' = message /\ dropped'[id] = dropped[id]
    BY <1>1
  <2> QED
    BY <1>3, <2>5, <2>6, <2>7, <2>8, <2>9 DEF Placed, InQueue, HandlersOf
<1> QED
  BY <1>4, <1>5

\* on_message forgets a message only after its callback has completed.
LEMMA UncountKeepsPlaces ==
    ASSUME Shape, HoldInv, PlaceInv, NEW h \in Handlers, WorkerUncount(h)
    PROVE  PlaceInv'
<1>1. /\ UNCHANGED <<queue, accepted, handled, dropped>>
      /\ pc[h] = "uncount" /\ pc'[h] = "notify"
      /\ \A g \in Handlers \ {h} : pc'[g] = pc[g] /\ message'[g] = message[g]
      /\ message'[h] = 0
  BY ConstantsAssumption DEF WorkerUncount, Goto, Shape, Threads, historyVars
<1>2. message[h] # 0
  BY <1>1 DEF HoldInv, HoldOk, Holding
<1> SUFFICES ASSUME NEW id \in Ids PROVE Placed(id)'
  BY DEF PlaceInv
<1>3. Placed(id)
  BY DEF PlaceInv
<1>4. \A g \in HandlersOf(id) \ {h} : pc'[g] = pc[g] /\ message'[g] = message[g]
  BY <1>1 DEF HandlersOf
<1>5. h \in HandlersOf(id) => message[h] \in handled[id]
  BY <1>1, <1>2, <1>3 DEF Placed
<1>6. \A n \in 1 .. accepted[id] :
         \/ Has(queue[id], n) \/ n \in handled[id] \/ n \in dropped[id]
         \/ \E g \in HandlersOf(id) : message'[g] = n
  BY <1>3, <1>4, <1>5, SMT DEF Placed, InQueue
<1> QED
  BY <1>1, <1>3, <1>4, <1>6 DEF Placed, InQueue, HandlersOf

\* Every step of message_manager keeps every message in one place.
LEMMA PlaceStep ==
    ASSUME Shape, CallInv, QueueInv, HoldInv, PlaceInv, [Next]_vars
    PROVE  PlaceInv' /\ QueueInv'
<1>1. MessageMove
  BY MessageFrame
<1>2. ASSUME NEW h \in Handlers, WorkerDrop(h) \/ CallbackReturns(h) \/ WorkerUncount(h)
      PROVE  QueueInv'
  BY <1>2 DEF WorkerDrop, CallbackReturns, WorkerUncount, QueueInv, queueVars, historyVars
<1> QED
  BY <1>1, <1>2, UnmovedKeepsPlaces, PushKeepsPlaces, PushMovesOne,
     PopKeepsPlaces, PopMovesOne, DropKeepsPlaces, ReturnKeepsPlaces,
     UncountKeepsPlaces DEF MessageMove

\* The elementwise invariant implies the partition of the run-checked
\* property.
LEMMA PlacesPartition ==
    ASSUME Shape, QueueInv, PlaceInv
    PROVE  EveryMessageInOnePlace
<1> SUFFICES ASSUME NEW id \in Ids
             PROVE  /\ 1 .. accepted[id]
                          = Queued(id) \cup InHand(id) \cup handled[id] \cup dropped[id]
                    /\ \A i, j \in DOMAIN queue[id] : i < j => queue[id][i] < queue[id][j]
                    /\ Queued(id) \cap (InHand(id) \cup handled[id] \cup dropped[id]) = {}
                    /\ dropped[id] \cap (InHand(id) \cup handled[id]) = {}
                    /\ \A g, h \in Holders(id) : message[g] = message[h] => g = h
  BY DEF EveryMessageInOnePlace
<1>1. /\ queue[id] \in Seq(Nat) /\ accepted[id] \in Nat
      /\ Sorted(queue[id], accepted[id]) /\ Placed(id)
  BY DEF Shape, QueueInv, PlaceInv
<1>2. DOMAIN queue[id] = 1 .. Len(queue[id])
  BY <1>1, SMT
<1>3. \A m : m \in Queued(id) <=> Has(queue[id], m)
  BY <1>2 DEF Queued, Range, Has
<1>4. \A m : m \in InHand(id) <=> /\ m \notin handled[id] /\ m # 0
                                  /\ \E h \in HandlersOf(id) : message[h] = m
  BY DEF InHand, Holders
<1>5. \A m : Has(queue[id], m) => m \in 1 .. accepted[id]
  BY <1>1 DEF Sorted, Has
<1>6. \A m \in 1 .. accepted[id] : m # 0
  BY <1>1, SMT
<1>7. 1 .. accepted[id]
        = Queued(id) \cup InHand(id) \cup handled[id] \cup dropped[id]
  BY <1>1, <1>3, <1>4, <1>5, <1>6, SMT DEF Placed, InQueue
<1>8. \A i, j \in DOMAIN queue[id] : i < j => queue[id][i] < queue[id][j]
  BY <1>1, <1>2 DEF Sorted
<1>9. Queued(id) \cap (InHand(id) \cup handled[id] \cup dropped[id]) = {}
  BY <1>1, <1>3, <1>4, SMT DEF Placed, InQueue
<1>10. dropped[id] \cap (InHand(id) \cup handled[id]) = {}
  BY <1>1, <1>4, SMT DEF Placed
<1>11. \A g, h \in Holders(id) : message[g] = message[h] => g = h
  BY <1>1 DEF Placed, Holders
<1> QED
  BY <1>7, <1>8, <1>9, <1>10, <1>11

-----------------------------------------------------------------------------
(* Order and limit *)

\* Every step preserves FifoInv.
LEMMA FifoStep ==
    ASSUME Shape, CallInv, QueueInv, HoldInv, FifoInv, [Next]_vars
    PROVE  FifoInv'
<1>1. MessageMove
  BY MessageFrame
<1> SUFFICES ASSUME NEW id \in Ids, \A h \in HandlersOf(id) : Order[h] = "FIFO",
                    NEW m \in 1 .. accepted'[id], NEW n \in 1 .. accepted'[id],
                    ~Has(queue'[id], m), Has(queue'[id], n)
             PROVE  m < n
  BY DEF FifoInv, HandlersOf
<1>2. /\ queue[id] \in Seq(Nat) /\ accepted[id] \in Nat /\ Sorted(queue[id], accepted[id])
      /\ \A a, b \in 1 .. accepted[id] :
            ~Has(queue[id], a) /\ Has(queue[id], b) => a < b
  BY DEF Shape, QueueInv, FifoInv
<1>3. ASSUME queue'[id] = queue[id], accepted'[id] = accepted[id]
      PROVE  m < n
  BY <1>2, <1>3
<1>4. CASE MessagesUnmoved
  BY <1>3, <1>4 DEF MessagesUnmoved
<1>5. ASSUME NEW h \in Handlers, WorkerDrop(h) \/ CallbackReturns(h) \/ WorkerUncount(h)
      PROVE  m < n
  <2>1. queue' = queue /\ accepted' = accepted
    BY <1>5 DEF WorkerDrop, CallbackReturns, WorkerUncount, queueVars, historyVars
  <2> QED
    BY <1>3, <2>1
<1>6. ASSUME NEW t \in Threads, SendEnqueue(t)
      PROVE  m < n
  <2>1. PushMoves(t)
    BY <1>6, PushMovesOne
  <2>2. CASE id # arg[t]
    BY <1>3, <2>1, <2>2 DEF PushMoves, Shape
  <2>3. CASE id = arg[t]
    <3>1. /\ accepted'[id] = accepted[id] + 1
          /\ \A k \in Nat : Has(queue'[id], k) <=> Has(queue[id], k) \/ k = accepted[id] + 1
      BY <2>1, <2>3 DEF PushMoves, Shape
    <3>2. m \in Nat /\ n \in Nat /\ m # accepted[id] + 1 /\ m \in 1 .. accepted[id]
      <4>1. m \in Nat /\ n \in Nat
        BY <1>2, <3>1, SMT
      <4>2. m # accepted[id] + 1
        BY <3>1, <4>1
      <4>3. accepted[id] \in Nat /\ m \in 1 .. accepted[id] + 1
        BY <1>2, <3>1
      <4> QED
        BY <4>1, <4>2, <4>3, SMT
    <3>3. CASE n = accepted[id] + 1
      BY <1>2, <3>2, <3>3, SMT
    <3>4. CASE n # accepted[id] + 1
      <4>1. Has(queue[id], n) /\ n \in 1 .. accepted[id] /\ ~Has(queue[id], m)
        <5>1. Has(queue[id], n) /\ ~Has(queue[id], m)
          BY <1>2, <3>1, <3>2, <3>4
        <5>2. n \in 1 .. accepted[id]
          BY <1>2, <3>1, <3>4, SMT
        <5> QED
          BY <5>1, <5>2
      <4> QED
        BY <1>2, <3>2, <4>1
    <3> QED
      BY <3>3, <3>4
  <2> QED
    BY <2>2, <2>3
<1>7. ASSUME NEW h \in Handlers, WorkerGet(h)
      PROVE  m < n
  <2> DEFINE q == queue[HandlerId[h]]
  <2>1. PICK i \in 1 .. Len(q) :
           /\ message' = [message EXCEPT ![h] = q[i]]
           /\ i \in PopPositions(h)
    BY <1>7, PopTakesOne
  <2>2. PICK p \in Nat : PopMoves(h, p)
    BY <1>7, PopMovesOne
  <2>3. accepted' = accepted
    BY <1>7 DEF WorkerGet, historyVars
  <2>4. CASE id # HandlerId[h]
    BY <1>3, <2>2, <2>3, <2>4 DEF PopMoves
  <2>5. CASE id = HandlerId[h]
    <3>1. i = 1
      BY <2>1, <2>5 DEF PopPositions, HandlersOf
    <3>2. p = q[1]
      <4>1. message'[h] = q[i]
        BY <2>1 DEF Shape
      <4>2. message'[h] = p
        BY <2>2 DEF PopMoves, Shape
      <4> QED
        BY <3>1, <4>1, <4>2
    <3>3. Has(q, n) /\ n # p /\ (Has(q, m) => m = p)
      <4>1. m \in Nat /\ n \in Nat
        BY <1>2, <2>3, SMT
      <4>2. \A k \in Nat : Has(queue'[id], k) <=> Has(q, k) /\ k # p
        BY <2>2, <2>5 DEF PopMoves
      <4> QED
        BY <4>1, <4>2
    <3>4. PICK k \in 1 .. Len(q) : q[k] = n
      BY <3>3 DEF Has
    <3>5. p < n
      <4>1. q \in Seq(Nat) /\ Sorted(q, accepted[id]) /\ Len(q) \in Nat
        BY <1>2, <2>5, SMT
      <4>2. 1 < k /\ 1 \in 1 .. Len(q)
        BY <3>2, <3>3, <3>4, <4>1, SMT
      <4> QED
        BY <3>2, <3>4, <4>1, <4>2 DEF Sorted
    <3>6. CASE Has(q, m)
      BY <3>3, <3>5, <3>6
    <3>7. CASE ~Has(q, m)
      BY <1>2, <2>3, <2>5, <3>3, <3>7
    <3> QED
      BY <3>6, <3>7
  <2> QED
    BY <2>4, <2>5
<1> QED
  BY <1>1, <1>4, <1>5, <1>6, <1>7 DEF MessageMove

\* FifoInv implies the run-checked property FifoTakesOldest.
LEMMA FifoInvSuffices ==
    ASSUME Shape, QueueInv, PlaceInv, FifoInv
    PROVE  FifoTakesOldest
<1> SUFFICES ASSUME NEW id \in Ids, \A h \in HandlersOf(id) : Order[h] = "FIFO",
                    NEW m \in InHand(id) \cup handled[id] \cup dropped[id],
                    NEW n \in Queued(id)
             PROVE  m < n
  BY DEF FifoTakesOldest
<1>1. /\ queue[id] \in Seq(Nat) /\ Sorted(queue[id], accepted[id]) /\ Placed(id)
      /\ \A a, b \in 1 .. accepted[id] :
            ~Has(queue[id], a) /\ Has(queue[id], b) => a < b
  BY DEF Shape, QueueInv, PlaceInv, FifoInv
<1>2. Has(queue[id], n)
  BY <1>1, SMT DEF Queued, Range, Has
<1>3. n \in 1 .. accepted[id]
  BY <1>1, <1>2 DEF Sorted, Has
<1>4. m \in 1 .. accepted[id] /\ ~Has(queue[id], m)
  BY <1>1, SMT DEF Placed, InQueue, InHand, Holders
<1> QED
  BY <1>1, <1>2, <1>3, <1>4

\* Every step preserves QueueWithinLimit: the space is tested under the mutex
\* that protects the push.
LEMMA QueueLimitStep ==
    ASSUME Shape, CallInv, QueueInv, HoldInv, QueueWithinLimit, [Next]_vars
    PROVE  QueueWithinLimit'
<1>1. MessageMove
  BY MessageFrame
<1> SUFFICES ASSUME NEW id \in Ids, 0 \notin Limits, queue'[id] # <<>>
             PROVE  \E max \in Limits : Len(queue'[id]) <= max
  BY DEF QueueWithinLimit
<1>2. /\ queue[id] \in Seq(Nat) /\ Limits \subseteq Nat
      /\ queue[id] # <<>> => \E max \in Limits : Len(queue[id]) <= max
  BY ConstantsAssumption DEF Shape, QueueWithinLimit
<1>3. CASE queue'[id] = queue[id]
  BY <1>2, <1>3
<1>4. ASSUME MessagesUnmoved \/ \E h \in Handlers :
                WorkerDrop(h) \/ CallbackReturns(h) \/ WorkerUncount(h)
      PROVE  queue'[id] = queue[id]
  BY <1>4 DEF MessagesUnmoved, WorkerDrop, CallbackReturns, WorkerUncount, queueVars
<1>5. ASSUME NEW t \in Threads, SendEnqueue(t), queue'[id] # queue[id]
      PROVE  \E max \in Limits : Len(queue'[id]) <= max
  <2> DEFINE r == Append(queue[arg[t]], accepted[arg[t]] + 1)
  <2>1. /\ arg[t] \in Ids
        /\ queue' = [queue EXCEPT ![arg[t]] = r]
        /\ Len(r) = Len(queue[arg[t]]) + 1
    BY <1>5, PushAppends
  <2>2. limit[t] \in Limits /\ HasSpace(t, arg[t])
    BY <1>5 DEF SendEnqueue, CallInv, Sending
  <2>3. arg[t] = id /\ queue'[id] = r
    BY <1>5, <2>1 DEF Shape
  <2>4. Len(queue[id]) < limit[t] /\ limit[t] \in Nat /\ Len(queue[id]) \in Nat
    <3>1. limit[t] # 0 /\ limit[t] \in Nat
      BY <1>2, <2>2
    <3>2. Len(queue[id]) \in Nat
      BY <1>2, SMT
    <3>3. HasSpace(t, id)
      BY <2>2, <2>3
    <3> QED
      BY <3>1, <3>2, <3>3 DEF HasSpace
  <2>5. Len(queue'[id]) <= limit[t]
    BY <2>1, <2>3, <2>4, SMT
  <2> QED
    BY <2>2, <2>5
<1>6. ASSUME NEW h \in Handlers, WorkerGet(h), queue'[id] # queue[id]
      PROVE  \E max \in Limits : Len(queue'[id]) <= max
  <2> DEFINE q == queue[HandlerId[h]]
  <2>1. PICK i \in 1 .. Len(q) :
           /\ queue' = [queue EXCEPT ![HandlerId[h]] = Rest(q, i)]
           /\ Len(Rest(q, i)) = Len(q) - 1
    BY <1>6, PopTakesOne
  <2>2. HandlerId[h] = id /\ queue'[id] = Rest(q, i)
    BY <1>6, <2>1 DEF Shape
  <2>3. queue[id] # <<>> /\ Len(queue[id]) \in Nat
    BY <1>2, <2>1, <2>2, SMT
  <2>4. PICK max \in Limits : Len(queue[id]) <= max
    BY <1>2, <2>3
  <2>5. Len(queue'[id]) <= max
    BY <1>2, <2>1, <2>2, <2>3, <2>4, SMT
  <2> QED
    BY <2>5
<1> QED
  BY <1>1, <1>3, <1>4, <1>5, <1>6 DEF MessageMove
=============================================================================
