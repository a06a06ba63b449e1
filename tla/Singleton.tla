----------------------------- MODULE Singleton ------------------------------
(* lifecycle::singleton<T, Args...> and its registry singleton_control.     *)
(* _shutdown is a plain bool that get() and set_operational() use without   *)
(* _mutex.  Constructors and destructors of T run with _mutex held.         *)
EXTENDS Naturals, FiniteSets

CONSTANTS
    Threads, Names, Types,
    Operations,     \* the calls the threads make
    CtorThrows,     \* the types whose constructor may throw
    CtorGets,       \* the types whose constructor calls singleton<..>::get
    DtorGets,       \* the types whose destructor does
    MaxObjects,     \* bound: how many objects are ever made
    Null,           \* an empty unique_ptr
    None            \* no thread, no object, no map entry

ASSUME SingletonAssumption ==
    None \notin Threads /\ None # Null /\ None \notin Nat /\ Null \notin Nat

VARIABLES
    shutdown,       \* _shutdown
    mutex,          \* the owner of _mutex
    instances,      \* _instances: an object, Null or None
    typeOf,         \* the type of each object made so far
    pc, want,       \* each thread's control point and its arguments
    refs,           \* the shared_ptrs each thread holds
    found,          \* history: what the last get of a thread returned
    epoch,          \* history: how often a name was removed from _instances
    crashed         \* a null pointer was dereferenced

vars == <<shutdown, mutex, instances, typeOf, pc, want, refs, found, epoch, crashed>>
threadVars == <<pc, want, refs, found>>

Made == DOMAIN typeOf

NotFound == [object |-> None, name |-> None, type |-> None, epoch |-> 0]

Init ==
    /\ shutdown = FALSE /\ mutex = None /\ crashed = FALSE
    /\ instances = [n \in Names |-> None]
    /\ typeOf = [o \in {} |-> None]
    /\ pc = [t \in Threads |-> "idle"]
    /\ want = [t \in Threads |-> [name |-> None, type |-> None]]
    /\ refs = [t \in Threads |-> {}]
    /\ found = [t \in Threads |-> NotFound]
    /\ epoch = [n \in Names |-> 0]

Goto(t, l) == pc' = [pc EXCEPT ![t] = l]
Free == mutex = None

\* Mutants: the type is not tested; reset() destroys without _shutdown set.
FaultyRightType(o, ty) == TRUE
FaultyShutdownSet == shutdown

Missing(n) == instances[n] \in {None, Null}
RightType(o, ty) == typeOf[o] = ty
ShutdownSet == TRUE

\* The map hands its shared_ptr to thread t.
Return(t, n, o) ==
    /\ refs' = [refs EXCEPT ![t] = @ \cup {o}]
    /\ found' = [found EXCEPT ![t] =
          [object |-> o, name |-> n, type |-> want[t].type, epoch |-> epoch[n]]]
    /\ Goto(t, "idle")

\* Bound: calls that may still create an object stay within MaxObjects.
WithinBound ==
    Cardinality(Made) + Cardinality({u \in Threads : pc[u] \in {"get", "construct"}})
        < MaxObjects

\* get() tests _shutdown without the mutex.
StartGet(t) ==
    /\ "get" \in Operations /\ pc[t] = "idle" /\ WithinBound
    /\ \E n \in Names, ty \in Types :
        want' = [want EXCEPT ![t] = [name |-> n, type |-> ty]]
    /\ Goto(t, IF shutdown THEN "idle" ELSE "get")
    /\ found' = [found EXCEPT ![t] = NotFound]
    /\ UNCHANGED <<shutdown, mutex, instances, typeOf, refs, epoch, crashed>>

\* get() finds the name: the object, or a runtime_error for another type.
GetExisting(t) ==
    LET n == want[t].name  o == instances[n] IN
    /\ pc[t] = "get" /\ Free /\ ~Missing(n)
    /\ IF RightType(o, want[t].type)
       THEN Return(t, n, o)
       ELSE Goto(t, "idle") /\ UNCHANGED <<refs, found>>
    /\ UNCHANGED <<shutdown, mutex, instances, typeOf, want, epoch, crashed>>

\* get() has inserted an empty entry and is about to construct the object.
GetMissing(t) ==
    LET n == want[t].name IN
    /\ pc[t] = "get" /\ Free /\ Missing(n)
    /\ mutex' = t
    /\ instances' = [instances EXCEPT ![n] = Null]
    /\ Goto(t, IF want[t].type \in CtorGets /\ ~shutdown THEN "nested" ELSE "construct")
    /\ UNCHANGED <<shutdown, typeOf, want, refs, found, epoch, crashed>>

\* make_unique<singleton> succeeds.
Construct(t) ==
    LET n == want[t].name  o == Cardinality(Made) + 1 IN
    /\ pc[t] = "construct"
    /\ typeOf' = [p \in Made \cup {o} |-> IF p = o THEN want[t].type ELSE typeOf[p]]
    /\ instances' = [instances EXCEPT ![n] = o]
    /\ Return(t, n, o)
    /\ mutex' = None
    /\ UNCHANGED <<shutdown, want, epoch, crashed>>

\* The constructor of T throws: the empty entry stays in the map.
ConstructThrows(t) ==
    /\ pc[t] = "construct" /\ want[t].type \in CtorThrows
    /\ mutex' = None
    /\ Goto(t, "idle")
    /\ UNCHANGED <<shutdown, instances, typeOf, want, refs, found, epoch, crashed>>

\* A nested get() inside a constructor or destructor locks the std::mutex its
\* own thread already holds: it never continues ("nested" has no successor).
DestroyNests(o) ==
    /\ o \in Made /\ \A t \in Threads : o \notin refs[t]
    /\ typeOf[o] \in DtorGets /\ ~shutdown

Erase(n) ==
    /\ instances' = [instances EXCEPT ![n] = None]
    /\ epoch' = [epoch EXCEPT ![n] = IF instances[n] \in Made THEN @ + 1 ELSE @]

StartRelease(t) ==
    /\ "release" \in Operations /\ pc[t] = "idle"
    /\ \E n \in Names : want' = [want EXCEPT ![t] = [name |-> n, type |-> None]]
    /\ Goto(t, "release")
    /\ UNCHANGED <<shutdown, mutex, instances, typeOf, refs, found, epoch, crashed>>

Release(t) ==
    LET n == want[t].name IN
    /\ pc[t] = "release" /\ Free
    /\ IF DestroyNests(instances[n])
       THEN mutex' = t /\ Goto(t, "nested") /\ UNCHANGED <<instances, epoch>>
       ELSE Erase(n) /\ Goto(t, "idle") /\ UNCHANGED mutex
    /\ UNCHANGED <<shutdown, typeOf, want, refs, found, crashed>>

StartReset(t) ==
    /\ "reset" \in Operations /\ pc[t] = "idle"
    /\ Goto(t, "reset")
    /\ UNCHANGED <<shutdown, mutex, instances, typeOf, want, refs, found, epoch, crashed>>

Reset(t) ==
    /\ pc[t] = "reset" /\ Free
    /\ mutex' = t
    /\ shutdown' = ShutdownSet
    /\ Goto(t, "resetting")
    /\ UNCHANGED <<instances, typeOf, want, refs, found, epoch, crashed>>

\* One iteration of reset(): release_instance() through the entry's pointer,
\* then the entry itself.
ResetEntry(t) ==
    \E n \in Names :
        /\ pc[t] = "resetting" /\ instances[n] # None
        /\ \/ /\ instances[n] = Null
              /\ crashed' = TRUE
              /\ UNCHANGED <<instances, epoch, pc>>
           \/ /\ DestroyNests(instances[n])
              /\ Goto(t, "nested")
              /\ UNCHANGED <<instances, epoch, crashed>>
           \/ /\ instances[n] # Null /\ ~DestroyNests(instances[n])
              /\ Erase(n)
              /\ UNCHANGED <<pc, crashed>>
        /\ UNCHANGED <<shutdown, mutex, typeOf, want, refs, found>>

ResetDone(t) ==
    /\ pc[t] = "resetting" /\ \A n \in Names : instances[n] = None
    /\ mutex' = None
    /\ Goto(t, "idle")
    /\ UNCHANGED <<shutdown, instances, typeOf, want, refs, found, epoch, crashed>>

\* set_operational() is called "after a global teardown", not during one.
set_operational(t) ==
    /\ "set_operational" \in Operations /\ pc[t] = "idle" /\ shutdown
    /\ \A u \in Threads : pc[u] # "resetting"
    /\ shutdown' = FALSE
    /\ UNCHANGED <<mutex, instances, typeOf, threadVars, epoch, crashed>>

\* A client drops a shared_ptr it was given.
Drop(t) ==
    /\ "drop" \in Operations /\ pc[t] = "idle"
    /\ \E o \in refs[t] : refs' = [refs EXCEPT ![t] = @ \ {o}]
    /\ UNCHANGED <<shutdown, mutex, instances, typeOf, pc, want, found, epoch, crashed>>

Finish(t) ==
    \/ GetExisting(t) \/ GetMissing(t) \/ Construct(t) \/ ConstructThrows(t)
    \/ Release(t) \/ Reset(t) \/ ResetEntry(t) \/ ResetDone(t)

Next ==
    \E t \in Threads :
        /\ ~crashed
        /\ \/ StartGet(t) \/ StartRelease(t) \/ StartReset(t)
           \/ set_operational(t) \/ Drop(t) \/ Finish(t)

Spec == Init /\ [][Next]_vars

\* The scheduler runs every thread, and std::mutex is granted to a thread
\* that keeps asking for it.
FairSpec == Spec /\ \A t \in Threads : SF_vars(Finish(t))
-----------------------------------------------------------------------------
\* All get() calls for a name return the same object of the type they asked
\* for, until the name is released or everything is reset, however the calls
\* interleave with creations and removals.
LookupsAgree ==
    \A t, u \in Threads :
        LET f == found[t]  g == found[u] IN
        /\ f.object # None => typeOf[f.object] = f.type
        /\ f.object # None /\ f.name = g.name /\ f.epoch = g.epoch
              /\ g.object # None => f.object = g.object
        /\ f.object # None /\ f.epoch = epoch[f.name] => instances[f.name] = f.object

\* reset() returns although destructors may call get(), unless another thread
\* is stuck in a constructor or destructor that does so with the mutex held.
ResetReturns ==
    \A t \in Threads :
        pc[t] \in {"reset", "resetting"} ~>
            pc[t] = "idle" \/ crashed \/ \E u \in Threads \ {t} : pc[u] = "nested"

\* "Once reset, no further singletons can be created until set_operational()
\* is called again."
NothingCreatedAfterReset == [][shutdown => Made' = Made]_vars
=============================================================================
