---------------------------- MODULE ItemRegistry ----------------------------
(* lifecycle::item_registry.  Each call runs under _registry_mutex, or     *)
(* reads only the constant _max_number_of_items before it, so that calls   *)
(* of several threads are atomic steps.                                    *)
EXTENDS Naturals

CONSTANT SizeMax   \* numeric_limits<size_t>::max()

ASSUME RegistryAssumption == SizeMax \in Nat

VARIABLES
    max_number_of_items,    \* _max_number_of_items; 0 is the unlimited mode
    available,      \* _available_numbers
    next,           \* _next_item_number
    registered,     \* history: the identifiers of the registered items
    answer          \* history: what the last call returned or threw

registryVars == <<max_number_of_items, available, next, registered, answer>>

Limited == max_number_of_items > 0

RegistryInit ==
    /\ max_number_of_items \in 0 .. SizeMax
    /\ available = {i \in 0 .. SizeMax : i < max_number_of_items}
    /\ next = 0
    /\ registered = {}
    /\ answer = <<"none", 0>>

IsFirst(n) == n \in available /\ \A m \in available : n <= m
Erased(n) == available \ {n}
IsLastNumber(n) == n = SizeMax

\* register_item, in either mode: *_available_numbers.begin() is reused.
RegisterAvailable ==
    \E n \in available :
        /\ IsFirst(n)
        /\ available' = Erased(n)
        /\ registered' = registered \cup {n}
        /\ answer' = <<"registered", n>>
        /\ UNCHANGED <<max_number_of_items, next>>

\* register_item in unlimited mode: _next_item_number++, of type size_t.
RegisterNext ==
    /\ ~Limited /\ available = {} /\ ~IsLastNumber(next)
    /\ next' = (next + 1) % (SizeMax + 1)
    /\ registered' = registered \cup {next}
    /\ answer' = <<"registered", next>>
    /\ UNCHANGED <<max_number_of_items, available>>

RegisterThrows ==
    /\ available = {}
    /\ Limited \/ IsLastNumber(next)
    /\ answer' = <<"overflow_error", 0>>
    /\ UNCHANGED <<max_number_of_items, available, next, registered>>

\* The numbers callers pass to deregister_item: any number in limited mode; in
\* unlimited mode, where nothing tells a number that was never handed out from
\* one that is in use, only numbers that register_item returned, also twice.
Arguments == {n \in 0 .. SizeMax : Limited \/ n < next}

\* deregister_item: an identifier out of range, or already available, is
\* refused.
FaultyRefused(n) == (Limited /\ n > max_number_of_items) \/ n \in available
Refused(n) == (Limited /\ n >= max_number_of_items) \/ n \in available

DeregisterThrows ==
    \E n \in Arguments :
        /\ Refused(n)
        /\ answer' = <<"runtime_error", n>>
        /\ UNCHANGED <<max_number_of_items, available, next, registered>>

Deregister ==
    \E n \in Arguments :
        /\ ~Refused(n)
        /\ available' = available \cup {n}
        /\ registered' = registered \ {n}
        /\ answer' = <<"deregistered", n>>
        /\ UNCHANGED <<max_number_of_items, next>>

RegistryNext ==
    RegisterAvailable \/ RegisterNext \/ RegisterThrows \/ DeregisterThrows
        \/ Deregister

RegistrySpec == RegistryInit /\ [][RegistryNext]_registryVars
-----------------------------------------------------------------------------
Numbers == IF Limited THEN 0 .. max_number_of_items - 1 ELSE 0 .. next - 1

\* Every number handed out so far, or within the limit, is either registered
\* or waits in _available_numbers, never both: no identifier is lost when
\* items come and go, and none is handed out twice.
IdentifiersPartition ==
    /\ available \cap registered = {}
    /\ available \cup registered = Numbers
    /\ next \in 0 .. SizeMax
    /\ max_number_of_items \in 0 .. SizeMax

Pool == INSTANCE IdentifierPool WITH
    bound <- IF Limited THEN max_number_of_items ELSE SizeMax, Largest <- SizeMax

\* item_registry is the smallest-free-number allocator of IdentifierPool: an
\* overflow_error is thrown only when every identifier is registered, and a
\* deregistration succeeds exactly for registered items.
ImplementsPool == Pool!PoolSpec
=============================================================================
