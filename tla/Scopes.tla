------------------------------- MODULE Scopes -------------------------------
(* Two classes whose objects change something the whole thread or process     *)
(* shares, for as long as they live: stdout_redirector and com_initializer.   *)
(* Objects live in slots and may end in any order.                            *)
EXTENDS Integers, FiniteSets

CONSTANTS
    Slots,          \* where objects live
    Targets,        \* files stdout is redirected to
    MaxInitialized  \* bound: initializations of COM that were not taken back

\* "default" and "closed" are no files.
ASSUME ScopesAssumption == {"default", "closed"} \cap Targets = {}

VARIABLES
    stdout,         \* where the output goes
    redirector,     \* the file each stdout_redirector was built for
    com,            \* initializations of COM on this thread, and in which mode
    initializer     \* each com_initializer

scopeVars == <<stdout, redirector, com, initializer>>

NoObject == "none"
NotBuilt == [built |-> FALSE, succeeded |-> FALSE, deinitialize |-> FALSE]

ScopesInit ==
    /\ stdout = "default" /\ redirector = [o \in Slots |-> NoObject]
    /\ com = [count |-> 0, mode |-> "STA"] /\ initializer = [o \in Slots |-> NotBuilt]

-----------------------------------------------------------------------------
(* stdout_redirector.  The mutex is a member of the object, which only its    *)
(* constructor and its destructor lock.  freopen closes the stream first.     *)

Redirect(o) ==
    /\ redirector[o] = NoObject
    /\ \E f \in Targets :
          \/ stdout' = f /\ redirector' = [redirector EXCEPT ![o] = f]
          \/ stdout' = "closed" /\ UNCHANGED redirector
    /\ UNCHANGED <<com, initializer>>

Reset(o) == {"default", "closed"}

EndRedirect(o) ==
    /\ redirector[o] # NoObject
    /\ stdout' \in Reset(o)
    /\ redirector' = [redirector EXCEPT ![o] = NoObject]
    /\ UNCHANGED <<com, initializer>>

-----------------------------------------------------------------------------
(* com_initializer.  Initialize counts; it returns S_OK for the first call,   *)
(* S_FALSE for further ones and an error for another mode.                    *)

Initialize(mode) ==
    IF com.count > 0 /\ com.mode # mode THEN "failed" ELSE IF com.count > 0 THEN "S_FALSE" ELSE "S_OK"
Uninitialized == [com EXCEPT !.count = @ - 1]

\* Mutant: every object that was built takes an initialization back.
FaultyDeinitialize(hr) == TRUE
Deinitialize(hr) == hr = "S_OK"

\* The constructor of an object that throws builds nothing.
BuildInitializer(o) ==
    /\ ~initializer[o].built /\ com.count < MaxInitialized
    /\ \E mode \in {"MTA", "STA"}, do_throw \in BOOLEAN :
          LET hr == Initialize(mode)
          IN  /\ com' = IF hr = "failed" THEN com ELSE [count |-> com.count + 1, mode |-> mode]
              /\ initializer' = IF hr = "failed" /\ do_throw THEN initializer
                                ELSE [initializer EXCEPT ![o] =
                                        [built |-> TRUE, succeeded |-> hr # "failed", deinitialize |-> Deinitialize(hr)]]
    /\ UNCHANGED <<stdout, redirector>>

EndInitializer(o) ==
    /\ initializer[o].built
    /\ com' = IF initializer[o].deinitialize THEN Uninitialized ELSE com
    /\ initializer' = [initializer EXCEPT ![o] = NotBuilt]
    /\ UNCHANGED <<stdout, redirector>>

ScopesNext ==
    \E o \in Slots : Redirect(o) \/ EndRedirect(o) \/ BuildInitializer(o) \/ EndInitializer(o)

ScopesSpec == ScopesInit /\ [][ScopesNext]_scopeVars
-----------------------------------------------------------------------------
\* stdout goes to a file only while the stdout_redirector that was built for it
\* lives, whatever the order in which redirectors end and whichever freopen fails.
\* As long as a com_initializer lives whose constructor succeeded, COM is
\* initialized: the end of another one, of the first one or of one that had
\* failed, does not take it away.
ScopesAreKept ==
    /\ stdout \in Targets => \E o \in Slots : redirector[o] = stdout
    /\ (\E o \in Slots : initializer[o].succeeded) => com.count > 0
=============================================================================
