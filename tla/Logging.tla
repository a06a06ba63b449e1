------------------------------- MODULE Logging -------------------------------
(* logging::log_manager and the logging::log it owns: log_append from several *)
(* threads, create_logfile, and the destruction of the static instance when   *)
(* main returns.  A line of the file is who wrote it; headers, wording and    *)
(* failures of the file system are left out.                                  *)
EXTENDS Integers, Sequences, FiniteSets

CONSTANTS
    Loggers,        \* threads
    MaxCalls,       \* bound: calls per thread
    ForeignUnlock,  \* "ignored" or "releases": see Unlock
    Nobody

ASSUME LoggingAssumption == Nobody \notin Loggers

VARIABLES
    shutdownOwner,  \* _shutting_down_mutex; its recursion is balanced
    logOwner,       \* _log_mutex, likewise
    shuttingDown,   \* _shutting_down
    log,            \* _log: "none", "open" or "closed"
    file,           \* the lines of the log file
    at,             \* control points
    calls           \* calls each thread has left

loggingVars == <<shutdownOwner, logOwner, shuttingDown, log,
                 file, at, calls>>

LoggingInit ==
    /\ shutdownOwner = Nobody /\ logOwner = Nobody
    /\ shuttingDown = FALSE /\ log = "none" /\ file = <<>>
    /\ at = [t \in Loggers |-> "idle"]
    /\ calls = [t \in Loggers |-> MaxCalls]

Jump(t, l) == at' = [at EXCEPT ![t] = l]

\* log::do_append: the file is opened at its end for each line.
do_append(lines, line) == Append(lines, line)

\* log::log: the file is replaced and gets its first line; ~log: the last one.
Opened == log' = "open" /\ file' = do_append(<<>>, "start")
Closed == log' = "closed" /\ file' = do_append(file, "end")

\* recursive_mutex::unlock.  By a thread that does not own the mutex it is
\* undefined: a POSIX mutex returns an error that nobody reads, a mutex that
\* does not know its owner is taken from the thread that has it.
Unlock(t) ==
    shutdownOwner' = IF shutdownOwner = t \/ ForeignUnlock = "releases"
                     THEN Nobody ELSE shutdownOwner

-----------------------------------------------------------------------------
\* log_append(string): both overloads lock _shutting_down_mutex, in turn.
AppendLock(t) ==
    /\ at[t] = "idle" /\ calls[t] > 0 /\ shutdownOwner = Nobody
    /\ shutdownOwner' = t
    /\ calls' = [calls EXCEPT ![t] = @ - 1]
    /\ Jump(t, "append_test")
    /\ UNCHANGED <<logOwner, shuttingDown, log, file>>

\* is_operational_for_logging; without it the message is dropped.
AppendTest(t) ==
    /\ at[t] = "append_test"
    /\ Jump(t, IF shuttingDown THEN "append_done" ELSE "append_log")
    /\ UNCHANGED <<shutdownOwner, logOwner, shuttingDown, log,
                   file, calls>>

NeedsLog == log = "none"

\* _log_mutex; create_logfile(default, instance) if there is no log yet: its
\* try_lock succeeds, since this thread has the recursive mutex.
AppendLogLock(t) ==
    /\ at[t] = "append_log" /\ logOwner = Nobody
    /\ logOwner' = t
    /\ IF log = "none" THEN Opened ELSE UNCHANGED <<log, file>>
    /\ Jump(t, "append_write")
    /\ UNCHANGED <<shutdownOwner, shuttingDown, calls>>

\* log::append: _mtx.try_lock succeeds, since _log_mutex is held.
AppendWrite(t) ==
    /\ at[t] = "append_write"
    /\ file' = do_append(file, t)
    /\ logOwner' = Nobody
    /\ Jump(t, "append_done")
    /\ UNCHANGED <<shutdownOwner, shuttingDown, log, calls>>

\* ~lock_guard
AppendUnlock(t) ==
    /\ at[t] = "append_done"
    /\ Unlock(t)
    /\ Jump(t, "idle")
    /\ UNCHANGED <<logOwner, shuttingDown, log, file, calls>>

-----------------------------------------------------------------------------
\* create_logfile(path): without an instance a failed try_lock is ignored.
CreateTryLock(t) ==
    /\ at[t] = "idle" /\ calls[t] > 0
    /\ calls' = [calls EXCEPT ![t] = @ - 1]
    /\ IF shutdownOwner = Nobody THEN shutdownOwner' = t
       ELSE UNCHANGED shutdownOwner
    /\ Jump(t, "create_test")
    /\ UNCHANGED <<logOwner, shuttingDown, log, file>>

CreateTest(t) ==
    /\ at[t] = "create_test"
    /\ Jump(t, IF shuttingDown THEN "create_done" ELSE "create_log")
    /\ UNCHANGED <<shutdownOwner, logOwner, shuttingDown, log,
                   file, calls>>

\* _log_mutex is held from the test of _log to its assignment.
CreateLog(t) ==
    /\ at[t] = "create_log" /\ logOwner = Nobody
    /\ IF NeedsLog THEN Opened ELSE UNCHANGED <<log, file>>
    /\ Jump(t, "create_done")
    /\ UNCHANGED <<shutdownOwner, logOwner, shuttingDown, calls>>

\* unlock(), whether or not try_lock has succeeded.
CreateUnlock(t) ==
    /\ at[t] = "create_done"
    /\ Unlock(t)
    /\ Jump(t, "idle")
    /\ UNCHANGED <<logOwner, shuttingDown, log, file, calls>>

\* Mutant: the destructor does not wait for the mutex.
FaultyMayDestroy == TRUE
MayDestroy == shutdownOwner = Nobody

\* ~log_manager and then ~log, with its last line.  A thread in create_logfile
\* without the mutex still finds that _log was set.
Destroy ==
    /\ ~shuttingDown /\ MayDestroy
    /\ shuttingDown' = TRUE
    /\ IF log = "open" THEN Closed ELSE UNCHANGED <<log, file>>
    /\ UNCHANGED <<shutdownOwner, logOwner, at, calls>>

LoggingNext ==
    \/ Destroy
    \/ \E t \in Loggers :
        \/ AppendLock(t) \/ AppendTest(t) \/ AppendLogLock(t)
        \/ AppendWrite(t) \/ AppendUnlock(t)
        \/ CreateTryLock(t) \/ CreateTest(t) \/ CreateLog(t) \/ CreateUnlock(t)
-----------------------------------------------------------------------------
\* "If the log_manager singleton doesn't yet have a log, it is created [...]
\* Otherwise, the existing log is used": however create_logfile and log_append
\* race, the file is started once, and no line that was written is lost.  Once
\* the destructor of the static instance has begun, and written the last line, no
\* thread writes a line or opens a log: that is what _shutting_down_mutex is held
\* for.
LogIsKept ==
    [][/\ file # <<>> => Len(file') >= Len(file) /\ SubSeq(file', 1, Len(file)) = file
       /\ shuttingDown => UNCHANGED <<log, file>>]_loggingVars
=============================================================================
