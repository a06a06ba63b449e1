---------------------------- MODULE SystemFolders ----------------------------
(* The functions that ask the system about itself and keep the answer in a    *)
(* static variable behind a mutex: get_home_dir, get_user_data_dir,           *)
(* get_user_cache_dir, get_current_binary_path and get_clock_precision, called *)
(* by several threads.  The two that build on get_home_dir call it with their *)
(* own mutex locked.  A folder is named by the home it belongs to, the path   *)
(* of the binary by how many of its characters were read.                     *)
EXTENDS Integers

CONSTANTS
    Threads,        \* the callers
    Homes,          \* what the system may answer for the home directory
    FirstBuffer,    \* characters of the first buffer for the path of the binary
    MaxLength       \* bound: characters of that path

ASSUME FoldersAssumption ==
    "empty" \notin Homes /\ FirstBuffer \in Nat /\ MaxLength \in Nat

VARIABLES
    system,         \* the platform and the length of the binary's path
    lock,           \* the owner of each mutex
    home_folder,    \* static variables of the functions; Empty or not known yet
    cached_full_path,
    clock_precision,
    query,          \* the call of each thread
    answers         \* history: the homes and the precisions that were returned

folderVars == <<system, lock, home_folder, cached_full_path, clock_precision, query, answers>>

Platforms == {"windows", "linux", "apple"}
Queries == {"home", "data", "cache", "binary", "binary dir"}
Mutex(f) == IF f = "binary dir" THEN "binary" ELSE f
Nobody == "nobody"
Empty == "empty"
Unset == [platform |-> "unset", length |-> 0]
NoQuery == [function |-> "none", at |-> "idle", path |-> Empty, buffer |-> 0]

FoldersInit ==
    /\ system = Unset
    /\ lock = [m \in {"home", "data", "cache", "binary", "clock"} |-> Nobody]
    /\ home_folder = Empty /\ cached_full_path = 0 /\ clock_precision = -1
    /\ query = [t \in Threads |-> NoQuery]
    /\ answers = {}

\* The process starts on some system.
Boot ==
    /\ system = Unset
    /\ system' \in [platform : Platforms, length : 1 .. MaxLength]
    /\ UNCHANGED <<lock, home_folder, cached_full_path, clock_precision, query, answers>>

\* get_clock_precision compiles on Linux only.
Ask(t) ==
    /\ system # Unset /\ query[t].at = "idle"
    /\ \E f \in Queries \cup (IF system.platform = "linux" THEN {"clock"} ELSE {}) :
          query' = [query EXCEPT ![t] = [NoQuery EXCEPT !.function = f, !.at = "lock"]]
    /\ UNCHANGED <<system, lock, home_folder, cached_full_path, clock_precision, answers>>

\* What a function does once it has its own mutex.
AfterLock(f) ==
    CASE f = "home" -> "home"
      [] f \in {"data", "cache"} -> IF system.platform = "windows" THEN "known folder" ELSE "home lock"
      [] f \in {"binary", "binary dir"} -> IF cached_full_path # 0 THEN "exists" ELSE "read"
      [] f = "clock" -> "clock"

Lock(t) ==
    LET f == query[t].function
    IN  /\ query[t].at = "lock" /\ lock[Mutex(f)] = Nobody
        /\ lock' = [lock EXCEPT ![Mutex(f)] = t]
        /\ query' = [query EXCEPT ![t].at = AfterLock(f), ![t].buffer = FirstBuffer]
        /\ UNCHANGED <<system, home_folder, cached_full_path, clock_precision, answers>>

\* Off Windows the user folders are in the home directory.
OneHome == {"home"} \cup (IF system.platform = "windows" THEN {} ELSE {"data", "cache"})
About(f) == IF f = "clock" THEN "clock" ELSE "home"

\* The call ends, by return or by exception; the lock_guards unlock.
Unlocked(t) == [m \in DOMAIN lock |-> IF lock[m] = t THEN Nobody ELSE lock[m]]
Throw(t) ==
    /\ lock' = Unlocked(t)
    /\ query' = [query EXCEPT ![t] = NoQuery]
    /\ UNCHANGED answers
Answer(t, path) ==
    /\ lock' = Unlocked(t)
    /\ query' = [query EXCEPT ![t] = NoQuery]
    /\ answers' = IF query[t].function \in OneHome \cup {"clock"}
                  THEN answers \cup {[about |-> About(query[t].function), is |-> path]}
                  ELSE answers

-----------------------------------------------------------------------------
(* The folders *)

\* get_user_data_dir and get_user_cache_dir call get_home_dir.
HomeLock(t) ==
    /\ query[t].at = "home lock" /\ lock["home"] = Nobody
    /\ lock' = [lock EXCEPT !["home"] = t]
    /\ query' = [query EXCEPT ![t].at = "home"]
    /\ UNCHANGED <<system, home_folder, cached_full_path, clock_precision, answers>>

HomesNow(p) == IF p = Empty THEN Homes ELSE {p}

\* get_home_dir; the system may know no home directory.
get_home_dir(t) ==
    /\ query[t].at = "home"
    /\ \/ \E h \in HomesNow(home_folder) :
             /\ home_folder' = h
             /\ IF query[t].function = "home"
                THEN Answer(t, h)
                ELSE /\ lock' = [lock EXCEPT !["home"] = Nobody]
                     /\ query' = [query EXCEPT ![t].at = "exists", ![t].path = h]
                     /\ UNCHANGED answers
       \/ home_folder = Empty /\ Throw(t) /\ UNCHANGED home_folder
    /\ UNCHANGED <<system, cached_full_path, clock_precision>>

\* On Windows the system is asked for the two folders in every call.
KnownFolder(t) ==
    /\ query[t].at = "known folder"
    /\ \/ /\ \E h \in Homes : query' = [query EXCEPT ![t].at = "exists", ![t].path = h]
          /\ UNCHANGED <<lock, answers>>
       \/ Throw(t)
    /\ UNCHANGED <<system, home_folder, cached_full_path, clock_precision>>

\* std::filesystem::exists; somebody may have removed the folder.
FolderExists(t) ==
    /\ query[t].at = "exists"
    /\ Answer(t, query[t].path) \/ Throw(t)
    /\ UNCHANGED <<system, home_folder, cached_full_path, clock_precision>>

\* The two functions differ in their mutex and in the folder they name.
get_user_data_dir(t) ==
    query[t].function = "data" /\ (HomeLock(t) \/ KnownFolder(t) \/ FolderExists(t))
get_user_cache_dir(t) ==
    query[t].function = "cache" /\ (HomeLock(t) \/ KnownFolder(t) \/ FolderExists(t))

-----------------------------------------------------------------------------
(* get_current_binary_path *)

\* What the system writes into a buffer of n characters: GetModuleFileNameW all
\* that fits and readlink one less.
Written(n) ==
    LET room == IF system.platform = "windows" THEN n ELSE n - 1
    IN  IF system.length < room THEN system.length ELSE room

\* Mutant: a buffer that is used up is taken to have been large enough.
FaultyTooSmall(n) == Written(n) > n - 1
TooSmall(n) == Written(n) >= n - 1

\* One turn of the loop; on macOS the system says how large the buffer must be.
ReadPath(t) ==
    LET n == query[t].buffer
    IN  /\ query[t].at = "read"
        /\ \/ Throw(t) /\ UNCHANGED cached_full_path
           \/ /\ system.platform # "apple" /\ TooSmall(n)
              /\ query' = [query EXCEPT ![t].buffer = 2 * n]
              /\ UNCHANGED <<lock, cached_full_path, answers>>
           \/ /\ system.platform # "apple" => ~TooSmall(n)
              /\ cached_full_path' = IF system.platform = "apple" THEN system.length ELSE Written(n)
              /\ query' = [query EXCEPT ![t].at = "exists"]
              /\ UNCHANGED <<lock, answers>>
        /\ UNCHANGED <<system, home_folder, clock_precision>>

BinaryExists(t) ==
    /\ query[t].at = "exists"
    /\ Answer(t, cached_full_path) \/ Throw(t)
    /\ UNCHANGED <<system, home_folder, cached_full_path, clock_precision>>

\* With the name of the file, or of the directory it is in.
get_current_binary_path(t) ==
    query[t].function \in {"binary", "binary dir"} /\ (ReadPath(t) \/ BinaryExists(t))

-----------------------------------------------------------------------------
\* get_clock_precision: what clock_getres says, or, if that fails, the least of
\* the measured times and the initial -1.
get_clock_precision(t) ==
    /\ query[t].at = "clock"
    /\ clock_precision' \in IF clock_precision = -1 THEN {-1, 1, 2} ELSE {clock_precision}
    /\ Answer(t, clock_precision')
    /\ UNCHANGED <<system, home_folder, cached_full_path>>

FoldersNext ==
    \/ Boot
    \/ \E t \in Threads :
          \/ Ask(t) \/ Lock(t) \/ get_home_dir(t) \/ get_user_data_dir(t) \/ get_user_cache_dir(t)
          \/ get_current_binary_path(t) \/ get_clock_precision(t)

FoldersSpec == FoldersInit /\ [][FoldersNext]_folderVars
-----------------------------------------------------------------------------
\* The functions give one answer in the life of the process, whatever the system
\* says meanwhile and whichever calls failed: there is one home directory, off
\* Windows the two user folders are in it, and a precision that was determined
\* once stays.  The path of the binary is the whole path, never cut off by the
\* buffer it was read into.
AnswersAgree ==
    /\ \A a, b \in answers : a.about = b.about /\ a.is # -1 /\ b.is # -1 => a.is = b.is
    /\ cached_full_path \in {0, system.length}
=============================================================================
