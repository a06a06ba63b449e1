------------------------------ MODULE Directory ------------------------------
(* filesystem::path: create_directory, copy_to and remove, called by several   *)
(* processes that share a file system.  Each call of std::filesystem is one   *)
(* step and may fail.  A directory is the set of the files in it.  The random *)
(* string of remove() is taken to be unique.                                  *)
EXTENDS Integers, FiniteSets, Functions

CONSTANTS
    Users,      \* the processes
    Dirs,       \* the paths they use
    Files,      \* what may be in a directory
    MaxStuck    \* bound: directories of one process that could not be renamed back

\* There are paths, and none is a temporary name of remove().
ASSUME DirectoryAssumption == Dirs # {} /\ Dirs \cap (Users \X Nat) = {}

VARIABLES
    tree,       \* file system: what is in each directory that exists
    use,        \* the call of each process, with its progress in `at`
    stuck       \* history: the directories that could not be renamed back

directoryVars == <<tree, use, stuck>>

Idle == [op |-> "none", base |-> CHOOSE d \in Dirs : TRUE, at |-> "returned",
         target |-> CHOOSE d \in Dirs : TRUE, made |-> FALSE, excuse |-> FALSE]

DirectoryInit ==
    /\ tree = [d \in Dirs |-> Files]
    /\ use = [u \in Users |-> Idle]
    /\ stuck = {}

exists(d) == d \in DOMAIN tree
Without(t, d) == Restrict(t, DOMAIN t \ {d})
With(t, d, content) == [e \in DOMAIN t \cup {d} |-> IF e = d THEN content ELSE t[e]]

\* The path next to the directory that remove() renames it to.
Stuck(u) == Cardinality({d \in stuck : d[1] = u})
temp_path(u) == <<u, Stuck(u)>>

\* The call goes on.  That it has removed or damaged a directory is an excuse for
\* the calls of others that use it; a failure is an excuse of its own.
Proceed(u, step, removed) ==
    use' = [v \in Users |->
        IF v = u THEN [use[u] EXCEPT !.at = step]
        ELSE [use[v] EXCEPT !.excuse = @ \/ use[v].base \in removed]]
Fail(u, step, removed) ==
    use' = [v \in Users |->
        IF v = u THEN [use[u] EXCEPT !.at = step, !.excuse = TRUE]
        ELSE [use[v] EXCEPT !.excuse = @ \/ use[v].base \in removed]]

Call(u) ==
    /\ use[u].at \in {"returned", "thrown"}
    /\ \E op \in {"create", "recreate", "remove", "copy"}, d, e \in Dirs :
          /\ op # "copy" => e = d
          /\ op \in {"remove", "copy"} => Stuck(u) < MaxStuck
          /\ use' = [use EXCEPT ![u] =
                [op |-> op, base |-> d, target |-> e, made |-> FALSE, excuse |-> FALSE,
                 at |-> CASE op = "create" -> "test" [] op = "recreate" -> "delete"
                          [] op = "remove" -> "rename" [] op = "copy" -> "source"]]
    /\ UNCHANGED <<tree, stuck>>

-----------------------------------------------------------------------------
(* create_directory(delete_prior_creating) *)

CreateDelete(u) ==
    /\ use[u].at = "delete"
    /\ \/ tree' = Without(tree, use[u].base) /\ Proceed(u, "test", {use[u].base})
       \/ /\ exists(use[u].base)
          /\ \E left \in SUBSET tree[use[u].base] : tree' = With(tree, use[u].base, left)
          /\ Fail(u, "thrown", {use[u].base})
    /\ UNCHANGED stuck

CreateTest(u) ==
    /\ use[u].at = "test"
    /\ Proceed(u, IF exists(use[u].base) THEN "confirm" ELSE "make", {})
    /\ UNCHANGED <<tree, stuck>>

\* create_directories: it is no error that the directory exists.
CreateMake(u) ==
    /\ use[u].at = "make"
    /\ \/ /\ tree' = IF exists(use[u].base) THEN tree ELSE With(tree, use[u].base, {})
          /\ use' = [use EXCEPT ![u].at = "confirm", ![u].made = ~exists(use[u].base)]
       \/ Fail(u, "thrown", {}) /\ UNCHANGED tree
    /\ UNCHANGED stuck

\* Mutant: success is what create_directories returned.
FaultySuccess(u) == use[u].made
Success(u) == exists(use[u].base)

CreateConfirm(u) ==
    /\ use[u].at = "confirm"
    /\ Proceed(u, IF Success(u) THEN "returned" ELSE "thrown", {})
    /\ UNCHANGED <<tree, stuck>>

-----------------------------------------------------------------------------
(* copy_to(target) *)

CopySource(u) ==
    /\ use[u].at = "source"
    /\ Proceed(u, IF exists(use[u].base) THEN "target" ELSE "thrown", {})
    /\ UNCHANGED <<tree, stuck>>

CopyTarget(u) ==
    /\ use[u].at = "target"
    /\ Proceed(u, IF exists(use[u].target) THEN "rename" ELSE "copy", {})
    /\ UNCHANGED <<tree, stuck>>

\* copy(recursive): it fails where a file exists already, and a failing copy has
\* copied some of the files.
CopyAll(u) ==
    LET source == IF exists(use[u].base) THEN tree[use[u].base] ELSE {}
        there == IF exists(use[u].target) THEN tree[use[u].target] ELSE {}
    IN  /\ use[u].at = "copy"
        /\ \/ /\ exists(use[u].base) /\ source \cap there = {}
              /\ tree' = With(tree, use[u].target, source \cup there)
              /\ Proceed(u, "returned", {})
           \/ /\ exists(use[u].base)
              /\ \E some \in SUBSET source : tree' = With(tree, use[u].target, there \cup some)
              /\ Fail(u, "thrown", {})
           \/ Fail(u, "thrown", {}) /\ UNCHANGED tree
        /\ UNCHANGED stuck

-----------------------------------------------------------------------------
(* remove(), of the path itself or of the target of copy_to *)

\* rename(): a directory may take the place of an empty one only.
MayRename(from, to) == exists(from) /\ (exists(to) => tree[to] = {})
Renamed(from, to) == With(Without(tree, from), to, tree[from])

RemoveRename(u) ==
    /\ use[u].at = "rename"
    /\ \/ /\ MayRename(use[u].target, temp_path(u))
          /\ tree' = Renamed(use[u].target, temp_path(u))
          /\ Proceed(u, "remove_all", {use[u].target})
       \/ Fail(u, "thrown", {}) /\ UNCHANGED tree
    /\ UNCHANGED stuck

\* Mutant: the error of remove_all is not looked at.
FaultyAfterError(u) == IF use[u].op = "copy" THEN "copy" ELSE "returned"
AfterError(u) == "rename back"

RemoveAll(u) ==
    /\ use[u].at = "remove_all"
    /\ \/ /\ tree' = Without(tree, temp_path(u))
          /\ Proceed(u, IF use[u].op = "copy" THEN "copy" ELSE "returned", {})
       \/ /\ \E left \in SUBSET tree[temp_path(u)] : tree' = With(tree, temp_path(u), left)
          /\ Fail(u, AfterError(u), {})
    /\ UNCHANGED stuck

RenameBack(u) ==
    /\ use[u].at = "rename back"
    /\ \/ /\ MayRename(temp_path(u), use[u].target)
          /\ tree' = Renamed(temp_path(u), use[u].target)
          /\ Fail(u, "thrown", {})
          /\ UNCHANGED stuck
       \/ stuck' = stuck \cup {temp_path(u)} /\ Fail(u, "thrown", {}) /\ UNCHANGED tree

DirectoryNext ==
    \E u \in Users :
        \/ Call(u) \/ CreateDelete(u) \/ CreateTest(u) \/ CreateMake(u) \/ CreateConfirm(u)
        \/ CopySource(u) \/ CopyTarget(u) \/ CopyAll(u)
        \/ RemoveRename(u) \/ RemoveAll(u) \/ RenameBack(u)

DirectorySpec == DirectoryInit /\ [][DirectoryNext]_directoryVars
-----------------------------------------------------------------------------
\* A directory under the temporary name of a remove() is there only while that
\* call is busy with it, or because the call threw and could not rename it back:
\* a call that returned has removed all of what it renamed.
TemporariesAreTemporary ==
    \A d \in DOMAIN tree \ Dirs :
        \/ d \in stuck
        \/ \E u \in Users : d = temp_path(u) /\ use[u].at \in {"remove_all", "rename back"}

\* Of two processes that create the same directory neither fails because of the
\* other: create_directory() throws only if a call of the file system failed or
\* somebody else removed the directory meanwhile.
CreatorsDoNotCollide ==
    \A u \in Users :
        use[u].op \in {"create", "recreate"} /\ use[u].at = "thrown" => use[u].excuse
=============================================================================
