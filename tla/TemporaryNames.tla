---------------------------- MODULE TemporaryNames ----------------------------
(* unique_temp_file, unique_temp_dir and the create_ functions that use them,  *)
(* by several processes that share the directory for temporary files.  The    *)
(* random strings are drawn from a small set, so that they collide.           *)
EXTENDS Naturals, Functions

CONSTANTS
    Makers,     \* the processes
    TempNames   \* the names there are

VARIABLES
    taken,      \* what exists under a name: a file or a directory
    maker,      \* the call of each process
    met         \* history: pairs of processes that had the same name in hand

temporaryVars == <<taken, maker, met>>

\* random_string: any name, also one that another process draws.
random_string == TempNames

AnyName == CHOOSE n \in TempNames : TRUE
TemporaryInit ==
    /\ taken = <<>>
    /\ maker = [p \in Makers |-> [at |-> "ended", kind |-> "file", name |-> AnyName]]
    /\ met = {}

\* Mutant: the name is not looked up.
FaultyFree(n) == TRUE
Free(n) == n \notin DOMAIN taken

\* The loop ends with a name that does not exist; the names it skips have no
\* effect.  Who finds a name that another process has found too and not used yet
\* meets that process.
Find(p, kind) ==
    /\ maker[p].at = "ended"
    /\ \E n \in random_string :
          /\ Free(n)
          /\ maker' = [maker EXCEPT ![p] = [at |-> "found", kind |-> kind, name |-> n]]
          /\ met' = met \cup {{p, q} : q \in {r \in Makers : maker[r].at = "found" /\ maker[r].name = n}}
    /\ UNCHANGED taken
unique_temp_file(p) == Find(p, "file")
unique_temp_dir(p) == Find(p, "directory")

Ends(p) == maker' = [maker EXCEPT ![p].at = "ended"] /\ met' = {pair \in met : p \notin pair}

\* What exists once the name is there; what was there before stays what it is.
Taken(n, kind) ==
    [m \in DOMAIN taken \cup {n} |-> IF m \in DOMAIN taken THEN taken[m] ELSE kind]

\* touch: it is no error that the name exists by now, whatever it is.
create_unique_temp_file(p) ==
    /\ maker[p].at = "found" /\ maker[p].kind = "file"
    /\ taken' = Taken(maker[p].name, "file")
    /\ maker' = [maker EXCEPT ![p].at = "created"]
    /\ UNCHANGED met

\* create_directories: it is no error that the directory exists; it throws if a
\* file does.
create_unique_temp_dir(p) ==
    LET n == maker[p].name
    IN  /\ maker[p].at = "found" /\ maker[p].kind = "directory"
        /\ IF ~Free(n) /\ taken[n] = "file"
           THEN Ends(p) /\ UNCHANGED taken
           ELSE /\ taken' = Taken(n, "directory")
                /\ maker' = [maker EXCEPT ![p].at = "created"]
                /\ UNCHANGED met

\* The file system refuses, which touch does not tell, or the caller of
\* unique_temp_file makes no use of the name: in any case it owns nothing.
GiveUp(p) == maker[p].at = "found" /\ Ends(p) /\ UNCHANGED taken

\* The owner removes what it has created; with a second owner that is gone, too.
Owners(n) == {p \in Makers : maker[p].at = "created" /\ maker[p].name = n}
Discard(p) ==
    LET n == maker[p].name
    IN  /\ maker[p].at = "created"
        /\ taken' = Restrict(taken, DOMAIN taken \ {n})
        /\ maker' = [q \in Makers |-> IF q \in Owners(n) THEN [maker[q] EXCEPT !.at = "ended"] ELSE maker[q]]
        /\ met' = {pair \in met : pair \cap Owners(n) = {}}

TemporaryNext ==
    \E p \in Makers :
        \/ unique_temp_file(p) \/ unique_temp_dir(p)
        \/ create_unique_temp_file(p) \/ create_unique_temp_dir(p) \/ GiveUp(p) \/ Discard(p)

TemporarySpec == TemporaryInit /\ [][TemporaryNext]_temporaryVars
-----------------------------------------------------------------------------
\* Two processes own the same temporary file or directory only if both found the
\* name free before either created it: a name that is in use is never given out.
SharedOnlyByRace ==
    \A n \in TempNames : \A p, q \in Owners(n) : p # q => {p, q} \in met
=============================================================================
