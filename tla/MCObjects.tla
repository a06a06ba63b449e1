------------------------------ MODULE MCObjects ------------------------------
(* The parts that share nothing with each other: an item_registry and a       *)
(* circular_buffer, the directories of filesystem::path, a file, temporary    *)
(* names, the answers of the system, the two scope classes and the pure       *)
(* functions.  A behaviour is one of the first two, side by side, or of one   *)
(* of the others, while all the rest keeps still.                             *)
EXTENDS ItemRegistry, CircularBuffer, Directory, FileIO, TemporaryNames, SystemFolders,
        Scopes, Algorithms

\* The contents of the file.
TextSet == {<<1>>, <<2, 2>>}

objectVars == <<registryVars, bufferVars>>
otherVars == <<directoryVars, fileVars, temporaryVars, folderVars, scopeVars, input>>
vars == <<objectVars, otherVars>>

OthersInit ==
    /\ DirectoryInit /\ FileInit /\ TemporaryInit /\ FoldersInit /\ ScopesInit
    /\ input = NoInput
Init == RegistryInit /\ BufferInit /\ OthersInit

\* One initial state of the objects is enough for the others to begin in.
Untouched ==
    /\ max_number_of_items = 0 /\ answer = <<"none", 0>>
    /\ empty /\ buffer = [k \in 0 .. S - 1 |-> CHOOSE v \in Values : TRUE]

\* Parts that are not in their initial state are the one whose behaviour this is.
Still(part) ==
    /\ part # "directory" => DirectoryInit /\ UNCHANGED directoryVars
    /\ part # "file" => FileInit /\ UNCHANGED fileVars
    /\ part # "temporary" => TemporaryInit /\ UNCHANGED temporaryVars
    /\ part # "folders" => FoldersInit /\ UNCHANGED folderVars
    /\ part # "scopes" => ScopesInit /\ UNCHANGED scopeVars
    /\ part # "function" => input = NoInput /\ UNCHANGED input
    /\ part # "object" => Untouched /\ UNCHANGED objectVars

Next ==
    \/ /\ Still("object")
       /\ \/ RegistryNext /\ UNCHANGED bufferVars
          \/ BufferNext /\ UNCHANGED registryVars
    \/ Still("directory") /\ DirectoryNext
    \/ Still("file") /\ FileNext
    \/ Still("temporary") /\ TemporaryNext
    \/ Still("folders") /\ FoldersNext
    \/ Still("scopes") /\ ScopesNext
    \/ Still("function") /\ (Choose \/ Return)

Spec == Init /\ [][Next]_vars
=============================================================================
