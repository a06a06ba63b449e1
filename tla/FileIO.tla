------------------------------- MODULE FileIO -------------------------------
(* filesystem::read_file, write_file and touch of one file that several       *)
(* threads or processes use.  Every operation of a stream that reaches the    *)
(* file is a step and may fail.                                               *)
EXTENDS Integers, Sequences

CONSTANTS
    Readers,    \* who reads and writes the file
    Texts       \* the contents that are written: sequences of numbers other than 0

ASSUME FileAssumption == Texts \subseteq Seq(Nat \ {0})

VARIABLES
    file,       \* what is in the file
    present,    \* whether the file exists
    io,         \* the call of each user
    good        \* history: the file is what the last write_file should leave

fileVars == <<file, present, io, good>>

\* A call: text is what it writes or has read, size what tellg() returned; quiet
\* says that no write_file was in progress, or began, during the call.
NoCall == [op |-> "none", at |-> "returned", text |-> <<>>, size |-> 0, quiet |-> TRUE]

FileInit ==
    /\ file = <<>> /\ present = FALSE
    /\ io = [u \in Readers |-> NoCall]
    /\ good = [known |-> FALSE, text |-> <<>>]

Ended == {"returned", "thrown"}
Writing(u) == io[u].op = "write" /\ io[u].at \notin Ended
Unknown == [known |-> FALSE, text |-> <<>>]

Begin(u, op, at1, text) ==
    io' = [v \in Readers |->
        IF v = u
        THEN [op |-> op, at |-> at1, text |-> text, size |-> 0,
              quiet |-> \A w \in Readers \ {u} : ~Writing(w)]
        ELSE [io[v] EXCEPT !.quiet = @ /\ (op # "write" \/ io[v].at \in Ended)]]

Call_write_file(u) ==
    /\ io[u].at \in Ended
    /\ \E text \in Texts : Begin(u, "write", "open", text)
    /\ UNCHANGED <<file, present, good>>

Call_read_file(u) ==
    /\ io[u].at \in Ended
    /\ Begin(u, "read", "open", <<>>)
    /\ UNCHANGED <<file, present, good>>

\* touch(): opening the file to append creates it, or fails without a word.
touch(u) ==
    /\ io[u].at \in Ended
    /\ Begin(u, "touch", "returned", <<>>)
    /\ present' \in {TRUE, present}
    /\ UNCHANGED <<file, good>>

-----------------------------------------------------------------------------
(* write_file *)

\* Mutant: the file is opened without being truncated.
FaultyTruncated == file
Truncated == <<>>

\* The file once n characters of the text have been written from its start.
Overwritten(text, n) == SubSeq(text, 1, n) \o SubSeq(file, n + 1, Len(file))

WriteOpen(u) ==
    /\ io[u].op = "write" /\ io[u].at = "open"
    /\ \/ /\ file' = Truncated /\ present' = TRUE /\ good' = Unknown
          /\ io' = [io EXCEPT ![u].at = "put"]
       \/ io' = [io EXCEPT ![u].at = "thrown"] /\ UNCHANGED <<file, present, good>>

\* ofs << content: some of it may reach the file, the rest stays in the buffer
\* of the stream; ofs.fail() is tested here.
WritePut(u) ==
    /\ io[u].op = "write" /\ io[u].at = "put"
    /\ \E n \in 0 .. Len(io[u].text) : file' = Overwritten(io[u].text, n)
    /\ \E end \in {"close", "thrown"} : io' = [io EXCEPT ![u].at = end]
    /\ good' = Unknown
    /\ UNCHANGED present

\* ofs.close() writes the rest.  Nothing tests whether it could.
WriteClose(u) ==
    /\ io[u].op = "write" /\ io[u].at = "close"
    /\ \E n \in 0 .. Len(io[u].text) :
          /\ file' = Overwritten(io[u].text, n)
          /\ good' = IF n = Len(io[u].text) /\ io[u].quiet
                     THEN [known |-> TRUE, text |-> io[u].text] ELSE Unknown
    /\ io' = [io EXCEPT ![u].at = "returned"]
    /\ UNCHANGED present

-----------------------------------------------------------------------------
(* read_file *)

\* The file is opened at its end, where tellg() is its size.
FileSize == Len(file)

ReadOpen(u) ==
    /\ io[u].op = "read" /\ io[u].at = "open"
    /\ \/ present /\ io' = [io EXCEPT ![u].at = "read", ![u].size = FileSize]
       \/ io' = [io EXCEPT ![u].at = "thrown"]
    /\ UNCHANGED <<file, present, good>>

\* The string has the size of before and zeros where the file has become shorter,
\* which is no error: eof() is set.
ReadContent(u) ==
    /\ io[u].op = "read" /\ io[u].at = "read"
    /\ \/ io' = [io EXCEPT ![u].at = "returned",
                           ![u].text = [k \in 1 .. io[u].size |->
                                           IF k <= Len(file) THEN file[k] ELSE 0]]
       \/ io' = [io EXCEPT ![u].at = "thrown"]
    /\ UNCHANGED <<file, present, good>>

FileNext ==
    \E u \in Readers :
        \/ Call_write_file(u) \/ Call_read_file(u) \/ touch(u)
        \/ WriteOpen(u) \/ WritePut(u) \/ WriteClose(u)
        \/ ReadOpen(u) \/ ReadContent(u)

FileSpec == FileInit /\ [][FileNext]_fileVars
-----------------------------------------------------------------------------
\* A file that was written without disturbance is read back as it was written,
\* also after an earlier and longer content, and after touch(); as long as no
\* further write_file opens it the file does not change.  read_file returns a
\* text with zeros in it, a size and a content of different times, only if a
\* write_file ran at the same time.
FilesAreWhole ==
    /\ good.known => present /\ file = good.text
    /\ \A u \in Readers :
          io[u].op = "read" /\ io[u].at = "returned" /\ io[u].quiet =>
              \A k \in DOMAIN io[u].text : io[u].text[k] # 0
=============================================================================
