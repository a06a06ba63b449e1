----------------------------- MODULE FilesProofs -----------------------------
(* What is proved of the functions on directories and files, each component    *)
(* by itself and for all values of its constants.                              *)
EXTENDS Directory, FileIO, TemporaryNames, TLAPS

-----------------------------------------------------------------------------
(* read_file, write_file and touch *)

Characters == Nat \ {0}
IoRecords ==
    [op : {"none", "read", "write", "touch"},
     at : {"returned", "thrown", "open", "put", "close", "read"},
     text : Seq(Nat), size : Nat, quiet : BOOLEAN]

IoTypeOK ==
    /\ file \in Seq(Characters) /\ present \in BOOLEAN
    /\ io \in [Readers -> IoRecords]
    /\ \A u \in Readers : io[u].op = "write" => io[u].text \in Seq(Characters)

\* A call that nothing has disturbed: no write_file of another user is under way;
\* if it writes itself, the file is not longer than its text, and what it reads
\* has the size it found.
QuietInv ==
    \A u \in Readers :
        /\ io[u].quiet /\ io[u].at \notin Ended => \A v \in Readers \ {u} : ~Writing(v)
        /\ io[u].at \in {"put", "close"} => io[u].op = "write" /\ present
        /\ io[u].quiet /\ io[u].at \in {"put", "close"} => Len(file) <= Len(io[u].text)
        /\ io[u].quiet /\ io[u].at = "read" => io[u].op = "read" /\ io[u].size = Len(file)

FileInv == IoTypeOK /\ QuietInv /\ FilesAreWhole

\* Writing over the start of the file: the rest of a longer file stays.
LEMMA OverwrittenText ==
    ASSUME IoTypeOK, NEW text \in Seq(Characters), NEW n \in 0 .. Len(text)
    PROVE  /\ Overwritten(text, n) \in Seq(Characters)
           /\ Len(file) <= Len(text) => Len(Overwritten(text, n)) <= Len(text)
           /\ Len(file) <= Len(text) /\ n = Len(text) => Overwritten(text, n) = text
<1>1. file \in Seq(Characters) /\ Len(file) \in Nat /\ Len(text) \in Nat
  BY DEF IoTypeOK
<1>2. SubSeq(text, 1, n) \in Seq(Characters) /\ Len(SubSeq(text, 1, n)) = n
  BY <1>1
<1>3. PICK rest \in Seq(Characters) : rest = SubSeq(file, n + 1, Len(file))
  <2>1. \A k \in n + 1 .. Len(file) : file[k] \in Characters
    BY <1>1
  <2>2. SubSeq(file, n + 1, Len(file)) \in Seq(Characters)
    BY <1>1, <2>1
  <2> QED
    BY <2>2, Zenon
<1>4. Len(rest) = IF n < Len(file) THEN Len(file) - n ELSE 0
  BY <1>1, <1>3
<1>5. Overwritten(text, n) = SubSeq(text, 1, n) \o rest
  BY <1>3 DEF Overwritten
<1>6. /\ Overwritten(text, n) \in Seq(Characters)
      /\ Len(Overwritten(text, n)) = n + Len(rest)
  BY <1>2, <1>5
<1>7. ASSUME Len(file) <= Len(text), n = Len(text)
      PROVE  Overwritten(text, n) = text
  <2>1. rest = <<>>
    BY <1>1, <1>3, <1>4, <1>7
  <2>2. SubSeq(text, 1, n) = text
    BY <1>1, <1>7
  <2> QED
    BY <1>5, <2>1, <2>2
<1> QED
  BY <1>1, <1>4, <1>6, <1>7

\* A call begins.
LEMMA BeginKeepsInv ==
    ASSUME FileInv, NEW u \in Readers, NEW op \in {"read", "write", "touch"},
           NEW at1 \in {"open", "returned"}, NEW text \in Seq(Characters),
           op = "read" => at1 = "open",
           Begin(u, op, at1, text), UNCHANGED <<file, good>>, present' \in {TRUE, present}
    PROVE  FileInv'
<1>0. present => present'
  <2>1. present' = TRUE \/ present' = present
    BY Zenon
  <2> QED
    BY <2>1, Zenon
<1> DEFINE calm == \A w \in Readers \ {u} : ~Writing(w)
<1>1. /\ io'[u] = [op |-> op, at |-> at1, text |-> text, size |-> 0, quiet |-> calm]
      /\ \A v \in Readers \ {u} :
            io'[v] = [io[v] EXCEPT !.quiet = @ /\ (op # "write" \/ io[v].at \in Ended)]
      /\ DOMAIN io' = Readers
  BY DEF Begin
<1> HIDE DEF calm
<1>2. /\ io'[u].op = op /\ io'[u].at = at1 /\ io'[u].text = text /\ io'[u].size = 0
      /\ io'[u].quiet <=> calm
  BY <1>1
<1>3. ASSUME NEW v \in Readers \ {u}
      PROVE  /\ io'[v].op = io[v].op /\ io'[v].at = io[v].at /\ io'[v].text = io[v].text
             /\ io'[v].size = io[v].size
             /\ io'[v].quiet <=> io[v].quiet /\ (op # "write" \/ io[v].at \in Ended)
             /\ io'[v] \in IoRecords
  <2>1. io[v] \in IoRecords
    BY DEF FileInv, IoTypeOK
  <2> QED
    BY <1>1, <2>1, Zenon DEF IoRecords
<1>4. io'[u] \in IoRecords
  <2>1. text \in Seq(Nat) /\ calm \in BOOLEAN
    BY DEF Characters, calm
  <2> QED
    BY <1>1, <2>1 DEF IoRecords
<1>5. IoTypeOK'
  <2>1. \A v \in Readers : io'[v] \in IoRecords /\ (io'[v].op = "write" => io'[v].text \in Seq(Characters))
    BY <1>2, <1>3, <1>4 DEF FileInv, IoTypeOK
  <2>2. io' = [v \in Readers |-> io'[v]]
    BY DEF Begin
  <2>3. io' \in [Readers -> IoRecords]
    BY <2>1, <2>2
  <2> QED
    BY <2>1, <2>3, Zenon DEF FileInv, IoTypeOK
<1>6. QuietInv'
  <2>1. \A v \in Readers \ {u} : Writing(v)' <=> Writing(v)
    BY <1>3 DEF Writing
  <2>2. Writing(u)' => op = "write"
    BY <1>2 DEF Writing
  <2>3. ASSUME NEW v \in Readers, io'[v].quiet, io'[v].at \notin Ended
        PROVE  \A w \in Readers \ {v} : ~Writing(w)'
    BY <1>2, <1>3, <2>1, <2>2, <2>3 DEF calm, FileInv, QuietInv
  <2>4. ASSUME NEW v \in Readers
        PROVE  /\ io'[v].at \in {"put", "close"} => io'[v].op = "write" /\ present'
               /\ io'[v].quiet /\ io'[v].at \in {"put", "close"} => Len(file) <= Len(io'[v].text)
               /\ io'[v].quiet /\ io'[v].at = "read" => io'[v].op = "read" /\ io'[v].size = Len(file)
    <3>1. CASE v = u
      BY <1>2, <3>1
    <3>2. CASE v # u
      BY <1>0, <1>3, <3>2 DEF FileInv, QuietInv
    <3> QED
      BY <3>1, <3>2
  <2> QED
    BY <2>3, <2>4 DEF QuietInv
<1>7. FilesAreWhole'
  BY <1>2, <1>3, Zenon DEF FileInv, FilesAreWhole
<1> QED
  BY <1>5, <1>6, <1>7 DEF FileInv

\* A write_file goes on: calls of others that have not ended are disturbed.
LEMMA WriteKeepsInv ==
    ASSUME FileInv, NEW u \in Readers, Writing(u),
           NEW to \in {"put", "close", "returned", "thrown"}, io' = [io EXCEPT ![u].at = to],
           file' \in Seq(Characters), present' \in {TRUE, present},
           to \in {"put", "close"} => present',
           to \in {"put", "close"} /\ io[u].quiet => Len(file') <= Len(io[u].text),
           good'.known => present' /\ file' = good'.text
    PROVE  FileInv'
<1>0. present => present'
  <2>1. present' = TRUE \/ present' = present
    BY Zenon
  <2> QED
    BY <2>1, Zenon
<1>1. io[u] \in IoRecords /\ io[u].op = "write" /\ io[u].at \notin Ended
  BY DEF FileInv, IoTypeOK, Writing
<1>2. /\ io'[u].op = "write" /\ io'[u].at = to /\ io'[u].text = io[u].text
      /\ io'[u].quiet = io[u].quiet /\ io'[u] \in IoRecords
      /\ \A v \in Readers \ {u} : io'[v] = io[v]
  BY <1>1, Zenon DEF FileInv, IoTypeOK, IoRecords
<1>3. IoTypeOK'
  BY <1>1, <1>2, Zenon DEF FileInv, IoTypeOK
<1>4. ASSUME NEW v \in Readers \ {u}
      PROVE  ~io[v].quiet \/ io[v].at \in Ended
  BY <1>4 DEF FileInv, QuietInv
<1>5. QuietInv'
  <2>1. \A v \in Readers : Writing(v)' => Writing(v)
    BY <1>1, <1>2 DEF Writing
  <2>2. ASSUME NEW v \in Readers, io'[v].quiet, io'[v].at \notin Ended
        PROVE  v = u /\ \A w \in Readers \ {v} : ~Writing(w)'
    BY <1>1, <1>2, <1>4, <2>1, <2>2 DEF FileInv, QuietInv
  <2>3. ASSUME NEW v \in Readers
        PROVE  /\ io'[v].at \in {"put", "close"} => io'[v].op = "write" /\ present'
               /\ io'[v].quiet /\ io'[v].at \in {"put", "close"} => Len(file') <= Len(io'[v].text)
               /\ io'[v].quiet /\ io'[v].at = "read" => io'[v].op = "read" /\ io'[v].size = Len(file')
    <3>1. CASE v = u
      BY <1>2, <3>1
    <3>2. CASE v # u
      BY <1>0, <1>2, <1>4, <3>2 DEF FileInv, QuietInv, Ended
    <3> QED
      BY <3>1, <3>2
  <2> QED
    BY <2>2, <2>3 DEF QuietInv
<1>6. FilesAreWhole'
  BY <1>2 DEF FileInv, FilesAreWhole
<1> QED
  BY <1>3, <1>5, <1>6 DEF FileInv

\* A read_file goes on.
LEMMA ReadKeepsInv ==
    ASSUME FileInv, NEW u \in Readers, io[u].op = "read", io[u].at \in {"open", "read"},
           UNCHANGED <<file, present, good>>,
           NEW to \in {"read", "returned", "thrown"}, io' \in [Readers -> IoRecords],
           io'[u].op = "read", io'[u].at = to, io'[u].quiet = io[u].quiet,
           \A v \in Readers \ {u} : io'[v] = io[v],
           to = "read" => io'[u].size = Len(file),
           to = "returned" /\ io[u].quiet => \A k \in DOMAIN io'[u].text : io'[u].text[k] # 0
    PROVE  FileInv'
<1>1. IoTypeOK'
  BY DEF FileInv, IoTypeOK
<1>2. QuietInv'
  <2>1. \A v \in Readers : Writing(v)' => Writing(v)
    BY DEF Writing
  <2>2. ASSUME NEW v \in Readers, io'[v].quiet, io'[v].at \notin Ended
        PROVE  \A w \in Readers \ {v} : ~Writing(w)'
    BY <2>1, <2>2 DEF FileInv, QuietInv, Ended
  <2>3. ASSUME NEW v \in Readers
        PROVE  /\ io'[v].at \in {"put", "close"} => io'[v].op = "write" /\ present'
               /\ io'[v].quiet /\ io'[v].at \in {"put", "close"} => Len(file') <= Len(io'[v].text)
               /\ io'[v].quiet /\ io'[v].at = "read" => io'[v].op = "read" /\ io'[v].size = Len(file')
    <3>1. CASE v = u
      BY <3>1
    <3>2. CASE v # u
      BY <3>2 DEF FileInv, QuietInv
    <3> QED
      BY <3>1, <3>2
  <2> QED
    BY <2>2, <2>3 DEF QuietInv
<1>3. FilesAreWhole'
  BY DEF FileInv, FilesAreWhole
<1> QED
  BY <1>1, <1>2, <1>3 DEF FileInv

\* Every step of every call keeps the invariant.
LEMMA FileInvStep ==
    ASSUME FileInv, [FileNext]_fileVars
    PROVE  FileInv'
<1>0. IoTypeOK /\ QuietInv /\ FilesAreWhole /\ <<>> \in Seq(Characters)
  BY DEF FileInv
<1>1. ASSUME NEW u \in Readers, Call_write_file(u)
      PROVE  FileInv'
  BY <1>1, BeginKeepsInv, FileAssumption DEF Call_write_file, Characters
<1>2. ASSUME NEW u \in Readers, Call_read_file(u)
      PROVE  FileInv'
  BY <1>0, <1>2, BeginKeepsInv, Zenon DEF Call_read_file
<1>3. ASSUME NEW u \in Readers, touch(u)
      PROVE  FileInv'
  BY <1>0, <1>3, BeginKeepsInv, Zenon DEF touch
<1>4. ASSUME NEW u \in Readers, WriteOpen(u)
      PROVE  FileInv'
  <2>1. Writing(u) /\ io[u].at = "open"
    BY <1>4 DEF WriteOpen, Writing, Ended
  <2>2. io[u].text \in Seq(Characters)
    BY <1>0, <2>1 DEF IoTypeOK, Writing
  <2>3. CASE /\ file' = Truncated /\ present' = TRUE /\ good' = Unknown
             /\ io' = [io EXCEPT ![u].at = "put"]
    <3>1. Len(file') <= Len(io[u].text) /\ file' \in Seq(Characters) /\ present'
      BY <1>0, <2>2, <2>3 DEF Truncated
    <3> QED
      BY <2>1, <2>3, <3>1, WriteKeepsInv, Zenon DEF Unknown
  <2>4. CASE io' = [io EXCEPT ![u].at = "thrown"] /\ UNCHANGED <<file, present, good>>
    BY <1>0, <2>1, <2>4, WriteKeepsInv, Zenon DEF IoTypeOK, FilesAreWhole
  <2> QED
    BY <1>4, <2>3, <2>4, Zenon DEF WriteOpen
<1>5. ASSUME NEW u \in Readers, WritePut(u)
      PROVE  FileInv'
  <2>1. Writing(u) /\ io[u].at = "put" /\ good' = Unknown /\ present' = present
    BY <1>5 DEF WritePut, Writing, Ended
  <2>2. io[u].text \in Seq(Characters) /\ present
        /\ (io[u].quiet => Len(file) <= Len(io[u].text))
    BY <1>0, <2>1 DEF IoTypeOK, QuietInv, Writing
  <2>3. PICK n \in 0 .. Len(io[u].text) : file' = Overwritten(io[u].text, n)
    BY <1>5 DEF WritePut
  <2>4. PICK end \in {"close", "thrown"} : io' = [io EXCEPT ![u].at = end]
    BY <1>5, Zenon DEF WritePut
  <2>5. file' \in Seq(Characters) /\ (io[u].quiet => Len(file') <= Len(io[u].text))
    BY <1>0, <2>2, <2>3, OverwrittenText
  <2> QED
    BY <2>1, <2>2, <2>4, <2>5, WriteKeepsInv, Zenon DEF Unknown
<1>6. ASSUME NEW u \in Readers, WriteClose(u)
      PROVE  FileInv'
  <2>1. /\ Writing(u) /\ io[u].at = "close" /\ present' = present
        /\ io' = [io EXCEPT ![u].at = "returned"]
    BY <1>6 DEF WriteClose, Writing, Ended
  <2>2. io[u].text \in Seq(Characters) /\ present
        /\ (io[u].quiet => Len(file) <= Len(io[u].text))
    BY <1>0, <2>1 DEF IoTypeOK, QuietInv, Writing
  <2>3. PICK n \in 0 .. Len(io[u].text) :
          /\ file' = Overwritten(io[u].text, n)
          /\ good' = IF n = Len(io[u].text) /\ io[u].quiet
                     THEN [known |-> TRUE, text |-> io[u].text] ELSE Unknown
    BY <1>6 DEF WriteClose
  <2>4. file' \in Seq(Characters)
    BY <1>0, <2>2, <2>3, OverwrittenText
  <2>5. good'.known => file' = good'.text
    BY <1>0, <2>2, <2>3, OverwrittenText DEF Unknown
  <2> QED
    BY <2>1, <2>2, <2>4, <2>5, WriteKeepsInv, Zenon
<1>7. ASSUME NEW u \in Readers, ReadOpen(u)
      PROVE  FileInv'
  <2>1. io[u].op = "read" /\ io[u].at = "open" /\ UNCHANGED <<file, present, good>>
    BY <1>7 DEF ReadOpen
  <2>2. io[u] \in IoRecords /\ Len(file) \in Nat
    BY <1>0 DEF IoTypeOK
  <2>3. CASE io' = [io EXCEPT ![u].at = "read", ![u].size = FileSize]
    <3>1. /\ io' \in [Readers -> IoRecords] /\ \A v \in Readers \ {u} : io'[v] = io[v]
          /\ io'[u].op = "read" /\ io'[u].at = "read" /\ io'[u].size = Len(file)
          /\ io'[u].quiet = io[u].quiet
      BY <1>0, <2>1, <2>2, <2>3, Zenon DEF IoTypeOK, IoRecords, FileSize
    <3> QED
      BY <2>1, <3>1, ReadKeepsInv
  <2>4. CASE io' = [io EXCEPT ![u].at = "thrown"]
    <3>1. /\ io' \in [Readers -> IoRecords] /\ \A v \in Readers \ {u} : io'[v] = io[v]
          /\ io'[u].op = "read" /\ io'[u].at = "thrown" /\ io'[u].quiet = io[u].quiet
      BY <1>0, <2>1, <2>2, <2>4, Zenon DEF IoTypeOK, IoRecords
    <3> QED
      BY <2>1, <3>1, ReadKeepsInv
  <2> QED
    BY <1>7, <2>3, <2>4 DEF ReadOpen
<1>8. ASSUME NEW u \in Readers, ReadContent(u)
      PROVE  FileInv'
  <2>1. io[u].op = "read" /\ io[u].at = "read" /\ UNCHANGED <<file, present, good>>
    BY <1>8 DEF ReadContent
  <2>2. io[u] \in IoRecords /\ Len(file) \in Nat /\ io[u].size \in Nat
    BY <1>0 DEF IoTypeOK, IoRecords
  <2> DEFINE text == [k \in 1 .. io[u].size |-> IF k <= Len(file) THEN file[k] ELSE 0]
  <2>3. CASE io' = [io EXCEPT ![u].at = "returned", ![u].text = text]
    <3>1. \A k \in 1 .. Len(file) : file[k] \in Nat \ {0}
      BY <1>0 DEF IoTypeOK, Characters
    <3>2. \A k \in 1 .. io[u].size : text[k] \in Nat
      BY <2>2, <3>1
    <3>3. text \in Seq(Nat)
      <4>1. PICK n \in Nat : n = io[u].size
        BY <2>2
      <4>2. text \in [1 .. n -> Nat]
        BY <3>2, <4>1, Zenon
      <4> HIDE DEF text
      <4> QED
        BY <4>2
    <3>4. io[u].quiet => \A k \in DOMAIN text : text[k] # 0
      BY <1>0, <2>1, <2>2, <3>1 DEF QuietInv
    <3> HIDE DEF text
    <3>5. /\ io' \in [Readers -> IoRecords] /\ \A v \in Readers \ {u} : io'[v] = io[v]
          /\ io'[u].op = "read" /\ io'[u].at = "returned" /\ io'[u].text = text
          /\ io'[u].quiet = io[u].quiet
      BY <1>0, <2>1, <2>2, <2>3, <3>3, Zenon DEF IoTypeOK, IoRecords
    <3> QED
      BY <2>1, <3>4, <3>5, ReadKeepsInv
  <2>4. CASE io' = [io EXCEPT ![u].at = "thrown"]
    <3>1. /\ io' \in [Readers -> IoRecords] /\ \A v \in Readers \ {u} : io'[v] = io[v]
          /\ io'[u].op = "read" /\ io'[u].at = "thrown" /\ io'[u].quiet = io[u].quiet
      BY <1>0, <2>1, <2>2, <2>4, Zenon DEF IoTypeOK, IoRecords
    <3> QED
      BY <2>1, <3>1, ReadKeepsInv
  <2> QED
    BY <1>8, <2>3, <2>4 DEF ReadContent
<1>9. CASE UNCHANGED fileVars
  BY <1>0, <1>9 DEF fileVars, FileInv, IoTypeOK, QuietInv, FilesAreWhole, Writing
<1> QED
  BY <1>1, <1>2, <1>3, <1>4, <1>5, <1>6, <1>7, <1>8, <1>9 DEF FileNext

\* FilesAreWhole: what write_file leaves and what read_file returns.
THEOREM WholeFiles == FileSpec => []FilesAreWhole
<1>1. FileInit => FileInv
  <2> SUFFICES ASSUME FileInit PROVE FileInv
    OBVIOUS
  <2>1. <<>> \in Seq(Characters) /\ <<>> \in Seq(Nat)
    OBVIOUS
  <2>2. \A u \in Readers : io[u] = NoCall /\ NoCall \in IoRecords
    BY <2>1 DEF FileInit, NoCall, IoRecords
  <2>3. IoTypeOK
    BY <2>1, <2>2, Zenon DEF FileInit, IoTypeOK, NoCall
  <2>4. QuietInv /\ FilesAreWhole
    BY <2>2 DEF FileInit, QuietInv, FilesAreWhole, NoCall, Ended
  <2> QED
    BY <2>3, <2>4 DEF FileInv
<1>2. FileInv /\ [FileNext]_fileVars => FileInv'
  BY FileInvStep
<1>3. FileInv => FilesAreWhole
  BY DEF FileInv
<1> QED
  BY <1>1, <1>2, <1>3, PTL DEF FileSpec

-----------------------------------------------------------------------------
(* unique_temp_file and unique_temp_dir *)

InHand(p) == maker[p].at \in {"found", "created"}

\* What has been created is there, and two processes with the same name in hand
\* have met.
TemporaryInv ==
    /\ maker \in [Makers -> [at : {"ended", "found", "created"},
                             kind : {"file", "directory"}, name : TempNames \cup {AnyName}]]
    /\ \A p \in Makers : maker[p].at = "created" => maker[p].name \in DOMAIN taken
    /\ \A p, q \in Makers :
          p # q /\ InHand(p) /\ InHand(q) /\ maker[p].name = maker[q].name => {p, q} \in met

\* Every call of the functions keeps this.
LEMMA TemporaryInvStep ==
    ASSUME TemporaryInv, [TemporaryNext]_temporaryVars
    PROVE  TemporaryInv'
<1> USE DEF TemporaryInv, InHand
<1>1. ASSUME NEW p \in Makers, NEW kind \in {"file", "directory"}, Find(p, kind)
      PROVE  TemporaryInv'
  <2>1. PICK n \in TempNames :
          /\ n \notin DOMAIN taken
          /\ maker' = [maker EXCEPT ![p] = [at |-> "found", kind |-> kind, name |-> n]]
          /\ met' = met \cup {{p, q} : q \in {r \in Makers : maker[r].at = "found" /\ maker[r].name = n}}
    BY <1>1, Zenon DEF Find, Free, random_string
  <2>2. taken' = taken
    BY <1>1 DEF Find
  <2>3. ASSUME NEW q \in Makers \ {p}, InHand(q), maker[q].name = n
        PROVE  {p, q} \in met'
    <3>1. maker[q].at = "found"
      BY <2>1, <2>3
    <3> QED
      BY <2>1, <2>3, <3>1
  <2>4. met \subseteq met' /\ \A q \in Makers : {p, q} = {q, p}
    BY <2>1
  <2> QED
    BY <2>1, <2>2, <2>3, <2>4
<1>2. ASSUME NEW p \in Makers, Ends(p), UNCHANGED taken
      PROVE  TemporaryInv'
  BY <1>2 DEF Ends
<1>3. ASSUME NEW p \in Makers, NEW kind, maker[p].at = "found",
             taken' = Taken(maker[p].name, kind),
             maker' = [maker EXCEPT ![p].at = "created"], UNCHANGED met
      PROVE  TemporaryInv'
  <2>1. DOMAIN taken' = DOMAIN taken \cup {maker[p].name}
    BY <1>3 DEF Taken
  <2> QED
    BY <1>3, <2>1
<1>4. ASSUME NEW p \in Makers, Discard(p)
      PROVE  TemporaryInv'
  <2> DEFINE n == maker[p].name
             O == Owners(n)
  <2>1. /\ DOMAIN taken' = DOMAIN taken \ {n}
        /\ met' = {pair \in met : pair \cap O = {}}
        /\ maker' = [q \in Makers |-> IF q \in O THEN [maker[q] EXCEPT !.at = "ended"] ELSE maker[q]]
    BY <1>4 DEF Discard, Restrict
  <2>2. \A q \in Makers : maker[q].at = "created" /\ q \notin O => maker[q].name # n
    BY DEF Owners
  <2> HIDE DEF O, n
  <2>3. \A q \in Makers : /\ q \in O => maker'[q].at = "ended"
                          /\ q \notin O => maker'[q] = maker[q]
    BY <2>1
  <2>4. \A q, r \in Makers : q \notin O /\ r \notin O /\ {q, r} \in met => {q, r} \in met'
    BY <2>1
  <2>5. maker' \in [Makers -> [at : {"ended", "found", "created"},
                               kind : {"file", "directory"}, name : TempNames \cup {AnyName}]]
    BY <2>1
  <2> QED
    BY <2>1, <2>2, <2>3, <2>4, <2>5
<1>5. CASE UNCHANGED temporaryVars
  BY <1>5 DEF temporaryVars
<1> QED
  BY <1>1, <1>2, <1>3, <1>4, <1>5
     DEF TemporaryNext, unique_temp_file, unique_temp_dir, create_unique_temp_file,
         create_unique_temp_dir, GiveUp

\* SharedOnlyByRace: a name that is in use is never given out.
THEOREM NamesAreShared == TemporarySpec => []SharedOnlyByRace
<1>1. TemporaryInit => TemporaryInv
  BY DEF TemporaryInit, TemporaryInv, InHand
<1>2. TemporaryInv /\ [TemporaryNext]_temporaryVars => TemporaryInv'
  BY TemporaryInvStep
<1>3. TemporaryInv => SharedOnlyByRace
  BY DEF TemporaryInv, InHand, SharedOnlyByRace, Owners
<1> QED
  BY <1>1, <1>2, <1>3, PTL DEF TemporarySpec

-----------------------------------------------------------------------------
(* create_directory, copy_to and remove *)
INSTANCE FiniteSetTheorems

UseRecords ==
    [op : {"none", "create", "recreate", "remove", "copy"}, base : Dirs, target : Dirs,
     at : {"returned", "thrown", "test", "delete", "make", "confirm", "source", "target",
           "copy", "rename", "remove_all", "rename back"},
     made : BOOLEAN, excuse : BOOLEAN]

\* Which steps belong to which call.
CreateSteps == {"test", "delete", "make", "confirm"}
OtherSteps == {"source", "target", "copy", "rename", "remove_all", "rename back"}

DirectoryTypeOK ==
    /\ use \in [Users -> UseRecords] /\ IsFiniteSet(stuck)
    /\ \A u \in Users : use[u].at \in OtherSteps => use[u].op \in {"remove", "copy"}

\* A directory that create_directory() has found or made is still there when it
\* looks again, or the call has an excuse to throw.
ConfirmInv ==
    \A u \in Users : use[u].at = "confirm" => exists(use[u].base) \/ use[u].excuse

DirectoryInv ==
    DirectoryTypeOK /\ ConfirmInv /\ TemporariesAreTemporary /\ CreatorsDoNotCollide

\* A temporary name is none of the paths.
LEMMA TemporaryPath ==
    ASSUME DirectoryTypeOK, NEW u \in Users
    PROVE  temp_path(u) \notin Dirs
<1>1. {d \in stuck : d[1] = u} \subseteq stuck /\ IsFiniteSet(stuck)
  BY DEF DirectoryTypeOK
<1>2. Stuck(u) \in Nat
  BY <1>1, FS_Subset, FS_CardinalityType DEF Stuck
<1> QED
  BY <1>2, DirectoryAssumption DEF temp_path

\* What a step of a call leaves of the calls: the caller goes on, with an excuse
\* if it failed, and the others keep theirs or get one.
Moved(u, step, removed) ==
    /\ use' \in [Users -> UseRecords]
    /\ use'[u].at = step /\ use'[u].op = use[u].op /\ use'[u].base = use[u].base
    /\ use'[u].target = use[u].target /\ (use[u].excuse => use'[u].excuse)
    /\ \A v \in Users \ {u} :
          /\ use'[v].at = use[v].at /\ use'[v].op = use[v].op /\ use'[v].base = use[v].base
          /\ use'[v].target = use[v].target
          /\ use[v].excuse \/ use[v].base \in removed => use'[v].excuse

Steps == {"returned", "thrown", "test", "delete", "make", "confirm", "source", "target",
          "copy", "rename", "remove_all", "rename back"}

\* What other calls keep of theirs.
LEMMA Excused ==
    ASSUME NEW r \in UseRecords, NEW e \in BOOLEAN
    PROVE  /\ [r EXCEPT !.excuse = e] \in UseRecords
           /\ [r EXCEPT !.excuse = e].at = r.at /\ [r EXCEPT !.excuse = e].op = r.op
           /\ [r EXCEPT !.excuse = e].base = r.base /\ [r EXCEPT !.excuse = e].target = r.target
           /\ [r EXCEPT !.excuse = e].excuse = e
BY DEF UseRecords

LEMMA ProceedMoves ==
    ASSUME DirectoryTypeOK, NEW u \in Users, NEW step \in Steps, NEW removed,
           Proceed(u, step, removed)
    PROVE  Moved(u, step, removed)
<1>1. \A v \in Users : use[v] \in UseRecords
  BY DEF DirectoryTypeOK
<1>2. use'[u] = [use[u] EXCEPT !.at = step]
  BY DEF Proceed
<1>3. \A v \in Users \ {u} :
         use'[v] = [use[v] EXCEPT !.excuse = use[v].excuse \/ use[v].base \in removed]
  BY DEF Proceed
<1>4. use'[u] \in UseRecords
  BY <1>1, <1>2 DEF UseRecords, Steps
<1>5. ASSUME NEW v \in Users \ {u}
      PROVE  /\ use'[v] \in UseRecords
             /\ use'[v].at = use[v].at /\ use'[v].op = use[v].op /\ use'[v].base = use[v].base
             /\ use'[v].target = use[v].target
             /\ use[v].excuse \/ use[v].base \in removed => use'[v].excuse
  <2>1. (use[v].excuse \/ use[v].base \in removed) \in BOOLEAN
    OBVIOUS
  <2>2. PICK e \in BOOLEAN : e = (use[v].excuse \/ use[v].base \in removed)
    BY <2>1, Zenon
  <2>3. use'[v] = [use[v] EXCEPT !.excuse = e]
    BY <1>3, <2>2
  <2>4. use[v].excuse \/ use[v].base \in removed => e
    BY <2>2, Zenon
  <2> QED
    BY <1>1, <2>3, <2>4, Excused
<1>6. use' \in [Users -> UseRecords]
  <2>1. use' = [v \in Users |-> use'[v]]
    BY DEF Proceed
  <2> QED
    BY <1>4, <1>5, <2>1
<1>7. /\ use'[u].at = step /\ use'[u].op = use[u].op /\ use'[u].base = use[u].base
      /\ use'[u].target = use[u].target /\ (use[u].excuse => use'[u].excuse)
  BY <1>1, <1>2 DEF UseRecords
<1> QED
  BY <1>5, <1>6, <1>7 DEF Moved

LEMMA FailMoves ==
    ASSUME DirectoryTypeOK, NEW u \in Users, NEW step \in Steps, NEW removed,
           Fail(u, step, removed)
    PROVE  Moved(u, step, removed) /\ use'[u].excuse
<1>1. \A v \in Users : use[v] \in UseRecords
  BY DEF DirectoryTypeOK
<1>2. use'[u] = [use[u] EXCEPT !.at = step, !.excuse = TRUE]
  BY DEF Fail
<1>3. \A v \in Users \ {u} :
         use'[v] = [use[v] EXCEPT !.excuse = use[v].excuse \/ use[v].base \in removed]
  BY DEF Fail
<1>4. use'[u] \in UseRecords
  BY <1>1, <1>2 DEF UseRecords, Steps
<1>5. ASSUME NEW v \in Users \ {u}
      PROVE  /\ use'[v] \in UseRecords
             /\ use'[v].at = use[v].at /\ use'[v].op = use[v].op /\ use'[v].base = use[v].base
             /\ use'[v].target = use[v].target
             /\ use[v].excuse \/ use[v].base \in removed => use'[v].excuse
  <2>1. (use[v].excuse \/ use[v].base \in removed) \in BOOLEAN
    OBVIOUS
  <2>2. PICK e \in BOOLEAN : e = (use[v].excuse \/ use[v].base \in removed)
    BY <2>1
  <2>3. use'[v] = [use[v] EXCEPT !.excuse = e]
    BY <1>3, <2>2
  <2>4. use[v].excuse \/ use[v].base \in removed => e
    BY <2>2
  <2> QED
    BY <1>1, <2>3, <2>4, Excused
<1>6. use' \in [Users -> UseRecords]
  <2>1. use' = [v \in Users |-> use'[v]]
    BY DEF Fail
  <2> QED
    BY <1>4, <1>5, <2>1
<1>7. /\ use'[u].at = step /\ use'[u].op = use[u].op /\ use'[u].base = use[u].base
      /\ use'[u].target = use[u].target /\ use'[u].excuse
  BY <1>1, <1>2 DEF UseRecords
<1> QED
  BY <1>5, <1>6, <1>7 DEF Moved

\* A step keeps the invariant if directories disappear with an excuse only, if
\* create_directory() throws with one only, and if a new directory is one of the
\* paths or the temporary directory of the caller.
LEMMA MoveKeepsInv ==
    ASSUME DirectoryInv, NEW u \in Users, NEW step \in Steps, NEW removed,
           Moved(u, step, removed),
           step \in OtherSteps => use[u].op \in {"remove", "copy"},
           step = "confirm" => (use[u].base \in DOMAIN tree') \/ use'[u].excuse,
           step = "thrown" /\ use[u].op \in {"create", "recreate"} => use'[u].excuse,
           \A d \in Dirs : d \in DOMAIN tree /\ d \notin removed => d \in DOMAIN tree',
           \A d \in DOMAIN tree' : d \in DOMAIN tree \cup Dirs \cup {temp_path(u)},
           step \notin {"remove_all", "rename back"} =>
              (temp_path(u) \in DOMAIN tree' => temp_path(u) \in stuck'
                  \/ (temp_path(u) \in DOMAIN tree
                        /\ use[u].at \notin {"remove_all", "rename back"})),
           stuck' = stuck \/ (stuck' = stuck \cup {temp_path(u)}
                                /\ step \notin {"remove_all", "rename back"})
    PROVE  DirectoryInv'
<1>1. DirectoryTypeOK'
  <2>1. IsFiniteSet(stuck)
    BY DEF DirectoryInv, DirectoryTypeOK
  <2>2. IsFiniteSet(stuck')
    <3>1. IsFiniteSet(stuck \cup {temp_path(u)})
      BY <2>1, FS_AddElement
    <3> QED
      BY <2>1, <3>1
  <2> QED
    BY <2>2 DEF DirectoryInv, DirectoryTypeOK, Moved
<1>2. ConfirmInv'
  <2>1. ASSUME NEW v \in Users, use'[v].at = "confirm"
        PROVE  (use'[v].base \in DOMAIN tree') \/ use'[v].excuse
    <3>1. CASE v = u
      BY <2>1, <3>1 DEF Moved
    <3>2. CASE v # u
      <4>1. use[v].base \in Dirs
        BY DEF DirectoryInv, DirectoryTypeOK, UseRecords
      <4> QED
        BY <2>1, <3>2, <4>1 DEF Moved, DirectoryInv, ConfirmInv, exists
    <3> QED
      BY <3>1, <3>2
  <2> QED
    BY <2>1 DEF ConfirmInv, exists
<1>3. CreatorsDoNotCollide'
  BY DEF Moved, DirectoryInv, CreatorsDoNotCollide
<1>4. TemporariesAreTemporary'
  <2>1. \A v \in Users \ {u} : temp_path(v)' = temp_path(v)
    <3> TAKE v \in Users \ {u}
    <3>1. temp_path(u)[1] = u
      BY DEF temp_path
    <3>2. {d \in stuck' : d[1] = v} = {d \in stuck : d[1] = v}
      BY <3>1
    <3> QED
      BY <3>2 DEF temp_path, Stuck
  <2>2. stuck' = stuck => temp_path(u)' = temp_path(u)
    BY DEF temp_path, Stuck
  <2>3. ASSUME NEW d \in DOMAIN tree', d \notin Dirs, d \notin stuck'
        PROVE  \E v \in Users : d = temp_path(v)' /\ use'[v].at \in {"remove_all", "rename back"}
    <3>1. d \notin stuck
      BY <2>3
    <3>2. CASE d = temp_path(u) /\ step \in {"remove_all", "rename back"}
      BY <2>2, <3>2 DEF Moved
    <3>3. CASE d = temp_path(u) /\ step \notin {"remove_all", "rename back"}
      <4>1. d \in DOMAIN tree /\ use[u].at \notin {"remove_all", "rename back"}
        BY <2>3, <3>3
      <4>2. PICK v \in Users : d = temp_path(v) /\ use[v].at \in {"remove_all", "rename back"}
        BY <2>3, <3>1, <4>1 DEF DirectoryInv, TemporariesAreTemporary
      <4>3. v # u
        BY <4>1, <4>2
      <4> QED
        BY <2>1, <4>2, <4>3 DEF Moved
    <3>4. CASE d # temp_path(u)
      <4>1. d \in DOMAIN tree
        BY <2>3, <3>4
      <4>2. PICK v \in Users : d = temp_path(v) /\ use[v].at \in {"remove_all", "rename back"}
        BY <2>3, <3>1, <4>1 DEF DirectoryInv, TemporariesAreTemporary
      <4>3. v # u
        BY <3>4, <4>2
      <4> QED
        BY <2>1, <4>2, <4>3 DEF Moved
    <3> QED
      BY <3>2, <3>3, <3>4
  <2> QED
    BY <2>3 DEF TemporariesAreTemporary
<1> QED
  BY <1>1, <1>2, <1>3, <1>4 DEF DirectoryInv

\* Every step of every call keeps the invariant.
LEMMA DirectoryInvStep ==
    ASSUME DirectoryInv, [DirectoryNext]_directoryVars
    PROVE  DirectoryInv'
<1> USE DEF Without, With, Restrict, Steps, OtherSteps
<1>0. DirectoryTypeOK /\ ConfirmInv /\ TemporariesAreTemporary /\ CreatorsDoNotCollide
  BY DEF DirectoryInv
<1>a. \A u \in Users : use[u].base \in Dirs /\ use[u].target \in Dirs
  BY <1>0 DEF DirectoryTypeOK, UseRecords
<1>b. \A u \in Users : temp_path(u) \notin Dirs
  BY <1>0, TemporaryPath
<1>1. ASSUME NEW u \in Users, Call(u)
      PROVE  DirectoryInv'
  <2>1. PICK op \in {"create", "recreate", "remove", "copy"}, d, e \in Dirs :
          /\ op # "copy" => e = d
          /\ op \in {"remove", "copy"} => Stuck(u) < MaxStuck
          /\ use' = [use EXCEPT ![u] =
                [op |-> op, base |-> d, target |-> e, made |-> FALSE, excuse |-> FALSE,
                 at |-> CASE op = "create" -> "test" [] op = "recreate" -> "delete"
                          [] op = "remove" -> "rename" [] op = "copy" -> "source"]]
    BY <1>1, Zenon DEF Call
  <2>2. PICK step \in {"test", "delete", "rename", "source"} :
          /\ use' = [use EXCEPT ![u] = [op |-> op, base |-> d, target |-> e, made |-> FALSE,
                                        excuse |-> FALSE, at |-> step]]
          /\ step \in OtherSteps => op \in {"remove", "copy"}
    BY <2>1, Zenon
  <2>3. UNCHANGED <<tree, stuck>> /\ use[u].at \in {"returned", "thrown"}
    BY <1>1 DEF Call
  <2>4. /\ use' \in [Users -> UseRecords] /\ use'[u].at = step /\ use'[u].op = op
        /\ \A v \in Users \ {u} : use'[v] = use[v]
    BY <1>0, <2>2 DEF DirectoryTypeOK, UseRecords
  <2>5. \A v \in Users : temp_path(v)' = temp_path(v)
    BY <2>3 DEF temp_path, Stuck
  <2>6. DirectoryTypeOK' /\ ConfirmInv' /\ CreatorsDoNotCollide'
    BY <1>0, <2>2, <2>3, <2>4 DEF DirectoryTypeOK, ConfirmInv, CreatorsDoNotCollide, exists
  <2>7. TemporariesAreTemporary'
    BY <1>0, <2>3, <2>4, <2>5 DEF TemporariesAreTemporary
  <2> QED
    BY <2>6, <2>7 DEF DirectoryInv
<1>2. ASSUME NEW u \in Users, CreateDelete(u)
      PROVE  DirectoryInv'
  <2>1. use[u].at = "delete" /\ UNCHANGED stuck
    BY <1>2 DEF CreateDelete
  <2>2. CASE tree' = Without(tree, use[u].base) /\ Proceed(u, "test", {use[u].base})
    <3>1. Moved(u, "test", {use[u].base})
      BY <1>0, <2>2, ProceedMoves
    <3>2. DOMAIN tree' = DOMAIN tree \ {use[u].base}
      BY <2>2
    <3> QED
      BY <1>a, <1>b, <2>1, <3>1, <3>2, MoveKeepsInv
  <2>3. CASE /\ exists(use[u].base)
             /\ \E left \in SUBSET tree[use[u].base] : tree' = With(tree, use[u].base, left)
             /\ Fail(u, "thrown", {use[u].base})
    <3>1. Moved(u, "thrown", {use[u].base}) /\ use'[u].excuse
      BY <1>0, <2>3, FailMoves
    <3>2. DOMAIN tree' = DOMAIN tree
      BY <2>3 DEF exists
    <3> QED
      BY <1>a, <1>b, <2>1, <3>1, <3>2, MoveKeepsInv
  <2> QED
    BY <1>2, <2>2, <2>3, Zenon DEF CreateDelete
<1>3. ASSUME NEW u \in Users, CreateTest(u)
      PROVE  DirectoryInv'
  <2> DEFINE step == IF exists(use[u].base) THEN "confirm" ELSE "make"
  <2>1. use[u].at = "test" /\ UNCHANGED <<tree, stuck>> /\ Proceed(u, step, {})
    BY <1>3, Zenon DEF CreateTest
  <2>2. Moved(u, step, {}) /\ step \in Steps
    BY <1>0, <2>1, ProceedMoves
  <2> QED
    BY <2>1, <2>2, MoveKeepsInv DEF exists
<1>4. ASSUME NEW u \in Users, CreateMake(u)
      PROVE  DirectoryInv'
  <2>1. use[u].at = "make" /\ UNCHANGED stuck
    BY <1>4 DEF CreateMake
  <2>2. CASE /\ tree' = IF exists(use[u].base) THEN tree ELSE With(tree, use[u].base, {})
             /\ use' = [use EXCEPT ![u].at = "confirm", ![u].made = ~exists(use[u].base)]
    <3>1. PICK made \in BOOLEAN : made = ~exists(use[u].base)
      BY Zenon DEF exists
    <3>2. use' = [use EXCEPT ![u].at = "confirm", ![u].made = made]
      BY <2>2, <3>1
    <3>3. Moved(u, "confirm", {})
      BY <1>0, <3>2 DEF Moved, DirectoryTypeOK, UseRecords
    <3>4. DOMAIN tree' = DOMAIN tree \cup {use[u].base}
      BY <2>2 DEF exists
    <3> QED
      BY <1>a, <1>b, <2>1, <3>3, <3>4, MoveKeepsInv
  <2>3. CASE Fail(u, "thrown", {}) /\ UNCHANGED tree
    <3>1. Moved(u, "thrown", {}) /\ use'[u].excuse
      BY <1>0, <2>3, FailMoves
    <3> QED
      BY <2>1, <2>3, <3>1, MoveKeepsInv
  <2> QED
    BY <1>4, <2>2, <2>3, Zenon DEF CreateMake
<1>5. ASSUME NEW u \in Users, CreateConfirm(u)
      PROVE  DirectoryInv'
  <2> DEFINE step == IF Success(u) THEN "returned" ELSE "thrown"
  <2>1. use[u].at = "confirm" /\ UNCHANGED <<tree, stuck>> /\ Proceed(u, step, {})
    BY <1>5 DEF CreateConfirm
  <2>2. Moved(u, step, {}) /\ step \in Steps
    BY <1>0, <2>1, ProceedMoves
  <2>3. step = "thrown" => use'[u].excuse
    BY <1>0, <2>1, <2>2, Zenon DEF ConfirmInv, Success, Moved
  <2> QED
    BY <2>1, <2>2, <2>3, MoveKeepsInv
<1>6. ASSUME NEW u \in Users, CopySource(u)
      PROVE  DirectoryInv'
  <2> DEFINE step == IF exists(use[u].base) THEN "target" ELSE "thrown"
  <2>1. use[u].at = "source" /\ UNCHANGED <<tree, stuck>> /\ Proceed(u, step, {})
    BY <1>6, Zenon DEF CopySource
  <2>2. Moved(u, step, {}) /\ step \in Steps
    BY <1>0, <2>1, ProceedMoves
  <2>3. use[u].op \in {"remove", "copy"}
    BY <1>0, <2>1 DEF DirectoryTypeOK
  <2> QED
    BY <2>1, <2>2, <2>3, MoveKeepsInv
<1>7. ASSUME NEW u \in Users, CopyTarget(u)
      PROVE  DirectoryInv'
  <2> DEFINE step == IF exists(use[u].target) THEN "rename" ELSE "copy"
  <2>1. use[u].at = "target" /\ UNCHANGED <<tree, stuck>> /\ Proceed(u, step, {})
    BY <1>7, Zenon DEF CopyTarget
  <2>2. Moved(u, step, {}) /\ step \in Steps
    BY <1>0, <2>1, ProceedMoves
  <2>3. use[u].op \in {"remove", "copy"}
    BY <1>0, <2>1 DEF DirectoryTypeOK
  <2> QED
    BY <2>1, <2>2, <2>3, MoveKeepsInv
<1>8. ASSUME NEW u \in Users, CopyAll(u)
      PROVE  DirectoryInv'
  <2>1. use[u].at = "copy" /\ UNCHANGED stuck
    BY <1>8 DEF CopyAll
  <2>2. use[u].op \in {"remove", "copy"}
    BY <1>0, <2>1 DEF DirectoryTypeOK
  <2>3. tree' = tree \/ DOMAIN tree' = DOMAIN tree \cup {use[u].target}
    BY <1>8, Zenon DEF CopyAll
  <2>4. PICK step \in {"returned", "thrown"} : Moved(u, step, {})
    BY <1>0, <1>8, ProceedMoves, FailMoves DEF CopyAll
  <2> QED
    BY <1>a, <1>b, <2>1, <2>2, <2>3, <2>4, MoveKeepsInv
<1>9. ASSUME NEW u \in Users, RemoveRename(u)
      PROVE  DirectoryInv'
  <2>1. use[u].at = "rename" /\ UNCHANGED stuck
    BY <1>9 DEF RemoveRename
  <2>2. use[u].op \in {"remove", "copy"}
    BY <1>0, <2>1 DEF DirectoryTypeOK
  <2>3. CASE /\ tree' = Renamed(use[u].target, temp_path(u))
             /\ Proceed(u, "remove_all", {use[u].target})
    <3>1. Moved(u, "remove_all", {use[u].target})
      BY <1>0, <2>3, ProceedMoves
    <3>2. DOMAIN tree' = (DOMAIN tree \ {use[u].target}) \cup {temp_path(u)}
      BY <2>3 DEF Renamed
    <3> QED
      BY <1>a, <1>b, <2>1, <2>2, <3>1, <3>2, MoveKeepsInv
  <2>4. CASE Fail(u, "thrown", {}) /\ UNCHANGED tree
    <3>1. Moved(u, "thrown", {}) /\ use'[u].excuse
      BY <1>0, <2>4, FailMoves
    <3> QED
      BY <2>1, <2>4, <3>1, MoveKeepsInv
  <2> QED
    BY <1>9, <2>3, <2>4 DEF RemoveRename
<1>10. ASSUME NEW u \in Users, RemoveAll(u)
      PROVE  DirectoryInv'
  <2>1. use[u].at = "remove_all" /\ UNCHANGED stuck
    BY <1>10 DEF RemoveAll
  <2>2. use[u].op \in {"remove", "copy"}
    BY <1>0, <2>1 DEF DirectoryTypeOK
  <2>3. CASE /\ tree' = Without(tree, temp_path(u))
             /\ Proceed(u, IF use[u].op = "copy" THEN "copy" ELSE "returned", {})
    <3>1. PICK step \in {"copy", "returned"} : Moved(u, step, {})
      BY <1>0, <2>3, ProceedMoves
    <3>2. DOMAIN tree' = DOMAIN tree \ {temp_path(u)}
      BY <2>3
    <3> QED
      BY <1>a, <1>b, <2>1, <2>2, <3>1, <3>2, MoveKeepsInv
  <2>4. CASE /\ \E left \in SUBSET tree[temp_path(u)] : tree' = With(tree, temp_path(u), left)
             /\ Fail(u, AfterError(u), {})
    <3>1. Moved(u, "rename back", {})
      BY <1>0, <2>4, FailMoves DEF AfterError
    <3>2. DOMAIN tree' = DOMAIN tree \cup {temp_path(u)}
      BY <2>4
    <3> QED
      BY <1>a, <1>b, <2>1, <2>2, <3>1, <3>2, MoveKeepsInv
  <2> QED
    BY <1>10, <2>3, <2>4 DEF RemoveAll
<1>11. ASSUME NEW u \in Users, RenameBack(u)
      PROVE  DirectoryInv'
  <2>1. use[u].at = "rename back" /\ Fail(u, "thrown", {})
    BY <1>11 DEF RenameBack
  <2>2. Moved(u, "thrown", {}) /\ use'[u].excuse
    BY <1>0, <2>1, FailMoves
  <2>3. CASE tree' = Renamed(temp_path(u), use[u].target) /\ UNCHANGED stuck
    <3>1. DOMAIN tree' = (DOMAIN tree \ {temp_path(u)}) \cup {use[u].target}
      BY <2>3 DEF Renamed
    <3> QED
      BY <1>a, <1>b, <2>1, <2>2, <2>3, <3>1, MoveKeepsInv, ZenonT(40)
  <2>4. CASE stuck' = stuck \cup {temp_path(u)} /\ UNCHANGED tree
    BY <2>1, <2>2, <2>4, MoveKeepsInv
  <2> QED
    BY <1>11, <2>3, <2>4 DEF RenameBack
<1>12. CASE UNCHANGED directoryVars
  BY <1>0, <1>12 DEF directoryVars, DirectoryInv, DirectoryTypeOK, ConfirmInv, exists,
     TemporariesAreTemporary, CreatorsDoNotCollide, temp_path, Stuck
<1> QED
  BY <1>1, <1>2, <1>3, <1>4, <1>5, <1>6, <1>7, <1>8, <1>9, <1>10, <1>11, <1>12
     DEF DirectoryNext

\* The invariant of the file system and the calls.
THEOREM DirectoryInvariant == DirectorySpec => []DirectoryInv
<1>1. DirectoryInit => DirectoryInv
  <2> SUFFICES ASSUME DirectoryInit PROVE DirectoryInv
    OBVIOUS
  <2>1. Idle \in UseRecords
    BY DirectoryAssumption DEF Idle, UseRecords
  <2>2. IsFiniteSet(stuck)
    BY FS_EmptySet DEF DirectoryInit
  <2> QED
    BY <2>1, <2>2 DEF DirectoryInit, DirectoryInv, DirectoryTypeOK, ConfirmInv, OtherSteps,
       TemporariesAreTemporary, CreatorsDoNotCollide, Idle
<1>2. DirectoryInv /\ [DirectoryNext]_directoryVars => DirectoryInv'
  BY DirectoryInvStep
<1> QED
  BY <1>1, <1>2, PTL DEF DirectorySpec

\* TemporariesAreTemporary: a remove() that returned leaves nothing behind.
THEOREM NothingLeftBehind == DirectorySpec => []TemporariesAreTemporary
<1>1. DirectoryInv => TemporariesAreTemporary
  BY DEF DirectoryInv
<1> QED
  BY <1>1, DirectoryInvariant, PTL

\* CreatorsDoNotCollide: a create_directory() that loses a race succeeds all the
\* same, as long as nobody removes the directory and the file system works.
THEOREM CreatorsAgree == DirectorySpec => []CreatorsDoNotCollide
<1>1. DirectoryInv => CreatorsDoNotCollide
  BY DEF DirectoryInv
<1> QED
  BY <1>1, DirectoryInvariant, PTL

=============================================================================
