------------------------------ MODULE Algorithms ------------------------------
(* The pure functions, applied to one input.  An input is chosen once; the    *)
(* invariants say what the functions do with it.                              *)
EXTENDS Serialization, Text, WideText

CONSTANTS
    MaxText,    \* length of the strings that are escaped
    MaxBytes,   \* length of the byte strings
    MaxUnits,   \* length of the wide strings
    MaxPath     \* components of a path

VARIABLE input

NoInput == [kind |-> "none"]

\* Keys 1 and 2, and one value of each index, or two.
Keys == {1, 2}
Xpods ==
    [index : {integer, pointer}, value : {<<0>>, <<1>>}]
      \cup [index : {number, boolean}, value : {<<1>>}]
      \cup [index : {string}, value : {<<>>, <<4, 0>>}]
DataMaps == UNION {[D -> Xpods] : D \in SUBSET Keys}
FewMaps == {m \in DataMaps : \A k \in DOMAIN m : m[k].index \in {pointer, string}}
Leaves(maps) == [data : maps, sub_tables : {<<>>}]
Tables ==
    Leaves(DataMaps)
      \cup [data : {<<>>, 2 :> [index |-> string, value |-> <<4>>]},
            sub_tables : UNION {[D -> Leaves(FewMaps)] : D \in (SUBSET Keys) \ {{}}}]

\* Strings over a plain character and the two special ones.
Chars == {"a", Quote, Backslash}
Strings(n) == UNION {[1 .. k -> Chars] : k \in 0 .. n}
Members(values) == {<<>>} \cup {<<[key |-> k, value |-> v]>> : k \in Strings(1), v \in values}
JsonLeaves == [data : Members(Strings(2)), sub_tables : {<<>>}]
JsonTables ==
    JsonLeaves
      \cup [data : Members(Strings(1)),
            sub_tables : {<<[key |-> <<"a">>, value |-> v]>> : v \in JsonLeaves}
                           \cup {<<[key |-> <<>>, value |-> v], [key |-> <<"a">>, value |-> v]>> : v \in JsonLeaves}]

\* A byte of every class is_valid_utf8 tells apart, at the edges of the class.
Bytes == {65, 128, 191, 193, 194, 224, 240, 245}

\* Units of UTF-16, with both halves of a surrogate pair.
WideUnits == {65, 255, 12288, 55296, 56320}

Paths == {p \in UNION {[1 .. n -> {Root, "a", "b", "..", ""}] : n \in 1 .. MaxPath} :
             /\ \A j \in 2 .. Len(p) : p[j] # Root
             /\ \A j \in 1 .. Len(p) : p[j] = "" => j = Len(p) /\ j > 1}

ChooseTables ==
    \E n \in Tables, o \in Leaves(FewMaps) : input' = [kind |-> "tables", first |-> n, second |-> o]
ChooseText == \E t \in Strings(MaxText) : input' = [kind |-> "text", text |-> t]
ChooseJson == \E n \in JsonTables : input' = [kind |-> "json", table |-> n]
ChooseBytes ==
    \E s \in UNION {[1 .. n -> Bytes] : n \in 0 .. MaxBytes} : input' = [kind |-> "bytes", bytes |-> s]
ChooseUnits ==
    \E w \in UNION {[1 .. n -> WideUnits] : n \in 0 .. MaxUnits} : input' = [kind |-> "units", units |-> w]
ChoosePath == \E p \in Paths : input' = [kind |-> "path", path |-> p]
Choose ==
    input = NoInput
      /\ (ChooseTables \/ ChooseText \/ ChooseJson \/ ChooseBytes \/ ChooseUnits \/ ChoosePath)

\* The function has returned.
Return == input # NoInput /\ input' = NoInput

-----------------------------------------------------------------------------
\* What serialize wrote of a nested map of xpods, deserialize reads as an equal
\* map, and it stops where the writer stopped.  Two tables that are stored one
\* after the other and merged after reading answer every lookup as the second
\* table does, if it has the key, and as the first otherwise.  The lookups by
\* index and by type agree, and the throwing ones throw where the others return
\* the default.
StoredTablesAnswer ==
    input.kind = "tables" =>
        /\ RoundTrip(input.first)
        /\ StoredTablesMerge(input.first, input.second, Keys, {pointer, string}, <<>>)

\* What the library writes as text can be read back.  unescape_string undoes
\* escape_string for every string, whether or not the escape character is one of
\* the characters to escape.  The JSON text of a nested map of strings, or of its
\* data as a plain map, is one object with every key, value and sub table in
\* order.  In the text of convert::to_string the indentation alone shows which
\* entry and which sub table belong to which table.
TextReadsBack ==
    /\ input.kind = "text" =>
          \A special \in SUBSET Chars :
              Unescaped(Escaped(input.text, Backslash, special), Backslash, special) = input.text
    /\ input.kind = "json" =>
          LET data == input.table.data
              plain == [data |-> data, sub_tables |-> <<>>]
          IN  /\ ReadObject(JsonNested(input.table)) = [value |-> input.table, rest |-> <<>>]
              /\ ReadObject(JsonMap(data)) = [value |-> plain, rest |-> <<>>]
              /\ ReadLines(Lines(input.table), 0, NoMembers) = input.table

\* is_valid_utf8, which scans from the left, accepts exactly the strings in which
\* each byte is in its place, and has_utf8_specific_encoding those of them that
\* have a character outside ASCII.
Utf8IsLocal ==
    input.kind = "bytes" =>
        /\ is_valid_utf8(input.bytes) <=> WellFormed(input.bytes)
        /\ has_utf8_specific_encoding(input.bytes) <=>
             WellFormed(input.bytes) /\ \E j \in DOMAIN input.bytes : Follow(input.bytes[j]) > 0

\* Valid text is the same after a conversion to the other width and back, in
\* both directions; and bytes that are no UTF-8 become a wide string that is the
\* same after a conversion to bytes and back.
WideTextReturns ==
    /\ input.kind = "bytes" =>
          LET w == wstring_from_string(input.bytes)
          IN  /\ wstring_from_string(string_from_wstring(w)) = w
              /\ from_bytes(input.bytes).ok => string_from_wstring(w) = input.bytes
    /\ input.kind = "units" /\ Paired(input.units) =>
          wstring_from_string(string_from_wstring(input.units)) = input.units

\* normalize, which goes through an absolute path from its end, names the
\* directory that a walk from the root arrives at, and has no ".." left.
NormalizeResolves ==
    input.kind = "path" /\ Head(input.path) = Root =>
        normalize(input.path) = <<Root>> \o Walk(input.path, <<>>)
=============================================================================
