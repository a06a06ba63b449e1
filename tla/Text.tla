-------------------------------- MODULE Text --------------------------------
(* convert::escape_string and unescape_string, the JSON writers, and          *)
(* encoding::is_valid_utf8.  A string is a sequence of characters; JSON output *)
(* is a sequence of characters too, with {, }, :, comma and quote among them. *)
EXTENDS Integers, Sequences, FiniteSets, SequencesExt

\* escape_string(input, esc, special)
Escaped(input, esc, special) ==
    FlattenSeq([j \in DOMAIN input |->
        IF input[j] \in special THEN <<esc, input[j]>> ELSE <<input[j]>>])

Skip == 2

\* unescape_string(input, esc, special)
RECURSIVE Unescaped(_, _, _)
Unescaped(input, esc, special) ==
    IF input = <<>> THEN <<>>
    ELSE IF Head(input) = esc /\ Len(input) > 1 /\ input[2] \in special
    THEN <<input[2]>> \o Unescaped(SubSeq(input, Skip + 1, Len(input)), esc, special)
    ELSE <<Head(input)>> \o Unescaped(Tail(input), esc, special)

-----------------------------------------------------------------------------
(* json *)

\* escape_character and, of characters_to_escape, the two that matter to what
\* follows; the control characters are escaped in the same way.
Quote == "quote"
Backslash == "backslash"
JsonSpecial == {Quote, Backslash}

\* traits<std::string>, and traits<T> of a trivial type after to_string.
JsonString(str) == <<Quote>> \o Escaped(str, Backslash, JsonSpecial) \o <<Quote>>

\* The commas between the entries of an object.
Separated(entries) ==
    FlattenSeq([j \in DOMAIN entries |-> (IF j = 1 THEN <<>> ELSE <<",">>) \o entries[j]])

\* map_serializer: a map is the sequence of its entries, in their order.
JsonEntry(e) == JsonString(e.key) \o <<":">> \o JsonString(e.value)
JsonEntries(m) == [j \in DOMAIN m |-> JsonEntry(m[j])]

\* traits<std::map>: what map_serializer writes, in braces.
MapSerialized(m) == Separated(JsonEntries(m))
JsonMap(m) == <<"{">> \o MapSerialized(m) \o <<"}">>

\* Mutant: the first sub table gets no comma.
FaultyJoined(data, subs) == Separated(data) \o Separated(subs)
Joined(data, subs) == Separated(data \o subs)

\* nested_map_serializer
RECURSIVE JsonNested(_)
JsonNested(n) ==
    <<"{">> \o Joined(JsonEntries(n.data),
                      [j \in DOMAIN n.sub_tables |->
                          JsonString(n.sub_tables[j].key) \o <<":">>
                            \o JsonNested(n.sub_tables[j].value)])
            \o <<"}">>

-----------------------------------------------------------------------------
(* convert::to_string of maps and nested maps: lines with an indentation.  The *)
(* line of an entry has a tab between key and value, that of a sub table has  *)
(* the key alone.                                                             *)

Deeper(indentation) == indentation + 1

MapLines(m, indentation) ==
    [j \in DOMAIN m |-> [indent |-> indentation, key |-> m[j].key, tab |-> TRUE, value |-> m[j].value]]

RECURSIVE NestedLines(_, _), TablesLines(_, _)
TablesLines(tables, indentation) ==
    FlattenSeq([j \in DOMAIN tables |->
        <<[indent |-> indentation, key |-> tables[j].key, tab |-> FALSE, value |-> <<>>]>>
          \o NestedLines(tables[j].value, Deeper(indentation))])
NestedLines(n, indentation) ==
    MapLines(n.data, indentation + 1) \o TablesLines(n.sub_tables, indentation + 1)
Lines(n) == NestedLines(n, -1)

-----------------------------------------------------------------------------
(* utf8 *)

\* Mutant: the second bit of a continuation byte is not looked at.
FaultyContinuation(b) == b >= 128
Continuation(b) == b \in 128 .. 191

\* is_valid_utf8, from byte j on.
RECURSIVE ValidFrom(_, _)
ValidFrom(s, j) ==
    LET lead(low, high, n) == s[j] \in low .. high /\ j + n <= Len(s)
        rest(n) == /\ \A m \in j + 1 .. j + n : Continuation(s[m])
                   /\ ValidFrom(s, j + n + 1)
    IN  IF j > Len(s) THEN TRUE
        ELSE IF s[j] < 128 THEN ValidFrom(s, j + 1)
        ELSE IF lead(194, 223, 1) THEN rest(1)
        ELSE IF lead(224, 239, 2) THEN rest(2)
        ELSE IF lead(240, 244, 3) THEN rest(3)
        ELSE FALSE
is_valid_utf8(s) == ValidFrom(s, 1)

has_utf8_specific_encoding(s) == (\E j \in DOMAIN s : s[j] >= 128) /\ is_valid_utf8(s)

-----------------------------------------------------------------------------
(* filesystem::path::normalize: from the last component to the first, a ".."  *)
(* takes away one component before it.  Roots and empty components (of a      *)
(* trailing separator) are passed over, and the root is put back at the end.  *)

Root == "/"

\* Mutant: of several ".." in a row only one is remembered.
FaultyPending(numParent) == 1
Pending(numParent) == numParent + 1

RECURSIVE Resolve(_, _, _)
Resolve(p, numParent, result) ==
    IF p = <<>> THEN result
    ELSE LET c == Last(p) IN
         IF c \in {Root, ""} THEN Resolve(Front(p), numParent, result)
         ELSE IF c = ".." THEN Resolve(Front(p), Pending(numParent), result)
         ELSE IF numParent > 0 THEN Resolve(Front(p), numParent - 1, result)
         ELSE Resolve(Front(p), numParent, <<c>> \o result)
normalize(p) == (IF Head(p) = Root THEN <<Root>> ELSE <<>>) \o Resolve(p, 0, <<>>)

-----------------------------------------------------------------------------
(* What the functions are compared with: a reader of JSON text, the shape of  *)
(* UTF-8 seen from each byte, and the walk along a path from its beginning.   *)

NoMembers == [data |-> <<>>, sub_tables |-> <<>>]
Malformed == [value |-> NoMembers, rest |-> <<"malformed">>]
At(s, c) == s # <<>> /\ Head(s) = c

\* The characters of a string up to the quote that ends it.
RECURSIVE ReadChars(_, _)
ReadChars(s, chars) ==
    IF s = <<>> THEN Malformed
    ELSE IF Head(s) = Quote THEN [value |-> chars, rest |-> Tail(s)]
    ELSE IF Head(s) = Backslash /\ Len(s) > 1
    THEN ReadChars(SubSeq(s, 3, Len(s)), Append(chars, s[2]))
    ELSE ReadChars(Tail(s), Append(chars, Head(s)))

\* The members of an object whose brace has been read: string members go to
\* data, object members to sub_tables.
RECURSIVE ReadMembers(_, _)
ReadMembers(s, n) ==
    IF At(s, "}") THEN [value |-> n, rest |-> Tail(s)]
    ELSE IF ~At(s, Quote) THEN Malformed
    ELSE LET key == ReadChars(Tail(s), <<>>)
             isTable == At(Tail(key.rest), "{")
             val == IF isTable
                    THEN ReadMembers(SubSeq(key.rest, 3, Len(key.rest)), NoMembers)
                    ELSE ReadChars(SubSeq(key.rest, 3, Len(key.rest)), <<>>)
             member == [key |-> key.value, value |-> val.value]
             further == IF At(val.rest, ",") THEN Tail(val.rest) ELSE val.rest
         IN  IF \/ Len(key.rest) < 3 \/ ~At(key.rest, ":")
                \/ ~(At(val.rest, "}") \/ (At(val.rest, ",") /\ At(further, Quote)))
             THEN Malformed
             ELSE ReadMembers(further, IF isTable
                                    THEN [n EXCEPT !.sub_tables = Append(@, member)]
                                    ELSE [n EXCEPT !.data = Append(@, member)])
ReadObject(s) == IF At(s, "{") THEN ReadMembers(Tail(s), NoMembers)
                 ELSE Malformed

\* The table whose lines have the given indentation: a line with a tab is an
\* entry; one without is a sub table, of the deeper lines behind it.
RECURSIVE ReadLines(_, _, _)
ReadLines(lines, indentation, n) ==
    IF lines = <<>> THEN n
    ELSE LET first == Head(lines)
             deeper == {k \in 1 .. Len(lines) :
                           k > 1 /\ \A l \in 2 .. k : lines[l].indent > indentation}
             inner == SubSeq(lines, 2, 1 + Cardinality(deeper))
             behind == SubSeq(lines, 2 + Cardinality(deeper), Len(lines))
             level == IF inner = <<>> THEN 0 ELSE Head(inner).indent
         IN  IF first.indent # indentation THEN NoMembers
             ELSE IF first.tab
             THEN ReadLines(Tail(lines), indentation,
                     [n EXCEPT !.data = Append(@, [key |-> first.key, value |-> first.value])])
             ELSE ReadLines(behind, indentation,
                     [n EXCEPT !.sub_tables =
                         Append(@, [key |-> first.key, value |-> ReadLines(inner, level, NoMembers)])])

\* How many continuation bytes a byte asks for.
Follow(b) == IF b \in 194 .. 223 THEN 1 ELSE IF b \in 224 .. 239 THEN 2
             ELSE IF b \in 240 .. 244 THEN 3 ELSE 0

\* The bytes that are asked for are the continuation bytes, all are there, and
\* no byte is one that UTF-8 never uses.
WellFormed(s) ==
    /\ \A j \in DOMAIN s : /\ s[j] \notin {192, 193} \cup (245 .. 255)
                           /\ j + Follow(s[j]) <= Len(s)
                           /\ s[j] \in 128 .. 191
                                <=> \E m \in 1 .. j - 1 : j - m <= Follow(s[m])

\* The directory one arrives at, as the components below the root.
RECURSIVE Walk(_, _)
Walk(p, at) ==
    IF p = <<>> THEN at
    ELSE Walk(Tail(p), IF Head(p) \in {Root, ""} THEN at
                       ELSE IF Head(p) # ".." THEN Append(at, Head(p))
                       ELSE IF at = <<>> THEN at ELSE Front(at))
=============================================================================
