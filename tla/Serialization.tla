---------------------------- MODULE Serialization ----------------------------
(* serialization::traits of trivial types, strings, xpods, maps and nested    *)
(* maps.  A stream is a sequence of fields: a size, an index, a character or  *)
(* the bytes of a trivial value are one field each.  deserialize returns the  *)
(* value and the stream behind it, which is where `it` points afterwards.     *)
(* Fields are numbers; the value of an xpod is the sequence of its fields.    *)
EXTENDS Integers, Sequences, FiniteSets, SequencesExt

\* xpod::type_index
integer == 0
number == 1
boolean == 2
pointer == 3
string == 4

\* xpod::type, whose order the indices must follow.
type == <<"long long", "double", "bool", "memory::pointer", "std::string">>
TypeOf(x) == type[x.index + 1]

Result(v, rest) == [value |-> v, rest |-> rest]
Drop(s, n) == SubSeq(s, n + 1, Len(s))

\* traits<T> of a trivial type.
SerializeTrivial(v) == <<v>>
DeserializeTrivial(s) == Result(Head(s), Tail(s))

\* traits<std::string>: the size and the characters.
SerializeString(str) == <<Len(str)>> \o str
DeserializeString(s) ==
    Result(SubSeq(s, 2, 1 + Head(s)), Drop(s, 1 + Head(s)))

\* pointer::operator std::string and pointer(std::string): the address in
\* hexadecimal, where showbase writes "0x" unless the address is zero.  An
\* address is one digit here; X stands for the letter.
X == 16
PointerText(address) == IF address = <<0>> THEN <<0>> ELSE <<0, X>> \o address
PointerOf(text) == <<text[Len(text)]>>

IndexByte(x) == x.index

\* traits<xpod::type>: the index, and then what the index says.  A stream with
\* another index is refused.
SerializeXpod(x) ==
    <<IndexByte(x)>> \o
    CASE x.index \in {integer, number, boolean} -> x.value
      [] x.index = pointer -> SerializeString(PointerText(x.value))
      [] x.index = string -> SerializeString(x.value)

Invalid == [index |-> -1, value |-> <<>>]
DeserializeXpod(s) ==
    LET trivial == DeserializeTrivial(Tail(s))
        text == DeserializeString(Tail(s))
        xpod(v) == [index |-> Head(s), value |-> v]
    IN  CASE Head(s) \in {integer, number, boolean} -> Result(xpod(<<trivial.value>>), trivial.rest)
          [] Head(s) = pointer -> Result(xpod(PointerOf(text.value)), text.rest)
          [] Head(s) = string -> Result(xpod(text.value), text.rest)
          [] OTHER -> Result(Invalid, Tail(s))

-----------------------------------------------------------------------------
\* std::map iterates in the order of its keys, which are numbers here.
Ordered(keys) == SetToSortSeq(keys, <)

\* map_serializer of maps from trivial keys to xpods.
SerializeMap(m) ==
    LET entry(k) == SerializeTrivial(k) \o SerializeXpod(m[k])
        keys == Ordered(DOMAIN m)
    IN  SerializeTrivial(Len(keys)) \o FlattenSeq([j \in DOMAIN keys |-> entry(keys[j])])

RECURSIVE ReadEntries(_, _, _)
ReadEntries(s, n, m) ==
    IF n = 0 THEN Result(m, s)
    ELSE LET key == DeserializeTrivial(s)
             val == DeserializeXpod(key.rest)
         IN  ReadEntries(val.rest, n - 1,
                 IF key.value \in DOMAIN m THEN m ELSE (key.value :> val.value) @@ m)
DeserializeMap(s) == ReadEntries(Tail(s), Head(s), <<>>)

\* nested_map_serializer: the data, and then the map of sub_tables.
RECURSIVE SerializeNested(_)
SerializeNested(n) ==
    LET entry(k) == SerializeTrivial(k) \o SerializeNested(n.sub_tables[k])
        keys == Ordered(DOMAIN n.sub_tables)
    IN  SerializeMap(n.data) \o SerializeTrivial(Len(keys))
          \o FlattenSeq([j \in DOMAIN keys |-> entry(keys[j])])

RECURSIVE DeserializeNested(_), ReadTables(_, _, _)
DeserializeNested(s) ==
    LET data == DeserializeMap(s)
        subs == ReadTables(Tail(data.rest), Head(data.rest), <<>>)
    IN  Result([data |-> data.value, sub_tables |-> subs.value], subs.rest)
ReadTables(s, n, m) ==
    IF n = 0 THEN Result(m, s)
    ELSE LET key == DeserializeTrivial(s)
             val == DeserializeNested(key.rest)
         IN  ReadTables(val.rest, n - 1,
                 IF key.value \in DOMAIN m THEN m ELSE (key.value :> val.value) @@ m)

\* serialization::serialize into a buffer of its own (an exception is logged and
\* passed on), and deserialize, of which the overload for a constant `it` leaves
\* it where it is.
Serialize(n) == SerializeNested(n)
Deserialize(it) == DeserializeNested(it)
DeserializeConst(it) == Result(DeserializeNested(it).value, it)

-----------------------------------------------------------------------------
(* container::nested_map *)

\* The constructor from a list: of entries with the same key the last one stays.
FromList(entries) ==
    [data |-> FoldLeft(LAMBDA m, e : (e[1] :> e[2]) @@ m, <<>>, entries), sub_tables |-> <<>>]

\* merge(): an entry of the other map replaces the one with its key, and a sub
\* table is replaced as a whole.  Mutant: what the map has is kept.
FaultyMerged(n, other) ==
    [data |-> n.data @@ other.data, sub_tables |-> n.sub_tables @@ other.sub_tables]
Merged(n, other) ==
    [data |-> other.data @@ n.data, sub_tables |-> other.sub_tables @@ n.sub_tables]

\* operator=: clear and merge.
ClearedTable == [data |-> <<>>, sub_tables |-> <<>>]
CopyAssigned(other) == Merged(ClearedTable, other)

\* get_value_or_default and get_mapped_value_or_default, by index and by type, with
\* the default value of the type; and that of the variant itself, whose default
\* is a zero of the first type.
get_value_or_default(x, T, default) == IF x.index = T THEN x.value ELSE default
get_mapped_value_or_default(n, key, T, default) ==
    IF key \in DOMAIN n.data THEN get_value_or_default(n.data[key], T, default) ELSE default

get_typed_value_or_default(x, T, default) == IF TypeOf(x) = T THEN x.value ELSE default
get_typed_mapped_value_or_default(n, key, T, default) ==
    IF key \in DOMAIN n.data THEN get_typed_value_or_default(n.data[key], T, default) ELSE default

DefaultXpod == [index |-> integer, value |-> <<0>>]
get_mapped_xpod_or_default(n, key) == IF key \in DOMAIN n.data THEN n.data[key] ELSE DefaultXpod

\* get_mapped_value_or_throw<T>(key): whether it throws, and what it returns.
Throws(n, key, T) == key \notin DOMAIN n.data \/ n.data[key].index # T
TypedThrows(n, key, T) == key \notin DOMAIN n.data \/ TypeOf(n.data[key]) # T
get_mapped_value_or_throw(n, key) == n.data[key].value

-----------------------------------------------------------------------------
(* What is checked of a table, and of two tables that are stored one after    *)
(* the other; Rest is whatever follows them in the buffer.                    *)

Rest == <<7>>

\* What serialize wrote, deserialize reads as an equal value, and it stops
\* where the writer stopped: what follows in the buffer is not touched.
RoundTrip(n) ==
    LET stream == Serialize(n) \o Rest
    IN  Deserialize(stream) = Result(n, Rest) /\ DeserializeConst(stream) = Result(n, stream)

\* Every lookup of one key and one type says the same about it.
LookupsAgree(n, key, T, default) ==
    LET found == get_mapped_value_or_default(n, key, T, default)
        whole == get_mapped_xpod_or_default(n, key)
    IN  /\ TypedThrows(n, key, type[T + 1]) <=> Throws(n, key, T)
        /\ get_typed_mapped_value_or_default(n, key, type[T + 1], default) = found
        /\ found = IF Throws(n, key, T) THEN default ELSE get_mapped_value_or_throw(n, key)
        /\ ~Throws(n, key, T) => whole = [index |-> T, value |-> found]

\* Two tables written one after the other, read back in that order and merged
\* (into a copy of the first) answer a lookup as the second table does, if it
\* has the key, and as the first otherwise: as does a table that is built from
\* the list of all their entries.
Entries(m) == [j \in 1 .. Cardinality(DOMAIN m) |-> <<Ordered(DOMAIN m)[j], m[Ordered(DOMAIN m)[j]]>>]
StoredTablesMerge(n, other, keys, types, default) ==
    LET one == Deserialize(Serialize(n) \o Serialize(other))
        two == Deserialize(one.rest)
        all == Merged(CopyAssigned(one.value), two.value)
        owner(k) == IF k \in DOMAIN other.data THEN other ELSE n
    IN  /\ FromList(Entries(n.data) \o Entries(other.data)).data = all.data
        /\ \A k \in keys, T \in types :
              /\ LookupsAgree(all, k, T, default)
              /\ Throws(all, k, T) <=> Throws(owner(k), k, T)
              /\ get_mapped_value_or_default(all, k, T, default) =
                   get_mapped_value_or_default(owner(k), k, T, default)
=============================================================================
