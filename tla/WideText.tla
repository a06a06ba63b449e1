------------------------------ MODULE WideText ------------------------------
(* convert::from_string<std::wstring> and convert::to_string(std::wstring):   *)
(* between bytes of UTF-8 and units of UTF-16 by std::codecvt_utf8_utf16, and *)
(* element by element if that fails.                                          *)
EXTENDS Integers, Sequences, SequencesExt

Failure == [ok |-> FALSE, value |-> <<>>]
Extend(part, result) == [result EXCEPT !.value = part \o @]

\* A code point in UTF-8 and in UTF-16.
MaxPoint == 1114111
Utf8(c) ==
    LET last(n) == 128 + ((c \div n) % 64)
    IN  IF c < 128 THEN <<c>>
        ELSE IF c < 2048 THEN <<192 + c \div 64, last(1)>>
        ELSE IF c < 65536 THEN <<224 + c \div 4096, last(64), last(1)>>
        ELSE <<240 + c \div 262144, last(4096), last(64), last(1)>>
Utf16(c) ==
    IF c < 65536 THEN <<c>>
    ELSE <<55296 + (c - 65536) \div 1024, 56320 + ((c - 65536) % 1024)>>
High(u) == u \in 55296 .. 56319
Low(u) == u \in 56320 .. 57343

\* How long the first character is by its first byte, and which code point its
\* bytes make.
Length(s) ==
    CASE s[1] < 128 -> 1 [] s[1] \in 192 .. 223 -> 2 [] s[1] \in 224 .. 239 -> 3
      [] s[1] \in 240 .. 247 -> 4 [] OTHER -> 0
Point(s) ==
    CASE Length(s) = 1 -> s[1]
      [] Length(s) = 2 -> (s[1] - 192) * 64 + s[2] - 128
      [] Length(s) = 3 -> (s[1] - 224) * 4096 + (s[2] - 128) * 64 + s[3] - 128
      [] Length(s) = 4 -> (s[1] - 240) * 262144 + (s[2] - 128) * 4096 + (s[3] - 128) * 64 + s[4] - 128

\* wstring_convert::from_bytes: overlong forms and code points beyond the last
\* one are errors, since nothing is encoded like that.
RECURSIVE from_bytes(_)
from_bytes(s) ==
    IF s = <<>> THEN [ok |-> TRUE, value |-> <<>>]
    ELSE LET n == Length(s) IN
         IF n = 0 \/ n > Len(s) THEN Failure
         ELSE IF Point(s) \notin 0 .. MaxPoint \/ Utf8(Point(s)) # SubSeq(s, 1, n) THEN Failure
         ELSE LET rest == from_bytes(SubSeq(s, n + 1, Len(s)))
              IN  IF rest.ok THEN Extend(Utf16(Point(s)), rest) ELSE Failure

\* wstring_convert::to_bytes: half of a surrogate pair is an error.
RECURSIVE to_bytes(_)
to_bytes(w) ==
    IF w = <<>> THEN [ok |-> TRUE, value |-> <<>>]
    ELSE LET pair == High(w[1]) /\ Len(w) > 1 /\ Low(w[2])
             point == IF pair THEN 65536 + (w[1] - 55296) * 1024 + w[2] - 56320 ELSE w[1]
             rest == to_bytes(SubSeq(w, IF pair THEN 3 ELSE 2, Len(w)))
         IN  IF w[1] < 0 \/ (~pair /\ (High(w[1]) \/ Low(w[1]))) \/ ~rest.ok THEN Failure
             ELSE Extend(Utf8(point), rest)

\* Mutant: a byte is widened with its sign.
FaultyWidened(b) == IF b >= 128 THEN b - 256 ELSE b
Widened(b) == b

wstring_from_string(s) ==
    LET converted == from_bytes(s)
    IN  IF converted.ok THEN converted.value ELSE [j \in DOMAIN s |-> Widened(s[j])]

\* The fallback writes the upper byte and the lower byte of a unit, if not zero.
string_from_wstring(w) ==
    LET converted == to_bytes(w)
        bytes == FlattenSeq([j \in DOMAIN w |-> <<(w[j] \div 256) % 256, w[j] % 256>>])
    IN  IF converted.ok THEN converted.value ELSE SelectSeq(bytes, LAMBDA b : b # 0)

\* The reference: every half of a surrogate pair is next to its other half.
Paired(w) ==
    \A j \in DOMAIN w : /\ High(w[j]) => j < Len(w) /\ Low(w[j + 1])
                        /\ Low(w[j]) => j > 1 /\ High(w[j - 1])
=============================================================================
