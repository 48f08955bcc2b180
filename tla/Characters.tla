----------------------------- MODULE Characters -----------------------------
(***************************************************************************)
(* Characters in packcc and in its parsers: UTF-8, escape sequences, and   *)
(* the tests that are generated for a string or a character class.         *)
(*                                                                         *)
(* A text is a sequence of bytes, the numbers 0 .. 255.  A string constant *)
(* or a character in generated C code stands for its bytes.                *)
(***************************************************************************)
EXTENDS Integers, Sequences, SequencesExt

BACKSLASH == 92
DASH  == 45
CARET == 94
LF    == 10
CR    == 13

-----------------------------------------------------------------------------
(* UTF-8.                                                                   *)

\* How many bytes a character takes that begins with the byte c; 0 if none does.
Length(c) ==
  CASE c \in   0 .. 127 -> 1
    [] c \in 192 .. 223 -> 2
    [] c \in 224 .. 239 -> 3
    [] c \in 240 .. 247 -> 4
    [] c \in 248 .. 251 -> 5
    [] c \in 252 .. 253 -> 6
    [] c \in 128 .. 191 \cup 254 .. 255 -> 0

Continues(c) == c \in 128 .. 191

\* c & ((1 << (7 - n)) - 1)
Payload(c) == IF c < 128 THEN c ELSE c % (2 ^ (7 - Length(c)))

\* u << 6 | d & 0x3f
Extended(u, d) == u * 64 + (d % 64)

\* The codes below are not encoded in n bytes.
Least(n) == <<0, 128, 2048, 65536, 2097152, 67108864>>[n]

\* One byte of is_valid_utf8_string: k bytes of a character of n are still to come
\* (k = 1 between characters), and u is its code so far.
ValidByte(w, c) ==
  LET u == Extended(w.u, c) IN
  CASE ~ w.ok -> w
    [] w.ok /\ w.k = 1 -> [ok |-> Length(c) > 0, k |-> Length(c), n |-> Length(c), u |-> Payload(c)]
    [] w.ok /\ w.k # 1 ->
         [ok |-> Continues(c) /\ (w.k = 2 => u >= Least(w.n)), k |-> w.k - 1, n |-> w.n, u |-> u]

is_valid_utf8_string(str) ==
  LET w[i \in 0 .. Len(str)] ==
        IF i = 0 THEN [ok |-> TRUE, k |-> 1, n |-> 0, u |-> 0] ELSE ValidByte(w[i - 1], str[i])
  IN w[Len(str)].ok /\ w[Len(str)].k = 1

REPLACEMENT == 65533
Invalid == [n |-> 1, u |-> REPLACEMENT]

\* The code in the first n bytes of s.
CodeIn(s, n) ==
  LET u[k \in 0 .. (n - 1)] == IF k = 0 THEN Payload(s[1]) ELSE Extended(u[k - 1], s[k + 1])
  IN u[n - 1]

Decoded_Lenient(s) ==
  LET n == Length(s[1]) IN
  IF n > 0 /\ n <= Len(s) THEN [n |-> n, u |-> CodeIn(s, n)] ELSE Invalid

\* The character at the beginning of s: its length and its code.
Decoded(s) ==
  LET n == Length(s[1]) IN
  IF n > 0 /\ n <= Len(s) /\ (\A k \in 2 .. n : Continues(s[k])) /\ CodeIn(s, n) >= Least(n)
  THEN [n |-> n, u |-> CodeIn(s, n)] ELSE Invalid

utf8_to_utf32(s) == Decoded(s)

\* pcc_get_char_as_utf32 of the generated parser, where s is left of the input: no
\* length if there is no character.
pcc_get_char_as_utf32(s) ==
  IF s = <<>> \/ Decoded(s) = Invalid THEN [n |-> 0, u |-> 0] ELSE Decoded(s)

\* One byte of count_characters: n characters have begun, of the last one rest bytes
\* are still to come, whatever they are, and a NUL ends the string.
CountByte(w, c) ==
  CASE w.ended -> w
    [] ~ w.ended /\ w.rest > 0 -> [w EXCEPT !.rest = @ - 1]
    [] ~ w.ended /\ w.rest = 0 /\ c = 0 -> [w EXCEPT !.ended = TRUE]
    [] ~ w.ended /\ w.rest = 0 /\ c # 0 ->
         [w EXCEPT !.n = @ + 1, !.rest = IF Length(c) = 0 THEN 0 ELSE Length(c) - 1]

count_characters(s) ==
  LET w[i \in 0 .. Len(s)] ==
        IF i = 0 THEN [n |-> 0, rest |-> 0, ended |-> FALSE] ELSE CountByte(w[i - 1], s[i])
  IN w[Len(s)].n

\* The bytes of the code u, as unescape_string writes them.
Encoded(u) ==
  LET Rest(d) == 128 + ((u \div d) % 64) IN
  IF u < 128 THEN <<u>>
  ELSE IF u < 2048 THEN <<192 + (u \div 64), Rest(1)>>
  ELSE IF u < 65536 THEN <<224 + (u \div 4096), Rest(64), Rest(1)>>
  ELSE <<240 + (u \div 262144), Rest(4096), Rest(64), Rest(1)>>

-----------------------------------------------------------------------------
(* Escape sequences.  What follows a sequence that is illegal is left out,  *)
(* since such a literal is reported and no parser is generated.             *)

Hex(c) ==
  IF c \in 48 .. 57 THEN c - 48 ELSE IF c \in 97 .. 102 THEN c - 87
  ELSE IF c \in 65 .. 70 THEN c - 55 ELSE -1

\* The characters behind the backslash, and what they stand for.
Simple ==
  LET from == <<39, 34, 48, 97, 98, 102, 110, 114, 116, 118>>
      to   == <<39, 34, 0, 7, 8, 12, 10, 13, 9, 11>>
  IN [c \in ToSet(from) |-> to[CHOOSE k \in DOMAIN from : from[k] = c]]

High(u) == u \in 55296 .. 56319   \* the first of a surrogate pair
Low(u)  == u \in 56320 .. 57343   \* the second

Paired(s, t) == ((s % 1024) + 64) * 1024 + (t % 1024)

NoEscape == [ok |-> FALSE, bytes |-> <<>>, n |-> 0]
Escape(bytes, n) == [ok |-> TRUE, bytes |-> bytes, n |-> n]

\* An escape sequence s, from behind its backslash on: what is put in its place, and
\* how many characters it has.  At(k) is s[k], or what stands behind the string.
EscapeAt(s, behind, cls) ==
  LET At(k) == IF k <= Len(s) THEN s[k] ELSE behind
      HexAt(k, m) == \A h \in k .. (k + m - 1) : Hex(At(h)) >= 0
      Two(k)  == Hex(At(k)) * 16 + Hex(At(k + 1))
      Four(k) == Two(k) * 256 + Two(k + 2)
      pair == At(6) = BACKSLASH /\ At(7) = 117 /\ HexAt(8, 4) /\ Low(Four(8))
  IN CASE At(1) \in DOMAIN Simple -> Escape(<<Simple[At(1)]>>, 1)
       [] At(1) = 120 -> IF HexAt(2, 2) THEN Escape(<<Two(2)>>, 3) ELSE NoEscape
       [] At(1) = 117 ->
            IF ~ HexAt(2, 4) \/ Low(Four(2)) THEN NoEscape
            ELSE IF ~ High(Four(2)) THEN Escape(Encoded(Four(2)), 5)
            ELSE IF pair THEN Escape(Encoded(Paired(Four(2), Four(8))), 11) ELSE NoEscape
       [] At(1) = LF -> Escape(<<>>, 1)
       [] At(1) = CR -> Escape(<<>>, IF At(2) = LF THEN 2 ELSE 1)
       [] At(1) = BACKSLASH -> Escape(IF cls THEN <<BACKSLASH, BACKSLASH>> ELSE <<BACKSLASH>>, 1)
       [] At(1) \notin DOMAIN Simple \cup {120, 117, LF, CR, BACKSLASH} ->
            Escape(<<BACKSLASH, At(1)>>, 1)

\* The character or escape sequence at the beginning of s.
First(s, behind, cls) ==
  IF s[1] = BACKSLASH THEN EscapeAt(Tail(s), behind, cls) ELSE Escape(<<s[1]>>, 0)

\* One byte of s, the k-th: of an escape sequence skip bytes are still to come.
UnescapeByte(w, s, k, behind, cls) ==
  LET e == First(SubSeq(s, k, Len(s)), behind, cls) IN
  CASE ~ w.ok -> w
    [] w.ok /\ w.skip > 0 -> [w EXCEPT !.skip = @ - 1]
    [] w.ok /\ w.skip = 0 ->
         [ok |-> e.ok, bytes |-> IF e.ok THEN w.bytes \o e.bytes ELSE <<>>, skip |-> e.n]

Unescaped(s, behind, cls) ==
  LET w[k \in 0 .. Len(s)] ==
        IF k = 0 THEN [ok |-> TRUE, bytes |-> <<>>, skip |-> 0]
        ELSE UnescapeByte(w[k - 1], s, k, behind, cls)
  IN w[Len(s)]

\* The string is changed in place: its bytes are followed by those of the original
\* that were there before, and by what the memory behind it holds.
unescape_string(s, behind, cls) ==
  LET Over(e, n) == [ok |-> e.ok, n |-> n, p |-> e.bytes \o SubSeq(s, n + 1, Len(s)) \o <<behind>>]
      Put(e) == Over(e, Len(e.bytes))
  IN Put(Unescaped(s, behind, cls))

-----------------------------------------------------------------------------
(* Generated tests.  A class is negated or not and has tests for a code     *)
(* from lo to hi; "or" says whether the text of the test ends in ||.        *)

Test(lo, hi, or) == [lo |-> lo, hi |-> hi, or |-> or]

Negated(v) == v.n > 0 /\ v.p[1] = CARET

\* A char is signed.
Signed(c) == IF c > 127 THEN c - 256 ELSE c
ByteTest(lo, hi, or) == Test(Signed(lo), Signed(hi), or)

\* The tests of generate_matching_charclass_code for the value from its first byte on.
ByteTests(v, first) ==
  LET f[k \in Nat] ==
        LET e == IF v.p[k] = BACKSLASH /\ k < v.n THEN k + 1 ELSE k IN
        IF k > v.n THEN <<>>
        ELSE IF e + 2 <= v.n /\ v.p[e + 1] = DASH
             THEN <<ByteTest(v.p[e], v.p[e + 2], e + 2 < v.n)>> \o f[e + 3]
             ELSE <<ByteTest(v.p[e], v.p[e], e < v.n)>> \o f[e + 1]
  IN f[first]

\* A class of one byte matches it, and ^ is that byte then.  A range that is all of
\* the class has code of its own.
generate_matching_charclass_code(v) ==
  LET first == IF Negated(v) THEN 2 ELSE 1 IN
  CASE v.n = 0 -> [not |-> FALSE, tests |-> <<Test(-128, 127, FALSE)>>]
    [] v.n = 1 -> [not |-> FALSE, tests |-> <<ByteTest(v.p[1], v.p[1], FALSE)>>]
    [] v.n > 1 /\ first + 2 = v.n /\ v.p[first] # BACKSLASH /\ v.p[first + 1] = DASH ->
         [not |-> Negated(v), tests |-> <<ByteTest(v.p[first], v.p[first + 2], FALSE)>>]
    [] OTHER -> [not |-> Negated(v), tests |-> ByteTests(v, first)]

\* A - is a character by itself if it is the last one.
IsLast_Never(v, k) == FALSE
IsLast(v, k) == k = v.n

\* Those of generate_matching_utf8_charclass_code; from is the beginning of a range
\* whose end comes next, if there is one.  What follows a character is read without
\* asking whether the value goes on.
CodeTests(v, first) ==
  LET f[k \in Nat, from \in Seq(Nat)] ==
        LET e == IF v.p[k] = BACKSLASH /\ k < v.n THEN k + 1 ELSE k
            c == utf8_to_utf32(SubSeq(v.p, e, Len(v.p)))
            next == e + c.n
        IN CASE k > v.n -> <<>>
             [] k <= v.n /\ from # <<>> -> <<Test(from[1], c.u, next <= v.n)>> \o f[next, <<>>]
             [] k <= v.n /\ from = <<>> /\ (v.p[next] # DASH \/ IsLast(v, next)) ->
                  <<Test(c.u, c.u, next <= v.n)>> \o f[next, <<>>]
             [] OTHER -> f[next + 1, <<c.u>>]
  IN f[first, <<>>]

MAXCODE == 2147483647

generate_matching_utf8_charclass_code(v) ==
  IF v.n = 0 \/ (v.n = 1 /\ Negated(v)) THEN [not |-> FALSE, tests |-> <<Test(0, MAXCODE, FALSE)>>]
  ELSE [not |-> Negated(v), tests |-> CodeTests(v, IF Negated(v) THEN 2 ELSE 1)]

\* The C compiler takes the tests if || stands between them, and not behind the last.
Compiles(class) ==
  /\ class.tests # <<>>
  /\ \A k \in DOMAIN class.tests : class.tests[k].or <=> k < Len(class.tests)

Accepts(class, u) ==
  class.not # \E k \in DOMAIN class.tests : u \in class.tests[k].lo .. class.tests[k].hi

\* How many bytes of the input s the generated code takes; 0 if it fails.
MatchClass(class, ascii, s) ==
  LET c == IF ascii THEN [n |-> IF s = <<>> THEN 0 ELSE 1, u |-> IF s = <<>> THEN 0 ELSE Signed(s[1])]
           ELSE pcc_get_char_as_utf32(s)
  IN IF c.n > 0 /\ Accepts(class, c.u) THEN c.n ELSE 0

\* The bytes are compared one by one.
generate_matching_string_code(v) ==
  [not |-> FALSE, tests |-> [k \in 1 .. v.n |-> ByteTest(v.p[k], v.p[k], FALSE)]]

\* How many bytes of s the tests for a string take, or -1.
MatchString(class, s) ==
  IF /\ Len(class.tests) <= Len(s)
     /\ \A k \in DOMAIN class.tests : Signed(s[k]) = class.tests[k].lo
  THEN Len(class.tests) ELSE -1
=============================================================================
