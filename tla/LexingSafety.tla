---------------------------- MODULE LexingSafety ----------------------------
(***************************************************************************)
(* The places that packcc reports in a grammar: lines and columns are      *)
(* those of the place of reading, for every file.  And the text that       *)
(* literals stand for: all who decode it see the same characters.          *)
(***************************************************************************)
EXTENDS Lexing

\* The byte at k ends a line; CR and LF are one line end.
EndsLine(k) == file[k] = LF \/ (file[k] = CR /\ (k = Len(file) \/ file[k + 1] # LF))
LineEnds(n) == {k \in 1 .. n : EndsLine(k)}
LineStart(n) == LET ends == LineEnds(n) IN
  IF ends = {} THEN 0 ELSE CHOOSE k \in ends : \A h \in ends : h <= k

\* The characters between two places.  They can be told from the bytes of a file that
\* is valid UTF-8 and has no NUL, at which characters are not counted any more.
Chars(m, n) == Cardinality({k \in (m + 1) .. n : ascii \/ ~ Continues(file[k])})
Readable == ascii \/ (is_valid_utf8_string(file) /\ \A k \in DOMAIN file : file[k] # 0)

ColumnAt(n) == Chars(LineStart(n), n)
TrueColumn == ColumnAt(Pos)

\* Whatever is looked ahead at, given back, skipped and flushed, the buffer holds the
\* bytes of the file at its place, and the line and its beginning are those of the
\* place of reading (input_state__refill_buffer, match_eol).  The column is not too
\* small, and right for a line that began in the buffer (for others, see ColumnOfLine).
PositionsRight ==
  /\ input.bufcur <= Len(input.buf)
  /\ input.buf = SubSeq(file, input.bufpos + 1, input.bufpos + Len(input.buf))
  /\ input.linenum = Cardinality(LineEnds(Pos)) /\ input.linepos = LineStart(Pos)
  /\ Readable =>
       IF input.linepos >= input.bufpos THEN column_number(input) = TrueColumn
       ELSE column_number(input) >= TrueColumn

\* The column that errors are reported with (input_state__commit_buffer keeps charnum
\* for it) is that of the place of reading.
ColumnOfLine == Readable => column_number(input) = TrueColumn

-----------------------------------------------------------------------------
(* Texts in UTF-8.                                                          *)

\* The next character that pcc_get_char_as_utf32 of a generated parser sees in s.
SeeNext(w, s) ==
  LET c == pcc_get_char_as_utf32(SubSeq(s, w.at + 1, Len(s))) IN
  IF c.n = 0 THEN w
  ELSE [at |-> w.at + c.n, chars |-> Append(w.chars, [at |-> w.at, n |-> c.n, u |-> c.u])]

\* All of them, up to a place where it sees none.
Seen(s) ==
  LET w[k \in 0 .. Len(s)] == IF k = 0 THEN [at |-> 0, chars |-> <<>>] ELSE SeeNext(w[k - 1], s)
  IN w[Len(s)]

\* The codes from here on have no escape sequence.
UNICODE == 1114112

Agreed(s) ==
  LET seen == Seen(s) IN
  /\ is_valid_utf8_string(s) <=> seen.at = Len(s)
  /\ is_valid_utf8_string(s) /\ (\A k \in DOMAIN s : s[k] # 0) => count_characters(s) = Len(seen.chars)
  /\ \A k \in DOMAIN seen.chars :
       LET c == seen.chars[k] IN c.u < UNICODE => Encoded(c.u) = SubSeq(s, c.at + 1, c.at + c.n)

Value == SubSeq(lit.value.p, 1, lit.value.n)

\* The value of a literal and the input of a parser are decoded alike: the checker of
\* literals accepts exactly what the generated decoder sees characters in to the end, as
\* many as are counted for reports; and what it decodes is what escape sequences
\* are encoded to.
DecodersAgree == Agreed(Value)
=============================================================================
