----------------------------- MODULE InputState -----------------------------
(***************************************************************************)
(* input_state_t: the input of packcc, which is read into a buffer as far  *)
(* as a function looks ahead, and the functions that match what comes next *)
(* in it.  An input state w has                                            *)
(*   buf      the bytes in the buffer,                                     *)
(*   bufpos   the place in the file of the first of them,                  *)
(*   bufcur   how many of them are behind the place of reading,            *)
(*   linenum, linepos and charnum, for the positions in reports, and       *)
(*   errnum   the errors reported.                                         *)
(* A match_ operator gives the state after the call, and ok for what it    *)
(* has returned.  depth and head are d and h of match_code_block.          *)
(***************************************************************************)
EXTENDS Characters, FiniteSets

VARIABLES
  file,   \* the bytes of the file
  ascii   \* the option -a

InputInit ==
  [buf |-> <<>>, bufpos |-> 0, bufcur |-> 0, linenum |-> 0, linepos |-> 0, charnum |-> 0,
   errnum |-> 0, ok |-> FALSE, depth |-> 0, head |-> FALSE]

Byte  == 0 .. 255
BLANK == {32, 9, 11, 12}
Digit == 48 .. 57
Alpha == 97 .. 122 \cup 65 .. 90 \cup {95}
HASH == 35
SLASH == 47
STAR == 42
SINGLE == 39
DOUBLE == 34
OPEN == 123
CLOSE == 125
LEFT == 91
RIGHT == 93
DOT == 46

Yes(w) == [w EXCEPT !.ok = TRUE]
No(w)  == [w EXCEPT !.ok = FALSE]
Reported(w) == [No(w) EXCEPT !.errnum = @ + 1]

\* size__sub
Minus(a, b) == IF a > b THEN a - b ELSE 0

\* The characters in the buffer from the beginning of the line on, and those of the
\* line that have left the buffer.
column_number(w) ==
  LET from == Minus(w.linepos, w.bufpos)
  IN w.charnum + IF ascii THEN w.bufcur - from ELSE count_characters(SubSeq(w.buf, from + 1, w.bufcur))

\* At least num bytes behind the place of reading, if the file has them.
Refilled(w, num) ==
  LET read == w.bufpos + Len(w.buf)
      missing == Minus(w.bufcur + num, Len(w.buf))
      left == Len(file) - read
  IN [w EXCEPT !.buf = @ \o SubSeq(file, read + 1, read + (IF missing < left THEN missing ELSE left))]

input_state__commit_buffer(w) ==
  [w EXCEPT
     !.charnum = IF w.linepos < w.bufpos + w.bufcur
                 THEN @ + IF ascii THEN w.bufcur ELSE count_characters(SubSeq(w.buf, 1, w.bufcur))
                 ELSE @,
     !.buf = SubSeq(@, w.bufcur + 1, Len(@)), !.bufpos = @ + w.bufcur, !.bufcur = 0]

match_eof(w) ==
  LET r == Refilled(w, 1) IN [r EXCEPT !.ok = Len(r.buf) = r.bufcur]

\* The characters that the functions for one character take are a set here.
match_character(w, chars) ==
  LET Taken(r) == IF Len(r.buf) > r.bufcur /\ r.buf[r.bufcur + 1] \in chars
                  THEN [Yes(r) EXCEPT !.bufcur = @ + 1] ELSE No(r)
  IN Taken(Refilled(w, 1))

TakeOne(w) == match_character(w, Byte)

match_string(w, str) ==
  LET Taken(r) == IF SubSeq(r.buf, r.bufcur + 1, Min({r.bufcur + Len(str), Len(r.buf)})) = str
                  THEN [Yes(r) EXCEPT !.bufcur = @ + Len(str)] ELSE No(r)
  IN Taken(Refilled(w, Len(str)))

-----------------------------------------------------------------------------
(* Loops and alternatives of calls.                                         *)

\* The call after the last of w, Step(w), ... that was successful: each takes at
\* least a byte, but for one at the end of the file.
Steps(w, Step(_)) ==
  LET f[k \in 0 .. Len(file) + 1] ==
        IF k = 0 THEN Step(w) ELSE LET v == f[k - 1] IN IF v.ok THEN Step(v) ELSE v
  IN f[Len(file) + 1]

\* while (...) n++; return n > 0;
Some(w, M(_)) ==
  LET Taken(r) == [r EXCEPT !.ok = r.bufcur > w.bufcur] IN Taken(Steps(w, M))

\* What happens after a call that has led to w: A if it was successful, and B if not.
Either(w, A(_), B(_)) == IF w.ok THEN A(w) ELSE B(w)
AndThen(w, A(_)) == IF w.ok THEN A(w) ELSE w
OrElse(w, B(_))  == IF w.ok THEN w ELSE B(w)

NewLine(w) ==
  [Yes(w) EXCEPT !.linenum = @ + 1, !.charnum = 0, !.linepos = w.bufpos + w.bufcur]

match_eol(w) ==
  Either(match_character(w, {LF}), NewLine,
    LAMBDA v : AndThen(match_character(v, {CR}), LAMBDA u : NewLine(match_character(u, {LF}))))

-----------------------------------------------------------------------------
(* Spaces, comments and quotations.                                         *)

match_space(w) == match_character(w, BLANK)
match_spaces_in_line(w) == Some(w, match_space)

InLine(w) == Either(match_eol(w), No, TakeOne)

match_section_line(w, head) ==
  AndThen(match_string(w, head), LAMBDA h : Yes(Steps(h, InLine)))

match_comment(w) == match_section_line(w, <<HASH>>)

\* A line that ends in a backslash is continued.
InContinuedLine(w) ==
  Either(match_eol(w), LAMBDA e : [e EXCEPT !.ok = e.buf[w.bufcur] = BACKSLASH], TakeOne)

match_comment_cxx(w) ==
  AndThen(match_string(w, <<SLASH, SLASH>>), LAMBDA h : Yes(Steps(h, InContinuedLine)))

InBlock(w) ==
  Either(match_string(w, <<STAR, SLASH>>), No,
    LAMBDA v : Either(match_eof(v), Reported,
      LAMBDA u : OrElse(match_eol(u), TakeOne)))

match_comment_c(w) ==
  AndThen(match_string(w, <<SLASH, STAR>>), LAMBDA h : Yes(Steps(h, InBlock)))

SpaceOrLine(w) == OrElse(OrElse(match_space(w), match_eol), match_comment)
match_spaces(w) == Some(w, SpaceOrLine)

\* The character behind a backslash is taken as it is; a line end is an error.
Escaping_None(w) == w
Escaping(w) == match_character(w, {BACKSLASH})

InQuotation(w, right) ==
  Either(match_character(w, {right}), No,
    LAMBDA v : Either(match_eof(v), Reported,
      LAMBDA u : Either(match_eol(Escaping(u)), Reported,
        LAMBDA x : Yes(TakeOne(x)))))

match_quotation(w, left, right) ==
  AndThen(match_character(w, {left}),
    LAMBDA h : Yes(Steps(h, LAMBDA v : InQuotation(v, right))))

match_quotation_single(w) == match_quotation(w, SINGLE, SINGLE)
match_quotation_double(w) == match_quotation(w, DOUBLE, DOUBLE)
match_character_class(w)  == match_quotation(w, LEFT, RIGHT)
Quotation(w) == OrElse(match_quotation_single(w), match_quotation_double)

-----------------------------------------------------------------------------
(* Names, numbers and versions.                                             *)

match_digit(w) == match_character(w, Digit)
match_number(w) == Some(w, match_digit)

\* Three numbers without leading zeros; if one is missing, what has been taken stays
\* taken.
NumberAt(w) ==
  LET Normal(n) == [n EXCEPT !.ok = ~ (n.bufcur - w.bufcur > 1 /\ n.buf[w.bufcur + 1] = 48)]
  IN AndThen(match_number(w), Normal)

DotAndNumber(w) == AndThen(match_character(w, {DOT}), NumberAt)

match_version(w) ==
  AndThen(AndThen(NumberAt(w), DotAndNumber), DotAndNumber)

match_identifier(w) ==
  AndThen(match_character(w, Alpha),
    LAMBDA h : Yes(Steps(h, LAMBDA v : match_character(v, Alpha \cup Digit))))

-----------------------------------------------------------------------------
(* Code blocks.                                                             *)

\* One turn of the loop of a preprocessor directive.
InDirective(w) ==
  LET Continued(e) == [e EXCEPT !.ok = w.bufcur = 0 \/ e.buf[w.bufcur] = BACKSLASH]
  IN Either(match_eof(w), No,
       LAMBDA v : Either(match_eol(v), Continued,
         LAMBDA u : Either(match_comment_cxx(u), No,
           LAMBDA x : OrElse(OrElse(match_comment_c(x), Quotation), TakeOne))))

match_directive_c(w) ==
  AndThen(match_character(w, {HASH}), LAMBDA h : Yes(Steps(h, InDirective)))

Headed(w, head) == [w EXCEPT !.head = head]

\* What is no directive, comment, line end or space: braces count if they are in no
\* quotation.
InCode(w) ==
  LET Deeper(v) == [v EXCEPT !.depth = @ + 1]
      Out(v) == [v EXCEPT !.depth = @ - 1, !.ok = v.depth > 1]
  IN OrElse(Quotation(w),
       LAMBDA v : Either(match_character(v, {OPEN}), Deeper,
         LAMBDA u : Either(match_character(u, {CLOSE}), Out, TakeOne)))

\* One turn of the loop of a code block.  A directive that is not the first in its
\* line is reported.
InCodeBlock(w) ==
  LET AtHead(v) == Headed(v, TRUE)
      Directive(v) == AtHead([v EXCEPT !.errnum = IF v.head THEN @ ELSE @ + 1])
  IN Either(match_eof(w), Reported,
       LAMBDA v : Either(match_directive_c(v), Directive,
         LAMBDA u : Either(OrElse(match_comment_cxx(u), match_eol), AtHead,
           LAMBDA x : OrElse(OrElse(match_spaces_in_line(x), match_comment_c),
                             LAMBDA y : InCode(Headed(y, FALSE))))))

match_code_block(w) ==
  AndThen(match_character(w, {OPEN}),
    LAMBDA h : [Steps([h EXCEPT !.depth = 1, !.head = TRUE], InCodeBlock) EXCEPT
                  !.ok = TRUE, !.depth = 0, !.head = FALSE])
=============================================================================
