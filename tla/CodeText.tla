------------------------------ MODULE CodeText ------------------------------
(***************************************************************************)
(* How the C code of a grammar is written into the generated parser:       *)
(* #line directives, indentation, and what stands for $1, @name or a       *)
(* macro.                                                                  *)
(*                                                                         *)
(* A place in a text s is the number of bytes before it, and n is the      *)
(* place where the part ends that is looked at.  An operator ...At gives   *)
(* the place behind what it matches at i, or i.  A stream has              *)
(*   text    the bytes written; numbers from 256 on are generated texts,   *)
(*   line    how many lines that makes,                                    *)
(*   lhead   whether the next byte is at the head of a line of the code,   *)
(*   dirs    its #line directives, each an empty line in text,             *)
(*   errors  the positions of the errors reported.                         *)
(***************************************************************************)
EXTENDS InputState

CONSTANTS
  Macros,       \* ctx->subst and the version: a text for each name
  Markers,      \* ctx->mvars: the names of the marker variables
  Captures,     \* capts: the numbers of the captures that the code sees
  ReadMethods,  \* the names in s_func_read
  WriteMethods  \* and s_func_write

TAB == 9
AT == 64
DOLLAR == 36
ROUND == 40
VALUE    == 256   \* VARNAME_ACTION_OUT
RESULT   == 257   \* VARNAME_PROGPRED_OUT
CAPTURE  == 258   \* VARNAME_CAPTURE_PREFIX
MARKER   == 259   \* pcc_marker_variable__
ONACTION == 260   \* the same with _on_action
INDENT_UNIT == 4

EmptyStream == [text |-> <<LF, LF>>, line |-> 2, lhead |-> FALSE, dirs |-> <<>>, errors |-> <<>>]

-----------------------------------------------------------------------------
(* What is matched in a text.                                               *)

Byte_(s, i, n) == IF i < n THEN s[i + 1] ELSE -1
BehindAll(s, i, n, S) == Min({k \in i .. n : k = n \/ s[k + 1] \notin S})

EolAt(s, i, n) ==
  LET k == IF Byte_(s, i, n) = CR THEN i + 1 ELSE i
  IN IF Byte_(s, k, n) = LF THEN k + 1 ELSE k

\* The places of line ends from i on.
Eols(s, i, n) == {k \in i .. (n - 1) : s[k + 1] = CR \/ (s[k + 1] = LF /\ (k = i \/ s[k] # CR))}

SpacesAt(s, i, n) == BehindAll(s, i, n, BLANK)

CommentCAt(s, i, n) ==
  IF Byte_(s, i, n) = SLASH /\ Byte_(s, i + 1, n) = STAR
  THEN Min({n} \cup {k + 2 : k \in {h \in (i + 2) .. (n - 2) : s[h + 1] = STAR /\ s[h + 2] = SLASH}})
  ELSE i

CommentCxxAt(s, i, n) ==
  IF Byte_(s, i, n) = SLASH /\ Byte_(s, i + 1, n) = SLASH
  THEN Min({n} \cup {EolAt(s, k, n) : k \in {h \in Eols(s, i + 2, n) : s[h] # BACKSLASH}})
  ELSE i

QuotationAt(s, i, n) ==
  LET end[k \in Nat] ==
        IF k >= n THEN n
        ELSE IF s[k + 1] \in {LF, CR} THEN EolAt(s, k, n)
        ELSE IF s[k + 1] = s[i + 1] THEN k + 1
        ELSE end[IF s[k + 1] = BACKSLASH THEN k + 2 ELSE k + 1]
  IN IF Byte_(s, i, n) \in {SINGLE, DOUBLE} THEN end[i + 1] ELSE i

DirectiveAt(s, i, n) ==
  LET end[k \in Nat] ==
        IF k >= n THEN n
        ELSE IF s[k + 1] \in {LF, CR}
             THEN IF s[k] = BACKSLASH THEN end[EolAt(s, k, n)] ELSE EolAt(s, k, n)
        ELSE IF CommentCxxAt(s, k, n) > k THEN CommentCxxAt(s, k, n)
        ELSE end[Max({CommentCAt(s, k, n), QuotationAt(s, k, n), k + 1})]
  IN IF Byte_(s, i, n) = HASH THEN end[i + 1] ELSE i

-----------------------------------------------------------------------------
(* Lines and their indentation.                                             *)

LineStarts(s, n) == {0} \cup ({EolAt(s, k, n) : k \in Eols(s, 0, n)} \ {n})
Filled(s, k, n) == Byte_(s, SpacesAt(s, k, n), n) \notin {-1, LF, CR}

\* count_indent_spaces
Width(s, i, n) ==
  FoldLeft(LAMBDA w, c : IF c = TAB THEN ((w + 8) \div 8) * 8 ELSE w + 1, 0,
           SubSeq(s, i + 1, SpacesAt(s, i, n)))

LeastWidth(s, lines, n) ==
  IF lines = {} THEN 0 ELSE Min({Width(s, k, n) : k \in lines})

\* find_back_preceding_spaces_in_line and find_trailing_spaces_in_string
BeforeSpaces(s, i) == Max({0} \cup {k \in 1 .. i : s[k] \notin BLANK})
WithoutTrailing(s) ==
  SubSeq(s, 1, Max({0} \cup {k \in DOMAIN s : s[k] \notin BLANK \cup {LF, CR}}))

\* The line and the column of the place i of a code.
calculate_position_(code, i) ==
  LET starts == {EolAt(code.text, k, i) : k \in Eols(code.text, 0, i)}
      h == Max(starts \cup {0})
      count == IF ascii THEN i - h ELSE count_characters(SubSeq(code.text, h + 1, i))
  IN <<code.line + Cardinality(starts), IF starts = {} THEN code.col + count ELSE count>>

-----------------------------------------------------------------------------
(* What stands for a byte of the code and those behind it: out is written   *)
(* for the bytes up to the place to, and bad says whether that is reported. *)

Plainly(s, i) == [to |-> i + 1, out |-> <<s[i + 1]>>, bad |-> FALSE]
Put_(to, out) == [to |-> to, out |-> out, bad |-> FALSE]

\* can_character_follow_identifier_
Follows(c) == c \notin Alpha \cup Digit \cup {DOLLAR, AT}

\* Those of the names that stand behind i, with the byte end behind them.
NamedAt(s, i, n, names, end) ==
  {m \in names : Byte_(s, i + Len(m), n) = end /\ SubSeq(s, i + 1, i + Len(m)) = m}

InRule(kind) == kind \in {"ACTION", "PROGPRED"}

\* $$, $0, $1 with s or e behind it, or ${name}.
Dollar(s, i, n, kind) ==
  LET c == Byte_(s, i + 1, n)
      digits == IF c = 48 THEN i + 2 ELSE BehindAll(s, i + 1, n, Digit)
      j == IF Byte_(s, digits, n) \in {101, 115} THEN digits + 1 ELSE digits
      number == FoldLeft(LAMBDA u, d : 10 * u + d - 48, 0, SubSeq(s, i + 2, digits))
      named == NamedAt(s, i + 2, n, DOMAIN Macros, CLOSE)
      name == CHOOSE m \in named : TRUE
  IN CASE c = DOLLAR /\ kind = "ACTION" /\ Follows(Byte_(s, i + 2, n)) -> Put_(i + 2, <<VALUE>>)
       [] c \in Digit /\ InRule(kind) /\ number \in Captures \cup {0} /\ Follows(Byte_(s, j, n)) ->
            Put_(j, <<CAPTURE>> \o SubSeq(s, i + 2, j))
       [] c = OPEN /\ named # {} -> Put_(i + Len(name) + 3, Macros[name])
       [] OTHER -> [Plainly(s, i) EXCEPT !.bad = kind # "NONE" \/ c = OPEN]

\* As many bytes are compared as the name in the code has.
KnownMarkers(name) == {k \in DOMAIN Markers : IsPrefix(name, Markers[k])}

\* @@, @name or @name.method(
Reference(s, i, n, kind) ==
  LET c == Byte_(s, i + 1, n)
      j == BehindAll(s, i + 1, n, Alpha \cup Digit)
      known == KnownMarkers(SubSeq(s, i + 2, j))
      sees == c \in Alpha \ {95} /\ InRule(kind) /\ Follows(Byte_(s, j, n)) /\ known # {}
      called == NamedAt(s, j + 1, n, ReadMethods \cup (IF kind = "PROGPRED" THEN WriteMethods ELSE {}), ROUND)
      method == CHOOSE m \in called : TRUE
      prefix == <<IF kind = "PROGPRED" THEN MARKER ELSE ONACTION>>
      marker == Markers[Min(known)]
  IN CASE c = AT /\ kind = "PROGPRED" /\ Follows(Byte_(s, i + 2, n)) -> Put_(i + 2, <<RESULT>>)
       [] sees /\ Byte_(s, j, n) # DOT -> Put_(j, prefix \o marker)
       [] sees /\ Byte_(s, j, n) = DOT /\ called # {} ->
            Put_(j + Len(method) + 2, prefix \o method \o <<ROUND>> \o marker)
       [] OTHER -> [Plainly(s, i) EXCEPT !.bad = kind # "NONE"]

StandsFor(s, i, n, kind) ==
  CASE s[i + 1] = BACKSLASH /\ Byte_(s, i + 1, n) \in {DOLLAR, AT} -> Put_(i + 2, <<s[i + 2]>>)
    [] s[i + 1] = DOLLAR -> Dollar(s, i, n, kind)
    [] s[i + 1] = AT -> Reference(s, i, n, kind)
    [] OTHER -> Plainly(s, i)

-----------------------------------------------------------------------------
(* Writing.                                                                 *)

Put(w, out) ==
  [w EXCEPT !.text = @ \o out, !.line = @ + Cardinality({k \in DOMAIN out : out[k] = LF})]
Spaces(n) == [k \in 1 .. n |-> 32]

\* grammar says which of the two files is named.
stream__write_line_directive(w, grammar, lineno) ==
  [Put(w, <<LF>>) EXCEPT !.dirs = Append(@, [at |-> w.line, grammar |-> grammar, line |-> lineno + 1])]

Stream ==
  [text : Seq(Nat), line : Nat, lhead : BOOLEAN, errors : Seq(Nat \X Nat),
   dirs : Seq([at : Nat, grammar : BOOLEAN, line : Nat])]

\* The part g of the code.  The spaces at the head of a line are replaced; when a line
\* has nothing but these, its end is written as any other byte.
stream__write_text(stream, code, g) ==
  LET s == code.text
      from[w \in Stream, i \in Nat] ==
        LET k == IF w.lhead THEN SpacesAt(s, i, g.to) ELSE i
            v == IF w.lhead
                 THEN Put([w EXCEPT !.lhead = FALSE], Spaces(Minus(Width(s, i, g.to), g.dedent) + g.indent))
                 ELSE w
            c == StandsFor(s, k, g.to, g.kind)
        IN IF i >= g.to THEN w
           ELSE IF s[i + 1] \in {LF, CR} THEN from[[Put(w, <<LF>>) EXCEPT !.lhead = TRUE], EolAt(s, i, g.to)]
           ELSE IF k >= g.to THEN v
           ELSE from[Put(IF c.bad THEN [v EXCEPT !.errors = Append(@, calculate_position_(code, k))] ELSE v,
                         c.out), c.to]
  IN from[stream, g.from]

Part(z, from, to, kind) ==
  [from |-> from, to |-> to, kind |-> kind, dedent |-> z.dedent, indent |-> z.indent, first |-> from = z.from]

\* The arguments of stream__write_code.
Call == [from : Nat, to : Nat, b : BOOLEAN, cpp : BOOLEAN, dedent : Nat, indent : Nat,
         kind : {"NORMAL", "ACTION", "PROGPRED"}]

\* The calls of stream__write_text in stream__write_code: what stands in comments and
\* quotations is written with no references, and a directive by a call of its own,
\* without the spaces before it.  parts[z, h, i] has those from i on, where h is the
\* place up to which the text is written.
Parts(s, call) ==
  LET parts[z \in Call, h \in Nat, i \in Nat] ==
        LET dir == IF z.cpp \/ ~ z.b THEN i ELSE DirectiveAt(s, i, z.to)
            cxx == CommentCxxAt(s, i, z.to)
            comment == CommentCAt(s, i, z.to)
            k == Max({cxx, comment, QuotationAt(s, i, z.to)})
            md == LeastWidth(s, {l \in LineStarts(s, dir) : l > i /\ Filled(s, l, z.to)}, z.to)
            inner == [z EXCEPT !.from = i, !.to = dir, !.cpp = TRUE, !.dedent = md, !.indent = INDENT_UNIT]
        IN IF i >= z.to THEN <<Part(z, h, z.to, z.kind)>>
           ELSE IF dir > i
                THEN <<Part(z, h, BeforeSpaces(s, i), z.kind)>> \o parts[inner, i, i] \o parts[z, dir, dir]
           ELSE IF k > i
                THEN <<Part(z, h, i, z.kind), Part(z, i, k, "NONE")>>
                     \o parts[[z EXCEPT !.b = cxx > i \/ (comment > i /\ @)], k, k]
           ELSE IF s[i + 1] \in {LF, CR} THEN parts[[z EXCEPT !.b = TRUE], h, EolAt(s, i, z.to)]
           ELSE IF s[i + 1] \in BLANK THEN parts[z, h, SpacesAt(s, i, z.to)]
           ELSE parts[[z EXCEPT !.b = FALSE], h, i + 1]
  IN parts[call, call.from, call.from]

stream__write_code(w, code, z) ==
  FoldLeft(LAMBDA v, g : stream__write_text(IF g.first THEN [v EXCEPT !.lhead = FALSE] ELSE v, code, g),
           w, Parts(code.text, z))

SkippedLines_None(s, from) == 0
\* How many lines stand before the one where the code begins.
SkippedLines(s, from) == Cardinality({k \in LineStarts(s, Len(s)) : k < from})

\* A code has its text, and its line and column in the grammar.
stream__write_code_block(w, block, indent, kind) ==
  LET code == [block EXCEPT !.text = WithoutTrailing(@)]
      s == code.text
      n == Len(s)
      Indented_(k) == s[SpacesAt(s, k, n) + 1] # HASH
      filled == {k \in LineStarts(s, n) : Filled(s, k, n)}
      from == Min(filled)
      m == LeastWidth(s, {k \in filled \ {0} : Indented_(k)}, n)
      before == IF ~ Indented_(from) THEN 0
                ELSE indent + IF from = 0 THEN 0 ELSE Width(s, from, n) - m
      opened == Put(stream__write_line_directive(w, TRUE, code.line + SkippedLines(s, from)), Spaces(before))
      written == Put(stream__write_code(opened, code,
                       [from |-> SpacesAt(s, from, n), to |-> n, b |-> TRUE, cpp |-> FALSE,
                        dedent |-> m, indent |-> indent, kind |-> kind]), <<LF>>)
  IN IF n = 0 THEN w ELSE stream__write_line_directive(written, FALSE, written.line + 1)
=============================================================================
