------------------------------ MODULE MCLexing ------------------------------
(***************************************************************************)
(* The input of packcc over files made of pieces: line ends of all kinds,  *)
(* names, quotations that end and that do not, code blocks with braces in  *)
(* quotations, comments and directives; and every literal of a few         *)
(* characters, escape sequences and hyphens, up to the test generated for  *)
(* it, against what the manual says.                                       *)
(***************************************************************************)
EXTENDS LexingSafety

CONSTANTS
  LineMax,     \* bound: pieces in a file of lines,
  LiteralMax,  \* in a literal
  CodeMax      \* and in a code block

UpTo(n, S) == UNION {{FlattenSeq(s) : s \in [1 .. m -> S]} : m \in 0 .. n}

-----------------------------------------------------------------------------
(* Pieces of literals: the text, the codes it stands for, and whether the   *)
(* character is written as it is.  One that is illegal stands for nothing.  *)

Piece(raw, codes, plain) == [raw |-> raw, codes |-> codes, plain |-> plain]
Plain(c)    == Piece(<<c>>, <<c>>, TRUE)
Esc(raw, codes) == Piece(<<BACKSLASH>> \o raw, codes, FALSE)
Hexes(u)   == [k \in 1 .. 4 |-> <<48, 49, 50, 51, 52, 53, 54, 55, 56, 57, 97, 98, 99, 68, 69, 70>>
                                 [1 + ((u \div (16 ^ (4 - k))) % 16)]]

Characters_ == {
  Plain(107), Plain(122), Plain(DASH), Plain(CARET),
  Piece(<<195, 169>>, <<233>>, TRUE),
  Piece(<<252, 132, 128, 128, 128, 128>>, <<67108864>>, TRUE),
  Esc(<<116>>, <<9>>), Esc(<<DASH>>, <<DASH>>), Esc(<<RIGHT>>, <<RIGHT>>),
  Esc(<<BACKSLASH>>, <<BACKSLASH>>), Esc(<<120, 55, 65>>, <<122>>),
  Esc(<<117>> \o Hexes(8364), <<8364>>),
  Esc(<<117>> \o Hexes(55357) \o <<BACKSLASH, 117>> \o Hexes(56832), <<128512>>)}
Unfinished == Esc(<<120, 52>>, <<>>)
Illegal_ == {
  Esc(<<120, 52, 122>>, <<>>), Esc(<<117>> \o Hexes(56832), <<>>),
  Esc(<<117>> \o Hexes(55357) \o <<107>>, <<>>), Esc(<<117, 52, 122>>, <<>>),
  Piece(<<255>>, <<>>, TRUE), Piece(<<192, 128>>, <<>>, TRUE), Piece(<<224, 130, 172>>, <<>>, TRUE),
  Piece(<<226, 130>>, <<>>, TRUE)}
Pieces == Characters_ \cup Illegal_ \cup {Unfinished}

Quoted(l, s, r) == <<l>> \o s \o <<r>>
Written == UpTo(LiteralMax, {p.raw : p \in Characters_})
           \cup UNION {{a \o p.raw, p.raw \o a} : a \in {<<>>, <<107>>, <<195, 169>>}, p \in Illegal_}
           \cup {a \o Unfinished.raw : a \in {<<>>, <<107>>}}
Literals == {Quoted(LEFT, s, RIGHT) : s \in Written} \cup {<<DOT>>}
            \cup {Quoted(DOUBLE, s, DOUBLE) : s \in Written}

-----------------------------------------------------------------------------
(* Pieces of files and of code blocks.                                      *)

Lines == UpTo(LineMax, {<<LF>>, <<CR>>, <<CR, LF>>, <<107>>, <<195, 169>>, <<HASH>>,
                        <<SINGLE>>, <<BACKSLASH>>, <<RIGHT, 32>>})
Versions == {<<49, 46, 50, 46, 51>>, <<49, 46, 48, 50>>, <<49, 46, 50, 107>>}

Directive == <<HASH, CLOSE, LF>>
Comment   == <<SLASH, SLASH, CLOSE, LF>>
CPieces == {<<OPEN>>, <<CLOSE>>, <<SINGLE, CLOSE, SINGLE>>, <<SLASH, STAR, CLOSE, STAR, SLASH>>,
            Comment, <<LF>>, <<CR, LF>>, <<32>>, Directive, <<107>>,
            <<HASH, SLASH, STAR, LF, STAR, SLASH, LF>>, <<HASH, BACKSLASH, LF, CLOSE, LF>>}
CodeFiles == {<<OPEN>> \o s : s \in UpTo(CodeMax, CPieces)}

-----------------------------------------------------------------------------
(* Pieces of C code that is written into the parser: what is written, and   *)
(* where that is allowed.                                                   *)

Anywhere == {"NORMAL", "ACTION", "PROGPRED"}
Text(raw, as) == [raw |-> raw, kinds |-> Anywhere, as |-> [k \in Anywhere |-> as], name |-> FALSE]
Same(raw)     == Text(raw, raw)
Name(raw, kinds, as) == [raw |-> raw, kinds |-> kinds, as |-> as, name |-> TRUE]

MCMacros   == (<<118>> :> <<107, 108>>)
MCMarkers  == <<<<107>>>>
MCReads    == {<<109>>}
MCWrites   == {<<119>>}
MCCaptures == {1}

CodeFor(kind) == IF kind = "PROGPRED" THEN MARKER ELSE ONACTION
Texts == {
  Same(<<LF>>), Same(<<32>>), Same(<<107>>), Same(<<LF, 32, 32, 107>>), Same(<<LF, TAB, 107>>),
  Same(Directive), Same(Comment),
  Text(<<SLASH, STAR, DOLLAR, 49, CR, LF, STAR, SLASH>>, <<SLASH, STAR, DOLLAR, 49, LF, STAR, SLASH>>),
  Text(<<SINGLE, BACKSLASH, DOLLAR, AT, 107, CLOSE, SINGLE>>, <<SINGLE, DOLLAR, AT, 107, CLOSE, SINGLE>>),
  Text(<<DOLLAR, OPEN, 118, CLOSE>>, <<107, 108>>),
  Name(<<DOLLAR, 49>>, {"ACTION", "PROGPRED"}, [k \in Anywhere |-> <<CAPTURE, 49>>]),
  Name(<<DOLLAR, DOLLAR>>, {"ACTION"}, [k \in Anywhere |-> <<VALUE>>]),
  Name(<<AT, 107>>, {"ACTION", "PROGPRED"}, [k \in Anywhere |-> <<CodeFor(k), 107>>]),
  [Name(<<AT, 107, DOT, 119, ROUND>>, {"PROGPRED"}, [k \in Anywhere |-> <<MARKER, 119, ROUND, 107>>])
     EXCEPT !.name = FALSE]}
TextBlocks(n) == {Quoted(OPEN, s, CLOSE) : s \in UpTo(n, {p.raw : p \in Texts})}
TextFiles == TextBlocks(CodeMax) \cup {<<LF>> \o b : b \in TextBlocks(CodeMax - 1)}

MCTurned  == Lines \cup Versions \cup {<<107, LF, 60, 45>>, <<60, 45, CR, LF, 107>>}
MCFiles   == MCTurned \cup CodeFiles \cup TextFiles \cup Literals
MCBehinds == {0, DASH, 48}
NoByte    == {0}
MCMarks   == {60}

\* Files for runs that show one behaviour each: a class with an escape sequence before
\* a hyphen; a rule with the next one indented, and a string with a code point.
Hyphened  == {<<LEFT, BACKSLASH, 116, DASH, RIGHT>>}
Claimed   == {<<107, 60, 45, 107, LF, 32, 107>>,
              Quoted(DOUBLE, <<BACKSLASH, 117>> \o Hexes(8364), DOUBLE)}

-----------------------------------------------------------------------------
(* What the files say.                                                      *)

\* A character behind an odd number of backslashes is escaped.
Escaped(k) ==
  LET run == CHOOSE n \in 0 .. (k - 1) :
               /\ \A h \in (k - n) .. (k - 1) : file[h] = BACKSLASH
               /\ k - n = 1 \/ file[k - n - 1] # BACKSLASH
  IN run % 2 = 1

Closing == IF file[lit.from + 1] = LEFT THEN RIGHT ELSE file[lit.from + 1]
FirstOf(S) == CHOOSE k \in S : \A h \in S : k <= h

\* Where the literal ends, or breaks off.
LiteralStops ==
  {k \in (lit.from + 2) .. Len(file) :
     file[k] \in {LF, CR} \/ (file[k] = Closing /\ ~ Escaped(k))}
Closed == LiteralStops # {} /\ file[FirstOf(LiteralStops)] = Closing

RECURSIVE Split(_, _)
\* The text s as pieces, of which the longest is taken; up to where there is none.
Split(s, raws) ==
  LET here == {r \in raws : IsPrefix(r, s)} IN
  IF here = {} THEN <<>>
  ELSE LET r == CHOOSE r \in here : \A o \in here : Len(o) <= Len(r)
       IN <<r>> \o Split(SubSeq(s, Len(r) + 1, Len(s)), raws)

Block == Split(SubSeq(file, lit.from + 1, Len(file)), CPieces)
Count(s, n, r) == Cardinality({k \in 1 .. n : s[k] = r})
Depth(n) == Count(Block, n, <<OPEN>>) - Count(Block, n, <<CLOSE>>)
Balanced == {n \in DOMAIN Block : Depth(n) = 0}
BlockStops == IF Balanced = {} THEN Len(Block) ELSE FirstOf(Balanced)

\* A directive behind something in its line that is no space and no comment.
Malplaced(n) ==
  /\ Block[n][1] = HASH
  /\ \E k \in 2 .. (n - 1) :
       /\ Block[k] \in {<<OPEN>>, <<CLOSE>>, <<107>>, <<SINGLE, CLOSE, SINGLE>>}
       /\ \A h \in k .. (n - 1) : Block[h][Len(Block[h])] # LF

\* A literal ends at the first closing quote that is not escaped, if it stands in the
\* same line, and a code block at the brace that closes it, those in quotations,
\* comments and directives aside; what does not end is reported.
EndsFound ==
  CASE lit.kind = "none" \/ lit.to = lit.from + 1 -> TRUE
    [] lit.kind \in {"CHARCLASS", "STRING"} /\ lit.to > lit.from + 1 ->
         IF Closed THEN lit.to = FirstOf(LiteralStops) ELSE lit.errors > 0
    [] OTHER ->
         FlattenSeq(Block) = SubSeq(file, lit.from + 1, Len(file)) =>
           /\ lit.to - lit.from = Len(FlattenSeq(SubSeq(Block, 1, BlockStops)))
           /\ lit.errors = Cardinality({n \in 1 .. BlockStops : Malplaced(n)})
                           + IF Balanced = {} THEN 1 ELSE 0

-----------------------------------------------------------------------------
(* What becomes of literals.                                                *)

Evaluated == lit.kind \in {"CHARCLASS", "STRING"} /\ lit.to > lit.from + 1 /\ Closed

PieceOf(raw) == CHOOSE p \in Pieces : p.raw = raw
Items ==
  LET s == Split(SubSeq(file, lit.from + 2, lit.to - 1), {p.raw : p \in Pieces})
  IN [k \in DOMAIN s |-> PieceOf(s[k])]
FromPieces(items) ==
  FlattenSeq([k \in DOMAIN items |-> items[k].raw]) = SubSeq(file, lit.from + 2, lit.to - 1)
AllLegal(items) == items # <<>> /\ \A k \in DOMAIN items : items[k] \in Characters_
Is(item, c) == item.plain /\ item.codes = <<c>>

RECURSIVE Member(_, _)
\* The code u is among the items, which are ranges or characters.
Member(u, items) ==
  CASE items = <<>> -> FALSE
    [] Len(items) >= 3 /\ Is(items[2], DASH) ->
         \/ items[1].codes[1] <= u /\ u <= items[3].codes[1]
         \/ Member(u, SubSeq(items, 4, Len(items)))
    [] OTHER -> u = items[1].codes[1] \/ Member(u, Tail(items))

InClass(u, items) ==
  IF Is(items[1], CARET) THEN ~ Member(u, Tail(items)) ELSE Member(u, items)

\* An escape sequence \u, which is one with UTF-8 only (README: "The UNICODE escape
\* sequences (ex. `\u20AC`) are also recognized including surrogate pairs, if the
\* command line option `-a` is not specified").
Unicode(item) == IsPrefix(<<BACKSLASH, 117>>, item.raw)
HasUnicode(items) == \E k \in DOMAIN items : Unicode(items[k])

\* What is left out of classes: [^]; with -a, characters of several bytes, and ranges
\* up to an escape sequence; and classes that are followed by a - in the memory,
\* which in UTF-8 the generator reads (see HyphenAtTheEnd).
Plain_(items) ==
  /\ ~ (Len(items) = 1 /\ Is(items[1], CARET))
  /\ IF ascii
     THEN /\ \A k \in DOMAIN items : items[k].codes[1] < 128
          /\ \A k \in 3 .. Len(items) :
               Is(items[k - 1], DASH) => items[k].plain \/ items[k].codes[1] \notin {DASH, RIGHT, BACKSLASH}
     ELSE lit.value.p[lit.value.n + 1] # DASH

Subjects == {107, 108, 122, 123, DASH, CARET, 9, BACKSLASH, RIGHT} \cup
            IF ascii THEN {} ELSE {233, 8364, 128512, 67108864}
CodesOf(u) == IF u = 67108864 THEN <<252, 132, 128, 128, 128, 128>> ELSE Encoded(u)

\* An escape sequence that only classes have stays as it is in a string.
Meaning(item) ==
  IF ~ item.plain /\ item.codes[1] \in {DASH, RIGHT} THEN item.raw ELSE CodesOf(item.codes[1])
TextMeant(items) == FlattenSeq([k \in DOMAIN items |-> Meaning(items[k])])

\* A string takes what it stands for and nothing else of that length, and a class the
\* characters that the manual says; what is illegal is reported, but for an escape
\* sequence that goes on, by chance, in the memory behind the value.  Of literals
\* with \u sequences this is asked in UTF-8 mode only (see UnicodeOnlyInUtf8).
MatchesAsWritten ==
  Evaluated =>
    LET items == Items
        meaning == TextMeant(items)
    IN
    FromPieces(items) /\ (ascii => ~ HasUnicode(items)) =>
      IF ~ AllLegal(items)
      THEN \/ lit.errors > 0
           \/ items = <<>> /\ lit.kind = "STRING"
           \/ ascii /\ \A k \in DOMAIN items : items[k].plain \/ items[k] \in Characters_
           \/ Last(items) = Unfinished /\ Hex(Last(lit.value.p)) >= 0
      ELSE /\ lit.errors = 0
           /\ lit.kind = "STRING" /\ code # NoCode =>
                /\ MatchString(code, meaning \o <<107>>) = Len(meaning)
                /\ \A k \in DOMAIN meaning :
                     MatchString(code, [meaning EXCEPT ![k] = (@ + 1) % 256]) = -1
           /\ lit.kind = "CHARCLASS" /\ code # NoCode /\ Plain_(items) =>
                /\ Compiles(code)
                /\ \A u \in Subjects :
                     MatchClass(code, ascii, CodesOf(u) \o <<107>>) =
                       IF InClass(u, items) THEN Len(CodesOf(u)) ELSE 0

-----------------------------------------------------------------------------
(* What becomes of code blocks.                                             *)

LinesOf(t) ==
  FoldLeft(LAMBDA ls, c : IF c = LF THEN Append(ls, <<>>) ELSE Append(Front(ls), Append(Last(ls), c)),
           <<<<>>>>, t)

Blank(c) == c \in BLANK \cup {CR}
Left(l)  == LET k == SelectInSeq(l, LAMBDA c : ~ Blank(c)) IN IF k = 0 THEN Len(l) ELSE k - 1
Wide(l) == FoldLeft(LAMBDA n, c : IF c = TAB THEN 8 * (n \div 8) + 8 ELSE n + 1, 0, SubSeq(l, 1, Left(l)))

\* A line: its number in the grammar, what is in it besides blanks, and how far it is
\* indented.
Line(number, l) == [number |-> number, text |-> SelectSeq(l, LAMBDA c : ~ Blank(c)), wide |-> Wide(l)]
FilledLines(s) == SelectSeq(s, LAMBDA l : l.text # <<>>)

Written_ ==
  LET s == Split(SubSeq(file, lit.from + 2, lit.to - 1), {p.raw : p \in Texts})
  IN [k \in DOMAIN s |-> CHOOSE p \in Texts : p.raw = s[k]]

\* The first piece that has no meaning where it stands.
Wrong(pieces) ==
  {k \in DOMAIN pieces :
     \/ out.kind \notin pieces[k].kinds
     \/ /\ pieces[k].name
        /\ k < Len(pieces) /\ pieces[k + 1].raw[1] \in Alpha \cup Digit \cup {DOLLAR, AT}}

Meant(pieces) ==
  LET ls == LinesOf(FlattenSeq([k \in DOMAIN pieces |-> pieces[k].as[out.kind]]))
  IN [j \in DOMAIN ls |-> Line(lit.line + j, ls[j])]

\* The C compiler counts lines from the last directive.
Presumed ==
  LET ls == LinesOf(out.stream.text)
      dirs == out.stream.dirs
      Number(j) == LET k == SelectLastInSeq(dirs, LAMBDA d : d.at < j - 1)
                   IN IF k = 0 \/ ~ dirs[k].grammar THEN 0 ELSE dirs[k].line + j - 2 - dirs[k].at
  IN [j \in DOMAIN ls |-> Line(Number(j), ls[j])]

\* Lines that are moved: not the first, which stands behind the brace, and no
\* directives.  A line behind one of spaces stays where it is.
Moved(source, j) == source[j].number > lit.line + 1 /\ source[j].text[1] # HASH
BehindSpaces(meant, source, j) ==
  LET above == meant[source[j].number - lit.line - 1] IN above.text = <<>> /\ above.wide > 0

Margin == IF out.kind = "NORMAL" THEN 0 ELSE INDENT_UNIT

\* Code comes out on lines for which the #line directives give their lines in the
\* grammar, with its references replaced, and its lines indented as they were to one
\* another, from the margin on; behind it, a directive gives the line of the output.  A reference that is
\* not allowed is reported, the first one with its place.
CodeWritten ==
  file \in TextFiles /\ out # NotWritten =>
    LET pieces == Written_
        meant  == Meant(pieces)
        source == FilledLines(meant)
        result == FilledLines(Presumed)
        wrong  == Wrong(pieces)
        place  == lit.from + 1 + Len(FlattenSeq([k \in 1 .. (FirstOf(wrong) - 1) |-> pieces[k].raw]))
        last   == Last(out.stream.dirs)
        moved  == {j \in DOMAIN source : Moved(source, j) /\ ~ BehindSpaces(meant, source, j)}
        least  == Min({source[j].wide : j \in {h \in DOMAIN source : Moved(source, h)}})
    IN /\ (out.stream.errors = <<>>) <=> (wrong = {})
       /\ wrong # {} => Head(out.stream.errors) = <<Cardinality(LineEnds(place)), ColumnAt(place)>>
       /\ wrong = {} =>
            /\ Len(source) = Len(result)
            /\ \A j \in DOMAIN source :
                 source[j].number = result[j].number /\ source[j].text = result[j].text
            /\ \A j \in moved : source[j].wide - least = result[j].wide - Margin
       /\ source # <<>> => ~ last.grammar /\ last.line = last.at + 2

\* A - that is the last character of a class stands for itself.
HyphenAtTheEnd ==
  Evaluated /\ lit.kind = "CHARCLASS" /\ code # NoCode =>
    LET items == Items IN
    /\ AllLegal(items) /\ items[Len(items)].codes = <<DASH>>
    /\ ~ \E k \in 2 .. (Len(items) - 1) : Is(items[k], DASH)
    => Compiles(code)

\* With -a the sequence \u is not recognized (README: "if the command line option `-a`
\* is not specified"): a string with one does not take what the sequence would stand for.
UnicodeOnlyInUtf8 ==
  Evaluated /\ lit.kind = "STRING" /\ code # NoCode /\ ascii =>
    LET items == Items IN
    FromPieces(items) /\ AllLegal(items) /\ HasUnicode(items)
    => MatchString(code, TextMeant(items) \o <<107>>) = -1
=============================================================================
