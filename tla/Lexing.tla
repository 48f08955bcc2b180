------------------------------- MODULE Lexing -------------------------------
(***************************************************************************)
(* How the functions that parse a grammar file use its input: they match   *)
(* what may come next, note places and go back to them, read literals and  *)
(* code blocks, skip what is illegal, and flush the buffer behind a rule   *)
(* or directive; and what becomes of literals and code blocks in the       *)
(* generated parser.                                                       *)
(*                                                                         *)
(* The functions call in every order here that keeps three rules of        *)
(* theirs: they go back to the places they noted last first; something is  *)
(* skipped, or the buffer flushed, only when no place is noted; and it is  *)
(* flushed only behind something that was found.                           *)
(***************************************************************************)
EXTENDS CodeText

CONSTANTS
  Files,     \* sequences of bytes
  Behinds,   \* bytes that the memory behind a value may hold
  Marks      \* syntax characters that are matched by themselves

CONSTANTS
  MaxErrors, \* bound: errors reported before functions go back
  MaxMarks,  \* bound: places noted at a time,
  Turned     \* and the files in which they are, and something is skipped

\* Line ends are matched by match_eol only.
ASSUME LexingAssumption ==
  /\ Files \subseteq Seq(Byte) /\ Behinds \subseteq Byte
  /\ Marks \subseteq Byte \ {LF, CR}

VARIABLES
  input,   \* ctx->input
  marks,   \* the places noted, the last one at the end
  lit,     \* the last literal or code block, with its value
  code,    \* what is generated for it,
  out      \* and the stream with the code block, for a use of the block

lexVars == <<file, ascii, input, marks, lit, code, out>>

NoValue == [ok |-> TRUE, n |-> 0, p |-> <<0>>]
NoLiteral == [kind |-> "none", from |-> 0, to |-> 0, errors |-> 0, value |-> NoValue, line |-> 0, col |-> 0]
NoCode == [not |-> FALSE, tests |-> <<>>]
NotWritten == [kind |-> "NONE", stream |-> EmptyStream]

Pos == input.bufpos + input.bufcur

Init ==
  /\ file \in Files /\ ascii \in BOOLEAN
  /\ input = InputInit /\ marks = <<>>
  /\ lit = NoLiteral /\ code = NoCode /\ out = NotWritten

Match(w) == input' = w /\ UNCHANGED <<file, ascii, marks, lit, code, out>>

MatchSpaces     == Match(match_spaces(input))
MatchIdentifier == Match(match_identifier(input))
MatchVersion    == Match(match_version(input))
MatchArrow      == Match(match_string(input, <<60, 45>>))
MatchCharacter  == \E c \in Marks : Match(match_character(input, {c}))

\* p, l, n and o in the parse functions.
Place == [bufcur |-> input.bufcur, linenum |-> input.linenum,
          charnum |-> input.charnum, linepos |-> input.linepos]

Note ==
  /\ file \in Turned /\ Len(marks) < MaxMarks
  /\ marks' = Append(marks, Place)
  /\ UNCHANGED <<file, ascii, input, lit, code, out>>

\* The function succeeds.
Release ==
  /\ marks # <<>> /\ marks' = Front(marks)
  /\ UNCHANGED <<file, ascii, input, lit, code, out>>

GoBack_PlaceOnly(w, m) == [w EXCEPT !.bufcur = m.bufcur]
GoBack(w, m) == [w EXCEPT !.bufcur = m.bufcur, !.linenum = m.linenum,
                          !.charnum = m.charnum, !.linepos = m.linepos]

\* EXCEPTION
Unwind ==
  /\ marks # <<>> /\ input.errnum <= MaxErrors /\ marks' = Front(marks)
  /\ input' = No(GoBack(input, Last(marks)))
  /\ UNCHANGED <<file, ascii, lit, code, out>>

\* After an illegal rule.
Skip ==
  /\ file \in Turned /\ marks = <<>>
  /\ Match(No(OrElse(OrElse(match_identifier(input), match_spaces), TakeOne)))

\* At the end of a rule or directive.
Commit ==
  /\ marks = <<>> /\ input.ok
  /\ Match(input_state__commit_buffer(input))

-----------------------------------------------------------------------------
(* Literals and code blocks, as in parse_primary.                           *)

\* The literal ends where w is; spaces follow.
Read(kind, w, value, errors) ==
  /\ w.ok
  /\ input' = Yes([match_spaces(w) EXCEPT !.errnum = input.errnum + errors])
  /\ lit' = [kind |-> kind, from |-> Pos, to |-> w.bufpos + w.bufcur,
             errors |-> errors, value |-> value,
             line |-> input.linenum, col |-> column_number(input)]
  /\ code' = NoCode /\ out' = NotWritten
  /\ UNCHANGED <<file, ascii, marks>>

\* What stands between the quotes, raw, has the value; its errors are counted.
ReadValue(kind, w, raw, value) ==
  Read(kind, w, value,
       Cardinality({f \in {"missing", "escape", "encoding"} :
                      CASE f = "missing"  -> kind = "CHARCLASS" /\ raw = <<>>
                        [] f = "escape"   -> ~ value.ok
                        [] f = "encoding" -> ~ ascii /\ ~ is_valid_utf8_string(SubSeq(value.p, 1, value.n))}))

ReadLiteral(kind, w, behind) ==
  IF w.errnum > input.errnum THEN Read(kind, w, NoValue, w.errnum - input.errnum)
  ELSE LET raw == SubSeq(w.buf, input.bufcur + 2, w.bufcur - 1)
       IN ReadValue(kind, w, raw, unescape_string(raw, behind, kind = "CHARCLASS"))

ReadClass  == \E b \in Behinds : ReadLiteral("CHARCLASS", match_character_class(input), b)
ReadString == \E b \in Behinds : ReadLiteral("STRING", Quotation(input), b)
ReadDot    == Read("CHARCLASS", match_character(input, {DOT}), NoValue, 0)
ReadCode   ==
  LET w == match_code_block(input) IN Read("CODE", w, NoValue, w.errnum - input.errnum)

\* A parser is generated when nothing has been reported.
Generate ==
  /\ lit.kind \in {"CHARCLASS", "STRING"} /\ lit.errors = 0 /\ code = NoCode
  /\ code' = IF lit.kind = "STRING" THEN generate_matching_string_code(lit.value)
             ELSE IF ascii THEN generate_matching_charclass_code(lit.value)
             ELSE generate_matching_utf8_charclass_code(lit.value)
  /\ UNCHANGED <<file, ascii, input, marks, lit, out>>

\* A code block of a directive, an action or a programmable predicate is written, when
\* the file was read to its end; with -l.
WriteCode ==
  /\ lit.kind = "CODE" /\ lit.errors = 0 /\ out = NotWritten /\ Pos = Len(file)
  /\ \E kind \in {"NORMAL", "ACTION", "PROGPRED"} :
       out' = [kind |-> kind, stream |->
                 stream__write_code_block(EmptyStream,
                   [text |-> SubSeq(file, lit.from + 2, lit.to - 1), line |-> lit.line, col |-> lit.col + 1],
                   IF kind = "NORMAL" THEN 0 ELSE INDENT_UNIT, kind)]
  /\ UNCHANGED <<file, ascii, input, marks, lit, code>>

Parse ==
  \/ MatchSpaces \/ MatchIdentifier \/ MatchVersion \/ MatchArrow \/ MatchCharacter
  \/ Note \/ Release \/ Unwind \/ Skip \/ Commit
  \/ ReadClass \/ ReadString \/ ReadDot \/ ReadCode \/ Generate

Next ==
  \/ out = NotWritten /\ Parse
  \/ WriteCode
  \/ out # NotWritten /\ UNCHANGED lexVars   \* the end

Spec == Init /\ [][Next]_lexVars
=============================================================================
