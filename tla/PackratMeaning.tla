--------------------------- MODULE PackratMeaning ---------------------------
(***************************************************************************)
(* What the generated parser computes, compared with the meaning that      *)
(* PegReference gives to the grammar its code was generated from.          *)
(***************************************************************************)
EXTENDS PackratOwnership, Integers

CONSTANTS
  Grammar,  \* the expressions that Code was generated from
  Compared  \* for some start rules, how many of the calls of pcc_parse are compared

InScope == start \in DOMAIN Compared /\ parses <= Compared[start]

\* The grammars here have no marker variables.
Peg == INSTANCE PegReference WITH Captures <- CaptIndex, UserCode <- <<>>

Meaning == Peg!Meaning(start, input, pos, Peg!FAIL)

\* pcc_parse matches what the grammar matches at the input position it starts
\* from, and reports an error exactly if the grammar does not match there.
ResultIsPeg ==
  InScope =>
    /\ phase = "acting" => Meaning.end = Here
    /\ phase = "error"  => Meaning.end = Peg!FAIL

\* The actions executed are those on the path of the match, each once and in
\* order, and each sees the text between the start of its rule and itself and
\* the texts captured before it: those of discarded alternatives, iterations,
\* shorter seeds and failed rules are not executed (README: "Actions are not
\* executed where matching fails").
ActionsOfMatch ==
  phase = "commit" /\ InScope /\ Meaning.end # Peg!FAIL =>
    /\ Len(log) = Len(Meaning.acts)
    /\ \A k \in DOMAIN log :
         [act |-> log[k].act, s |-> log[k].s, e |-> log[k].e,
          capts |-> log[k].capts] = Meaning.acts[k]

\* Rules whose result depends on how far a seed of another rule has grown.
Involvable == UNION {{heads[h].invol[k] : k \in DOMAIN heads[h].invol} :
                       h \in DOMAIN heads}

\* A memoized result is what the rule yields at that position, whoever asked
\* first and whatever was going on then: it may be taken in any later context of
\* the same call of pcc_parse.
MemoIsPeg ==
  phase \notin {"idle", "eof", "destroyed"} /\ InScope => \A i \in Idx, r \in Rule \ Involvable :
    LET m == Memo(i, r) IN
    i >= pos /\ m # NULL /\ m \notin Growing /\ answers[m].type = "CHUNK" =>
        Peg!Meaning(r, input, i, Peg!FAIL).end =
          (IF answers[m].chunk = NULL THEN Peg!FAIL ELSE answers[m].pos)

\* The table answers the question it is asked: between two calls of pcc_parse, a
\* memo found for an input position was made at that position (the comment on
\* pcc_lr_answer_t: "the absolute position in the input").
MemoForItsPosition ==
  phase = "idle" => \A i \in Idx, r \in Rule :
    i >= pos /\ Memo(i, r) # NULL => answers[Memo(i, r)].at = i

\* A call of pcc_parse comes to its end.
ParseEnds == (phase = "calling") ~> (phase \in {"idle", "exit"})
=============================================================================
