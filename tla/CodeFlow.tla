------------------------------ MODULE CodeFlow ------------------------------
(***************************************************************************)
(* The control flow of the C functions that CodeGen makes: what the C      *)
(* compiler and a reader of the generated code rely on.                    *)
(***************************************************************************)
EXTENDS CodeGen

\* The positions in the text that control can go to from position k.
Successors(text, k) ==
  LET s == text[k]
      to == Targets(text, s.to)
  IN CASE s.op \in {"ret", "fail"} -> {}
       [] s.op = "goto"            -> to
       [] s.op = "label"           -> {k + 1}
       [] OTHER                    -> {k + 1} \cup to

RECURSIVE Reachable(_, _, _)
\* What control reaches from the positions S without entering those in avoid.
Reachable(text, S, avoid) ==
  LET T == S \cup (UNION {Successors(text, k) : k \in S \cap DOMAIN text} \ avoid)
  IN IF T = S THEN S ELSE Reachable(text, T, avoid)

At1(text, avoid) == Reachable(text, {1} \ avoid, avoid)

\* Every goto has its label in the function, and no label stands there twice.
WellLabelled(text) ==
  \A k \in DOMAIN text :
    text[k].to # NoLabel => Cardinality(Targets(text, text[k].to)) = 1

\* The outcome that the generator claims for the expression e is the one that
\* control flow allows, and control never runs off the end of the function.
ClaimHolds(e) ==
  LET r == Generate(Gen0, e, L(0)).reach
      text == EvaluateRule(e).text
      ops == {text[k].op : k \in At1(text, {}) \cap DOMAIN text}
  IN /\ r = ALWAYS_FAIL => "ret" \notin ops
     /\ r = ALWAYS_SUCCEED => "fail" \notin ops
     /\ At1(text, {}) \subseteq DOMAIN text

\* Wherever the parsing position or the number of thunks is set back to what a
\* local holds, the local has been set on every way there.
SavedFirst(text) ==
  \A k \in DOMAIN text :
    LET saves == {j \in DOMAIN text :
                    /\ text[j].op = (IF text[k].op = "setp" THEN "savep" ELSE "saven")
                    /\ text[j].slot = text[k].slot}
    IN text[k].op \in {"setp", "revert"} => k \notin At1(text, saves)
=============================================================================
