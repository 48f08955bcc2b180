----------------------------- MODULE RuleChecks -----------------------------
(***************************************************************************)
(* Captures and variables of a rule: what verify_rule_variables,           *)
(* verify_captures and verify_marker_variables make of an expression that  *)
(* has been read: which of them an action, a predicate or a $n may use at  *)
(* its place, and which uses are errors; for each rule that RuleLinks has  *)
(* left.  With it, parse is complete.                                      *)
(*                                                                         *)
(* A node of the expression is known by its path, the numbers of the       *)
(* children that lead to it.  The lists the functions copy into nodes are  *)
(* kept by path.                                                           *)
(***************************************************************************)
EXTENDS RuleLinks

CONSTANTS
  Markers   \* ctx->mvars: the names that %marker directives have defined

VARIABLES
  rvars,    \* node -> the references whose variables it sees, by index
  capts     \* node -> the captures it sees, by index

vars == <<text, input, legal, stack, ret, heap, rule, rules, errnum,
          pc, i, refs, rulehash, ref, link, used, walk, kept, rvars, capts>>

\* The expression of the rule whose turn it is.
expr_Unmoved == rules[i].expr
expr == rules[kept[i]].expr

\* The state w after each child of e in turn; Step(node, k, w) is one of them.
InTurn(e, w, Step(_, _, _)) ==
  LET f[k \in 0 .. Len(e.nodes)] == IF k = 0 THEN w ELSE Step(e.nodes[k], k, f[k - 1])
  IN f[Len(e.nodes)]

Elements(s) == {s[k] : k \in DOMAIN s}
Add(s, x) == IF x \in Elements(s) THEN s ELSE Append(s, x)

-----------------------------------------------------------------------------
(* Verification.  A state of the walk is the list so far, what has been     *)
(* copied into nodes, and the number of errors.                             *)

Walks == [list : Seq(Nat), copied : Seq([path : Seq(Nat), list : Seq(Nat)]), errors : Nat]
Walk0 == [list |-> <<>>, copied |-> <<>>, errors |-> 0]

Copy(w, path) == [w EXCEPT !.copied = Append(@, [path |-> path, list |-> w.list])]

\* The loop over the branches of an alternation: each starts with the list that
\* was there before it (v.n = m), and what it adds goes to the list of all.
Additions(before, after) == SubSeq(after.list, Len(before.list) + 1, Len(after.list))

JoinVariables(before, w, after) ==
  [after EXCEPT !.list = w.list \o SelectSeq(Additions(before, after),
                                             LAMBDA x : x \notin Elements(w.list))]

JoinCaptures(before, w, after) == [after EXCEPT !.list = w.list \o Additions(before, after)]

\* What a branch is entered with.
Entry_Previous(before, w) == w

Entry(before, w) == [w EXCEPT !.list = before.list]

verify_rule_variables[n \in DOMAIN heap, path \in Seq(Nat), w \in Walks] ==
  LET e == heap[n].node
      Child(node, k, u) == verify_rule_variables[node, Append(path, k), u]
      Branch(node, k, u) == JoinVariables(w, u, Child(node, k, Entry(w, u)))
  IN CASE e.type = "REFERENCE" ->
            IF e.index = -1 THEN w ELSE [w EXCEPT !.list = Add(@, e.index)]
       [] e.type = "ALTERNATE" -> InTurn(e, w, Branch)
       [] e.type = "ACTION"    -> Copy(w, path)
       [] e.type = "ERROR"     -> InTurn(e, Copy(w, path), Child)
       [] OTHER                -> InTurn(e, w, Child)

\* What a capture leaves when its expression has been walked through.
Captured(e, w, Child(_, _, _)) ==
  LET inner == InTurn(e, w, Child) IN [inner EXCEPT !.list = Append(@, e.index)]

\* Whether the capture that a $n matches is there.
Available(e, w) == e.index = VOID \/ e.index \in Elements(w.list)

verify_captures[n \in DOMAIN heap, path \in Seq(Nat), w \in Walks] ==
  LET e == heap[n].node
      Child(node, k, u) == verify_captures[node, Append(path, k), u]
      Branch(node, k, u) == JoinCaptures(w, u, Child(node, k, Entry(w, u)))
  IN CASE e.type = "CAPTURE"   -> Captured(e, w, Child)
       [] e.type = "ALTERNATE" -> InTurn(e, w, Branch)
       [] e.type \in {"ACTION", "PROGPRED"} -> Copy(w, path)
       [] e.type = "MATCH_CAPT" ->
            IF Available(e, w) THEN w ELSE [w EXCEPT !.errors = @ + 1]
       [] e.type = "ERROR"     -> InTurn(e, Copy(w, path), Child)
       [] OTHER                -> InTurn(e, w, Child)

Undefined(name) == name \notin Markers

\* The number of errors reported.
verify_marker_variables[n \in DOMAIN heap] ==
  LET e == heap[n].node
      Child(node, k, m) == m + verify_marker_variables[node]
  IN IF e.type = "MATCH_MVAR" THEN (IF Undefined(e.name) THEN 1 ELSE 0)
     ELSE InTurn(e, 0, Child)

-----------------------------------------------------------------------------
Init ==
  /\ InitReading /\ InitLinks
  /\ rvars = <<>> /\ capts = <<>>

LinkRules == Linking /\ UNCHANGED <<rvars, capts>>

Turns == pc \in {"rvars", "capts", "mvars"} /\ i <= Len(kept)

VerifyRuleVariables ==
  /\ Turns /\ pc = "rvars" /\ pc' = "capts"
  /\ rvars' = Append(rvars, verify_rule_variables[expr, <<>>, Walk0].copied)
  /\ UNCHANGED <<readVars, linkVars, capts>>

VerifyCaptures ==
  /\ Turns /\ pc = "capts" /\ pc' = "mvars"
  /\ LET w == verify_captures[expr, <<>>, Walk0]
     IN capts' = Append(capts, w.copied) /\ errnum' = errnum + w.errors
  /\ UNCHANGED <<text, input, legal, stack, ret, heap, rule, rules, linkVars, rvars>>

VerifyMarkerVariables ==
  /\ Turns /\ pc = "mvars" /\ pc' = "rvars" /\ i' = i + 1
  /\ errnum' = errnum + verify_marker_variables[expr]
  /\ UNCHANGED <<text, input, legal, stack, ret, heap, rule, rules>>
  /\ UNCHANGED <<refs, rulehash, ref, link, used, walk, kept, rvars, capts>>

VerifyEnd ==
  /\ pc = "rvars" /\ i > Len(kept) /\ Leave("done")
  /\ UNCHANGED <<readVars, refs, rulehash, ref, link, used, walk, kept, rvars, capts>>

\* parse has returned.
Returned == pc = "done" /\ UNCHANGED vars

Next ==
  \/ LinkRules
  \/ VerifyRuleVariables \/ VerifyCaptures \/ VerifyMarkerVariables \/ VerifyEnd
  \/ Returned

Spec == Init /\ [][Next]_vars
=============================================================================
