------------------------------ MODULE CodeGen ------------------------------
(***************************************************************************)
(* The generate_*_code functions: what statements packcc emits for each    *)
(* node of a rule's expression, with which labels, and which outcome       *)
(* (code_reach_t) it claims for them.                                      *)
(*                                                                         *)
(* A generator state is a record of the text emitted so far, the last      *)
(* label number used (gen->label) and the last local used: C blocks scope  *)
(* their locals, here every block takes fresh slots.  Labels are pairs, so *)
(* that the L%04d labels and the unnamed targets of for, break and if keep *)
(* apart.  Link turns the text into statements of PackratRuntime, whose    *)
(* gotos hold the number of a statement.                                   *)
(***************************************************************************)
EXTENDS Integers, Sequences, FiniteSets

CONSTANTS
  AnyRule,   \* stands in the rule field of statements that apply none
  AnySlot    \* stands in the slot field of statements that use none

\* code_reach_t
BOTH           == "both"
ALWAYS_SUCCEED == "always_succeed"
ALWAYS_FAIL    == "always_fail"

-----------------------------------------------------------------------------
(* The nodes of an expression.  Characters are members of a set; a string   *)
(* is a sequence of singletons and a character class a single set.          *)

NODE_STRING(cs)          == [type |-> "STRING", chars |-> [k \in DOMAIN cs |-> {cs[k]}]]
NODE_CHARCLASS(S)        == [type |-> "CHARCLASS", set |-> S]
NODE_POSITION(v)         == [type |-> "POSITION", value |-> v]
NODE_REFERENCE(r)        == [type |-> "REFERENCE", rule |-> r]
NODE_QUANTITY(e, lo, hi) == [type |-> "QUANTITY", expr |-> e, min |-> lo, max |-> hi]
NODE_PREDICATE(e, neg)   == [type |-> "PREDICATE", expr |-> e, neg |-> neg]
NODE_PROGPRED(k, neg)    == [type |-> "PROGPRED", index |-> k, neg |-> neg]
NODE_SEQUENCE(ns)        == [type |-> "SEQUENCE", nodes |-> ns]
NODE_ALTERNATE(ns)       == [type |-> "ALTERNATE", nodes |-> ns]
NODE_CAPTURE(e, k)       == [type |-> "CAPTURE", expr |-> e, index |-> k]
NODE_MATCH_CAPT(k)       == [type |-> "MATCH_CAPT", index |-> k]
NODE_MATCH_MVAR          == [type |-> "MATCH_MVAR"]
NODE_ACTION(k)           == [type |-> "ACTION", index |-> k]
NODE_ERROR(e, k)         == [type |-> "ERROR", expr |-> e, index |-> k]

\* The operators of the grammar language: ? * +
Opt(e)  == NODE_QUANTITY(e, 0, 1)
Star(e) == NODE_QUANTITY(e, 0, -1)
Plus(e) == NODE_QUANTITY(e, 1, -1)

-----------------------------------------------------------------------------
(* Emitting.                                                                *)

NoLabel == <<"L", -1>>
L(n)    == <<"L", n>>
\* What for, continue, break and a passed if lead to.
Top(n)    == <<"top", n>>
Cont(n)   == <<"cont", n>>
End(n)    == <<"end", n>>
Enough(n) == <<"enough", n>>

Stm(op) == [op |-> op, chars |-> <<>>, rule |-> AnyRule, slot |-> AnySlot,
            num |-> 0, to |-> NoLabel]
Label(l)        == [Stm("label") EXCEPT !.to = l]
Goto(l)         == [Stm("goto") EXCEPT !.to = l]
OnSlot(op, x)   == [Stm(op) EXCEPT !.slot = x]
OnNum(op, k)    == [Stm(op) EXCEPT !.num = k]
Match(cs, l)    == [Stm("match") EXCEPT !.chars = cs, !.to = l]
IfGe(x, n, l)   == [Stm("ifge") EXCEPT !.slot = x, !.num = n, !.to = l]
IfAtP(x, l)     == [Stm("ifatp") EXCEPT !.slot = x, !.to = l]

Gen0 == [text |-> <<>>, label |-> 0, slot |-> 0, reach |-> BOTH]

When(c, stms)    == IF c THEN stms ELSE <<>>
Puts(g, stms)    == [g EXCEPT !.text = @ \o stms]
Reach(g, r)      == [g EXCEPT !.reach = r]
Use(g, n, m)     == [g EXCEPT !.label = @ + n, !.slot = @ + m]
Save(x)          == <<OnSlot("savep", x), OnSlot("saven", x)>>
Restore_Position(x) == <<OnSlot("setp", x)>>
Restore(x)       == <<OnSlot("setp", x), OnSlot("revert", x)>>

RECURSIVE Generate(_, _, _)

\* Definitions whose name holds an underscore and a capital state a slip in the
\* definition that follows them; nothing uses them but the runs that show a
\* property is able to fail.

\* A for loop around the expression; leaving an iteration that matched nothing
\* or that failed ends the loop, and too few turns make the whole fail.  The
\* loop's locals are in slot x, those of an iteration in slot x + 1.
OpenLoop(g, x, l, min, max) ==
  Puts(Use(g, 1, 2),
       When(min > 0, Save(x)) \o When(min > 0 \/ max > 0, <<OnSlot("zero", x)>>)
       \o <<Label(Top(l))>> \o When(max > 0, <<IfGe(x, max, End(l))>>)
       \o Save(x + 1))

LoopReach_OfBody(reach, min) == reach

LoopReach(reach, min) ==
  CASE min = 0                         -> ALWAYS_SUCCEED
    [] min > 0 /\ reach = ALWAYS_FAIL -> ALWAYS_FAIL
    [] OTHER                           -> BOTH

CloseLoop(h, x, l, min, max, onfail) ==
  Reach(Puts(h,
    <<IfAtP(x + 1, End(l))>>
    \o When(h.reach # ALWAYS_SUCCEED,
            <<Goto(Cont(l)), Label(L(l))>> \o Restore(x + 1) \o <<Goto(End(l))>>)
    \o <<Label(Cont(l))>> \o When(min > 0 \/ max > 0, <<OnSlot("inc", x)>>)
    \o <<Goto(Top(l)), Label(End(l))>>
    \o When(min > 0, <<IfGe(x, min, Enough(l))>> \o Restore(x)
                     \o <<Goto(onfail), Label(Enough(l))>>)),
    LoopReach(h.reach, min))

GenLoop(g, x, l, n, onfail) ==
  CloseLoop(Generate(OpenLoop(g, x, l, n.min, n.max), n.expr, L(l)),
            x, l, n.min, n.max, onfail)

CloseOption_NoLabel(h, x, l) ==
  Reach(IF h.reach # BOTH THEN h
        ELSE Puts(Use(h, 1, 0),
                  <<Goto(L(h.label + 1)), Label(L(l))>> \o Restore(x)
                  \o <<Label(L(h.label + 1))>>),
        ALWAYS_SUCCEED)

CloseOption(h, x, l) ==
  Reach(IF h.reach = ALWAYS_SUCCEED THEN h
        ELSE Puts(Use(h, 1, 0),
                  <<Goto(L(h.label + 1)), Label(L(l))>> \o Restore(x)
                  \o <<Label(L(h.label + 1))>>),
        ALWAYS_SUCCEED)

GenOption(g, x, l, e) ==
  CloseOption(Generate(Puts(Use(g, 1, 1), Save(x)), e, L(l)), x, l)

\* The three shapes of a quantity; {0,0} emits nothing.
GenQuantity(g, n, onfail) ==
  CASE n.max > 1 \/ n.max < 0  -> GenLoop(g, g.slot + 1, g.label + 1, n, onfail)
    [] n.max = 1 /\ n.min > 0  -> Generate(g, n.expr, onfail)
    [] n.max = 1 /\ n.min <= 0 -> GenOption(g, g.slot + 1, g.label + 1, n.expr)
    [] OTHER                   -> Reach(g, ALWAYS_SUCCEED)

\* A lookahead: the position comes back whatever the outcome, thunks do not.
CloseNot(h, x, l, onfail) ==
  Reach(Puts(h,
    When(h.reach # ALWAYS_FAIL, <<OnSlot("setp", x), Goto(onfail)>>)
    \o When(h.reach # ALWAYS_SUCCEED, <<Label(L(l)), OnSlot("setp", x)>>)),
    CASE h.reach = ALWAYS_SUCCEED -> ALWAYS_FAIL
      [] h.reach = ALWAYS_FAIL    -> ALWAYS_SUCCEED
      [] OTHER                    -> BOTH)

CloseAnd_Consuming(h, x, l, onfail) ==
  Puts(h,
    When(h.reach = BOTH, <<Goto(L(l + 1))>>)
    \o When(h.reach # ALWAYS_SUCCEED, <<Label(L(l)), OnSlot("setp", x), Goto(onfail)>>)
    \o When(h.reach = BOTH, <<Label(L(l + 1))>>))

CloseAnd(h, x, l, onfail) ==
  Puts(h,
    When(h.reach # ALWAYS_FAIL, <<OnSlot("setp", x)>>)
    \o When(h.reach = BOTH, <<Goto(L(l + 1))>>)
    \o When(h.reach # ALWAYS_SUCCEED, <<Label(L(l)), OnSlot("setp", x), Goto(onfail)>>)
    \o When(h.reach = BOTH, <<Label(L(l + 1))>>))

GenPredicate(g, x, l, n, onfail) ==
  IF n.neg
  THEN CloseNot(Generate(Puts(Use(g, 1, 1), <<OnSlot("savep", x)>>), n.expr, L(l)),
                x, l, onfail)
  ELSE CloseAnd(Generate(Puts(Use(g, 2, 1), <<OnSlot("savep", x)>>), n.expr, L(l)),
                x, l, onfail)

\* Elements i .. of a sequence, after h; b says that one of those before may
\* fail.  Nothing is emitted behind an element that always fails.
RECURSIVE GenSequence(_, _, _, _, _)
GenSequence(h, ns, i, b, onfail) ==
  CASE h.reach = ALWAYS_FAIL -> h
    [] h.reach # ALWAYS_FAIL /\ i > Len(ns) -> Reach(h, IF b \/ h.reach = BOTH THEN BOTH ELSE ALWAYS_SUCCEED)
    [] OTHER -> GenSequence(Generate(h, ns[i], onfail), ns, i + 1,
                            b \/ h.reach = BOTH, onfail)

\* The branches i .. of an alternative, h being what branch i made; b says
\* that one of those before may succeed, to jump to label m then.  Nothing is
\* emitted behind a branch that always succeeds.
AfterBranch(h, l, x, m, last, onfail) ==
  Puts(h, When(h.reach = BOTH, <<Goto(L(m))>>) \o <<Label(L(l))>> \o Restore(x)
          \o When(last, <<Goto(onfail)>>))

RECURSIVE NextBranch(_, _, _, _, _, _, _)
GenBranches(h, l, ns, i, b, x, m, onfail) ==
  CASE h.reach = ALWAYS_SUCCEED -> Puts(h, When(b, <<Label(L(m))>>))
    [] h.reach # ALWAYS_SUCCEED /\ i = Len(ns) ->
         Reach(Puts(AfterBranch(h, l, x, m, TRUE, onfail),
                    When(b \/ h.reach = BOTH, <<Label(L(m))>>)),
               IF b \/ h.reach = BOTH THEN BOTH ELSE ALWAYS_FAIL)
    [] OTHER -> NextBranch(AfterBranch(h, l, x, m, FALSE, onfail),
                           ns, i + 1, b \/ h.reach = BOTH, x, m, onfail)

NextBranch(h, ns, i, b, x, m, onfail) ==
  GenBranches(Generate(Use(h, 1, 0), ns[i], L(h.label + 1)), h.label + 1,
              ns, i, b, x, m, onfail)

GenAlternate(g, x, m, ns, onfail) ==
  NextBranch(Puts(Use(g, 1, 1), Save(x)), ns, 1, FALSE, x, m, onfail)

GenCapture(g, x, n, onfail) ==
  Puts(Generate(Puts(Use(g, 0, 1), <<OnSlot("savep", x)>>), n.expr, onfail),
       <<[OnSlot("capt", x) EXCEPT !.num = n.index]>>)

GenError(g, l, n, onfail) ==
  Puts(Generate(Use(g, 2, 0), n.expr, L(l)),
       <<Goto(L(l + 1)), Label(L(l)), OnNum("err", n.index), Goto(onfail),
         Label(L(l + 1))>>)

Generate(g, n, onfail) ==
  CASE n.type = "REFERENCE"  ->
         Reach(Puts(g, <<[Stm("apply") EXCEPT !.rule = n.rule, !.to = onfail]>>), BOTH)
    [] n.type = "STRING"     ->
         IF n.chars = <<>> THEN Reach(g, ALWAYS_SUCCEED)
         ELSE Reach(Puts(g, <<Match(n.chars, onfail)>>), BOTH)
    [] n.type = "CHARCLASS"  -> Reach(Puts(g, <<Match(<<n.set>>, onfail)>>), BOTH)
    [] n.type = "POSITION"   ->
         Reach(Puts(g, <<[OnNum("pos", n.value) EXCEPT !.to = onfail]>>), BOTH)
    [] n.type = "QUANTITY"   -> GenQuantity(g, n, onfail)
    [] n.type = "PREDICATE"  -> GenPredicate(g, g.slot + 1, g.label + 1, n, onfail)
    [] n.type = "PROGPRED"   ->
         Reach(Puts(g, <<[OnNum(IF n.neg THEN "npred" ELSE "pred", n.index) EXCEPT !.to = onfail]>>), BOTH)
    [] n.type = "SEQUENCE"   -> GenSequence(Reach(g, ALWAYS_SUCCEED), n.nodes, 1, FALSE, onfail)
    [] n.type = "ALTERNATE"  -> GenAlternate(g, g.slot + 1, g.label + 1, n.nodes, onfail)
    [] n.type = "CAPTURE"    -> GenCapture(g, g.slot + 1, n, onfail)
    [] n.type = "MATCH_CAPT" ->
         Reach(Puts(g, <<[OnNum("mcapt", n.index) EXCEPT !.to = onfail]>>), BOTH)
    [] n.type = "MATCH_MVAR" -> Reach(Puts(g, <<[Stm("mvar") EXCEPT !.to = onfail]>>), BOTH)
    [] n.type = "ACTION"     -> Reach(Puts(g, <<OnNum("act", n.index)>>), ALWAYS_SUCCEED)
    [] n.type = "ERROR"      -> GenError(g, g.label + 1, n, onfail)

\* The evaluation function of a rule with the expression e.
CloseRule(g) ==
  Puts(g, <<Stm("ret")>> \o When(g.reach # ALWAYS_SUCCEED, <<Label(L(0)), Stm("fail")>>))

EvaluateRule(e) == CloseRule(Generate(Gen0, e, L(0)))

-----------------------------------------------------------------------------
(* What the C compiler makes of the text.                                   *)

LabelsIn(text)  == {k \in 1 .. Len(text) : text[k].op = "label"}
Jumps(text)     == {k \in 1 .. Len(text) :
                      text[k].op # "label" /\ text[k].to # NoLabel}
Targets(text, l) == {k \in LabelsIn(text) : text[k].to = l}

\* The number of the statement behind position k once the labels are gone.
Address(text, k) == Cardinality((1 .. k) \ LabelsIn(text)) + 1

\* Statements of PackratRuntime; a jump to a label that is not there keeps 0.
Link(text) ==
  LET code == SelectSeq(text, LAMBDA s : s.op # "label")
      Resolve(s) == IF s.to = NoLabel \/ Targets(text, s.to) = {} THEN 0
                    ELSE Address(text, CHOOSE k \in Targets(text, s.to) : TRUE)
  IN [k \in 1 .. Len(code) |-> [code[k] EXCEPT !.to = Resolve(code[k])]]

Compile(grammar) == [r \in DOMAIN grammar |-> Link(EvaluateRule(grammar[r]).text)]
=============================================================================
