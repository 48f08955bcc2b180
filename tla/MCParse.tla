------------------------------ MODULE MCParse ------------------------------
(***************************************************************************)
(* The function parse from the text of a grammar to rules that are linked  *)
(* and checked.  The texts are rules with expressions of many kinds;       *)
(* files in which a token is missing or one too much; and all grammars of  *)
(* up to three small rules, with names whose hash values collide at the    *)
(* end of the table.                                                       *)
(***************************************************************************)
EXTENDS RuleSafety

CONSTANT MaxRules  \* bound: rules in a grammar

MCIdentifier == {"a", "b", "c", "d", "v", "u", "_u", "m", "n"}
MCHash == [t \in MCIdentifier |-> CASE t \in {"a", "d"} -> 15 [] t = "b" -> 31 [] OTHER -> 16]
MCNumber == {"1", "2", "0", "01", "huge"}
MCClass  == {"[a]", "[]"}
MCString == {"'a'"}
MCCode   == {"{}"}
MCEOL    == "eol"
MCValue  == [t \in MCNumber |->
               CASE t \in {"1", "01"} -> 1 [] t = "2" -> 2 [] t = "0" -> 0 [] t = "huge" -> VOID]
MCFaults == [t \in MCIdentifier \cup MCNumber \cup MCClass \cup MCString \cup {"^", "."} |->
               IF t \in {"_u", "0", "01", "huge", "[]"} THEN 1 ELSE 0]
MCMarkers == {"m"}

-----------------------------------------------------------------------------
(* Expressions.                                                             *)

Leaf(type, name) == Node(type, <<>>, name)
Ref(nm)   == Leaf("REFERENCE", nm)
Var(v)    == [Ref("b") EXCEPT !.rvar = v]
Act       == Leaf("ACTION", NONE)
Pred      == Leaf("PROGPRED", "!")
Number_(t) == Leaf("MATCH_CAPT", t)
Marker(nm) == Leaf("MATCH_MVAR", nm)
Capt(e)   == Node("CAPTURE", <<e>>, NONE)
Qty(e, t) == Node("QUANTITY", <<e>>, t)
Not(e)    == Node("PREDICATE", <<e>>, "&")
Err(e)    == Node("ERROR", <<e>>, NONE)
Sq(s)     == Node("SEQUENCE", s, NONE)
Alt(s)    == Node("ALTERNATE", s, "/")

Used   == {Var("v"), Ref("b"), Act, Pred, Number_("1"), Marker("m"), Marker("n"),
           Capt(Var("v")), Qty(Capt(Act), "*"), Err(Var("u")), Capt(Capt(Pred)),
           Alt(<<Capt(Act), Capt(Number_("1"))>>), Alt(<<Var("v"), Var("u")>>)}
Pairs  == {Sq(<<a, b>>) : a \in Used, b \in Used} \cup {Alt(<<a, b>>) : a \in Used, b \in Used}
Ends   == {Act, Err(Number_("2")), Alt(<<Number_("2"), Act>>)}
Checked_ == {Sq(<<a, b>>) : a \in Pairs, b \in Ends}
            \cup {Alt(<<a, b>>) : a \in Pairs, b \in Ends}
            \cup {Sq(<<Capt(a), b>>) : a \in Pairs, b \in Ends}
            \cup {Sq(<<Err(a), b>>) : a \in Pairs, b \in Ends}

Atoms  == {Var("v"), Var("_u"), Ref("b"), Act, Number_("01"), Marker("m"),
           Leaf("POSITION", "^"), Leaf("CHARCLASS", "."), Leaf("CHARCLASS", "[]"),
           Leaf("STRING", "'a'"), Number_("0"), Number_("huge")}
Few    == {Var("v"), Act, Capt(Ref("b"))}
Terms  == Few \cup {Qty(e, "+") : e \in Few} \cup {Not(e) : e \in Few} \cup {Pred}
          \cup {Qty(Sq(<<Var("v"), Act>>), "?"), Capt(Alt(<<Act, Pred>>)), Not(Qty(Act, "?")),
                Not(Sq(<<Ref("b"), Act>>)), Err(Capt(Var("v"))), Err(Not(Var("u")))}
Read   == Atoms \cup Terms
          \cup {Sq(<<a, b, c>>) : a \in Few, b \in Terms, c \in Few}
          \cup {Alt(<<a, b, c>>) : a \in Few, b \in Terms, c \in Few}
          \cup {Capt(Alt(<<Sq(<<a, b>>), Err(a)>>)) : a \in Terms, b \in Few}
MCExprs == Checked_ \cup Read

-----------------------------------------------------------------------------
(* How an expression is written.                                            *)

\* The loosest construct may stand at level 1, and primaries everywhere.
Level(e) ==
  CASE e.type = "ALTERNATE" -> 1 [] e.type = "SEQUENCE" -> 2 [] e.type = "ERROR" -> 3
    [] e.type \in {"PREDICATE", "PROGPRED"} -> 4 [] e.type = "QUANTITY" -> 5 [] OTHER -> 6

\* A code block behind & or ! would be a predicate.
StartsWithCode(e) == e.type = "ACTION" \/ (e.type = "QUANTITY" /\ e.nodes[1].type = "ACTION")

RECURSIVE Tree(_)
\* The node n of the heap as a tree.
Tree(n) ==
  LET node == heap[n].node
  IN [node EXCEPT !.nodes = [k \in DOMAIN node.nodes |-> Tree(node.nodes[k])]]

RECURSIVE Source(_, _)
Source(e, level) ==
  LET Sub(k, l) == Source(e.nodes[k], l)
      Joined(l, sep) ==
        LET f[k \in DOMAIN e.nodes] == IF k = 1 THEN Sub(1, l) ELSE f[k - 1] \o sep \o Sub(k, l)
        IN f[Len(e.nodes)]
      plain ==
        CASE e.type = "REFERENCE" -> (IF e.rvar = NONE THEN <<>> ELSE <<e.rvar, ":">>) \o <<e.name>>
          [] e.type = "MATCH_CAPT" -> <<"$", e.name>>
          [] e.type = "MATCH_MVAR" -> <<"@", e.name>>
          [] e.type = "ACTION"    -> <<"{}">>
          [] e.type = "PROGPRED"  -> <<e.name, "{}">>
          [] e.type = "CAPTURE"   -> <<"<">> \o Sub(1, 1) \o <<">">>
          [] e.type = "QUANTITY"  -> Sub(1, 6) \o <<e.name>>
          [] e.type = "PREDICATE" -> <<e.name>> \o Sub(1, IF StartsWithCode(e.nodes[1]) THEN 7 ELSE 5)
          [] e.type = "ERROR"     -> Sub(1, 4) \o <<"~", "{}">>
          [] e.type = "SEQUENCE"  -> Joined(3, <<>>)
          [] e.type = "ALTERNATE" -> Joined(2, <<"/">>)
          [] OTHER                -> <<e.name>>
  IN IF Level(e) < level THEN <<"(">> \o plain \o <<")">> ELSE plain

RuleOf(nm, body) == <<nm, "<", "-">> \o body \o <<"eol">>

\* The expression as the rule a, and a rule b behind it.
File(e) == RuleOf("a", Source(e, 1)) \o RuleOf("b", <<".">>)

\* Rules that refer to one another, to themselves, twice, or to a rule that is not
\* there; and one with an error of another kind.
Bodies  == {<<"a">>, <<"b">>, <<"b", "c">>, <<"b", "/", "b">>, <<"d">>, <<"$", "1">>}
Sources == {RuleOf(nm, body) : nm \in {"a", "b", "c"}, body \in Bodies}
Starts  == {RuleOf("a", body) : body \in Bodies} \cup {RuleOf("b", <<"a">>)}
Grammars ==
  {<<>>} \cup UNION {{s \o FlattenSeq(g) : s \in Starts, g \in [1 .. n -> Sources]} :
                     n \in 0 .. (MaxRules - 1)}

Written == {File(e) : e \in MCExprs} \cup Grammars

\* Such files with a token less, or one more.  They begin with an empty line, which
\* tells them from those that are well-formed.
Excess == {"~", ")", ">", "/", ":", "a", "eol"}
Damaged(t) == {RemoveAt(t, k) : k \in DOMAIN t}
              \cup {InsertAt(t, k, x) : k \in DOMAIN t, x \in Excess}
Broken == {<<EOL>> \o t : t \in UNION {Damaged(File(e)) :
                   e \in {Sq(<<Capt(Var("v")), Err(Act), Alt(<<Var("u"), Pred>>)>>),
                          Alt(<<Capt(Sq(<<Var("v"), Act>>)), Err(Capt(Var("u"))), Not(Qty(Act, "?"))>>),
                          Capt(Alt(<<Err(Capt(Act)), Qty(Alt(<<Ref("b"), Capt(Act)>>), "*")>>)),
                          Sq(<<Number_("1"), Marker("m"), Capt(Capt(Err(Var("v"))))>>)}}}
WellFormed == text = <<>> \/ text[1] # EOL
MCTexts == Written \cup Broken

-----------------------------------------------------------------------------
(* Reading.                                                                 *)

Without(s, T) == SelectSeq(s, LAMBDA x : x \notin T)
SourceRead ==
  FlattenSeq([k \in DOMAIN rules |-> <<rules[k].name, "<", "-">> \o Source(Tree(rules[k].expr), 1)])

\* The errors in the tokens of a file that is well-formed.
FaultsIn(t) == Cardinality({k \in DOMAIN t : t[k] \in DOMAIN MCFaults /\ MCFaults[t[k]] = 1})

\* A file that is well-formed is read as the expressions it was printed from, with
\* no errors but those in its tokens; one that is not is reported, or differs in
\* parentheses only.  However often functions fail and go back, the line that errors
\* are reported with is that of the place the input is at.
TextRead ==
  /\ input.line = Cardinality({k \in 1 .. (input.cur - 1) : Tok(k) = EOL})
  /\ JustRead =>
       IF WellFormed
       THEN SourceRead = Without(text, {EOL}) /\ errnum = FaultsIn(text)
       ELSE errnum > 0 \/ Without(SourceRead, {"(", ")"}) = Without(text, {EOL, "(", ")"})

-----------------------------------------------------------------------------
(* Captures and variables of an expression e.                               *)

RECURSIVE PathsOf(_)
PathsOf(e) ==
  {<<>>} \cup UNION {{<<k>> \o p : p \in PathsOf(e.nodes[k])} : k \in DOMAIN e.nodes}

Sub(e, p) == LET f[k \in 0 .. Len(p)] == IF k = 0 THEN e ELSE f[k - 1].nodes[p[k]] IN f[Len(p)]
Of(e, types) == {p \in PathsOf(e) : Sub(e, p).type \in types}

\* Where the ways to p and q part; both lead there when one leads to the other.
Common(p, q) ==
  CHOOSE k \in 0 .. Len(p) :
    /\ k <= Len(q) /\ SubSeq(p, 1, k) = SubSeq(q, 1, k)
    /\ k = Len(p) \/ k = Len(q) \/ p[k + 1] # q[k + 1]

\* p stands before q in the text, and before it in a sequence.
Left(p, q) ==
  LET k == Common(p, q) IN k < Len(p) /\ k < Len(q) /\ p[k + 1] < q[k + 1]
Precedes(e, p, q) == Left(p, q) /\ Sub(e, SubSeq(p, 1, Common(p, q))).type = "SEQUENCE"
Opens(p, q) == Left(p, q) \/ (Common(p, q) = Len(p) /\ Len(p) < Len(q))

Captures(e) == Of(e, {"CAPTURE"})
Variables(e) == {p \in Of(e, {"REFERENCE"}) : Sub(e, p).rvar # NONE}
SeenBy(e, S, q) == {Sub(e, p).index : p \in {o \in S : Precedes(e, o, q)}}

\* The lists are those of the nodes T, one for each, and list what is in S.
ListsOf(e, lists, T, S) ==
  /\ {lists[k].path : k \in DOMAIN lists} = T
  /\ \A k \in DOMAIN lists :
       /\ \A h \in DOMAIN lists : lists[h].path = lists[k].path => h = k
       /\ Elements(lists[k].list) = SeenBy(e, S, lists[k].path)
       /\ IsInjective(lists[k].list)

\* Actions, error actions and predicates get the captures that precede them, each
\* once: none from another branch, and none that is still open.  Captures are
\* numbered in the order in which they open, without a gap, so that $1 is the first.
\* Actions and error actions get the variables of the references before them, which
\* have the same number if and only if they have the same name.
UsesSeen ==
  pc = "mvars" =>
    LET e == Tree(expr) captures == Captures(e) variables == Variables(e) IN
      /\ \A p \in captures : Sub(e, p).index = Cardinality({o \in captures : Opens(o, p)})
      /\ ListsOf(e, capts[i], Of(e, {"ACTION", "ERROR", "PROGPRED"}), captures)
      /\ \A p, q \in variables : Sub(e, p).index = Sub(e, q).index <=> Sub(e, p).rvar = Sub(e, q).rvar
      /\ ListsOf(e, rvars[i], Of(e, {"ACTION", "ERROR"}), variables)

\* The uses in e of captures that do not precede them and of undefined markers.
Misuses(e) ==
  {p \in Of(e, {"MATCH_CAPT"}) :
     Sub(e, p).index # VOID /\ Sub(e, p).index \notin SeenBy(e, Captures(e), p)}
  \cup {p \in Of(e, {"MATCH_MVAR"}) : Sub(e, p).name \notin Markers}

\* How many elements the sets F(r) of the rules r in S have together.
Total(S, F(_)) == Cardinality(UNION {{<<r, k>> : k \in F(r)} : r \in S})

\* Every error is counted once: those in tokens, rules with a name that another one
\* has, references without a rule, and misuses in a rule that is left.  So a parse
\* that succeeds leaves rules in which everything has its definition.
ErrorsCounted ==
  pc = "done" /\ WellFormed =>
    errnum = FaultsIn(text)
             + Cardinality({r \in Rule : ~ Unique(r)})
             + Total({r \in Rule : Unique(r)}, LAMBDA r : {n \in refs[r] : ~ Defined(Target(n))})
             + Total(used, LAMBDA r : Misuses(Tree(rules[r].expr)))
=============================================================================
