------------------------------ MODULE MCCodeGen ------------------------------
(***************************************************************************)
(* Small expressions over two characters, some of them with marker         *)
(* variables, error actions, captures or positions, each as the expression *)
(* of a rule of its own: the code generated for it is examined, and        *)
(* executed on all short inputs.  The rules are numbers.                   *)
(***************************************************************************)
EXTENDS PackratMarkers

CONSTANTS
  Grammar,   \* the expressions that Code was generated from
  Compared,  \* for each start rule, how many of the calls of pcc_parse are compared
  MaxLen     \* bound: the length of the inputs, at most MaxPos

Letters == {"a", "b"}

G == INSTANCE CodeFlow WITH AnyRule <- 1, AnySlot <- 1

Ch(c)  == G!NODE_STRING(<<c>>)
Any    == G!NODE_CHARCLASS(Letters)
Empty  == G!NODE_STRING(<<>>)
And(e) == G!NODE_PREDICATE(e, FALSE)
Not(e) == G!NODE_PREDICATE(e, TRUE)
Sq(x, y)  == G!NODE_SEQUENCE(<<x, y>>)
Alt(x, y) == G!NODE_ALTERNATE(<<x, y>>)

\* Op of every element of s with every element of t.
Combined(s, t, Op(_, _)) ==
  [k \in 1 .. (Len(s) * Len(t)) |->
     Op(s[((k - 1) \div Len(t)) + 1], t[((k - 1) % Len(t)) + 1])]
Each(s, Op(_)) == [k \in DOMAIN s |-> Op(s[k])]

\* Expressions that always match a character, that may match none, that are
\* lookaheads, and repetitions with bounds.  Expressions that may match nothing
\* are not repeated with a lower bound: a turn that matches nothing ends the loop
\* before the bound is reached, and the README says what this contradicts.
Solid  == <<Ch("a"), Any>>
Loose  == <<G!NODE_ACTION(1), Empty, G!Opt(Ch("a")), G!Star(Ch("a"))>>
Looks  == <<And(Ch("a")), Not(Ch("a")), And(Empty), Not(Empty)>>
Loops  == <<G!Plus(Ch("a")), G!NODE_QUANTITY(Any, 2, 2), G!NODE_QUANTITY(Ch("a"), 0, 2)>>
Simple == Solid \o Loose \o Looks \o Loops
Last   == <<Ch("b"), G!NODE_ACTION(2)>>

Pairs  == Combined(Simple, Last, Sq) \o Combined(Simple, Last, Alt)
Bare   == Combined(Simple, <<Empty>>, Sq) \o Combined(Simple, <<Empty>>, Alt)

\* An error action stands around what may fail: around an element that cannot, the
\* label is missing that its code goes to, and the README says what this contradicts.
Watched(e) == G!NODE_ERROR(e, 4)
OrAny(e)   == Alt(Watched(Sq(e, Ch("b"))), Any)
Nested == Each(Pairs, G!Star) \o Each(Pairs, G!Opt) \o Each(Pairs, OrAny)
Looked == Each(Combined(Solid \o Loops, Looks, Sq), Not)
          \o Each(Combined(Solid \o Loops, Looks, Alt), And)

\* Expressions with predicates that set the markers to A or to B, that set them
\* and reject, or that accept A only.  Each stands behind a character: a value that
\* was set at the position where a failing match began stays, and the README says
\* what this contradicts.
Judge(k)  == Sq(Any, G!NODE_PROGPRED(k, FALSE))
TheValue    == G!NODE_MATCH_MVAR
SetA      == Judge(1)
Setting   == <<SetA, Judge(2), Judge(3), G!Opt(SetA), G!Star(SetA), And(SetA), Not(SetA)>>
Judging   == <<Judge(4), Sq(Any, G!NODE_PROGPRED(4, TRUE)), TheValue, G!NODE_ACTION(1)>>
See(e)    == Sq(e, G!NODE_ACTION(3))
OrValue(e) == Alt(Watched(Sq(e, Ch("b"))), Sq(Sq(Any, TheValue), G!NODE_ACTION(2)))
Marked    == Each(Combined(Setting, Setting \o Judging, Sq), See)
             \o Each(Combined(Setting, Judging, Alt), See)
             \o Each(Combined(Setting, Judging, Sq), OrValue)

\* Rule 1 is applied by the following three, by the last two of them again where it
\* has an answer; rules 6 and 8 are left-recursive.  Rule 9 cannot fail.
Setter == G!NODE_REFERENCE(1)
Grown(r, k, e) == Alt(Sq(G!NODE_REFERENCE(r), Sq(Ch("a"), G!NODE_PROGPRED(k, FALSE))),
                      Sq(Ch("b"), e))
Linked == <<SetA, See(Setter), OrValue(Setter),
            Alt(Sq(Setter, Ch("b")), See(Sq(Setter, TheValue))),
            See(G!NODE_REFERENCE(6)), Grown(6, 4, See(G!NODE_PROGPRED(1, FALSE))),
            See(G!NODE_REFERENCE(8)), Grown(8, 1, G!NODE_PROGPRED(2, FALSE)),
            Watched(G!Star(Ch("a")))>>

\* Error actions inside repetitions, lookaheads, choices and one another.
Tries   == Each(Solid \o <<And(Ch("a")), Not(Ch("a")), Not(Empty), G!Plus(Ch("a")),
                           G!NODE_QUANTITY(Any, 2, 2)>>, Watched)
Turns   == Combined(Tries, <<Ch("b")>>, Sq)
Faulty  == Combined(Tries, Last, Alt) \o Each(Turns, G!Star) \o Each(Turns, G!Opt)
           \o Each(Turns, Watched) \o Each(Turns, Not)

\* Captures, which are matched again and seen by actions, and positions.
Kept(e)  == G!NODE_CAPTURE(e, 0)
Again    == <<G!NODE_MATCH_CAPT(0), G!Opt(G!NODE_MATCH_CAPT(0)),
              Watched(Sq(G!NODE_MATCH_CAPT(0), Ch("b")))>>
Captured == Each(Combined(Each(<<Any, G!Opt(Ch("a")), G!Star(Any)>>, Kept), Again, Sq), See)
Located  == Combined(<<Any, G!Opt(Ch("a")), And(Any)>>, <<G!NODE_POSITION(0), G!NODE_POSITION(1)>>, Sq)

Exprs == Linked \o Pairs \o Bare \o Nested \o Looked \o Marked \o Faulty \o Captured \o Located

MCRule    == 1 .. Len(Exprs)
MCClaimed == {7, 9}
MCStart   == MCRule \ {7, 8, 9}
MCGrammar == [r \in MCRule |-> Exprs[r]]
Compiled  == G!Compile(MCGrammar)
MCCode    == Compiled
MCInputs  == UNION {[1 .. n -> Letters] : n \in 0 .. MaxLen}
MCSlot    == 1 .. 8
MCCaptIndex == {0}
MCCompared  == [r \in MCRule |-> IF r \in 2 .. 8 THEN 1 ELSE MaxParse]

Values        == {"A", "B"}
MCMarkerText  == [v \in Values \cup {R!NULL} |->
                    CASE v = "A" -> <<{"a"}>> [] v = "B" -> <<{"b"}>> [] OTHER -> <<>>]
Judgement(k, v) == CASE k = 1 -> [ok |-> TRUE, set |-> "A"]
                     [] k = 2 -> [ok |-> TRUE, set |-> "B"]
                     [] k = 3 -> [ok |-> FALSE, set |-> "A"]
                     [] k = 4 -> [ok |-> v = "A", set |-> v]
MCUserCode == [k \in 1 .. 4 |-> [v \in DOMAIN MCMarkerText |-> Judgement(k, v)]]
-----------------------------------------------------------------------------
Texts == [r \in MCRule |-> G!EvaluateRule(MCGrammar[r]).text]

\* The generated function compiles: each of its gotos leads to one label; and what
\* backtracking restores, a position and a number of thunks, was saved on the way.
CodeWellFormed ==
  phase = "idle" => G!WellLabelled(Texts[start]) /\ G!SavedFirst(Texts[start])

\* The code_reach_t a generate_*_code function returns, by which others omit
\* code and labels, is what can happen.
ReachClaims == phase = "idle" => G!ClaimHolds(MCGrammar[start])

Peg == INSTANCE PegReference WITH Captures <- CaptIndex

\* Of what was executed, the actions: an error action runs when its expression fails,
\* on whatever way.
Actions == SelectSeq([k \in DOMAIN log |-> k], LAMBDA k : log[k].kind = "action")
Matched(k) == [act |-> log[k].act, s |-> log[k].s, e |-> log[k].e, capts |-> log[k].capts]

\* The end of a call of pcc_parse is that of the match m.
Agrees(m) ==
  /\ phase = "error" => m.end = Peg!FAIL
  /\ phase = "commit" /\ thunks # <<>> =>
       /\ m.end = Here /\ m.mark = curr.set.value
       /\ m.acts = [j \in DOMAIN Actions |-> Matched(Actions[j])]
       /\ m.marks = [j \in DOMAIN Actions |-> seen[Actions[j]]]

\* The code matches what the expression matches from the position and the markers on
\* that pcc_parse began with, and executes the actions on the path of the match; each
\* action sees the markers as the predicates on that path set them, and so does what
\* is called next: none that a discarded alternative, turn or lookahead set (README:
\* "All values of marker variables are rolled back when subsequent matching fails").
MarkedAsMeant ==
  parses <= Compared[start] => Agrees(Peg!Meaning(start, input, pos, begun))
=============================================================================
