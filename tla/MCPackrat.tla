------------------------------ MODULE MCPackrat ------------------------------
(***************************************************************************)
(* Small grammars for the generated parser, compiled by CodeGen.  Every    *)
(* grammar is a group of rules of its own; its first rule is chosen by     *)
(* `start'.                                                                *)
(***************************************************************************)
EXTENDS PackratMeaning

CONSTANTS MaxLen  \* bound: the length of the inputs, at most MaxPos

Letters == {"a", "b"}

G == INSTANCE CodeGen WITH AnyRule <- "Word", AnySlot <- 1

Ref(r) == G!NODE_REFERENCE(r)
Ch(c)  == G!NODE_STRING(<<c>>)
Sq(ns) == G!NODE_SEQUENCE(ns)
Alt(ns) == G!NODE_ALTERNATE(ns)
Act(k) == G!NODE_ACTION(k)
And(e) == G!NODE_PREDICATE(e, FALSE)
Not(e) == G!NODE_PREDICATE(e, TRUE)
Any    == G!NODE_CHARCLASS(Letters)

-----------------------------------------------------------------------------
(* Grammars whose meaning is beyond dispute.                                *)

\* Backtracking over memoized rules, options, loops and a lookahead.
PlainGrammar ==
  [ Word |-> Alt(<<Sq(<<Ref("As"), Ch("a"), Act(1)>>),
                   Sq(<<Ref("As"), Ch("b"), Act(2)>>), Any>>),
    As   |-> Sq(<<G!Star(Ch("a")), G!Opt(Ref("LastB")), Act(3)>>),
    LastB |-> Sq(<<Ch("b"), Not(Ch("b")), Act(4)>>) ]

\* Direct left recursion: the list grammar of every calculator.
DirectGrammar ==
  [ List |-> Alt(<<Sq(<<Ref("List"), Ch("a"), Act(1)>>),
                   Sq(<<Ref("List"), Ref("Item"), Act(2)>>),
                   Sq(<<Ch("a"), Act(3)>>)>>),
    Item |-> G!Plus(Ch("b")) ]

\* Indirect left recursion through two rules.
IndirectGrammar ==
  [ Top  |-> Sq(<<Ref("Even"), Act(1)>>),
    Even |-> Alt(<<Sq(<<Ref("Odd"), Ch("a"), Act(2)>>), Sq(<<Ch("b"), Act(3)>>)>>),
    Odd  |-> Alt(<<Sq(<<Ref("Even"), Ch("b"), Act(4)>>),
                   Sq(<<Ref("Even"), Act(5)>>), Sq(<<Ch("a"), Act(6)>>)>>) ]

\* Captures, matched again by their text and seen by actions.
QuoteGrammar ==
  [ Quote |-> Sq(<<G!NODE_CAPTURE(Ref("Mark"), 0), Act(1), Ref("Body"),
                   G!NODE_MATCH_CAPT(0), Act(2)>>),
    Mark  |-> G!NODE_QUANTITY(Ch("a"), 1, 2),
    Body  |-> Sq(<<G!NODE_CAPTURE(G!Star(Ch("b")), 0), Act(3)>>) ]

\* A rule that is applied behind the end of no match, for many pcc_parse calls.
TokenGrammar ==
  [ Tok |-> Alt(<<Sq(<<Ref("Ab"), Act(1)>>), Sq(<<G!Plus(Ch("b")), Act(2)>>), Any>>),
    Ab  |-> G!NODE_QUANTITY(Sq(<<Ch("a"), Ch("b")>>), 1, 2) ]

-----------------------------------------------------------------------------
(* Grammars that reach the other statements and the corners of left         *)
(* recursion; only what holds for every grammar is checked of them.         *)

\* Captures, matching of a captured text, positions, programmable predicates,
\* error actions, and a lookahead that leaves memos behind the match.
CornerGrammar ==
  [ Corner |-> Alt(<<Sq(<<G!NODE_CAPTURE(Any, 0), Ref("Same"),
                          G!NODE_MATCH_CAPT(0), Act(1)>>),
                     Sq(<<And(Sq(<<Ref("Same"), Ref("Same")>>)), Ref("Same"),
                          G!NODE_PROGPRED(1, FALSE)>>),
                     Sq(<<G!NODE_POSITION(0), G!NODE_ERROR(Ch("b"), 5)>>)>>),
    Same   |-> Alt(<<Ch("a"), Sq(<<Ch("b"), Act(2)>>)>>) ]

\* A left recursion without a seed, one that is blocked from a rule not yet
\* applied, one with a lookahead for itself and one inside another.
TangledGrammar ==
  [ Tangle |-> Alt(<<Sq(<<Ref("Never"), Any>>), Sq(<<Ref("Tangle"), Ref("Knot")>>),
                     Sq(<<And(Ref("Tangle")), Ref("Late")>>), Ref("Knot")>>),
    Never  |-> Sq(<<Ref("Never"), Ch("a")>>),
    Late   |-> Any,
    Knot   |-> Alt(<<Sq(<<Ref("Loop"), Ch("b")>>), Ch("a")>>),
    Loop   |-> Alt(<<Sq(<<Ref("Knot"), Ch("a")>>), Ch("b")>>) ]

\* Three rules in a ring, of which the innermost is left-recursive itself.
RingGrammar ==
  [ Ring  |-> Alt(<<Sq(<<Ref("Ring2"), Ch("a")>>), Ch("b")>>),
    Ring2 |-> Alt(<<Ref("Ring3"), Ch("a")>>),
    Ring3 |-> Alt(<<Sq(<<Ref("Ring3"), Ch("b")>>), Sq(<<Ref("Ring"), Ch("b")>>)>>) ]

\* A loop around something that may match nothing.
IdleTurnGrammar ==
  [ Idler |-> Sq(<<G!Star(G!Opt(Ch("a"))), Ch("b")>>) ]

-----------------------------------------------------------------------------
(* Grammars about which the repository's documents say something the        *)
(* generated parser does not do.                                            *)

\* A lookahead runs ahead of what is committed.
AheadGrammar ==
  [ Ahead |-> Alt(<<Sq(<<Ref("One"), And(G!Star(Ref("One"))), Act(1)>>), Act(2)>>),
    One   |-> Any ]

\* An involved rule that is left-recursive itself.
MutualGrammar ==
  [ Outer |-> Alt(<<Sq(<<Ref("Inner"), Ch("a")>>), Ch("b")>>),
    Inner |-> Alt(<<Sq(<<Ref("Inner"), Ch("b")>>), Sq(<<Ref("Outer"), Ch("a")>>)>>) ]

\* A rule that took part in a left recursion is applied once that is over.
StaleGrammar ==
  [ Again |-> Alt(<<Sq(<<Ref("Ends"), Ch("b"), Ch("b")>>), Ref("Starts")>>),
    Ends  |-> Alt(<<Sq(<<Ref("Starts"), Ch("a")>>), Ch("b")>>),
    Starts |-> Alt(<<Sq(<<Ref("Ends"), Ch("b")>>), Ref("Ends"), Ch("a")>>) ]

\* An action inside a lookahead that fails after it.
GuardGrammar ==
  [ Guard |-> Sq(<<Not(Sq(<<Ref("Acts"), Ch("b")>>)), Any>>),
    Acts  |-> Sq(<<Any, Act(1)>>) ]

Merge(f, g) == [r \in DOMAIN f \cup DOMAIN g |-> IF r \in DOMAIN f THEN f[r] ELSE g[r]]

MCGrammar ==
  Merge(Merge(Merge(PlainGrammar, DirectGrammar), Merge(QuoteGrammar, IndirectGrammar)),
        Merge(Merge(Merge(TokenGrammar, CornerGrammar), Merge(TangledGrammar, RingGrammar)),
              Merge(Merge(IdleTurnGrammar, AheadGrammar),
                    Merge(MutualGrammar, Merge(StaleGrammar, GuardGrammar)))))

MCRule   == DOMAIN MCGrammar
Compiled == G!Compile(MCGrammar)
MCCode   == Compiled
MCInputs == UNION {[1 .. n -> Letters] : n \in 0 .. MaxLen}
MCSlot   == 1 .. 6
MCCaptIndex == {0}

NoMarkers == <<>>

\* Where the meaning of a grammar is beyond dispute; what a lookahead or a growth
\* leaves behind a match disturbs later calls, and only Tok has neither.
MCCompared ==
  [r \in {"Word", "List", "Top", "Quote", "Tok", "Guard", "Again"} |-> IF r = "Tok" THEN MaxParse ELSE 1]
=============================================================================
