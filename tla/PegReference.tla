---------------------------- MODULE PegReference ----------------------------
(***************************************************************************)
(* What a grammar means: parsing expressions matched without memo, without *)
(* lookups and without a machine, by structural recursion.  Left recursion *)
(* is bounded: a rule that meets itself at the same position yields its    *)
(* current seed, which starts as a failure and is grown as long as the     *)
(* match gets longer.  A rule without left recursion never sees its seed.  *)
(*                                                                         *)
(* A match is a record: the position it has reached, the actions on its    *)
(* path, each with the text it covers and the captures made before it on   *)
(* that path, and the captures of the running rule.  A failed match has    *)
(* end FAIL.  Positions count from 0.                                      *)
(*                                                                         *)
(* The marker variables go along with the match: mark is their value, and  *)
(* marks has the one that each action sees.                                *)
(***************************************************************************)
EXTENDS Integers, Sequences

CONSTANTS Grammar,    \* the expression of every rule, as CodeGen's nodes
          Captures,   \* the numbers of captures
          UserCode,   \* for each programmable predicate and value of the markers:
                      \* whether it accepts (ok), and the value it leaves (set)
          MarkerText  \* the text of each value of the markers

FAIL == -1
NoCaptures == [k \in Captures |-> [s |-> 0, e |-> 0]]
Begin(k, v) == [end |-> k, acts |-> <<>>, capts |-> NoCaptures, mark |-> v, marks |-> <<>>]
Failed == Begin(FAIL, FAIL)

\* m goes n characters further if the condition c holds.
Further(c, m, n) == IF c THEN [m EXCEPT !.end = @ + n] ELSE Failed

\* m goes on with the match of a rule, whose captures are its own.
Joined(m, r) == IF r.end = FAIL THEN Failed
                ELSE [m EXCEPT !.end = r.end, !.acts = @ \o r.acts,
                               !.mark = r.mark, !.marks = @ \o r.marks]

\* m goes on with the code u of a predicate.
Judged(m, u, neg) == Further(u.ok # neg, [m EXCEPT !.mark = u.set], 0)

\* m goes on with x, which captured what it matched as number k.
WithCapture(x, m, k) ==
  IF x.end = FAIL THEN Failed
  ELSE [x EXCEPT !.capts[k] = IF x.end > m.end THEN [s |-> m.end, e |-> x.end]
                              ELSE [s |-> 0, e |-> 0]]

\* seeds: a partial function from <<rule, position>> to the seed so far.
With(seeds, key, m) ==
  [x \in DOMAIN seeds \cup {key} |-> IF x = key THEN m ELSE seeds[x]]

\* Whether the text s is what w has at position k.
Follows(w, k, s) == /\ k + Len(s) <= Len(w)
                    /\ \A j \in 1 .. Len(s) : w[k + j] \in s[j]

CapturedText(w, c) == [j \in 1 .. (c.e - c.s) |-> {w[c.s + j]}]

RECURSIVE Match(_, _, _, _, _), MatchAll(_, _, _, _, _, _), Repeat(_, _, _, _, _, _),
          Grow(_, _, _, _, _, _), FirstOf(_, _, _, _, _, _)

\* The match m goes on with e in the text w, in a rule that began at b.
Match(e, w, m, b, seeds) ==
  CASE e.type = "STRING"    -> Further(Follows(w, m.end, e.chars), m, Len(e.chars))
    [] e.type = "CHARCLASS" -> Further(Follows(w, m.end, <<e.set>>), m, 1)
    [] e.type = "POSITION"  -> Further(m.end = e.value, m, 0)
    [] e.type = "MATCH_CAPT" ->
         LET s == CapturedText(w, m.capts[e.index])
         IN Further(Follows(w, m.end, s), m, Len(s))
    [] e.type = "REFERENCE" ->
         Joined(m, IF <<e.rule, m.end>> \in DOMAIN seeds THEN seeds[<<e.rule, m.end>>]
                   ELSE Grow(e.rule, w, m.end, m.mark, seeds, Failed))
    [] e.type = "MATCH_MVAR" ->
         LET s == MarkerText[m.mark] IN Further(Follows(w, m.end, s), m, Len(s))
    [] e.type = "PROGPRED"  -> Judged(m, UserCode[e.index][m.mark], e.neg)
    [] e.type = "SEQUENCE"  -> MatchAll(e.nodes, 1, w, m, b, seeds)
    [] e.type = "ALTERNATE" -> FirstOf(e.nodes, 1, w, m, b, seeds)
    [] e.type = "QUANTITY"  -> IF e.max = 0 THEN m ELSE Repeat(e, 0, w, m, b, seeds)
    [] e.type = "PREDICATE" ->
         Further((Match(e.expr, w, m, b, seeds).end = FAIL) = e.neg, m, 0)
    [] e.type = "CAPTURE"   -> WithCapture(Match(e.expr, w, m, b, seeds), m, e.index)
    [] e.type = "ACTION"    ->
         [m EXCEPT !.acts = Append(@, [act |-> e.index, s |-> b, e |-> m.end,
                                       capts |-> m.capts]),
                   !.marks = Append(@, m.mark)]
    [] e.type = "ERROR"     -> Match(e.expr, w, m, b, seeds)

MatchAll(ns, i, w, m, b, seeds) ==
  IF i > Len(ns) \/ m.end = FAIL THEN m
  ELSE MatchAll(ns, i + 1, w, Match(ns[i], w, m, b, seeds), b, seeds)

FirstOf(ns, i, w, m, b, seeds) ==
  IF i > Len(ns) THEN Failed
  ELSE LET r == Match(ns[i], w, m, b, seeds)
       IN IF r.end # FAIL THEN r ELSE FirstOf(ns, i + 1, w, m, b, seeds)

\* Greedy, from n turns that led to m.  A turn that matches nothing can be
\* repeated at will: it satisfies any lower bound and adds no further turn.
Repeat(e, n, w, m, b, seeds) ==
  IF n = e.max THEN m
  ELSE LET r == Match(e.expr, w, m, b, seeds)
       IN CASE r.end = FAIL  -> IF n >= e.min THEN m ELSE Failed
            [] r.end = m.end -> r
            [] OTHER         -> Repeat(e, n + 1, w, r, b, seeds)

\* The rule r at k with the markers v, given the longest match so far.
Grow(r, w, k, v, seeds, m) ==
  LET n == Match(Grammar[r], w, Begin(k, v), k, With(seeds, <<r, k>>, m))
  IN IF n.end > m.end THEN Grow(r, w, k, v, seeds, n) ELSE m

Meaning(r, w, k, v) ==
  Match([type |-> "REFERENCE", rule |-> r], w, Begin(k, v), k, << >>)
=============================================================================
