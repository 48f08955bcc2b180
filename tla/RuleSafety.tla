----------------------------- MODULE RuleSafety -----------------------------
(***************************************************************************)
(* What parse promises of the nodes that it makes and of the rules that it *)
(* keeps, whatever the text is, and whatever the hash values of the names  *)
(* are.                                                                    *)
(***************************************************************************)
EXTENDS RuleChecks

-----------------------------------------------------------------------------
(* Ownership of nodes.                                                      *)

Live == {n \in DOMAIN heap : heap[n].live}
RulesHeld == IF pc = "read" THEN Rule ELSE ToSet(kept)

\* The places where nodes are held: calls, the result of the last one, rules, and
\* other nodes.
Places ==
  {<<"call", k>> : k \in {j \in DOMAIN stack : stack[j].node # NULL}}
  \cup (IF ret = NULL THEN {} ELSE {<<"result">>})
  \cup {<<"rule", r>> : r \in RulesHeld}
  \cup UNION {{<<"node", n, k>> : k \in DOMAIN heap[n].node.nodes} : n \in Live}

HeldAt(p) ==
  CASE p[1] = "call"   -> stack[p[2]].node
    [] p[1] = "result" -> ret
    [] p[1] = "rule"   -> rules[p[2]].expr
    [] p[1] = "node"   -> heap[p[2]].node.nodes[p[3]]

\* Every node that has not been destroyed is held in one place, and none that was:
\* at no failure, and with no unused rule, is a node lost or destroyed twice.
NodesOwned ==
  /\ {HeldAt(p) : p \in Places} = Live
  /\ IsInjective([p \in Places |-> HeldAt(p)])

-----------------------------------------------------------------------------
(* The lists of a rule.                                                     *)

\* All rules have been read.
JustRead == pc = "hash" /\ i = 1

NodesOf(h, S, types) == {n \in S : h[n].node.type \in types}

\* The list holds the nodes of S with these types, each at its index.
Lists(h, S, list, types) ==
  /\ ToSet(list) = NodesOf(h, S, types)
  /\ \A k \in DOMAIN list : h[list[k]].node.index = k - 1

\* The list holds the first reference with each variable.
ListsVariables(h, S, list) ==
  LET refers == {n \in NodesOf(h, S, {"REFERENCE"}) : h[n].node.rvar # NONE}
      Same(n) == {k \in refers : h[k].node.rvar = h[n].node.rvar}
  IN /\ ToSet(list) = {n \in refers : \A k \in Same(n) : n <= k}
     /\ \A n \in refers : \E k \in DOMAIN list :
          list[k] \in Same(n) /\ h[n].node.index = k - 1

\* The lists of the rule r are those of the nodes in S.
ListsAre(h, S, r) ==
  /\ Lists(h, S, r.capts, {"CAPTURE"}) /\ Lists(h, S, r.preds, {"PROGPRED"})
  /\ Lists(h, S, r.codes, {"ACTION", "ERROR"})
  /\ ListsVariables(h, S, r.rvars)

\* What failed leaves entries in the lists of the rule whose nodes are destroyed.
\* No such entry is read when a variable is looked up, and a grammar with one never
\* gets through: without errors, the lists are those of the rule's nodes, each at
\* its index, and each variable has its first reference.
ListsOfRule ==
  /\ Primary /\ At(input) \in Identifier /\ Refers /\ Named =>
       \A k \in DOMAIN rule.rvars : heap[rule.rvars[k]].live
  /\ JustRead /\ errnum = 0 =>
       \A r \in Rule : ListsAre(heap, Family(heap, rules[r].expr), rules[r])

-----------------------------------------------------------------------------
(* Linking: what the grammar says, whatever the table and the walks do.     *)

Definitions(nm) == {r \in Rule : NameOf(r) = nm}
First(nm) == Min(Definitions(nm))
Unique(r) == Definitions(NameOf(r)) = {r}
Defined(nm) == Definitions(nm) # {}

\* The rules that a rule leads to; one that is defined twice leads nowhere.
LeadsTo(r) ==
  IF Unique(r) THEN {First(Target(n)) : n \in {m \in refs[r] : Defined(Target(m))}} ELSE {}

\* The set holds the first rule and whatever its members lead to.
Closed(S) == (NumRules > 0 => 1 \in S) /\ \A r \in S : LeadsTo(r) \subseteq S

\* The references to r in the rules of S.
ReferencesTo(r, S) ==
  {p \in S \X DOMAIN heap : p[2] \in refs[p[1]] /\ Target(p[2]) = NameOf(r)}

Kept == pc \in {"rvars", "capts", "mvars", "done"}

\* A name is found in the hash table if and only if a rule with it has been
\* entered, and then the first one is found, whichever names share its slot.
DefinitionFound ==
  pc \in {"hash", "link"} =>
    \A nm \in Identifier :
      LET entered == {r \in Definitions(nm) : pc # "hash" \/ r < i}
      IN lookup_rulehash(nm) = IF entered = {} THEN NULL ELSE First(nm)

\* The rules that are left are those that the first one leads to: none that is
\* needed is destroyed, and none that is not needed is kept.  So the generator
\* follows no reference to a rule that was destroyed; and the reference count of a
\* rule, which decides what is generated for it, is the number of references to it
\* in the rules that are left.
KeptAreNeeded ==
  Kept => /\ Closed(used) /\ \A S \in SUBSET Rule : Closed(S) => used \subseteq S
          /\ ToSet(kept) = used /\ \A r \in used : heap[rules[r].expr].live
          /\ \A r \in used : \A n \in refs[r] : link[r][n] \in used \cup {NULL}
          /\ \A r \in used :
               ref[r] = IF Unique(r) THEN Cardinality(ReferencesTo(r, {t \in used : Unique(t)}))
                        ELSE -1
=============================================================================
