----------------------------- MODULE RuleLinks -----------------------------
(***************************************************************************)
(* What packcc does with the rules of a grammar when they have been read   *)
(* (the function parse behind parse_file_): it enters them in a hash       *)
(* table, links the references, marks what the first rule uses, takes back *)
(* what unused rules refer to, and destroys those.                         *)
(*                                                                         *)
(* The recursive walks see an expression as the references in it.  These   *)
(* nodes are created in the order of the text, and so the walks meet them  *)
(* in the order of their numbers.  Rules are known by their place in the   *)
(* source, which stands for the pointer to the node.                       *)
(***************************************************************************)
EXTENDS ExpressionReading

CONSTANTS
  Hash       \* hash_string: any number for each name

ASSUME HashAssumption == Hash \in [Identifier -> Nat]

VARIABLES
  pc,        \* the loop that parse is in
  i,         \* its index
  refs,      \* the references in each rule
  rulehash,  \* rulehash.p: a rule or NULL in each slot
  ref,       \* rule.ref; -1 marks rules that are defined more than once
  link,      \* reference.rule of each reference of a rule
  used,      \* the rules with rule.used
  walk,      \* the calls of mark_rules_if_used: a rule and its last reference
  kept       \* ctx->rules, when unused rules have been removed

linkVars == <<i, refs, rulehash, ref, link, used, walk, kept>>

Rule == DOMAIN rules
NumRules == Len(rules)
NameOf(r) == rules[r].name
Target(n) == heap[n].node.name

\* The references at and below the node n.
ReferencesIn(n) == {m \in Family(heap, n) : heap[m].node.type = "REFERENCE"}

-----------------------------------------------------------------------------
(* The hash table.                                                          *)

\* The least number of the form 1...1 in binary that is not below x.
populate_bits(x) ==
  LET ones[k \in 0 .. x] == IF k = 0 THEN 0 ELSE 2 * ones[k - 1] + 1
  IN ones[CHOOSE k \in 0 .. x : ones[k] >= x /\ \A h \in 0 .. (k - 1) : ones[h] < x]

Width == populate_bits(NumRules * 4) + 1
Slot  == 0 .. (Width - 1)
Empty == [j \in Slot |-> NULL]

\* The slot that is tried as the k-th for a name.
Tried(nm, k) == (Hash[nm] + k) % Width
Stops_First(nm, k) == k = 0

Stops(nm, k) ==
  \/ rulehash[Tried(nm, k)] = NULL
  \/ NameOf(rulehash[Tried(nm, k)]) = nm

\* Where probing for a name ends.
Probe(nm) ==
  Tried(nm, CHOOSE k \in Slot : Stops(nm, k) /\ \A h \in 0 .. (k - 1) : ~ Stops(nm, h))

lookup_rulehash(nm) == rulehash[Probe(nm)]

-----------------------------------------------------------------------------
InitLinks ==
  /\ pc = "read" /\ i = 1
  /\ refs = <<>> /\ rulehash = Empty /\ ref = <<>> /\ link = <<>>
  /\ used = {} /\ walk = <<>> /\ kept = <<>>

ReadRules ==
  /\ pc = "read" /\ Reading
  /\ UNCHANGED <<linkVars, pc>>

\* parse goes on whether there were errors or not.
ReadEnd ==
  /\ pc = "read" /\ AllRead /\ pc' = "hash"
  /\ refs' = [r \in Rule |-> ReferencesIn(rules[r].expr)]
  /\ rulehash' = Empty
  /\ ref'  = [r \in Rule |-> 0]
  /\ link' = [r \in Rule |-> [n \in ReferencesIn(rules[r].expr) |-> NULL]]
  /\ kept' = [r \in Rule |-> r]
  /\ UNCHANGED <<readVars, i, used, walk>>

\* The next turn of a loop over the rules.
Turn == i <= NumRules /\ i' = i + 1 /\ pc' = pc

\* The end of such a loop.
Leave(to) == pc' = to /\ i' = 1

\* One turn of the loop of make_rulehash.
MakeRulehash ==
  /\ pc = "hash" /\ Turn
  /\ LET j == Probe(NameOf(i)) first == rulehash[j] IN
       \/ /\ first = NULL
          /\ rulehash' = [rulehash EXCEPT ![j] = i] /\ UNCHANGED ref
       \/ /\ first # NULL
          /\ ref' = [ref EXCEPT ![i] = -1, ![first] = -1] /\ UNCHANGED rulehash
  /\ UNCHANGED <<readVars, refs, link, used, walk, kept>>

MakeRulehashEnd ==
  /\ pc = "hash" /\ i > NumRules /\ Leave("link")
  /\ UNCHANGED <<readVars, refs, rulehash, ref, link, used, walk, kept>>

\* How often the references of r, linked as in l, lead to t.
Times(r, l, t) == Cardinality({n \in refs[r] : l[n] = t})

\* link_references: what the references of r are linked to.
LinkOf(r) == [n \in refs[r] |-> lookup_rulehash(Target(n))]

Referred(r, l) ==
  [t \in Rule |-> IF ref[t] >= 0 THEN ref[t] + Times(r, l, t) ELSE ref[t]]

\* A rule that is defined more than once is reported, and its references are
\* left alone.
LinkReferences ==
  /\ pc = "link" /\ Turn
  /\ \/ /\ ref[i] < 0
        /\ errnum' = errnum + 1 /\ UNCHANGED <<link, ref>>
     \/ /\ ref[i] >= 0
        /\ LET l == LinkOf(i) IN
             /\ link' = [link EXCEPT ![i] = l]
             /\ ref' = Referred(i, l)
             /\ errnum' = errnum + Times(i, l, NULL)
  /\ UNCHANGED <<text, input, legal, stack, ret, heap, rule, rules>>
  /\ UNCHANGED <<refs, rulehash, used, walk, kept>>

\* mark_rules_if_used(ctx, ctx->rules.p[0]) is called if there is a rule.
LinkReferencesEnd ==
  /\ pc = "link" /\ i > NumRules /\ Leave("mark")
  /\ IF NumRules > 0 THEN used' = {1} /\ walk' = <<[rule |-> 1, last |-> NULL]>>
                     ELSE UNCHANGED <<used, walk>>
  /\ UNCHANGED <<readVars, refs, rulehash, ref, link, kept>>

Above == Last(walk)
Below == Front(walk)

\* The references that the walk through a rule has not met.
Ahead == {n \in refs[Above.rule] : n > Above.last}

\* Entering a rule marks it, and only then its references are followed.
Enters(t) == t # NULL /\ t \notin used

\* The next reference of the rule that is being walked through.
MarkReference ==
  /\ pc = "mark" /\ walk # <<>> /\ Ahead # {}
  /\ LET t == link[Above.rule][Min(Ahead)]
         walked == Append(Below, [Above EXCEPT !.last = Min(Ahead)])
     IN IF Enters(t)
        THEN used' = used \cup {t} /\ walk' = Append(walked, [rule |-> t, last |-> NULL])
        ELSE walk' = walked /\ UNCHANGED used
  /\ UNCHANGED <<readVars, pc, i, refs, rulehash, ref, link, kept>>

MarkReturn ==
  /\ pc = "mark" /\ walk # <<>> /\ Ahead = {}
  /\ walk' = Below
  /\ UNCHANGED <<readVars, pc, i, refs, rulehash, ref, link, used, kept>>

MarkEnd ==
  /\ pc = "mark" /\ walk = <<>> /\ Leave("unref")
  /\ UNCHANGED <<readVars, refs, rulehash, ref, link, used, walk, kept>>

\* unreference_rules_from_unused_rule: every reference takes one back, as far as
\* there is one.
Unreferred(r) ==
  [t \in Rule |-> IF ref[t] <= 0 THEN ref[t]
                  ELSE IF ref[t] <= Times(r, link[r], t) THEN 0
                  ELSE ref[t] - Times(r, link[r], t)]

UnreferenceRules ==
  /\ pc = "unref" /\ Turn
  /\ ref' = IF i \in used THEN ref ELSE Unreferred(i)
  /\ UNCHANGED <<readVars, refs, rulehash, link, used, walk, kept>>

Unused_Unreferenced == {r \in Rule : r # 1 /\ ref[r] = 0}
Unused == {r \in Rule : r \notin used}

\* The rules of kept that are not unused, moved up.
MovedUp ==
  LET moved[k \in 0 .. Len(kept)] ==
        IF k = 0 THEN <<>>
        ELSE IF kept[k] \in Unused THEN moved[k - 1] ELSE Append(moved[k - 1], kept[k])
  IN moved[Len(kept)]

\* The unused rules are destroyed.
Compact ==
  /\ pc = "unref" /\ i > NumRules /\ Leave("rvars")
  /\ heap' = Destroyed(heap, UNION {Family(heap, rules[r].expr) : r \in Unused})
  /\ kept' = MovedUp
  /\ UNCHANGED <<text, input, legal, stack, ret, rule, rules, errnum>>
  /\ UNCHANGED <<refs, rulehash, ref, link, used, walk>>

Linking ==
  \/ ReadRules \/ ReadEnd
  \/ MakeRulehash \/ MakeRulehashEnd
  \/ LinkReferences \/ LinkReferencesEnd
  \/ MarkReference \/ MarkReturn \/ MarkEnd
  \/ UnreferenceRules \/ Compact
=============================================================================
