---------------------------- MODULE PackratSafety ----------------------------
(***************************************************************************)
(* What must hold of the generated parser, whatever the grammar and the    *)
(* input: properties of its positions, of the objects it links through     *)
(* pointers and of its left-recursion bookkeeping.  What a parse computes  *)
(* is compared with the meaning of the grammar in MCPackrat.               *)
(***************************************************************************)
EXTENDS PackratRuntime

Memo(i, r) == table[i].memos[r]
Live(heap) == {x \in DOMAIN heap : heap[x].live}

\* The variables have their types.
TypeOK ==
  /\ input \in Inputs /\ start \in StartRules /\ phase \in Phases
  /\ parses \in Nat /\ pos \in Idx /\ cur \in Idx /\ bufn \in Idx
  /\ table \in [Idx -> TableRec]
  /\ lrstack \in Seq(Nat)
  /\ frames \in Seq(FrameRec)
  /\ chunks \in Seq(ChunkRec) /\ answers \in Seq(AnswerRec)
  /\ entries \in Seq(EntryRec) /\ heads \in Seq(HeadRec)
  /\ walk \in [ans: Nat, i: Nat]
  /\ thunks \in Seq(ThunkRec) /\ work \in Seq(ThunkRec)
  /\ log \in Seq(LogRec)

-----------------------------------------------------------------------------
(* Positions.                                                               *)

\* The parsing position stays inside the buffered input: no statement reads
\* ctx->buffer.p beyond buffer.n, and `buffer.n -= ctx->cur' never wraps.
InBuffer == cur <= bufn /\ pos + bufn <= Len(input)

\* A memoized result found at input position i ends at i or behind it and in the
\* buffer, also when it was found by an earlier pcc_parse: `a->pos - ctx->pos'
\* never wraps, and taking the result never moves backwards.
MemoAhead ==
  \A i \in Idx, r \in Rule :
    Memo(i, r) # NULL => answers[Memo(i, r)].pos \in i .. (pos + bufn)

\* The activations on the call stack began in the order of their positions, none
\* before the buffer and none behind the parsing position: `p - ctx->pos' never
\* wraps.
CallsInOrder ==
  \A k \in 1 .. Len(frames) :
    /\ pos <= frames[k].p /\ frames[k].p <= Here
    /\ \A j \in 1 .. k : frames[j].p <= frames[k].p

-----------------------------------------------------------------------------
(* Objects.                                                                 *)

\* A pointer that may still be followed leads to an object that was not
\* destroyed: memos and held data, seeds and heads of lr entries, heads of
\* growing positions, thunks (a node points into the chunk of another rule),
\* what the activations of pcc_apply_rule hold in locals, and lrstack.
NoDangling ==
  /\ \A i \in Idx :
       /\ table[i].held \subseteq Live(answers)
       /\ {Memo(i, r) : r \in Rule} \ {NULL} \subseteq Live(answers)
       /\ (table[i].heads \cup {table[i].head}) \ {NULL} \subseteq Live(heads)
  /\ \A a \in Live(answers) :
       IF answers[a].type = "LR" THEN answers[a].lr \in Live(entries)
       ELSE answers[a].chunk \in Live(chunks) \cup {NULL}
  /\ \A e \in Live(entries) : /\ entries[e].seed \in Live(chunks) \cup {NULL}
                              /\ entries[e].head \in Live(heads) \cup {NULL}
  /\ \A c \in Live(chunks) : \A k \in DOMAIN chunks[c].thunks :
       chunks[c].thunks[k].chunk \in Live(chunks)
  /\ \A k \in DOMAIN thunks : thunks[k].chunk \in Live(chunks)
  /\ \A k \in DOMAIN frames : /\ frames[k].chunk \in Live(chunks)
                               /\ frames[k].ans \in Live(answers) \cup {NULL}
                               /\ frames[k].head \in Live(heads) \cup {NULL}
  /\ \A k \in DOMAIN lrstack : lrstack[k] \in Live(entries)

\* Every chunk that is not being built has one owner, the answer that will
\* destroy it: no chunk is destroyed twice, and none by an answer while the
\* evaluation that builds it still runs.
OneOwner ==
  \A c \in Live(chunks) :
    LET owners == {a \in Live(answers) : answers[a].type = "CHUNK" /\ answers[a].chunk = c}
        users  == {k \in DOMAIN frames : frames[k].chunk = c}
    IN Cardinality(owners) + Cardinality(users) = 1

\* pcc_destroy leaves nothing behind: every chunk, answer, lr entry and lr head
\* made by any pcc_parse is reached from the table and destroyed, those
\* superseded by longer seeds or by re-evaluations included.
NoLeak ==
  phase = "destroyed" =>
    Live(chunks) \cup Live(answers) \cup Live(entries) \cup Live(heads) = {}

\* Every object is destroyed once: none twice, none while it is used, and none is
\* forgotten.
EachFreedOnce == OneOwner /\ NoLeak

-----------------------------------------------------------------------------
(* Left recursion.                                                          *)

\* The rules whose first application is under way, and the lr entry of each.
FirstCalls  == {k \in DOMAIN frames : frames[k].mode = "first"}
EntryOf(k)  == answers[frames[k].ans].lr

\* lrstack mirrors the call stack: its entries are, in order, those of the rules
\* whose first application is under way, each still memoized as a left-recursion
\* marker at its position.  Whatever a rule applies in between, pop removes the
\* entry that push brought.  (The push that the C stack had no room for is left.)
MarkersOfCalls ==
  /\ \A k \in FirstCalls : /\ Memo(frames[k].p, frames[k].rule) = frames[k].ans
                           /\ answers[frames[k].ans].type = "LR"
  /\ phase # "crash" =>
       /\ \A k \in FirstCalls : \E n \in DOMAIN lrstack : lrstack[n] = EntryOf(k)
       /\ \A n \in DOMAIN lrstack : \E k \in FirstCalls : lrstack[n] = EntryOf(k)
       /\ \A n, m \in DOMAIN lrstack : \A j, k \in FirstCalls :
            lrstack[n] = EntryOf(j) /\ lrstack[m] = EntryOf(k) => (n < m <=> j < k)

\* While a rule's seed grows, the table shows its head at its position, and a
\* position shows a head only while a seed grows there: the lookups by the
\* evaluation see the growth they are part of, and no later application, of this
\* call of pcc_parse or the next, is blocked by a growth that is over.
HeadOfGrowth ==
  /\ \A k \in DOMAIN frames :
       frames[k].mode = "grow" => table[frames[k].p].head = frames[k].head
  /\ \A i \in Idx : table[i].head # NULL =>
       \E k \in DOMAIN frames : frames[k].mode = "grow" /\ frames[k].p = i

\* An involved rule is evaluated anew at most once per turn of the growth it is
\* involved in (README: direct and indirect left-recursive grammar rules are
\* supported): no evaluation runs inside another of the same rule at the same
\* position for the same head.
ReevaluatedOnce ==
  \A j, k \in DOMAIN frames :
    j < k /\ frames[j].mode = "eval" /\ frames[k].mode = "eval" =>
      <<frames[j].rule, frames[j].p>> # <<frames[k].rule, frames[k].p>>

\* Growths at one position are nested as the calls are, and each of them evaluates
\* what it evaluates once per turn.
GrowthInOrder == HeadOfGrowth /\ ReevaluatedOnce

\* The answers that a growing loop is working on.
Growing == {frames[k].ans : k \in {k \in DOMAIN frames : frames[k].mode = "grow"}}

\* The result of answer a, if it is one, is not touched but by the growing loop that
\* works on it, and then gets longer.
ResultStays(a) ==
  answers[a].type = "CHUNK" /\ answers'[a].live =>
    \/ answers'[a] = answers[a]
    \/ a \in Growing /\ answers'[a].pos > answers[a].pos

\* Once a result is memoized it is what every later application gets: neither
\* its end nor its chunk changes until it is destroyed, except that a growing
\* loop replaces it by a strictly longer one.
MemoStable == [][\A a \in Live(answers) : ResultStays(a)]_vars
=============================================================================
