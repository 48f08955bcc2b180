-------------------------- MODULE PackratOwnership --------------------------
(***************************************************************************)
(* Who owns the objects of the generated parser.  The entry of the memo    *)
(* table for a position owns answers and heads, an answer owns a chunk or  *)
(* an lr entry, and an activation owns the chunk that it builds.  All else *)
(* is a pointer that must not outlive what it points to.                   *)
(*                                                                         *)
(* pcc_commit_buffer destroys the entries of the positions that were       *)
(* consumed.  So a pointer may lead from an object at one position to one  *)
(* at the same position or behind it, but to none in front.  The predicates*)
(* have as parameters the table t, the heaps of answers (as), lr entries   *)
(* (es), chunks (cs) and heads (hs), and the activations fs.               *)
(***************************************************************************)
EXTENDS PackratInvariant

\* The answers that the entry for position i owns.
Kept(t, i) == t[i].held \cup ({t[i].memos[r] : r \in Rule} \ {NULL})

OwnsChunk(as, a, c) == as[a].type = "CHUNK" /\ as[a].chunk = c
OwnsEntry(as, a, e) == as[a].type = "LR" /\ as[a].lr = e

\* Each answer and each head that was not destroyed is owned at one position.
Housed(t, as, hs) ==
  /\ \A i \in Idx : Kept(t, i) \subseteq Live(as) /\ t[i].heads \subseteq Live(hs)
  /\ \A i, j \in Idx : i # j => /\ Kept(t, i) \cap Kept(t, j) = {}
                                /\ t[i].heads \cap t[j].heads = {}
  /\ \A a \in Live(as) : \E i \in Idx : a \in Kept(t, i)
  /\ \A h \in Live(hs) : \E i \in Idx : h \in t[i].heads

\* What an answer owns was not destroyed, and no other answer owns it.
Owning(as, cs, es) ==
  \A a \in Live(as) :
    /\ as[a].type = "LR"   => as[a].lr \in Live(es)
    /\ as[a].chunk # NULL  => as[a].type = "CHUNK" /\ as[a].chunk \in Live(cs)
    /\ \A b \in Live(as) : a # b =>
         /\ as[a].type = "LR" => ~OwnsEntry(as, b, as[a].lr)
         /\ as[a].chunk # NULL => ~OwnsChunk(as, b, as[a].chunk)

\* Every lr entry and every chunk has an owner; that of the chunk `hand' is yet to
\* come.
Owned(as, cs, es, fs, hand) ==
  /\ \A e \in Live(es) : \E a \in Live(as) : OwnsEntry(as, a, e)
  /\ \A c \in Live(cs) : \/ \E a \in Live(as) : OwnsChunk(as, a, c)
                         \/ \E k \in 1 .. Len(fs) : fs[k].chunk = c
                         \/ c # NULL /\ c = hand

\* A chunk that is being built belongs to one activation.
Unowned(as, cs, c) == c \in Live(cs) /\ \A a \in Live(as) : ~OwnsChunk(as, a, c)
Building(as, cs, fs, hand) ==
  /\ \A k \in 1 .. Len(fs) : Unowned(as, cs, fs[k].chunk)
  /\ \A j, k \in 1 .. Len(fs) : j # k => fs[j].chunk # fs[k].chunk
  /\ hand # NULL => Unowned(as, cs, hand) /\ \A k \in 1 .. Len(fs) : fs[k].chunk # hand

\* The chunk c, the head h is owned at position i or behind it.
ChunkFrom(c, i, t, as) == \E j \in Idx : i <= j /\ \E a \in Kept(t, j) : OwnsChunk(as, a, c)
HeadFrom(h, i, t)      == \E j \in Idx : i <= j /\ h \in t[j].heads

\* The thunks of chunk c point behind position i, or to c itself, as a leaf does.
ThunksFrom(cs, c, i, t, as) ==
  \A k \in 1 .. Len(cs[c].thunks) :
    cs[c].thunks[k].chunk = c \/ ChunkFrom(cs[c].thunks[k].chunk, i, t, as)

\* What is owned at a position points behind it.
EntryForward(e, i, t, as, es) ==
  /\ es[e].seed # NULL => ChunkFrom(es[e].seed, i, t, as)
  /\ es[e].head # NULL => HeadFrom(es[e].head, i, t)
Forward(t, as, cs, es) ==
  \A i \in Idx :
    /\ t[i].head # NULL => HeadFrom(t[i].head, i, t)
    /\ \A a \in Kept(t, i) :
         /\ as[a].chunk # NULL  => ThunksFrom(cs, as[a].chunk, i, t, as)
         /\ as[a].type = "LR"   => EntryForward(as[a].lr, i, t, as, es)

\* What an activation refers to stays until it returns.
Using(fs, t, as, cs) ==
  \A k \in 1 .. Len(fs) :
    /\ ThunksFrom(cs, fs[k].chunk, fs[k].p, t, as)
    /\ fs[k].mode # "eval" => fs[k].ans \in Kept(t, fs[k].p)
    /\ fs[k].head # NULL => HeadFrom(fs[k].head, 0, t)

World(t, as, es, cs, hs, fs, hand) ==
  /\ Housed(t, as, hs)
  /\ Owning(as, cs, es) /\ Owned(as, cs, es, fs, hand) /\ Building(as, cs, fs, hand)
  /\ Forward(t, as, cs, es) /\ Using(fs, t, as, cs)

\* Entry n of the lr stack ls is that of activation k.
Stacked(ls, fs, as, n, k) == fs[k].mode = "first" /\ as[fs[k].ans].lr = ls[n]

\* The lr stack holds the entries of the first applications in their order.
StackOK(ls, fs, as) ==
  /\ \A n \in 1 .. Len(ls) : \E k \in 1 .. Len(fs) : Stacked(ls, fs, as, n, k)
  /\ \A k \in 1 .. Len(fs) : fs[k].mode = "first" =>
       \E n \in 1 .. Len(ls) : Stacked(ls, fs, as, n, k)
  /\ \A n, m \in 1 .. Len(ls) : \A j, k \in 1 .. Len(fs) :
       Stacked(ls, fs, as, n, j) /\ Stacked(ls, fs, as, m, k) => (n < m <=> j < k)

StackSound ==
  /\ \A n \in 1 .. Len(lrstack) : lrstack[n] \in Live(entries)
  /\ phase # "crash" => StackOK(lrstack, frames, answers)

\* The answer of the walk was found at position q, which all activations lead to.
WalkAt(q) == /\ walk.ans \in Kept(table, q)
             /\ \A k \in 1 .. Len(frames) : frames[k].p <= q

\* What pcc_parse itself holds, and the walk of a recursive application.
Outer ==
  /\ phase \notin {"acting", "commit"} => thunks = <<>>
  /\ \A k \in 1 .. Len(thunks) : ChunkFrom(thunks[k].chunk, 0, table, answers)
  /\ phase = "destroyed" => table = [i \in Idx |-> NoEntry]
  /\ phase = "involve" => \E q \in Idx : WalkAt(q)

\* The invariant of ownership, inductive together with IInv.
OInv ==
  /\ World(table, answers, entries, chunks, heads, frames, NULL)
  /\ StackSound /\ Outer

\* What every state of the generated parser satisfies and every step of
\* pcc_apply_rule, the evaluation functions and pcc_parse preserves: positions and
\* links are in order, each object has one owner, and no pointer leads to an object
\* that pcc_commit_buffer may destroy before the one that holds the pointer.
Inductive == IInv /\ OInv
=============================================================================
