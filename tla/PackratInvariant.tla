-------------------------- MODULE PackratInvariant --------------------------
(***************************************************************************)
(* The inductive invariant behind the proofs of PackratProofs.  Its parts  *)
(* say of every state what makes the next step well defined: which         *)
(* statement a call returns to, between which positions every activation   *)
(* and every answer lies, and that a pointer leads to an allocated object. *)
(* Parts that several kinds of step rebuild are predicates of the          *)
(* components they speak about.                                            *)
(***************************************************************************)
EXTENDS PackratSafety

\* An activation that waits for a call will go on at a statement of its function.
Resumable(fs) == \A k \in 1 .. Len(fs) : fs[k].pc \in DOMAIN Code[fs[k].rule]

\* An activation began at lo or behind it; what it saved lies between its
\* beginning and the end n of the buffer that begins at lo.
Within(f, lo, n) ==
  /\ lo <= f.p
  /\ \A x \in Slot : f.p <= lo + f.ploc[x] /\ f.ploc[x] <= n

\* The activations in fs began in the order of their positions.
Sorted(fs) == \A k \in 1 .. Len(fs) : \A j \in 1 .. k : fs[j].p <= fs[k].p

\* The innermost activation of fs, and so each, began at or before `here'.
BeganBy(fs, here) == fs # <<>> => fs[Len(fs)].p <= here

\* An activation that is no re-evaluation has an answer made for its position; as
\* long as it is the first application this is a marker.
Answering(f, as) ==
  /\ f.mode = "eval" => f.ans = NULL
  /\ f.mode # "eval" => f.ans \in 1 .. Len(as) /\ as[f.ans].at = f.p
  /\ f.mode = "first" => as[f.ans].type = "LR"

\* No two activations share an answer.
OwnAnswers(fs) ==
  \A j, k \in 1 .. Len(fs) :
    j # k /\ fs[k].mode # "eval" => fs[j].ans # fs[k].ans

\* The activations in fs are sound in a buffer of n characters that begins at lo,
\* with the parsing position at `here', nc chunks and the answers as.
CallsOK(fs, lo, n, here, nc, as) ==
  /\ \A k \in 1 .. Len(fs) : /\ Within(fs[k], lo, n)
                             /\ fs[k].chunk \in 1 .. nc
                             /\ Answering(fs[k], as)
  /\ Sorted(fs) /\ BeganBy(fs, here) /\ OwnAnswers(fs)

\* The thunks in ths point into a heap with nc chunks.
Pointing(ths, nc) == \A k \in 1 .. Len(ths) : ths[k].chunk \in 1 .. nc

ChunksLinked(cs) == \A c \in 1 .. Len(cs) : Pointing(cs[c].thunks, Len(cs))

\* An answer ends between its beginning and `limit'.
AnswersSpan(as, limit) ==
  \A a \in 1 .. Len(as) : as[a].at <= as[a].pos /\ as[a].pos <= limit

AnswersLinked(as, ne, nc) ==
  \A a \in 1 .. Len(as) : /\ as[a].chunk \in 0 .. nc
                          /\ as[a].type = "LR" => as[a].lr \in 1 .. ne

EntriesLinked(es, nh, nc) ==
  \A e \in 1 .. Len(es) : es[e].head \in 0 .. nh /\ es[e].seed \in 0 .. nc

\* The memos at position i were made at i or behind it.
TableLinked(t, as, nh) ==
  \A i \in Idx :
    /\ t[i].head \in 0 .. nh
    /\ \A r \in Rule : t[i].memos[r] # NULL =>
         t[i].memos[r] \in 1 .. Len(as) /\ i <= as[t[i].memos[r]].at

\* The walk over lrstack on behalf of a recursive application.
Walking ==
  phase = "involve" =>
    /\ walk.ans \in 1 .. Len(answers)
    /\ answers[walk.ans].type = "LR"
    /\ WalkHead \in 1 .. Len(heads)
    /\ walk.i <= Len(lrstack)

Calls ==
  /\ phase \notin {"running", "involve", "crash"} => frames = <<>>
  /\ Resumable(IF phase \in {"running", "crash"} THEN Popped ELSE frames)
  /\ CallsOK(frames, pos, bufn, Here, Len(chunks), answers)

Links ==
  /\ ChunksLinked(chunks)
  /\ Pointing(thunks, Len(chunks)) /\ Pointing(work, Len(chunks))
  /\ AnswersSpan(answers, pos + bufn)
  /\ AnswersLinked(answers, Len(entries), Len(chunks))
  /\ EntriesLinked(entries, Len(heads), Len(chunks))
  /\ TableLinked(table, answers, Len(heads))
  /\ \A k \in 1 .. Len(lrstack) : lrstack[k] \in 1 .. Len(entries)
  /\ Walking

\* The inductive invariant: the heaps and the call stack, together with the
\* types and the buffer, are in a state that pcc_apply_rule, the evaluation
\* functions and pcc_parse lead to and can go on from.
IInv == TypeOK /\ InBuffer /\ Calls /\ Links
=============================================================================
