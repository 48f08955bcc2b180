---------------------------- MODULE PackratProofs ----------------------------
(***************************************************************************)
(* Proofs about the generated parser for every grammar, input and bound.   *)
(***************************************************************************)
EXTENDS PackratInvariant, Integers, TLAPS, FiniteSetTheorems, SequenceTheorems

-----------------------------------------------------------------------------
(* Sequences: one element replaced, one appended, the last taken away.      *)

\* A sequence without its last element.
LEMMA PopType ==
  ASSUME NEW S, NEW s \in Seq(S), s # <<>>, NEW t, t = SubSeq(s, 1, Len(s) - 1)
  PROVE  /\ t \in Seq(S) /\ Len(t) = Len(s) - 1
         /\ \A j \in 1 .. Len(t) : t[j] = s[j]
<1> DEFINE n == Len(s)
           m == Len(t)
<1>1. n \in Nat \ {0} /\ 1 \in Int /\ n - 1 \in Int
  BY EmptySeq
<1>2. \A i \in 1 .. n - 1 : s[i] \in S
  BY ElementOfSeq, <1>1
<1>3. /\ t \in Seq(S)
      /\ m = IF 1 <= n - 1 THEN n - 1 - 1 + 1 ELSE 0
      /\ \A i \in 1 .. n - 1 - 1 + 1 : t[i] = s[1 + i - 1]
  BY <1>1, <1>2, SubSeqProperties
<1> HIDE DEF n, m
<1>4. m = n - 1
  BY <1>1, <1>3
<1>5. ASSUME NEW j \in 1 .. m PROVE t[j] = s[j]
  <2>1. j \in 1 .. n - 1 - 1 + 1 /\ 1 + j - 1 = j
    BY <1>1, <1>4
  <2> QED
    BY <1>3, <2>1
<1> QED
  BY <1>3, <1>4, <1>5 DEF n, m

\* A sequence with one more element.
LEMMA Appended ==
  ASSUME NEW S, NEW s \in Seq(S), NEW x \in S, NEW t, t = Append(s, x)
  PROVE  /\ Len(s) \in Nat /\ t \in Seq(S) /\ Len(t) = Len(s) + 1
         /\ t[Len(s) + 1] = x /\ \A j \in 1 .. Len(s) : t[j] = s[j]
BY AppendProperties, LenProperties

\* A sequence with one element replaced.
LEMMA Replaced ==
  ASSUME NEW S, NEW s \in Seq(S), NEW i \in 1 .. Len(s), NEW x \in S,
         NEW t, t = [s EXCEPT ![i] = x]
  PROVE  /\ Len(s) \in Nat /\ t \in Seq(S) /\ Len(t) = Len(s)
         /\ \A j \in 1 .. Len(s) : t[j] = IF j = i THEN x ELSE s[j]
BY ExceptSeq, LenProperties

\* A sequence that is not empty has a last element.
LEMMA NotEmpty ==
  ASSUME NEW S, NEW s \in Seq(S), s # <<>>
  PROVE  Len(s) \in Nat /\ Len(s) \in 1 .. Len(s) /\ s[Len(s)] \in S
BY EmptySeq, ElementOfSeq

\* Sequences that differ in their last elements only agree without them.
LEMMA PopAgree ==
  ASSUME NEW S, NEW s \in Seq(S), s # <<>>, NEW t \in Seq(S), Len(t) = Len(s),
         \A j \in 1 .. Len(s) - 1 : t[j] = s[j]
  PROVE  SubSeq(t, 1, Len(t) - 1) = SubSeq(s, 1, Len(s) - 1)
<1> DEFINE u == SubSeq(t, 1, Len(t) - 1)
           v == SubSeq(s, 1, Len(s) - 1)
<1>1. t # <<>>
  BY EmptySeq
<1>2. u \in Seq(S) /\ Len(u) = Len(t) - 1 /\ \A j \in 1 .. Len(u) : u[j] = t[j]
  BY <1>1, PopType
<1>3. v \in Seq(S) /\ Len(v) = Len(s) - 1 /\ \A j \in 1 .. Len(v) : v[j] = s[j]
  BY PopType
<1> HIDE DEF u, v
<1>4. u = v
  BY <1>2, <1>3, SeqEqual
<1> QED
  BY <1>4 DEF u, v

-----------------------------------------------------------------------------
(* The call stack.                                                          *)

\* Without its innermost activation.
LEMMA PopCalls ==
  ASSUME NEW fs \in Seq(FrameRec), fs # <<>>,
         NEW gs, gs = SubSeq(fs, 1, Len(fs) - 1),
         NEW lo, NEW n, NEW here, NEW nc, NEW ans,
         CallsOK(fs, lo, n, here, nc, ans)
  PROVE  /\ gs \in Seq(FrameRec)
         /\ CallsOK(gs, lo, n, fs[Len(fs)].p, nc, ans)
<1>1. /\ gs \in Seq(FrameRec) /\ Len(gs) = Len(fs) - 1
      /\ \A j \in 1 .. Len(gs) : gs[j] = fs[j]
  BY PopType
<1>2. Len(fs) \in 1 .. Len(fs) /\ Len(fs) \in Nat /\ Len(gs) \in Nat
  BY <1>1, NotEmpty, LenProperties
<1>3. gs # <<>> => Len(gs) \in 1 .. Len(gs)
  BY <1>1, NotEmpty
<1>4. ASSUME NEW k \in 1 .. Len(gs)
      PROVE  Within(gs[k], lo, n) /\ gs[k].chunk \in 1 .. nc /\ Answering(gs[k], ans)
  <2>1. k \in 1 .. Len(fs) /\ gs[k] = fs[k]
    BY <1>1, <1>2
  <2> QED
    BY <2>1 DEF CallsOK
<1>5. Sorted(gs) /\ BeganBy(gs, fs[Len(fs)].p)
  BY <1>1, <1>2, <1>3 DEF Sorted, BeganBy, CallsOK
<1>6. OwnAnswers(gs)
  BY <1>1, <1>2 DEF OwnAnswers, CallsOK
<1> QED
  BY <1>1, <1>4, <1>5, <1>6 DEF CallsOK

\* The fields of an activation.
LEMMA FrameFields ==
  ASSUME NEW f \in FrameRec
  PROVE  /\ f.rule \in Rule /\ f.p \in Nat /\ f.mode \in {"eval", "first", "grow"}
         /\ f.ans \in Nat /\ f.head \in Nat /\ f.chunk \in Nat /\ f.pc \in Nat
         /\ f.ploc \in [Slot -> Nat] /\ f.nloc \in [Slot -> Nat] /\ f.iloc \in [Slot -> Nat]
BY DEF FrameRec

\* With another innermost activation that keeps what others rely on.
LEMMA PutCalls ==
  ASSUME NEW fs \in Seq(FrameRec), fs # <<>>, NEW f \in FrameRec,
         NEW gs, gs = [fs EXCEPT ![Len(fs)] = f],
         NEW lo, NEW n, NEW here, NEW here1, NEW nc, NEW ans,
         CallsOK(fs, lo, n, here, nc, ans),
         f.p = fs[Len(fs)].p, f.mode = fs[Len(fs)].mode, f.ans = fs[Len(fs)].ans,
         f.chunk = fs[Len(fs)].chunk, Within(f, lo, n), f.p <= here1
  PROVE  /\ gs \in Seq(FrameRec) /\ gs # <<>>
         /\ CallsOK(gs, lo, n, here1, nc, ans)
         /\ SubSeq(gs, 1, Len(gs) - 1) = SubSeq(fs, 1, Len(fs) - 1)
<1> DEFINE m == Len(fs)
<1>1. m \in Nat /\ m \in 1 .. m
  BY NotEmpty
<1>2. /\ gs \in Seq(FrameRec) /\ Len(gs) = m
      /\ \A j \in 1 .. m : gs[j] = IF j = m THEN f ELSE fs[j]
  BY <1>1, ExceptSeq
<1>3. gs # <<>>
  BY <1>1, <1>2, EmptySeq
<1>4. /\ m \in Nat /\ m \in 1 .. m /\ Len(gs) = m /\ gs[m] = f
      /\ \A j \in 1 .. m : j # m => gs[j] = fs[j]
      /\ f.p = fs[m].p /\ f.mode = fs[m].mode /\ f.ans = fs[m].ans /\ f.chunk = fs[m].chunk
  BY <1>1, <1>2
<1>5. /\ \A k \in 1 .. m : Within(fs[k], lo, n) /\ fs[k].chunk \in 1 .. nc /\ Answering(fs[k], ans)
      /\ \A k \in 1 .. m : \A j \in 1 .. k : fs[j].p <= fs[k].p
      /\ \A j, k \in 1 .. m : j # k /\ fs[k].mode # "eval" => fs[j].ans # fs[k].ans
  BY DEF CallsOK, Sorted, OwnAnswers
<1>6. SubSeq(gs, 1, Len(gs) - 1) = SubSeq(fs, 1, Len(fs) - 1)
  <2>1. \A j \in 1 .. m - 1 : gs[j] = fs[j]
    BY ONLY <1>1, <1>4
  <2> QED
    BY <1>2, <2>1, PopAgree
<1> HIDE DEF m
<1>7. Answering(f, ans) /\ f.chunk \in 1 .. nc
  <2>1. Answering(fs[m], ans) /\ fs[m].chunk \in 1 .. nc
    BY <1>4, <1>5
  <2> QED
    BY ONLY <1>4, <2>1 DEF Answering
<1>8. \A j \in 1 .. m : gs[j].p = fs[j].p /\ gs[j].mode = fs[j].mode /\ gs[j].ans = fs[j].ans
  BY <1>4
<1>9. \A k \in 1 .. m : Within(gs[k], lo, n) /\ gs[k].chunk \in 1 .. nc /\ Answering(gs[k], ans)
  <2>1. Within(f, lo, n)
    OBVIOUS
  <2> QED
    BY ONLY <1>4, <1>5, <1>7, <2>1
<1>10. Sorted(gs)
  <2>1. ASSUME NEW k \in 1 .. m, NEW j \in 1 .. k PROVE gs[j].p <= gs[k].p
    <3>1. j \in 1 .. m
      BY <1>4
    <3> QED
      BY <1>5, <1>8, <3>1
  <2> QED
    BY <1>4, <2>1 DEF Sorted
<1>11. BeganBy(gs, here1)
  BY <1>4 DEF BeganBy
<1>12. OwnAnswers(gs)
  BY <1>4, <1>5, <1>8 DEF OwnAnswers
<1> QED
  BY <1>2, <1>3, <1>4, <1>6, <1>9, <1>10, <1>11, <1>12 DEF CallsOK

\* With one more activation.
LEMMA PushCalls ==
  ASSUME NEW fs \in Seq(FrameRec), NEW f \in FrameRec, NEW gs, gs = Append(fs, f),
         NEW lo, NEW n, NEW here, NEW nc, NEW ans,
         CallsOK(fs, lo, n, f.p, nc, ans),
         Within(f, lo, n), f.chunk \in 1 .. nc, Answering(f, ans), f.p <= here,
         \A k \in 1 .. Len(fs) :
           fs[k].mode # "eval" \/ f.mode # "eval" => fs[k].ans # f.ans
  PROVE  /\ gs \in Seq(FrameRec)
         /\ CallsOK(gs, lo, n, here, nc, ans)
         /\ SubSeq(gs, 1, Len(gs) - 1) = fs
<1> DEFINE m == Len(fs)
<1>1. /\ m \in Nat /\ gs \in Seq(FrameRec) /\ Len(gs) = m + 1 /\ gs[m + 1] = f
      /\ gs # <<>> /\ \A j \in 1 .. m : gs[j] = fs[j]
  BY AppendProperties, LenProperties
<1>2. /\ \A k \in 1 .. m : Within(fs[k], lo, n) /\ fs[k].chunk \in 1 .. nc /\ Answering(fs[k], ans)
      /\ \A k \in 1 .. m : \A j \in 1 .. k : fs[j].p <= fs[k].p
      /\ \A j, k \in 1 .. m : j # k /\ fs[k].mode # "eval" => fs[j].ans # fs[k].ans
      /\ \A k \in 1 .. m : fs[k].mode # "eval" \/ f.mode # "eval" => fs[k].ans # f.ans
      /\ fs # <<>> => fs[m].p <= f.p
      /\ \A k \in 1 .. m : fs[k] \in FrameRec
      /\ m # 0 => fs # <<>>
  BY ElementOfSeq, EmptySeq DEF CallsOK, Sorted, OwnAnswers, BeganBy
<1>3. SubSeq(gs, 1, Len(gs) - 1) = fs
  <2> DEFINE u == SubSeq(gs, 1, Len(gs) - 1)
  <2>1. u \in Seq(FrameRec) /\ Len(u) = Len(gs) - 1 /\ \A j \in 1 .. Len(u) : u[j] = gs[j]
    BY <1>1, PopType
  <2> HIDE DEF u
  <2>2. Len(u) = Len(fs) /\ \A j \in 1 .. Len(u) : u[j] = fs[j]
    BY <1>1, <2>1
  <2>3. u = fs
    BY <2>1, <2>2, SeqEqual
  <2> QED
    BY <2>3 DEF u
<1> HIDE DEF m
<1>4. \A j \in 1 .. m + 1 : j \in 1 .. m \/ j = m + 1
  BY <1>1
<1>5. \A k \in 1 .. m + 1 : Within(gs[k], lo, n) /\ gs[k].chunk \in 1 .. nc /\ Answering(gs[k], ans)
  BY <1>1, <1>2, <1>4
<1>6. \A k \in 1 .. m : fs[k].p <= f.p
  <2>1. m # 0 => m \in 1 .. m
    BY <1>1
  <2>2. \A k \in 1 .. m : m # 0 /\ fs[k].p \in Nat /\ fs[m].p \in Nat /\ f.p \in Nat
    BY <1>1, <1>2, <2>1, FrameFields
  <2> QED
    BY <1>1, <1>2, <2>1, <2>2
<1>7. Sorted(gs)
  <2>1. ASSUME NEW k \in 1 .. m + 1, NEW j \in 1 .. k PROVE gs[j].p <= gs[k].p
    <3>1. CASE k \in 1 .. m
      <4>1. j \in 1 .. m
        BY <1>1, <3>1
      <4> QED
        BY <1>1, <1>2, <3>1, <4>1
    <3>2. CASE k = m + 1 /\ j \in 1 .. m
      BY <1>1, <1>6, <3>2
    <3>3. CASE k = m + 1 /\ j = m + 1
      <4>1. f.p \in Nat
        BY DEF FrameRec
      <4> QED
        BY <1>1, <3>3, <4>1
    <3> QED
      BY <1>1, <1>4, <3>1, <3>2, <3>3
  <2> QED
    BY <1>1, <2>1 DEF Sorted
<1>8. BeganBy(gs, here)
  BY <1>1 DEF BeganBy
<1>9. OwnAnswers(gs)
  <2>1. ASSUME NEW j \in 1 .. m + 1, NEW k \in 1 .. m + 1, j # k, gs[k].mode # "eval"
        PROVE  gs[j].ans # gs[k].ans
    BY <1>1, <1>2, <1>4, <2>1
  <2> QED
    BY <1>1, <2>1 DEF OwnAnswers
<1> QED
  BY <1>1, <1>3, <1>5, <1>7, <1>8, <1>9 DEF CallsOK

\* An address in a heap is one in the larger heap.
LEMMA Wider ==
  ASSUME NEW m \in Nat, NEW n \in Nat, m <= n
  PROVE  /\ \A a \in 1 .. m : a \in 1 .. n
         /\ \A a \in 0 .. m : a \in 0 .. n
OBVIOUS

\* Nothing an activation relies on is lost when characters are buffered, when
\* chunks and answers are made, and when the answer x, not its own, changes.
LEMMA WidenCalls ==
  ASSUME NEW fs \in Seq(FrameRec),
         NEW lo, NEW n \in Nat, NEW n1 \in Nat, NEW here, NEW here1,
         NEW nc \in Nat, NEW nc1 \in Nat, NEW ans, NEW as1, NEW x,
         Len(ans) \in Nat, Len(as1) \in Nat,
         CallsOK(fs, lo, n, here, nc, ans),
         n <= n1, nc <= nc1, BeganBy(fs, here1), Len(ans) <= Len(as1),
         \A a \in 1 .. Len(ans) : as1[a].at = ans[a].at /\ (a # x => as1[a].type = ans[a].type),
         \A k \in 1 .. Len(fs) : fs[k].mode # "eval" => fs[k].ans # x
  PROVE  CallsOK(fs, lo, n1, here1, nc1, as1)
<1>1. ASSUME NEW k \in 1 .. Len(fs)
      PROVE  Within(fs[k], lo, n1) /\ fs[k].chunk \in 1 .. nc1 /\ Answering(fs[k], as1)
  <2> DEFINE f == fs[k]
  <2>1. /\ Within(f, lo, n) /\ f.chunk \in 1 .. nc /\ Answering(f, ans)
        /\ f \in FrameRec /\ (f.mode # "eval" => f.ans # x)
    BY ElementOfSeq DEF CallsOK
  <2> HIDE DEF f
  <2>2. f.chunk \in Nat /\ f.ploc \in [Slot -> Nat] /\ f.mode \in {"eval", "first", "grow"}
    BY <2>1, FrameFields
  <2>3. Within(f, lo, n1)
    BY <2>1, <2>2 DEF Within
  <2>4. f.chunk \in 1 .. nc1
    BY <2>1, <2>2
  <2>5. Answering(f, as1)
    <3>1. CASE f.mode = "eval"
      BY <2>1, <3>1 DEF Answering
    <3>2. CASE f.mode # "eval"
      <4>1. f.ans \in 1 .. Len(ans) /\ f.ans # x /\ ans[f.ans].at = f.p
        BY <2>1, <3>2 DEF Answering
      <4>2. as1[f.ans].at = f.p /\ as1[f.ans].type = ans[f.ans].type
        BY <4>1
      <4>3. f.ans \in 1 .. Len(as1)
        BY <4>1, Wider
      <4> QED
        BY <2>1, <3>2, <4>2, <4>3 DEF Answering
    <3> QED
      BY <3>1, <3>2
  <2> QED
    BY <2>3, <2>4, <2>5 DEF f
<1> QED
  BY <1>1 DEF CallsOK

-----------------------------------------------------------------------------
(* Chunks.                                                                  *)

\* What the thunk constructors make.
LEMMA ThunkFields ==
  ASSUME NEW c \in Nat, NEW act \in Nat, NEW s \in Nat, NEW e \in Nat
  PROVE  /\ NodeThunk(c) \in ThunkRec /\ NodeThunk(c).chunk = c
         /\ LeafThunk(c, act, s, e) \in ThunkRec /\ LeafThunk(c, act, s, e).chunk = c
BY DEF NodeThunk, LeafThunk, ThunkRec

\* The fields of a chunk.
LEMMA ChunkFields ==
  ASSUME NEW c \in ChunkRec
  PROVE  /\ c.rule \in Rule /\ c.pos \in Nat /\ c.thunks \in Seq(ThunkRec)
         /\ c.capts \in [CaptIndex -> Span] /\ c.live \in BOOLEAN
BY DEF ChunkRec

\* One more thunk.
LEMMA AppendThunk ==
  ASSUME NEW ths \in Seq(ThunkRec), NEW t \in ThunkRec, NEW nc,
         Pointing(ths, nc), t.chunk \in 1 .. nc
  PROVE  Append(ths, t) \in Seq(ThunkRec) /\ Pointing(Append(ths, t), nc)
<1> DEFINE us == Append(ths, t)
           m == Len(ths)
<1>1. /\ m \in Nat /\ us \in Seq(ThunkRec) /\ Len(us) = m + 1 /\ us[m + 1] = t
      /\ \A j \in 1 .. m : us[j] = ths[j]
  BY AppendProperties, LenProperties
<1>2. \A j \in 1 .. m : ths[j].chunk \in 1 .. nc
  BY DEF Pointing
<1> HIDE DEF us, m
<1>3. \A j \in 1 .. m + 1 : j \in 1 .. m \/ j = m + 1
  BY <1>1
<1>4. \A j \in 1 .. Len(us) : us[j].chunk \in 1 .. nc
  BY <1>1, <1>2, <1>3
<1> QED
  BY <1>1, <1>4 DEF us, Pointing

\* One chunk replaced.
LEMMA PutChunk ==
  ASSUME NEW cs \in Seq(ChunkRec), NEW c \in 1 .. Len(cs), NEW k \in ChunkRec,
         NEW ds, ds = [cs EXCEPT ![c] = k],
         ChunksLinked(cs), Pointing(k.thunks, Len(cs))
  PROVE  ds \in Seq(ChunkRec) /\ Len(ds) = Len(cs) /\ ChunksLinked(ds)
<1>1. /\ ds \in Seq(ChunkRec) /\ Len(ds) = Len(cs)
      /\ \A j \in 1 .. Len(cs) : ds[j] = IF j = c THEN k ELSE cs[j]
  BY ExceptSeq
<1>2. \A j \in 1 .. Len(cs) : Pointing(cs[j].thunks, Len(cs))
  BY DEF ChunksLinked
<1>3. Pointing(k.thunks, Len(cs))
  OBVIOUS
<1>4. \A j \in 1 .. Len(ds) : Pointing(ds[j].thunks, Len(ds))
  BY ONLY <1>1, <1>2, <1>3
<1> QED
  BY <1>1, <1>4 DEF ChunksLinked

\* Recycling a chunk leaves the thunks of all others pointing to chunks.
LEMMA FreeChunkLinked ==
  ASSUME NEW cs \in Seq(ChunkRec), NEW c \in 0 .. Len(cs), ChunksLinked(cs)
  PROVE  LET ds == FreeChunk(cs, c)
         IN ds \in Seq(ChunkRec) /\ Len(ds) = Len(cs) /\ ChunksLinked(ds)
<1>1. CASE c = NULL
  BY <1>1 DEF FreeChunk
<1>2. CASE c # NULL
  <2>1. c \in 1 .. Len(cs)
    BY <1>2, LenProperties DEF NULL
  <2> DEFINE k == [cs[c] EXCEPT !.live = FALSE, !.thunks = <<>>]
  <2>2. cs[c] \in ChunkRec
    BY <2>1, ElementOfSeq
  <2>3. k \in ChunkRec /\ k.thunks = <<>>
    <3>1. <<>> \in Seq(ThunkRec)
      BY EmptySeq
    <3> QED
      BY <2>2, <3>1 DEF ChunkRec
  <2>4. Pointing(k.thunks, Len(cs))
    BY <2>3 DEF Pointing
  <2>5. FreeChunk(cs, c) = [cs EXCEPT ![c] = k]
    BY <1>2 DEF FreeChunk, Dead
  <2> HIDE DEF k
  <2> QED
    BY <2>1, <2>3, <2>4, <2>5, PutChunk
<1> QED
  BY <1>1, <1>2

\* The same calls while one more chunk is made.
LEMMA ChunkMade ==
  ASSUME NEW fs, NEW lo, NEW n, NEW here, NEW nc \in Nat, NEW ans,
         CallsOK(fs, lo, n, here, nc, ans)
  PROVE  CallsOK(fs, lo, n, here, nc + 1, ans)
<1>1. \A c \in 1 .. nc : c \in 1 .. nc + 1
  OBVIOUS
<1> QED
  BY <1>1 DEF CallsOK

\* The activations below the innermost one still wait where they can go on.
LEMMA ResumablePopped ==
  ASSUME NEW fs \in Seq(FrameRec), Resumable(fs)
  PROVE  Resumable(SubSeq(fs, 1, Len(fs) - 1))
<1> DEFINE gs == SubSeq(fs, 1, Len(fs) - 1)
<1>1. CASE fs = <<>>
  <2>1. gs = <<>>
    BY <1>1, EmptySeq, SubSeqEmpty
  <2> QED
    BY <2>1, EmptySeq DEF Resumable
<1>2. CASE fs # <<>>
  <2>1. Len(gs) = Len(fs) - 1 /\ \A j \in 1 .. Len(gs) : gs[j] = fs[j]
    BY <1>2, PopType
  <2>2. Len(fs) \in Nat
    BY LenProperties
  <2> HIDE DEF gs
  <2>3. ASSUME NEW k \in 1 .. Len(gs) PROVE gs[k].pc \in DOMAIN Code[gs[k].rule]
    <3>1. k \in 1 .. Len(fs) /\ gs[k] = fs[k]
      BY <2>1, <2>2
    <3> QED
      BY <3>1 DEF Resumable
  <2> QED
    BY <2>3 DEF Resumable, gs
<1> QED
  BY <1>1, <1>2

-----------------------------------------------------------------------------
(* Calls and returns.                                                       *)

\* An activation made by pcc_apply_rule is one.
LEMMA NewFrameType ==
  ASSUME NEW r \in Rule, NEW p \in Nat, NEW mode \in {"eval", "first", "grow"},
         NEW a \in Nat, NEW h \in Nat, NEW c \in Nat, NEW at \in Nat
  PROVE  NewFrame(r, p, mode, a, h, c, at) \in FrameRec
BY DEF NewFrame, FrameRec

\* A new chunk has no thunks.
LEMMA NewChunkFields ==
  ASSUME NEW r \in Rule, NEW at \in Nat
  PROVE  NewChunk(r, at) \in ChunkRec /\ NewChunk(r, at).thunks = <<>>
<1>1. <<>> \in Seq(ThunkRec)
  BY EmptySeq
<1> QED
  BY <1>1 DEF NewChunk, ChunkRec, Span

\* One more chunk, without thunks.
LEMMA AppendChunk ==
  ASSUME NEW cs \in Seq(ChunkRec), NEW k \in ChunkRec, k.thunks = <<>>,
         ChunksLinked(cs), NEW ds, ds = Append(cs, k)
  PROVE  ds \in Seq(ChunkRec) /\ Len(ds) = Len(cs) + 1 /\ ChunksLinked(ds)
<1> DEFINE m == Len(cs)
<1>1. /\ m \in Nat /\ ds \in Seq(ChunkRec) /\ Len(ds) = m + 1 /\ ds[m + 1] = k
      /\ \A j \in 1 .. m : ds[j] = cs[j]
  BY AppendProperties, LenProperties
<1>2. \A j \in 1 .. m : Pointing(cs[j].thunks, m)
  BY DEF ChunksLinked
<1>3. Pointing(k.thunks, m + 1)
  BY DEF Pointing
<1> HIDE DEF m
<1>4. \A j \in 1 .. m : Pointing(cs[j].thunks, m + 1)
  <2>1. m + 1 \in Nat /\ m <= m + 1
    BY <1>1
  <2> QED
    BY <1>1, <1>2, <2>1, Wider DEF Pointing
<1>5. \A j \in 1 .. m + 1 : j \in 1 .. m \/ j = m + 1
  BY <1>1
<1>6. \A j \in 1 .. m + 1 : Pointing(ds[j].thunks, m + 1)
  BY ONLY <1>1, <1>3, <1>4, <1>5
<1> QED
  BY <1>1, <1>6 DEF ChunksLinked, m

\* An evaluation of a rule at p may have the answer a on top of the activations fs.
MayBegin(fs, ans, p, mode, a) ==
  /\ mode = "eval" => a = NULL
  /\ mode # "eval" => a \in 1 .. Len(ans) /\ ans[a].at = p
  /\ mode = "first" => ans[a].type = "LR"
  /\ \A k \in 1 .. Len(fs) :
       fs[k].mode # "eval" \/ mode # "eval" => fs[k].ans # a

\* c = rule(ctx): the evaluation of a rule begins.
LEMMA EvaluateCalls ==
  ASSUME NEW fs \in Seq(FrameRec), NEW cs \in Seq(ChunkRec), NEW r \in Rule,
         NEW p \in Nat, NEW mode \in {"eval", "first", "grow"}, NEW a \in Nat,
         NEW h \in Nat, NEW at \in Nat,
         pos \in Nat, bufn \in Nat, pos <= p, p <= pos + at, at <= bufn,
         Evaluate(fs, cs, r, p, mode, a, h, at),
         CallsOK(fs, pos, bufn, p, Len(cs), answers'), Resumable(fs), ChunksLinked(cs),
         MayBegin(fs, answers', p, mode, a)
  PROVE  /\ phase' \in {"running", "crash"}
         /\ frames' \in Seq(FrameRec) /\ chunks' \in Seq(ChunkRec)
         /\ Len(chunks') \in Nat /\ Len(cs) <= Len(chunks')
         /\ ChunksLinked(chunks')
         /\ CallsOK(frames', pos, bufn, p, Len(chunks'), answers')
         /\ Resumable(SubSeq(frames', 1, Len(frames') - 1))
<1> DEFINE f == NewFrame(r, p, mode, a, h, Len(cs) + 1, at)
           ds == Append(cs, NewChunk(r, at))
<1>1. Len(cs) \in Nat /\ Len(cs) + 1 \in Nat /\ Len(cs) <= Len(cs) + 1
      /\ Len(cs) <= Len(cs)
  BY LenProperties
<1>2. CASE Len(fs) >= MaxDepth
  <2>1. phase' = "crash" /\ frames' = fs /\ chunks' = cs
    BY <1>2 DEF Evaluate
  <2>2. Resumable(SubSeq(fs, 1, Len(fs) - 1))
    BY ResumablePopped
  <2> QED
    BY <1>1, <2>1, <2>2
<1>3. CASE ~(Len(fs) >= MaxDepth)
  <2>1. phase' = "running" /\ chunks' = ds /\ frames' = Append(fs, f)
    BY <1>3 DEF Evaluate
  <2>10. f \in FrameRec
    BY <1>1, NewFrameType
  <2>2. f.p = p /\ f.mode = mode /\ f.ans = a /\ f.chunk = Len(cs) + 1
    BY DEF NewFrame
  <2>3. ds \in Seq(ChunkRec) /\ Len(ds) = Len(cs) + 1 /\ ChunksLinked(ds)
    BY NewChunkFields, AppendChunk
  <2>4. Within(f, pos, bufn)
    BY DEF Within, NewFrame
  <2> HIDE DEF f, ds
  <2>5. Answering(f, answers')
    BY <2>2 DEF Answering, MayBegin
  <2>6. CallsOK(fs, pos, bufn, f.p, Len(cs) + 1, answers')
    BY <1>1, <2>2, ChunkMade
  <2>7. \A k \in 1 .. Len(fs) :
          fs[k].mode # "eval" \/ f.mode # "eval" => fs[k].ans # f.ans
    BY <2>2 DEF MayBegin
  <2>8. f.chunk \in 1 .. Len(cs) + 1 /\ f.p <= p
    BY <1>1, <2>2
  <2>9. /\ frames' \in Seq(FrameRec)
        /\ CallsOK(frames', pos, bufn, p, Len(cs) + 1, answers')
        /\ SubSeq(frames', 1, Len(frames') - 1) = fs
    BY <2>10, <2>1, <2>2, <2>4, <2>5, <2>6, <2>7, <2>8, PushCalls
  <2> QED
    BY <1>1, <2>1, <2>3, <2>9
<1> QED
  BY <1>2, <1>3

\* A null chunk or a chunk c is handed to the caller.
LEMMA DeliverCalls ==
  ASSUME NEW fs \in Seq(FrameRec), NEW cs \in Seq(ChunkRec), NEW c \in 0 .. Len(cs),
         NEW lo, NEW n, NEW here, NEW ans,
         Deliver(fs, cs, c),
         CallsOK(fs, lo, n, here, Len(cs), ans), Resumable(fs), ChunksLinked(cs),
         thunks \in Seq(ThunkRec), work \in Seq(ThunkRec),
         Pointing(thunks, Len(cs)), Pointing(work, Len(cs))
  PROVE  /\ phase' \in {"error", "acting", "running"}
         /\ phase' # "running" => frames' = <<>>
         /\ frames' \in Seq(FrameRec) /\ chunks' \in Seq(ChunkRec)
         /\ Len(chunks') = Len(cs) /\ ChunksLinked(chunks')
         /\ thunks' \in Seq(ThunkRec) /\ work' \in Seq(ThunkRec)
         /\ Pointing(thunks', Len(cs)) /\ Pointing(work', Len(cs))
         /\ CallsOK(frames', lo, n, here, Len(cs), ans)
         /\ Resumable(SubSeq(frames', 1, Len(frames') - 1))
<1>1. c = NULL \/ c \in 1 .. Len(cs)
  BY LenProperties DEF NULL
<1>2. c \in Nat
  BY LenProperties
<1>3. NodeThunk(c) \in ThunkRec /\ NodeThunk(c).chunk = c
  BY <1>2 DEF NodeThunk, ThunkRec
<1>4. Resumable(SubSeq(fs, 1, Len(fs) - 1))
  BY ResumablePopped
<1>5. CASE fs = <<>>
  <2>1. /\ frames' = fs /\ chunks' = cs /\ work' = thunks'
        /\ thunks' = IF c = NULL THEN thunks ELSE Append(thunks, NodeThunk(c))
        /\ phase' = IF c = NULL THEN "error" ELSE "acting"
    BY <1>5 DEF Deliver
  <2>2. thunks' \in Seq(ThunkRec) /\ Pointing(thunks', Len(cs))
    BY <1>1, <1>3, <2>1, AppendThunk
  <2> QED
    BY <1>4, <1>5, <2>1, <2>2
<1>6. CASE fs # <<>>
  <2> DEFINE m == Len(fs)
             f == fs[m]
             v == IF c = NULL THEN Code[f.rule][f.pc].to ELSE f.pc + 1
             g == [f EXCEPT !.pc = v]
             k == cs[f.chunk]
             l == [k EXCEPT !.thunks = Append(@, NodeThunk(c))]
  <2>1. /\ frames' = [fs EXCEPT ![m] = g]
        /\ chunks' = IF c = NULL THEN cs ELSE [cs EXCEPT ![f.chunk] = l]
        /\ phase' = "running"
        /\ UNCHANGED <<thunks, work>>
    BY <1>6 DEF Deliver
  <2>2. m \in 1 .. m /\ f \in FrameRec
    BY <1>6, NotEmpty
  <2>3. /\ Within(f, lo, n) /\ f.chunk \in 1 .. Len(cs)
        /\ f.p <= here /\ f.pc \in DOMAIN Code[f.rule]
    BY <1>6, <2>2 DEF CallsOK, BeganBy, Resumable
  <2> HIDE DEF m, f
  <2>4. v \in Nat
    <3>1. f.rule \in Rule /\ f.pc \in Nat
      BY <2>2, FrameFields
    <3>2. Code[f.rule] \in Seq(Instr)
      BY <3>1, RuntimeAssumption
    <3>3. f.pc \in 1 .. Len(Code[f.rule])
      BY <2>3, <3>2, LenProperties
    <3>4. Code[f.rule][f.pc] \in Instr
      BY <3>2, <3>3, ElementOfSeq
    <3> QED
      BY <3>1, <3>4 DEF Instr
  <2> HIDE DEF v
  <2>5. g \in FrameRec
    BY <2>2, <2>4 DEF FrameRec
  <2>6. /\ g.p = f.p /\ g.mode = f.mode /\ g.ans = f.ans /\ g.chunk = f.chunk
        /\ g.ploc = f.ploc
    BY <2>2 DEF FrameRec
  <2> HIDE DEF g
  <2>7. Within(g, lo, n)
    BY <2>3, <2>6 DEF Within
  <2>8. /\ frames' \in Seq(FrameRec)
        /\ CallsOK(frames', lo, n, here, Len(cs), ans)
        /\ SubSeq(frames', 1, Len(frames') - 1) = SubSeq(fs, 1, Len(fs) - 1)
    BY <1>6, <2>1, <2>3, <2>5, <2>6, <2>7, PutCalls DEF m, f
  <2>9. chunks' \in Seq(ChunkRec) /\ Len(chunks') = Len(cs) /\ ChunksLinked(chunks')
    <3>1. CASE c = NULL
      BY <2>1, <3>1
    <3>2. CASE c # NULL
      <4>1. k \in ChunkRec /\ Pointing(k.thunks, Len(cs))
        BY <2>3, ElementOfSeq DEF ChunksLinked
      <4>2. k.thunks \in Seq(ThunkRec)
        BY <4>1, ChunkFields
      <4> HIDE DEF k
      <4>3. /\ Append(k.thunks, NodeThunk(c)) \in Seq(ThunkRec)
            /\ Pointing(Append(k.thunks, NodeThunk(c)), Len(cs))
        BY <1>1, <1>3, <3>2, <4>1, <4>2, AppendThunk
      <4>4. l \in ChunkRec /\ l.thunks = Append(k.thunks, NodeThunk(c))
        BY <4>1, <4>3 DEF ChunkRec
      <4> HIDE DEF l
      <4>5. chunks' = [cs EXCEPT ![f.chunk] = l] /\ Pointing(l.thunks, Len(cs))
        BY <2>1, <3>2, <4>3, <4>4
      <4>6. f.chunk \in 1 .. Len(cs) /\ l \in ChunkRec
        BY <2>3, <4>4
      <4>7. PICK i \in 1 .. Len(cs) : i = f.chunk
        BY <4>6
      <4>8. chunks' = [cs EXCEPT ![i] = l]
        BY <4>5, <4>7
      <4> QED
        BY <4>5, <4>6, <4>8, PutChunk
    <3> QED
      BY <3>1, <3>2
  <2> QED
    BY <1>4, <2>1, <2>8, <2>9
<1> QED
  BY <1>5, <1>6

-----------------------------------------------------------------------------
(* The buffer.                                                              *)

\* The input ends before the bound on positions.
LEMMA InputBounded ==
  ASSUME TypeOK
  PROVE  input \in Seq(Char) /\ Len(input) \in Nat /\ Len(input) <= MaxPos /\ MaxPos \in Nat
BY RuntimeAssumption, LenProperties DEF TypeOK

\* Refilling never shortens the buffer nor reads past the input, and gets what is there.
LEMMA Buffering ==
  ASSUME TypeOK, InBuffer, NEW k \in Nat
  PROVE  /\ Refilled(k) \in Nat /\ bufn <= Refilled(k)
         /\ pos + Refilled(k) <= Len(input)
         /\ pos + cur + k <= Len(input) => cur + k <= Refilled(k)
<1> DEFINE l == Len(input)
<1>1. l \in Nat /\ pos \in Nat /\ cur \in Nat /\ bufn \in Nat /\ cur <= bufn /\ pos + bufn <= l
  BY InputBounded DEF TypeOK, Idx, InBuffer
<1> HIDE DEF l
<1>2. Refilled(k) = Larger(bufn, Smaller(cur + k, l - pos))
  BY DEF Refilled, l
<1>3. /\ Refilled(k) \in Nat /\ bufn <= Refilled(k) /\ pos + Refilled(k) <= l
      /\ pos + cur + k <= l => cur + k <= Refilled(k)
  BY <1>1, <1>2 DEF Larger, Smaller
<1> QED
  BY <1>3 DEF l

\* A match of characters looks at all of them, and they are in the input.
LEMMA Comparing ==
  ASSUME TypeOK, InBuffer, NEW cs, Len(cs) \in Nat
  PROVE  /\ Examined(cs) \in Nat
         /\ Matches(cs) => /\ Examined(cs) = Len(cs)
                           /\ pos + cur + Len(cs) <= Len(input)
<1> DEFINE n == Len(cs)
           E == {k \in 1 .. n : \A j \in 1 .. (k - 1) : CharIn(j, cs[j])}
           l == Len(input)
<1>1. /\ l \in Nat /\ pos \in Nat /\ cur \in Nat /\ bufn \in Nat /\ n \in Nat
      /\ cur <= bufn /\ pos + bufn <= l
  BY InputBounded DEF TypeOK, Idx, InBuffer
<1>2. IsFiniteSet(1 .. n) /\ Cardinality(1 .. n) = n
  <2>1. 1 \in Int /\ n \in Int
    BY <1>1
  <2>2. IsFiniteSet(1 .. n) /\ Cardinality(1 .. n) = IF 1 > n THEN 0 ELSE n - 1 + 1
    BY <2>1, FS_Interval
  <2> HIDE DEF n
  <2> QED
    BY <1>1, <2>2
<1>3. Cardinality(E) \in Nat
  <2>1. E \in SUBSET (1 .. n)
    OBVIOUS
  <2> QED
    BY <1>2, <2>1, FS_Subset, FS_CardinalityType
<1>4. Examined(cs) = Cardinality(E)
  BY DEF Examined
<1>5. ASSUME Matches(cs)
      PROVE  Cardinality(E) = n /\ pos + cur + n <= l
  <2>1. \A k \in 1 .. n : CharIn(k, cs[k])
    BY <1>5 DEF Matches
  <2> HIDE DEF n
  <2>2. \A k \in 1 .. n : \A j \in 1 .. (k - 1) : j \in 1 .. n
    BY <1>1
  <2>3. E = 1 .. n
    BY <2>1, <2>2
  <2>4. CASE n = 0
    BY <1>1, <1>2, <2>3, <2>4
  <2>5. CASE n # 0
    <3>1. n \in 1 .. n
      BY <1>1, <2>5
    <3>2. pos + cur + n <= l
      BY <2>1, <3>1 DEF CharIn
    <3> QED
      BY <1>2, <2>3, <3>2
  <2> QED
    BY <2>4, <2>5
<1> QED
  BY <1>3, <1>4, <1>5

-----------------------------------------------------------------------------
(* What the invariant says of the numbers and the heaps.                    *)

\* The numbers that the steps calculate with, and how they are ordered.
LEMMA Numbers ==
  ASSUME IInv
  PROVE  /\ pos \in Nat /\ cur \in Nat /\ bufn \in Nat /\ MaxPos \in Nat
         /\ Here = pos + cur /\ Here \in Nat /\ Here \in Idx
         /\ cur <= bufn /\ Here <= pos + bufn /\ pos + bufn <= MaxPos
         /\ Len(input) \in Nat /\ Len(input) <= MaxPos /\ pos + bufn <= Len(input)
         /\ Len(chunks) \in Nat /\ Len(answers) \in Nat /\ Len(entries) \in Nat
         /\ Len(heads) \in Nat /\ Len(frames) \in Nat
<1> DEFINE l == Len(input)
<1>1. l \in Nat /\ l <= MaxPos /\ MaxPos \in Nat
  BY InputBounded DEF IInv
<1>2. pos \in Nat /\ cur \in Nat /\ bufn \in Nat /\ cur <= bufn /\ pos + bufn <= l
  BY DEF IInv, TypeOK, Idx, InBuffer
<1> HIDE DEF l
<1>3. /\ Here = pos + cur /\ Here \in Nat /\ Here \in Idx /\ Here <= pos + bufn
      /\ pos + bufn <= MaxPos
  BY <1>1, <1>2 DEF Here, Idx
<1>4. /\ Len(chunks) \in Nat /\ Len(answers) \in Nat /\ Len(entries) \in Nat
      /\ Len(heads) \in Nat /\ Len(frames) \in Nat
  BY LenProperties DEF IInv, TypeOK
<1> QED
  BY <1>1, <1>2, <1>3, <1>4 DEF l

\* The fields of an answer.
LEMMA AnswerFields ==
  ASSUME NEW a \in AnswerRec
  PROVE  /\ a.type \in {"LR", "CHUNK"} /\ a.pos \in Nat /\ a.lr \in Nat
         /\ a.chunk \in Nat /\ a.at \in Nat
BY DEF AnswerRec

-----------------------------------------------------------------------------
(* Statements.                                                              *)

\* What is known of the running function.
LEMMA Running ==
  ASSUME IInv, phase = "running", frames # <<>>
  PROVE  /\ Len(frames) \in 1 .. Len(frames) /\ Top = frames[Len(frames)]
         /\ Top \in FrameRec
         /\ Within(Top, pos, bufn) /\ Top.chunk \in 1 .. Len(chunks)
         /\ Answering(Top, answers) /\ Top.p <= Here /\ Resumable(Popped)
         /\ chunks[Top.chunk] \in ChunkRec /\ Pointing(chunks[Top.chunk].thunks, Len(chunks))
         /\ pos \in Nat /\ cur \in Nat /\ bufn \in Nat /\ cur <= bufn
         /\ \A x \in Slot : /\ Top.ploc[x] \in Nat /\ Top.ploc[x] <= bufn
                            /\ Top.p <= pos + Top.ploc[x]
                            /\ Top.nloc[x] \in Nat /\ Top.iloc[x] \in Nat
<1>1. frames \in Seq(FrameRec) /\ chunks \in Seq(ChunkRec)
  BY DEF IInv, TypeOK
<1>2. Len(frames) \in 1 .. Len(frames) /\ Top = frames[Len(frames)] /\ Top \in FrameRec
  BY <1>1, NotEmpty DEF Top
<1>3. /\ Within(Top, pos, bufn) /\ Top.chunk \in 1 .. Len(chunks)
      /\ Answering(Top, answers) /\ Top.p <= Here /\ Resumable(Popped)
  BY <1>2 DEF IInv, Calls, CallsOK, BeganBy
<1>4. chunks[Top.chunk] \in ChunkRec /\ Pointing(chunks[Top.chunk].thunks, Len(chunks))
  BY <1>1, <1>3, ElementOfSeq DEF IInv, Links, ChunksLinked
<1>5. pos \in Nat /\ cur \in Nat /\ bufn \in Nat /\ cur <= bufn
  BY DEF IInv, TypeOK, InBuffer, Idx
<1>6. Top.ploc \in [Slot -> Nat] /\ Top.nloc \in [Slot -> Nat] /\ Top.iloc \in [Slot -> Nat]
  BY <1>2, FrameFields
<1>7. \A x \in Slot : Top.ploc[x] <= bufn /\ Top.p <= pos + Top.ploc[x]
  BY <1>3 DEF Within
<1> QED
  BY <1>2, <1>3, <1>4, <1>5, <1>6, <1>7

\* The statement it has reached.
LEMMA Reading ==
  ASSUME IInv, NEW op, At(op)
  PROVE  /\ phase = "running" /\ frames # <<>>
         /\ Stmt \in Instr /\ Stmt.op = op
         /\ Stmt.op \in {"capt", "mcapt"} => Stmt.num \in CaptIndex
         /\ Top.rule \in Rule /\ Top.pc \in Nat /\ Top.pc + 1 \in Nat
         /\ Top.pc \in DOMAIN Code[Top.rule]
<1>1. phase = "running" /\ frames # <<>> /\ Top.pc \in DOMAIN Code[Top.rule] /\ Stmt.op = op
  BY DEF At
<1>2. Top.rule \in Rule /\ Top.pc \in Nat
  BY <1>1, Running, FrameFields
<1>3. Code[Top.rule] \in Seq(Instr)
  BY <1>2, RuntimeAssumption
<1>4. Top.pc \in 1 .. Len(Code[Top.rule])
  BY <1>1, <1>3, LenProperties
<1>5. Stmt \in Instr
  BY <1>3, <1>4, ElementOfSeq DEF Stmt
<1>6. Stmt.op \in {"capt", "mcapt"} => Stmt.num \in CaptIndex
  BY <1>1, <1>2, RuntimeAssumption DEF Stmt
<1> QED
  BY <1>1, <1>2, <1>5, <1>6

\* A statement moves the running function and the parsing position, buffers
\* characters and changes the contents of chunks.
LEMMA StatementStep ==
  ASSUME IInv, phase = "running", frames # <<>>,
         NEW f \in FrameRec, frames' = [frames EXCEPT ![Len(frames)] = f],
         f.p = Top.p, f.mode = Top.mode, f.ans = Top.ans, f.chunk = Top.chunk,
         Within(f, pos, bufn'),
         bufn' \in Nat, cur' \in Nat, bufn <= bufn', cur' <= bufn',
         pos + bufn' <= Len(input), Top.p <= pos + cur',
         chunks' \in Seq(ChunkRec), Len(chunks') = Len(chunks), ChunksLinked(chunks'),
         log' \in Seq(LogRec),
         UNCHANGED <<envVars, phase, pos, table, lrstack, answers, entries, heads,
                     walk, thunks, work>>
  PROVE  IInv'
<1> DEFINE l == Len(input)
           nc == Len(chunks)
<1>1. /\ l \in Nat /\ l <= MaxPos /\ MaxPos \in Nat /\ pos \in Nat /\ bufn \in Nat
      /\ cur \in Nat /\ nc \in Nat
  BY Numbers
<1>2. /\ frames \in Seq(FrameRec) /\ Top = frames[Len(frames)]
      /\ CallsOK(frames, pos, bufn, Here, nc, answers)
  BY DEF IInv, TypeOK, Calls, Top
<1>3. CallsOK(frames, pos, bufn', Here, nc, answers)
  <2>1. BeganBy(frames, Here)
    BY <1>2 DEF CallsOK
  <2>2. Len(answers) \in Nat
    BY LenProperties DEF IInv, TypeOK
  <2>3. \A k \in 1 .. Len(frames) : frames[k].mode # "eval" => frames[k].ans # NULL
    <3>1. ASSUME NEW k \in 1 .. Len(frames), frames[k].mode # "eval"
          PROVE  frames[k].ans # NULL
      <4>1. Answering(frames[k], answers)
        BY <1>2 DEF CallsOK
      <4>2. frames[k].ans \in 1 .. Len(answers)
        BY <3>1, <4>1 DEF Answering
      <4> QED
        BY <2>2, <4>2 DEF NULL
    <3> QED
      BY <3>1
  <2> HIDE DEF nc
  <2>4. nc <= nc /\ Len(answers) <= Len(answers)
    BY <1>1, <2>2
  <2> QED
    BY <1>1, <1>2, <2>1, <2>2, <2>3, <2>4, WidenCalls
<1>4. /\ frames' \in Seq(FrameRec) /\ frames' # <<>>
      /\ CallsOK(frames', pos, bufn', pos + cur', nc, answers)
      /\ SubSeq(frames', 1, Len(frames') - 1) = Popped
  BY <1>2, <1>3, PutCalls DEF Popped
<1>5. TypeOK'
  <2>1. cur' \in Idx /\ bufn' \in Idx
    <3> HIDE DEF l
    <3>1. pos + bufn' <= l
      BY DEF l
    <3> QED
      BY <1>1, <3>1 DEF Idx
  <2> QED
    BY <1>4, <2>1 DEF IInv, TypeOK, envVars
<1>6. InBuffer'
  BY DEF InBuffer, envVars
<1>7. Calls'
  <2>1. Popped' = Popped /\ Resumable(Popped)
    BY <1>4, Running DEF Popped
  <2>2. phase' = "running" /\ pos' = pos /\ answers' = answers /\ Here' = pos + cur'
    BY DEF Here
  <2>3. CallsOK(frames', pos', bufn', Here', Len(chunks'), answers')
    BY <1>4, <2>2
  <2> QED
    BY <2>1, <2>2, <2>3 DEF Calls
<1>8. Links'
  <2>1. AnswersSpan(answers, pos + bufn')
    <3>1. AnswersSpan(answers, pos + bufn) /\ answers \in Seq(AnswerRec)
      BY DEF IInv, Links, TypeOK
    <3>2. ASSUME NEW a \in 1 .. Len(answers) PROVE answers[a].pos <= pos + bufn'
      <4>1. answers[a] \in AnswerRec /\ answers[a].pos <= pos + bufn
        BY <3>1, ElementOfSeq DEF AnswersSpan
      <4>2. answers[a].pos \in Nat
        BY <4>1, AnswerFields
      <4> QED
        BY <1>1, <4>1, <4>2
    <3> QED
      BY <3>1, <3>2 DEF AnswersSpan
  <2> QED
    BY <2>1 DEF IInv, Links, Walking, WalkHead
<1> QED
  BY <1>5, <1>6, <1>7, <1>8 DEF IInv

\* A statement that only goes on at another one.
LEMMA JumpStep ==
  ASSUME IInv, phase = "running", frames # <<>>, NEW v \in Nat, Jump(v),
         bufn' \in Nat, cur' \in Nat, bufn <= bufn', cur' <= bufn',
         pos + bufn' <= Len(input), Top.p <= pos + cur',
         chunks' \in Seq(ChunkRec), Len(chunks') = Len(chunks), ChunksLinked(chunks'),
         log' \in Seq(LogRec),
         UNCHANGED <<envVars, phase, pos, table, lrstack, answers, entries, heads,
                     walk, thunks, work>>
  PROVE  IInv'
<1> DEFINE f == [Top EXCEPT !.pc = v]
<1>1. frames' = [frames EXCEPT ![Len(frames)] = f]
  BY DEF Jump, Top
<1>2. Top \in FrameRec /\ Within(Top, pos, bufn)
  BY Running
<1>3. /\ f \in FrameRec
      /\ f.p = Top.p /\ f.mode = Top.mode /\ f.ans = Top.ans /\ f.chunk = Top.chunk
      /\ f.ploc = Top.ploc
  BY <1>2 DEF FrameRec
<1> HIDE DEF f
<1>4. Within(f, pos, bufn')
  <2>1. /\ pos <= Top.p
        /\ \A x \in Slot : Top.p <= pos + Top.ploc[x] /\ Top.ploc[x] <= bufn'
    <3>1. \A x \in Slot : /\ Top.p <= pos + Top.ploc[x] /\ Top.ploc[x] <= bufn
                          /\ Top.ploc[x] \in Nat
      BY Running
    <3>2. bufn \in Nat /\ pos <= Top.p
      BY <1>2, Numbers DEF Within
    <3> QED
      BY <3>1, <3>2
  <2> QED
    BY <1>3, <2>1 DEF Within
<1> QED
  BY <1>1, <1>3, <1>4, StatementStep

\* What stays when a statement leaves buffer, position, chunks and log alone.
LEMMA Same ==
  ASSUME IInv, phase = "running", frames # <<>>
  PROVE  /\ bufn \in Nat /\ cur \in Nat /\ bufn <= bufn /\ cur <= bufn
         /\ pos + bufn <= Len(input) /\ Top.p <= pos + cur
         /\ chunks \in Seq(ChunkRec) /\ ChunksLinked(chunks) /\ log \in Seq(LogRec)
<1>1. bufn \in Nat /\ bufn <= bufn
  BY Numbers
<1>2. Top.p <= pos + cur
  BY Running DEF Here
<1> QED
  BY <1>1, <1>2, Numbers DEF IInv, TypeOK, Links

\* A step that moves only the program counter keeps the invariant.
LEMMA ControlStep ==
  ASSUME IInv, NEW op, NEW v \in Nat, Control(op, v)
  PROVE  IInv'
<1>1. phase = "running" /\ frames # <<>> /\ Jump(v)
  BY DEF Control, At
<1>2. /\ bufn' = bufn /\ cur' = cur /\ chunks' = chunks /\ log' = log
      /\ UNCHANGED <<envVars, phase, pos, table, lrstack, answers, entries, heads,
                     walk, thunks, work>>
  BY DEF Control, bufferVars, heapVars, actVars
<1> QED
  BY <1>1, <1>2, Same, JumpStep

\* The targets of the statement being executed.
LEMMA Targets ==
  ASSUME IInv, NEW op, At(op)
  PROVE  Stmt.to \in Nat /\ Stmt.slot \in Slot /\ Stmt.num \in Nat /\ Top.pc + 1 \in Nat
BY Reading DEF Instr

\* The statements that only move the program counter.
LEMMA ControlStatement ==
  ASSUME IInv, MatchPosition \/ GotoStmt \/ BreakIfEmpty \/ BranchOnCount \/ Predicate
  PROVE  IInv'
<1>1. CASE MatchPosition
  <2> DEFINE v == IF pos + cur = Stmt.num THEN Top.pc + 1 ELSE Stmt.to
  <2>1. Control("pos", v)
    BY <1>1 DEF MatchPosition
  <2>2. v \in Nat
    BY <2>1, Targets DEF Control
  <2> QED
    BY <2>1, <2>2, ControlStep
<1>2. CASE GotoStmt
  <2>1. Control("goto", Stmt.to)
    BY <1>2 DEF GotoStmt
  <2>2. Stmt.to \in Nat
    BY <2>1, Targets DEF Control
  <2> QED
    BY <2>1, <2>2, ControlStep
<1>3. CASE BreakIfEmpty
  <2> DEFINE v == IF cur = Top.ploc[Stmt.slot] THEN Stmt.to ELSE Top.pc + 1
  <2>1. Control("ifatp", v)
    BY <1>3 DEF BreakIfEmpty
  <2>2. v \in Nat
    BY <2>1, Targets DEF Control
  <2> QED
    BY <2>1, <2>2, ControlStep
<1>4. CASE BranchOnCount
  <2> DEFINE v == IF Top.iloc[Stmt.slot] >= Stmt.num THEN Stmt.to ELSE Top.pc + 1
  <2>1. Control("ifge", v)
    BY <1>4 DEF BranchOnCount
  <2>2. v \in Nat
    BY <2>1, Targets DEF Control
  <2> QED
    BY <2>1, <2>2, ControlStep
<1>5. CASE Predicate
  <2>1. PICK op \in {"pred", "npred"} : Control(op, Top.pc + 1) \/ Control(op, Stmt.to)
    BY <1>5 DEF Predicate
  <2>2. Top.pc + 1 \in Nat /\ Stmt.to \in Nat
    BY <2>1, Targets DEF Control
  <2> QED
    BY <2>1, <2>2, ControlStep
<1> QED
  BY <1>1, <1>2, <1>3, <1>4, <1>5

\* A statement that changes the locals of a block.
LEMMA SetTopStep ==
  ASSUME IInv, phase = "running", frames # <<>>, NEW f \in FrameRec, SetTop(f),
         f.p = Top.p, f.mode = Top.mode, f.ans = Top.ans, f.chunk = Top.chunk,
         Within(f, pos, bufn)
  PROVE  IInv'
<1>1. /\ bufn' = bufn /\ cur' = cur /\ chunks' = chunks /\ log' = log
      /\ frames' = [frames EXCEPT ![Len(frames)] = f]
      /\ UNCHANGED <<envVars, phase, pos, table, lrstack, answers, entries, heads,
                     walk, thunks, work>>
  BY DEF SetTop, bufferVars, heapVars, actVars
<1> QED
  BY <1>1, Same, StatementStep

\* p = ctx->cur.
LEMMA SavePositionStep ==
  ASSUME IInv, SavePosition PROVE IInv'
<1> DEFINE f == [Top EXCEPT !.ploc[Stmt.slot] = cur, !.pc = @ + 1]
<1>1. At("savep") /\ SetTop(f)
  BY DEF SavePosition
<1>2. phase = "running" /\ frames # <<>> /\ Top.pc + 1 \in Nat /\ Stmt.slot \in Slot
  BY <1>1, Reading, Targets
<1>3. Top \in FrameRec /\ Within(Top, pos, bufn) /\ Top.p <= pos + cur
  BY <1>2, Running DEF Here
<1>4. cur \in Nat /\ cur <= bufn
  BY Numbers
<1>5. f \in FrameRec
  BY <1>2, <1>3, <1>4 DEF FrameRec
<1>6. /\ f.p = Top.p /\ f.mode = Top.mode /\ f.ans = Top.ans /\ f.chunk = Top.chunk
      /\ \A x \in Slot : f.ploc[x] = IF x = Stmt.slot THEN cur ELSE Top.ploc[x]
  BY <1>2, <1>3 DEF FrameRec
<1> HIDE DEF f
<1>7. Within(f, pos, bufn)
  BY <1>3, <1>4, <1>6 DEF Within
<1> QED
  BY <1>1, <1>2, <1>5, <1>6, <1>7, SetTopStep

\* The other locals are numbers without a bound.
LEMMA SaveNumberStep ==
  ASSUME IInv, SaveThunkCount \/ CountZero \/ CountNext PROVE IInv'
<1>1. PICK op : At(op)
  BY DEF SaveThunkCount, CountZero, CountNext
<1>2. phase = "running" /\ frames # <<>> /\ Top.pc + 1 \in Nat /\ Stmt.slot \in Slot
  BY <1>1, Reading, Targets
<1>3. /\ Top \in FrameRec /\ Within(Top, pos, bufn) /\ chunks[Top.chunk] \in ChunkRec
      /\ Top.iloc[Stmt.slot] \in Nat
  BY <1>2, Running
<1>4. CASE SaveThunkCount
  <2> DEFINE n == Len(chunks[Top.chunk].thunks)
             f == [Top EXCEPT !.nloc[Stmt.slot] = n, !.pc = @ + 1]
  <2>1. SetTop(f)
    BY <1>4 DEF SaveThunkCount
  <2>2. n \in Nat
    BY <1>3, ChunkFields, LenProperties
  <2> HIDE DEF n
  <2>3. f \in FrameRec
    BY <1>2, <1>3, <2>2 DEF FrameRec
  <2>4. /\ f.p = Top.p /\ f.mode = Top.mode /\ f.ans = Top.ans /\ f.chunk = Top.chunk
        /\ f.ploc = Top.ploc
    BY <1>3 DEF FrameRec
  <2> HIDE DEF f
  <2>5. Within(f, pos, bufn)
    BY <1>3, <2>4 DEF Within
  <2> QED
    BY <1>2, <2>1, <2>3, <2>4, <2>5, SetTopStep
<1>5. CASE CountZero \/ CountNext
  <2>1. PICK n \in Nat : SetTop([Top EXCEPT !.iloc[Stmt.slot] = n, !.pc = @ + 1])
    <3>1. CASE CountZero
      BY <3>1 DEF CountZero
    <3>2. CASE CountNext
      <4>1. SetTop([Top EXCEPT !.iloc[Stmt.slot] = @ + 1, !.pc = @ + 1])
        BY <3>2 DEF CountNext
      <4>2. Top.iloc[Stmt.slot] + 1 \in Nat
        BY <1>3
      <4> QED
        BY <4>1, <4>2
    <3> QED
      BY <1>5, <3>1, <3>2
  <2> DEFINE f == [Top EXCEPT !.iloc[Stmt.slot] = n, !.pc = @ + 1]
  <2>2. SetTop(f)
    BY <2>1
  <2>3. f \in FrameRec
    BY <1>2, <1>3 DEF FrameRec
  <2>4. /\ f.p = Top.p /\ f.mode = Top.mode /\ f.ans = Top.ans /\ f.chunk = Top.chunk
        /\ f.ploc = Top.ploc
    BY <1>3 DEF FrameRec
  <2> HIDE DEF f
  <2>5. Within(f, pos, bufn)
    BY <1>3, <2>4 DEF Within
  <2> QED
    BY <1>2, <2>2, <2>3, <2>4, <2>5, SetTopStep
<1> QED
  BY <1>4, <1>5

\* ctx->cur = p;
LEMMA RestorePositionStep ==
  ASSUME IInv, RestorePosition PROVE IInv'
<1>1. /\ At("setp") /\ cur' = Top.ploc[Stmt.slot] /\ Jump(Top.pc + 1)
      /\ bufn' = bufn /\ chunks' = chunks /\ log' = log
      /\ UNCHANGED <<envVars, phase, pos, table, lrstack, answers, entries, heads,
                     walk, thunks, work>>
  BY DEF RestorePosition, Fall, bufferVars, heapVars, actVars
<1>2. phase = "running" /\ frames # <<>> /\ Top.pc + 1 \in Nat /\ Stmt.slot \in Slot
  BY <1>1, Reading, Targets
<1>3. cur' \in Nat /\ cur' <= bufn /\ Top.p <= pos + cur'
  BY <1>1, <1>2, Running
<1> QED
  BY <1>1, <1>2, <1>3, Same, JumpStep

\* The fields of a statement that changes the running function's chunk to k.
LEMMA SetChunkStep ==
  ASSUME IInv, NEW op, NEW k \in ChunkRec, SetChunkOf(op, k),
         Pointing(k.thunks, Len(chunks))
  PROVE  IInv'
<1>1. /\ At(op) /\ chunks' = [chunks EXCEPT ![Top.chunk] = k] /\ Jump(Top.pc + 1)
      /\ bufn' = bufn /\ cur' = cur /\ log' = log
      /\ UNCHANGED <<envVars, phase, pos, table, lrstack, answers, entries, heads,
                     walk, thunks, work>>
  BY DEF SetChunkOf, Fall, bufferVars, lrVars, actVars
<1>2. phase = "running" /\ frames # <<>> /\ Top.pc + 1 \in Nat
  BY <1>1, Reading, Targets
<1>3. chunks' \in Seq(ChunkRec) /\ Len(chunks') = Len(chunks) /\ ChunksLinked(chunks')
  <2>1. PICK c \in 1 .. Len(chunks) : c = Top.chunk
    BY <1>2, Running
  <2>2. chunks' = [chunks EXCEPT ![c] = k]
    BY <1>1, <2>1
  <2>3. chunks \in Seq(ChunkRec) /\ ChunksLinked(chunks)
    BY DEF IInv, TypeOK, Links
  <2> QED
    BY <2>1, <2>2, <2>3, PutChunk
<1> QED
  BY <1>1, <1>2, <1>3, Same, JumpStep

\* The chunk of the running function.
LEMMA OwnChunk ==
  ASSUME IInv, NEW op, At(op)
  PROVE  LET k == chunks[Top.chunk]
         IN /\ k \in ChunkRec /\ k.thunks \in Seq(ThunkRec) /\ k.pos \in Nat
            /\ k.capts \in [CaptIndex -> Span] /\ Pointing(k.thunks, Len(chunks))
            /\ Top.chunk \in 1 .. Len(chunks) /\ Top.chunk \in Nat
<1>1. chunks[Top.chunk] \in ChunkRec /\ Pointing(chunks[Top.chunk].thunks, Len(chunks))
  BY Reading, Running
<1>2. Top.chunk \in 1 .. Len(chunks) /\ Top.chunk \in Nat
  BY Reading, Running
<1> QED
  BY <1>1, <1>2, ChunkFields

\* pcc_thunk_array__revert.
LEMMA RevertThunksStep ==
  ASSUME IInv, RevertThunks PROVE IInv'
<1> DEFINE k == chunks[Top.chunk]
           n == Top.nloc[Stmt.slot]
           ths == CutTo(k.thunks, n)
           l == [k EXCEPT !.thunks = ths]
<1>1. SetChunkOf("revert", l)
  BY DEF RevertThunks
<1>2. At("revert")
  BY <1>1 DEF SetChunkOf
<1>3. k \in ChunkRec /\ k.thunks \in Seq(ThunkRec) /\ Pointing(k.thunks, Len(chunks))
  BY <1>2, OwnChunk
<1>4. n \in Nat
  BY <1>2, Reading, Targets, Running
<1> HIDE DEF k, n
<1>5. ths \in Seq(ThunkRec) /\ Pointing(ths, Len(chunks))
  <2> DEFINE m == Len(k.thunks)
             us == SubSeq(k.thunks, 1, n)
  <2>1. m \in Nat
    BY <1>3, LenProperties
  <2>2. CASE m > n
    <3>1. \A i \in 1 .. n : i \in 1 .. m /\ k.thunks[i] \in ThunkRec
      <4>1. \A i \in 1 .. m : k.thunks[i] \in ThunkRec
        BY <1>3, ElementOfSeq
      <4> HIDE DEF m
      <4> QED
        BY <1>4, <2>1, <2>2, <4>1
    <3>2. us \in Seq(ThunkRec) /\ Len(us) = n /\ \A i \in 1 .. n : us[i] = k.thunks[i]
      <4>1. 1 \in Int /\ n \in Int
        BY <1>4
      <4>2. /\ us \in Seq(ThunkRec)
            /\ Len(us) = IF 1 <= n THEN n - 1 + 1 ELSE 0
            /\ \A i \in 1 .. n - 1 + 1 : us[i] = k.thunks[1 + i - 1]
        BY <1>3, <3>1, <4>1, SubSeqProperties
      <4> HIDE DEF us
      <4>3. \A i \in 1 .. n : i \in 1 .. n - 1 + 1 /\ 1 + i - 1 = i
        BY <1>4
      <4> QED
        BY <1>4, <4>2, <4>3
    <3>3. \A i \in 1 .. m : k.thunks[i].chunk \in 1 .. Len(chunks)
      BY <1>3 DEF Pointing
    <3> HIDE DEF us, m
    <3>4. Pointing(us, Len(chunks))
      BY <3>1, <3>2, <3>3 DEF Pointing
    <3> QED
      BY <2>2, <3>2, <3>4 DEF CutTo, us, m
  <2>3. CASE ~(m > n)
    BY <1>3, <2>3 DEF CutTo
  <2> QED
    BY <2>2, <2>3
<1> HIDE DEF ths
<1>6. l \in ChunkRec /\ l.thunks = ths
  BY <1>3, <1>5 DEF ChunkRec
<1> QED
  BY <1>1, <1>5, <1>6, SetChunkStep

\* The range of a capture is recorded.
LEMMA RecordCaptureStep ==
  ASSUME IInv, RecordCapture PROVE IInv'
<1> DEFINE k == chunks[Top.chunk]
           x == [s |-> Top.ploc[Stmt.slot], e |-> cur]
           l == [k EXCEPT !.capts[Stmt.num] = x]
<1>1. SetChunkOf("capt", l)
  BY DEF RecordCapture
<1>2. At("capt")
  BY <1>1 DEF SetChunkOf
<1>3. /\ k \in ChunkRec /\ k.thunks \in Seq(ThunkRec) /\ Pointing(k.thunks, Len(chunks))
      /\ k.capts \in [CaptIndex -> Span]
  BY <1>2, OwnChunk
<1>4. x \in Span /\ Stmt.num \in CaptIndex
  <2>1. Stmt.slot \in Slot
    BY <1>2, Targets
  <2>2. Top.ploc[Stmt.slot] \in Nat /\ cur \in Nat
    BY <1>2, <2>1, Reading, Running
  <2>3. Stmt.num \in CaptIndex
    BY <1>2, Reading
  <2> QED
    BY <2>2, <2>3 DEF Span
<1> HIDE DEF k, x
<1>5. l \in ChunkRec /\ l.thunks = k.thunks
  BY <1>3, <1>4 DEF ChunkRec
<1> HIDE DEF l
<1> QED
  BY <1>1, <1>3, <1>5, SetChunkStep

\* An action is appended as a thunk.
LEMMA ThunkActionStep ==
  ASSUME IInv, ThunkAction PROVE IInv'
<1> DEFINE k == chunks[Top.chunk]
           t == LeafThunk(Top.chunk, Stmt.num, k.pos, cur)
           l == [k EXCEPT !.thunks = Append(@, t)]
<1>1. SetChunkOf("act", l)
  BY DEF ThunkAction
<1>2. At("act")
  BY <1>1 DEF SetChunkOf
<1>3. /\ k \in ChunkRec /\ k.thunks \in Seq(ThunkRec) /\ k.pos \in Nat
      /\ Pointing(k.thunks, Len(chunks))
      /\ Top.chunk \in 1 .. Len(chunks) /\ Top.chunk \in Nat
  BY <1>2, OwnChunk
<1>4. Stmt.num \in Nat /\ cur \in Nat
  BY <1>2, Targets, Numbers
<1>5. t \in ThunkRec /\ t.chunk \in 1 .. Len(chunks)
  BY ZenonT(30), <1>3, <1>4, ThunkFields
<1> HIDE DEF k, t
<1>6. Append(k.thunks, t) \in Seq(ThunkRec) /\ Pointing(Append(k.thunks, t), Len(chunks))
  BY <1>3, <1>5, AppendThunk
<1>7. l \in ChunkRec /\ l.thunks = Append(k.thunks, t)
  BY <1>3, <1>6 DEF ChunkRec
<1> HIDE DEF l
<1> QED
  BY <1>1, <1>6, <1>7, SetChunkStep

\* An execution is a well-formed entry of the log.
LEMMA ExecutedType ==
  ASSUME IInv, NEW kind \in {"action", "error"}, NEW act \in Nat, NEW s \in Nat,
         NEW e \in Nat, NEW c \in 1 .. Len(chunks)
  PROVE  Append(log, Executed(kind, act, s, e, c)) \in Seq(LogRec)
<1>1. pos \in Nat
  BY Numbers
<1>2. chunks[c] \in ChunkRec
  BY ElementOfSeq DEF IInv, TypeOK
<1>3. chunks[c].capts \in [CaptIndex -> Span]
  BY <1>2, ChunkFields
<1>4. ASSUME NEW k \in CaptIndex PROVE Placed(chunks[c].capts[k]) \in Span
  <2> DEFINE x == chunks[c].capts[k]
  <2>1. x \in Span
    BY <1>3
  <2> HIDE DEF x
  <2>2. x.s \in Nat /\ x.e \in Nat
    BY <2>1 DEF Span
  <2>3. Placed(x) \in Span
    BY <1>1, <2>2 DEF Placed, Span
  <2> QED
    BY <2>3 DEF x
<1>5. [k \in CaptIndex |-> Placed(chunks[c].capts[k])] \in [CaptIndex -> Span]
  BY <1>4
<1>6. Executed(kind, act, s, e, c) \in LogRec
  BY <1>1, <1>5 DEF Executed, LogRec
<1> QED
  BY <1>6, AppendProperties DEF IInv, TypeOK

\* An error action is executed.
LEMMA ErrorActionStep ==
  ASSUME IInv, ErrorAction PROVE IInv'
<1>1. /\ At("err") /\ Jump(Top.pc + 1)
      /\ log' = Append(log, Executed("error", Stmt.num, chunks[Top.chunk].pos, cur,
                                     Top.chunk))
      /\ bufn' = bufn /\ cur' = cur /\ chunks' = chunks
      /\ UNCHANGED <<envVars, phase, pos, table, lrstack, answers, entries, heads,
                     walk, thunks, work>>
  BY DEF ErrorAction, Fall, bufferVars, heapVars
<1>2. phase = "running" /\ frames # <<>> /\ Top.pc + 1 \in Nat /\ Stmt.num \in Nat
  BY <1>1, Reading, Targets
<1>3. chunks[Top.chunk].pos \in Nat /\ cur \in Nat /\ Top.chunk \in 1 .. Len(chunks)
  BY <1>1, OwnChunk, Numbers
<1>4. log' \in Seq(LogRec)
  BY <1>1, <1>2, <1>3, ExecutedType
<1> QED
  BY <1>1, <1>2, <1>4, Same, JumpStep

\* A comparison with the input.
LEMMA CompareStep ==
  ASSUME IInv, NEW op, At(op), NEW cs, Len(cs) \in Nat, Compare(cs)
  PROVE  IInv'
<1> DEFINE l == Len(input)
           n == Len(cs)
           v == IF Matches(cs) THEN Top.pc + 1 ELSE Stmt.to
<1>1. /\ bufn' = Refilled(Examined(cs))
      /\ cur' = (IF Matches(cs) THEN cur + n ELSE cur)
      /\ Jump(v)
      /\ chunks' = chunks /\ log' = log
      /\ UNCHANGED <<envVars, phase, pos, table, lrstack, answers, entries, heads,
                     walk, thunks, work>>
  BY DEF Compare, heapVars, actVars
<1>2. phase = "running" /\ frames # <<>> /\ v \in Nat
  BY Reading, Targets
<1>3. TypeOK /\ InBuffer
  BY DEF IInv
<1>4. /\ Examined(cs) \in Nat
      /\ Matches(cs) => Examined(cs) = n /\ pos + cur + n <= l
  BY <1>3, Comparing
<1>5. /\ bufn' \in Nat /\ bufn <= bufn' /\ pos + bufn' <= l
      /\ pos + cur + Examined(cs) <= l => cur + Examined(cs) <= bufn'
  BY <1>1, <1>3, <1>4, Buffering
<1>6. cur \in Nat /\ bufn \in Nat /\ cur <= bufn /\ pos \in Nat /\ n \in Nat
  BY Numbers
<1>7. Top.p <= pos + cur /\ Top.p \in Nat
  <2>1. Top \in FrameRec /\ Top.p <= pos + cur
    BY <1>2, Running DEF Here
  <2> QED
    BY <2>1, FrameFields
<1> HIDE DEF l, n
<1>8. cur' \in Nat /\ cur' <= bufn' /\ Top.p <= pos + cur'
  <2>1. CASE Matches(cs)
    BY <1>1, <1>4, <1>5, <1>6, <1>7, <2>1
  <2>2. CASE ~Matches(cs)
    BY <1>1, <1>5, <1>6, <1>7, <2>2
  <2> QED
    BY <2>1, <2>2
<1>9. pos + bufn' <= Len(input)
  BY <1>5 DEF l
<1> HIDE DEF v
<1> QED
  BY <1>1, <1>2, <1>5, <1>8, <1>9, Same, JumpStep

\* Characters, classes, captures and marker variables are matched.
LEMMA MatchStep ==
  ASSUME IInv, MatchChars \/ MatchCapture \/ MatchMarker PROVE IInv'
<1>1. CASE MatchChars
  <2>1. At("match") /\ Compare(Stmt.chars)
    BY <1>1 DEF MatchChars
  <2>2. Stmt.chars \in Seq(SUBSET Char)
    BY <2>1, Reading DEF Instr
  <2>3. Len(Stmt.chars) \in Nat
    BY <2>2, LenProperties
  <2> QED
    BY <2>1, <2>3, CompareStep
<1>2. CASE MatchCapture
  <2> DEFINE x == chunks[Top.chunk].capts[Stmt.num]
             n == IF x.e > x.s THEN x.e - x.s ELSE 0
             cs == CapturedText(x)
  <2>1. At("mcapt") /\ Compare(cs)
    BY <1>2 DEF MatchCapture
  <2>2. Stmt.num \in CaptIndex /\ chunks[Top.chunk].capts \in [CaptIndex -> Span]
    BY <2>1, Reading, OwnChunk
  <2>3. x \in Span
    BY <2>2
  <2> HIDE DEF x
  <2>4. n \in Nat
    BY <2>3 DEF Span
  <2>5. cs = [k \in 1 .. n |-> {input[pos + x.s + k]}]
    BY DEF CapturedText
  <2> HIDE DEF n, cs
  <2>6. Len(cs) \in Nat
    BY <2>4, <2>5
  <2> QED
    BY <2>1, <2>6, CompareStep
<1>3. CASE MatchMarker
  <2>1. PICK v \in DOMAIN MarkerText : At("mvar") /\ Compare(MarkerText[v])
    BY <1>3 DEF MatchMarker, CompareMarker
  <2>2. MarkerText[v] \in Seq(SUBSET Char)
    BY RuntimeAssumption
  <2>3. Len(MarkerText[v]) \in Nat
    BY <2>2, LenProperties
  <2> QED
    BY <2>1, <2>3, CompareStep
<1> QED
  BY <1>1, <1>2, <1>3

\* No statement of an evaluation function breaks the invariant.
LEMMA StatementInv ==
  ASSUME IInv, Statement PROVE IInv'
BY ControlStatement, SavePositionStep, SaveNumberStep, RestorePositionStep,
   RevertThunksStep, RecordCaptureStep, ThunkActionStep, ErrorActionStep, MatchStep
   DEF Statement

-----------------------------------------------------------------------------
(* The heaps of answers and lr entries, the table and lrstack.              *)

\* They link to each other, to nh heads and nc chunks, and no answer ends
\* behind `limit'.
HeapsOK(ans, es, nh, t, st, limit, nc) ==
  /\ ans \in Seq(AnswerRec) /\ es \in Seq(EntryRec)
  /\ t \in [Idx -> TableRec] /\ st \in Seq(Nat)
  /\ AnswersSpan(ans, limit) /\ AnswersLinked(ans, Len(es), nc)
  /\ EntriesLinked(es, nh, nc)
  /\ TableLinked(t, ans, nh)
  /\ \A k \in 1 .. Len(st) : st[k] \in 1 .. Len(es)

\* The links between the heaps, as one formula over their values.
LEMMA HeapsNow ==
  ASSUME IInv
  PROVE  HeapsOK(answers, entries, Len(heads), table, lrstack, pos + bufn, Len(chunks))
BY DEF HeapsOK, IInv, TypeOK, Links

\* One more answer, b.
LEMMA AppendAnswer ==
  ASSUME NEW ans \in Seq(AnswerRec), NEW limit, NEW ne, NEW nc,
         AnswersSpan(ans, limit), AnswersLinked(ans, ne, nc),
         NEW b \in AnswerRec, b.at <= b.pos, b.pos <= limit, b.chunk \in 0 .. nc,
         b.type = "LR" => b.lr \in 1 .. ne,
         NEW bs \in Seq(AnswerRec), Len(bs) = Len(ans) + 1, bs[Len(ans) + 1] = b,
         \A a \in 1 .. Len(ans) : bs[a] = ans[a]
  PROVE  AnswersSpan(bs, limit) /\ AnswersLinked(bs, ne, nc)
<1> DEFINE m == Len(ans)
<1>1. /\ m \in Nat /\ Len(bs) = m + 1 /\ bs[m + 1] = b
      /\ \A j \in 1 .. m : bs[j] = ans[j]
  BY LenProperties
<1>2. /\ \A a \in 1 .. m : ans[a].at <= ans[a].pos /\ ans[a].pos <= limit
      /\ \A a \in 1 .. m : ans[a].chunk \in 0 .. nc /\ (ans[a].type = "LR" => ans[a].lr \in 1 .. ne)
  BY DEF AnswersSpan, AnswersLinked
<1> HIDE DEF m
<1>3. \A j \in 1 .. m + 1 : j \in 1 .. m \/ j = m + 1
  BY <1>1
<1>4. \A a \in 1 .. m + 1 : bs[a].at <= bs[a].pos /\ bs[a].pos <= limit
  BY <1>1, <1>2, <1>3
<1>5. \A a \in 1 .. m + 1 : bs[a].chunk \in 0 .. nc /\ (bs[a].type = "LR" => bs[a].lr \in 1 .. ne)
  BY <1>1, <1>2, <1>3
<1> QED
  BY <1>1, <1>4, <1>5 DEF AnswersSpan, AnswersLinked

\* One answer replaced.
LEMMA PutAnswer ==
  ASSUME NEW ans \in Seq(AnswerRec), NEW limit, NEW ne, NEW nc,
         AnswersSpan(ans, limit), AnswersLinked(ans, ne, nc),
         NEW a \in 1 .. Len(ans),
         NEW b \in AnswerRec, b.at <= b.pos, b.pos <= limit, b.chunk \in 0 .. nc,
         b.type = "LR" => b.lr \in 1 .. ne,
         NEW bs, bs = [ans EXCEPT ![a] = b]
  PROVE  /\ bs \in Seq(AnswerRec) /\ Len(bs) = Len(ans) /\ bs[a] = b
         /\ \A x \in 1 .. Len(ans) : x # a => bs[x] = ans[x]
         /\ AnswersSpan(bs, limit) /\ AnswersLinked(bs, ne, nc)
<1>0. ans \in Seq(AnswerRec) /\ b \in AnswerRec /\ bs = [ans EXCEPT ![a] = b] /\ a \in 1 .. Len(ans)
  OBVIOUS
<1>1. /\ bs \in Seq(AnswerRec) /\ Len(bs) = Len(ans)
      /\ \A j \in 1 .. Len(ans) : bs[j] = IF j = a THEN b ELSE ans[j]
  BY ONLY <1>0, Replaced
<1>2. /\ \A x \in 1 .. Len(ans) : ans[x].at <= ans[x].pos /\ ans[x].pos <= limit
      /\ \A x \in 1 .. Len(ans) : ans[x].chunk \in 0 .. nc /\ (ans[x].type = "LR" => ans[x].lr \in 1 .. ne)
  BY DEF AnswersSpan, AnswersLinked
<1>3. b.at <= b.pos /\ b.pos <= limit /\ b.chunk \in 0 .. nc /\ (b.type = "LR" => b.lr \in 1 .. ne)
  OBVIOUS
<1>4. \A x \in 1 .. Len(bs) : bs[x].at <= bs[x].pos /\ bs[x].pos <= limit
  BY ONLY <1>1, <1>2, <1>3
<1>5. \A x \in 1 .. Len(bs) : bs[x].chunk \in 0 .. nc /\ (bs[x].type = "LR" => bs[x].lr \in 1 .. ne)
  BY ONLY <1>1, <1>2, <1>3
<1> QED
  BY <1>1, <1>4, <1>5 DEF AnswersSpan, AnswersLinked

\* The answer a, which ends at `end' now, gets the chunk c.
LEMMA WithChunkAnswers ==
  ASSUME NEW ans \in Seq(AnswerRec), NEW limit, NEW ne, NEW nc \in Nat,
         AnswersSpan(ans, limit), AnswersLinked(ans, ne, nc),
         NEW a \in 1 .. Len(ans), NEW c \in 0 .. nc,
         NEW bs, bs = WithChunk(ans, a, c)
  PROVE  /\ bs \in Seq(AnswerRec) /\ Len(bs) = Len(ans) + 1
         /\ \A x \in 1 .. Len(ans) : bs[x].at = ans[x].at /\ (x # a => bs[x] = ans[x])
         /\ AnswersSpan(bs, limit) /\ AnswersLinked(bs, ne, nc)
<1> DEFINE b == [ans[a] EXCEPT !.type = "CHUNK", !.lr = NULL, !.chunk = c]
           d == ans[a]
           ds == [ans EXCEPT ![a] = b]
<1>1. /\ d \in AnswerRec /\ d.at <= d.pos /\ d.pos <= limit /\ d.chunk \in 0 .. nc
      /\ d.type = "LR" => d.lr \in 1 .. ne
  BY ElementOfSeq DEF AnswersSpan, AnswersLinked
<1>2. /\ b \in AnswerRec /\ b.at = d.at /\ b.pos = d.pos /\ b.chunk = c /\ b.type = "CHUNK"
  <2>1. c \in Nat /\ NULL \in Nat
    BY DEF NULL
  <2> HIDE DEF d
  <2> QED
    BY <1>1, <2>1 DEF AnswerRec, d
<1>3. bs = Append(ds, d)
  BY DEF WithChunk
<1> HIDE DEF b, d
<1>4. /\ ds \in Seq(AnswerRec) /\ Len(ds) = Len(ans) /\ ds[a] = b
      /\ \A x \in 1 .. Len(ans) : x # a => ds[x] = ans[x]
      /\ AnswersSpan(ds, limit) /\ AnswersLinked(ds, ne, nc)
  <2>1. b.at <= b.pos /\ b.pos <= limit /\ b.chunk \in 0 .. nc /\ b.type # "LR"
    BY <1>1, <1>2
  <2> QED
    BY <1>2, <2>1, PutAnswer
<1> HIDE DEF ds
<1>5. /\ bs \in Seq(AnswerRec) /\ Len(bs) = Len(ds) + 1
      /\ \A x \in 1 .. Len(ds) : bs[x] = ds[x]
      /\ AnswersSpan(bs, limit) /\ AnswersLinked(bs, ne, nc)
  <2>1. ds \in Seq(AnswerRec) /\ d \in AnswerRec /\ bs = Append(ds, d)
    BY <1>1, <1>3, <1>4
  <2>2. /\ bs \in Seq(AnswerRec) /\ Len(bs) = Len(ds) + 1 /\ bs[Len(ds) + 1] = d
        /\ \A x \in 1 .. Len(ds) : bs[x] = ds[x]
    BY ONLY <2>1, Appended
  <2>3. AnswersSpan(bs, limit) /\ AnswersLinked(bs, ne, nc)
    BY ONLY <1>1, <1>4, <2>2, AppendAnswer
  <2> QED
    BY <2>2, <2>3
<1>6. bs[a] = b
  BY <1>4, <1>5
<1>7. \A x \in 1 .. Len(ans) : bs[x].at = ans[x].at /\ (x # a => bs[x] = ans[x])
  <2>1. b.at = ans[a].at
    BY <1>2 DEF d
  <2> QED
    BY <1>4, <1>5, <1>6, <2>1
<1> QED
  BY <1>4, <1>5, <1>6, <1>7 DEF b

\* More lr entries and chunks.
LEMMA WidenAnswers ==
  ASSUME NEW ans, NEW ne \in Nat, NEW ne1 \in Nat, NEW nc \in Nat, NEW nc1 \in Nat,
         ne <= ne1, nc <= nc1, AnswersLinked(ans, ne, nc)
  PROVE  AnswersLinked(ans, ne1, nc1)
<1>1. /\ \A x \in 1 .. ne : x \in 1 .. ne1
      /\ \A x \in 0 .. nc : x \in 0 .. nc1
  BY Wider
<1> QED
  BY <1>1 DEF AnswersLinked

\* Entries stay linked when heads and chunks are added.
LEMMA WidenEntries ==
  ASSUME NEW es, NEW nh \in Nat, NEW nh1 \in Nat, NEW nc \in Nat, NEW nc1 \in Nat,
         nh <= nh1, nc <= nc1, EntriesLinked(es, nh, nc)
  PROVE  EntriesLinked(es, nh1, nc1)
<1>1. /\ \A x \in 0 .. nh : x \in 0 .. nh1
      /\ \A x \in 0 .. nc : x \in 0 .. nc1
  BY Wider
<1> QED
  BY <1>1 DEF EntriesLinked

\* More heads and answers.
LEMMA WidenTable ==
  ASSUME NEW t, NEW ans, NEW bs, NEW nh \in Nat, NEW nh1 \in Nat,
         Len(ans) \in Nat, Len(bs) \in Nat, nh <= nh1, Len(ans) <= Len(bs),
         \A a \in 1 .. Len(ans) : bs[a].at = ans[a].at,
         TableLinked(t, ans, nh)
  PROVE  TableLinked(t, bs, nh1)
<1>1. /\ \A x \in 0 .. nh : x \in 0 .. nh1
      /\ \A x \in 1 .. Len(ans) : x \in 1 .. Len(bs)
  BY Wider
<1> QED
  BY <1>1 DEF TableLinked

\* One table entry replaced.
LEMMA PutTable ==
  ASSUME NEW t \in [Idx -> TableRec], NEW ans, NEW nh, TableLinked(t, ans, nh),
         NEW i \in Idx, NEW e \in TableRec, e.head \in 0 .. nh,
         \A r \in Rule : e.memos[r] # NULL =>
           e.memos[r] \in 1 .. Len(ans) /\ i <= ans[e.memos[r]].at,
         NEW u, u = [t EXCEPT ![i] = e]
  PROVE  u \in [Idx -> TableRec] /\ TableLinked(u, ans, nh)
<1>1. \A j \in Idx : u[j] = IF j = i THEN e ELSE t[j]
  OBVIOUS
<1>2. ASSUME NEW j \in Idx
      PROVE  /\ u[j].head \in 0 .. nh
             /\ \A r \in Rule : u[j].memos[r] # NULL =>
                  u[j].memos[r] \in 1 .. Len(ans) /\ j <= ans[u[j].memos[r]].at
  <2>1. CASE j = i
    BY <1>1, <2>1
  <2>2. CASE j # i
    <3>1. u[j] = t[j]
      BY <1>1, <2>2
    <3> QED
      BY <3>1 DEF TableLinked
  <2> QED
    BY <2>1, <2>2
<1> QED
  BY <1>2 DEF TableLinked

\* The fields of a table entry.
LEMMA TableFields ==
  ASSUME NEW e \in TableRec
  PROVE  /\ e.head \in Nat /\ e.memos \in [Rule -> Nat] /\ e.held \in SUBSET Nat
         /\ e.heads \in SUBSET Nat
BY DEF TableRec

\* An answer joins those held at p.
LEMMA HoldTable ==
  ASSUME NEW t \in [Idx -> TableRec], NEW ans, NEW nh, TableLinked(t, ans, nh),
         NEW p \in Idx, NEW a \in Nat,
         NEW u, u = [t EXCEPT ![p].held = @ \cup {a}]
  PROVE  /\ u \in [Idx -> TableRec] /\ TableLinked(u, ans, nh)
<1> DEFINE d == t[p]
           e == [d EXCEPT !.held = @ \cup {a}]
<1>1. d \in TableRec /\ u = [t EXCEPT ![p] = e]
  OBVIOUS
<1>2. /\ d.head \in 0 .. nh
      /\ \A r \in Rule : d.memos[r] # NULL => d.memos[r] \in 1 .. Len(ans) /\ p <= ans[d.memos[r]].at
  BY DEF TableLinked
<1> HIDE DEF d
<1>3. e \in TableRec /\ e.head = d.head /\ e.memos = d.memos
  BY <1>1 DEF TableRec
<1> HIDE DEF e
<1>4. /\ e.head \in 0 .. nh
      /\ \A r \in Rule : e.memos[r] # NULL => e.memos[r] \in 1 .. Len(ans) /\ p <= ans[e.memos[r]].at
  BY <1>2, <1>3
<1> QED
  BY <1>1, <1>3, <1>4, PutTable

\* Position p shows the head h.
LEMMA HeadTable ==
  ASSUME NEW t \in [Idx -> TableRec], NEW ans, NEW nh \in Nat, TableLinked(t, ans, nh),
         NEW p \in Idx, NEW h \in 0 .. nh,
         NEW u, u = [t EXCEPT ![p].head = h]
  PROVE  /\ u \in [Idx -> TableRec] /\ TableLinked(u, ans, nh)
<1> DEFINE d == t[p]
           e == [d EXCEPT !.head = h]
<1>1. d \in TableRec /\ u = [t EXCEPT ![p] = e] /\ h \in Nat
  OBVIOUS
<1>2. \A r \in Rule : d.memos[r] # NULL => d.memos[r] \in 1 .. Len(ans) /\ p <= ans[d.memos[r]].at
  BY DEF TableLinked
<1> HIDE DEF d
<1>3. e \in TableRec /\ e.head = h /\ e.memos = d.memos
  BY <1>1 DEF TableRec
<1> HIDE DEF e
<1>4. \A r \in Rule : e.memos[r] # NULL => e.memos[r] \in 1 .. Len(ans) /\ p <= ans[e.memos[r]].at
  BY <1>2, <1>3
<1> QED
  BY <1>1, <1>3, <1>4, PutTable

\* A head is kept at p.
LEMMA KeepHeadTable ==
  ASSUME NEW t \in [Idx -> TableRec], NEW ans, NEW nh, TableLinked(t, ans, nh),
         NEW p \in Idx, NEW h \in Nat,
         NEW u, u = [t EXCEPT ![p].heads = @ \cup {h}]
  PROVE  /\ u \in [Idx -> TableRec] /\ TableLinked(u, ans, nh)
<1> DEFINE d == t[p]
           e == [d EXCEPT !.heads = @ \cup {h}]
<1>1. d \in TableRec /\ u = [t EXCEPT ![p] = e]
  OBVIOUS
<1>2. /\ d.head \in 0 .. nh
      /\ \A r \in Rule : d.memos[r] # NULL => d.memos[r] \in 1 .. Len(ans) /\ p <= ans[d.memos[r]].at
  BY DEF TableLinked
<1> HIDE DEF d
<1>3. e \in TableRec /\ e.head = d.head /\ e.memos = d.memos
  BY <1>1 DEF TableRec
<1> HIDE DEF e
<1>4. /\ e.head \in 0 .. nh
      /\ \A r \in Rule : e.memos[r] # NULL => e.memos[r] \in 1 .. Len(ans) /\ p <= ans[e.memos[r]].at
  BY <1>2, <1>3
<1> QED
  BY <1>1, <1>3, <1>4, PutTable

\* Rule r is memoized at p.
LEMMA MemoTable ==
  ASSUME NEW t \in [Idx -> TableRec], NEW ans, NEW nh, TableLinked(t, ans, nh),
         NEW p \in Idx, NEW r \in Rule, NEW a \in 1 .. Len(ans), a \in Nat, p <= ans[a].at,
         NEW u, u = [t EXCEPT ![p].memos[r] = a]
  PROVE  /\ u \in [Idx -> TableRec] /\ TableLinked(u, ans, nh)
<1> DEFINE d == t[p]
           e == [d EXCEPT !.memos[r] = a]
<1>1. d \in TableRec /\ u = [t EXCEPT ![p] = e]
  OBVIOUS
<1>2. /\ d.head \in 0 .. nh
      /\ \A q \in Rule : d.memos[q] # NULL => d.memos[q] \in 1 .. Len(ans) /\ p <= ans[d.memos[q]].at
  BY DEF TableLinked
<1> HIDE DEF d
<1>3. /\ e \in TableRec /\ e.head = d.head
      /\ \A q \in Rule : e.memos[q] = IF q = r THEN a ELSE d.memos[q]
  BY <1>1 DEF TableRec
<1> HIDE DEF e
<1>4. /\ e.head \in 0 .. nh
      /\ \A q \in Rule : e.memos[q] # NULL => e.memos[q] \in 1 .. Len(ans) /\ p <= ans[e.memos[q]].at
  BY <1>2, <1>3
<1> QED
  BY <1>1, <1>3, <1>4, PutTable

\* The fields of an lr entry.
LEMMA EntryFields ==
  ASSUME NEW e \in EntryRec
  PROVE  e.rule \in Rule /\ e.seed \in Nat /\ e.head \in Nat
BY DEF EntryRec

\* One lr entry replaced, by x.
LEMMA PutEntry ==
  ASSUME NEW es, NEW nh, NEW nc, EntriesLinked(es, nh, nc),
         NEW fs, Len(fs) = Len(es), NEW x, x.head \in 0 .. nh, x.seed \in 0 .. nc,
         \A j \in 1 .. Len(es) : fs[j] = x \/ fs[j] = es[j]
  PROVE  EntriesLinked(fs, nh, nc)
<1>1. \A j \in 1 .. Len(es) : es[j].head \in 0 .. nh /\ es[j].seed \in 0 .. nc
  BY DEF EntriesLinked
<1>2. \A j \in 1 .. Len(fs) : fs[j].head \in 0 .. nh /\ fs[j].seed \in 0 .. nc
  BY <1>1
<1> QED
  BY <1>2 DEF EntriesLinked

\* One more lr entry, without a seed and a head.
LEMMA AppendEntry ==
  ASSUME NEW es \in Seq(EntryRec), NEW nh \in Nat, NEW nc \in Nat, EntriesLinked(es, nh, nc),
         NEW r \in Rule,
         NEW fs, fs = Append(es, [rule |-> r, seed |-> NULL, head |-> NULL, live |-> TRUE])
  PROVE  fs \in Seq(EntryRec) /\ Len(fs) = Len(es) + 1 /\ EntriesLinked(fs, nh, nc)
<1> DEFINE x == [rule |-> r, seed |-> NULL, head |-> NULL, live |-> TRUE]
           m == Len(es)
<1>1. x \in EntryRec /\ x.head = 0 /\ x.seed = 0
  BY DEF EntryRec, NULL
<1> HIDE DEF x
<1>2. /\ m \in Nat /\ fs \in Seq(EntryRec) /\ Len(fs) = m + 1 /\ fs[m + 1] = x
      /\ \A j \in 1 .. m : fs[j] = es[j]
  BY <1>1, AppendProperties, LenProperties DEF x
<1>3. \A j \in 1 .. m : es[j].head \in 0 .. nh /\ es[j].seed \in 0 .. nc
  BY DEF EntriesLinked
<1> HIDE DEF m
<1>4. \A j \in 1 .. m + 1 : j \in 1 .. m \/ j = m + 1
  BY <1>2
<1>5. x.head \in 0 .. nh /\ x.seed \in 0 .. nc
  BY <1>1
<1>6. \A j \in 1 .. m + 1 : fs[j].head \in 0 .. nh /\ fs[j].seed \in 0 .. nc
  BY ONLY <1>2, <1>3, <1>4, <1>5
<1> QED
  BY <1>2, <1>6 DEF m, EntriesLinked

-----------------------------------------------------------------------------
(* How pcc_apply_rule ends and how it goes on.                              *)

\* Handing c to the caller keeps the invariant if the heaps are left in order.
LEMMA DeliverInv ==
  ASSUME IInv, NEW fs \in Seq(FrameRec), NEW cs \in Seq(ChunkRec), NEW c \in 0 .. Len(cs),
         Deliver(fs, cs, c), Len(cs) = Len(chunks), ChunksLinked(cs), Resumable(fs),
         cur' \in Nat, cur' <= bufn,
         CallsOK(fs, pos, bufn, pos + cur', Len(chunks), answers'),
         HeapsOK(answers', entries', Len(heads), table', lrstack', pos + bufn, Len(chunks)),
         UNCHANGED <<envVars, pos, bufn, heads, walk, log>>
  PROVE  IInv'
<1> DEFINE nc == Len(chunks)
<1>1. /\ thunks \in Seq(ThunkRec) /\ work \in Seq(ThunkRec)
      /\ Pointing(thunks, Len(cs)) /\ Pointing(work, Len(cs))
      /\ CallsOK(fs, pos, bufn, pos + cur', Len(cs), answers')
  BY DEF IInv, TypeOK, Links
<1>2. /\ phase' \in {"error", "acting", "running"}
      /\ phase' # "running" => frames' = <<>>
      /\ frames' \in Seq(FrameRec) /\ chunks' \in Seq(ChunkRec)
      /\ Len(chunks') = nc /\ ChunksLinked(chunks')
      /\ thunks' \in Seq(ThunkRec) /\ work' \in Seq(ThunkRec)
      /\ Pointing(thunks', nc) /\ Pointing(work', nc)
      /\ CallsOK(frames', pos, bufn, pos + cur', nc, answers')
      /\ Resumable(SubSeq(frames', 1, Len(frames') - 1))
  BY <1>1, DeliverCalls
<1>3. /\ input' = input /\ start' = start /\ parses' = parses /\ pos' = pos /\ bufn' = bufn
      /\ heads' = heads /\ walk' = walk /\ log' = log
  BY DEF envVars
<1>4. TypeOK'
  <2>1. cur' \in Idx
    BY Numbers DEF Idx
  <2>2. phase' \in Phases
    BY <1>2 DEF Phases
  <2> QED
    BY <1>2, <1>3, <2>1, <2>2 DEF IInv, TypeOK, HeapsOK
<1>5. InBuffer'
  BY <1>3, Numbers DEF InBuffer
<1>6. Calls'
  <2>1. Resumable(IF phase' \in {"running", "crash"} THEN SubSeq(frames', 1, Len(frames') - 1)
                                                     ELSE frames')
    <3>1. CASE phase' = "running"
      BY <1>2, <3>1
    <3>2. CASE phase' # "running"
      <4>1. frames' = <<>> /\ phase' \notin {"running", "crash"}
        BY <1>2, <3>2
      <4>2. Resumable(<<>>)
        BY EmptySeq DEF Resumable
      <4> QED
        BY <4>1, <4>2
    <3> QED
      BY <3>1, <3>2
  <2>2. CallsOK(frames', pos', bufn', Here', Len(chunks'), answers')
    BY <1>2, <1>3 DEF Here
  <2> QED
    BY <1>2, <2>1, <2>2 DEF Calls, Popped
<1>7. Links'
  <2>1. Walking'
    BY <1>2 DEF Walking
  <2> QED
    BY <1>2, <1>3, <2>1 DEF Links, HeapsOK
<1> QED
  BY <1>4, <1>5, <1>6, <1>7 DEF IInv

\* So does entering an evaluation function.
LEMMA EvaluateInv ==
  ASSUME IInv, NEW fs \in Seq(FrameRec), NEW cs \in Seq(ChunkRec), NEW r \in Rule,
         NEW p \in Nat, NEW mode \in {"eval", "first", "grow"}, NEW a \in Nat,
         NEW h \in Nat, NEW at \in Nat,
         p = pos + at, at <= bufn, cur' = at,
         Evaluate(fs, cs, r, p, mode, a, h, at), Len(cs) = Len(chunks),
         CallsOK(fs, pos, bufn, p, Len(cs), answers'), Resumable(fs), ChunksLinked(cs),
         MayBegin(fs, answers', p, mode, a),
         heads' \in Seq(HeadRec),
         HeapsOK(answers', entries', Len(heads'), table', lrstack', pos + bufn, Len(chunks)),
         UNCHANGED <<envVars, pos, bufn, walk, thunks, work, log>>
  PROVE  IInv'
<1> DEFINE nc == Len(chunks')
<1>1. /\ pos \in Nat /\ bufn \in Nat /\ Len(chunks) \in Nat
      /\ Len(entries') \in Nat /\ Len(heads') \in Nat
  BY Numbers, LenProperties DEF HeapsOK
<1>2. /\ phase' \in {"running", "crash"}
      /\ frames' \in Seq(FrameRec) /\ chunks' \in Seq(ChunkRec)
      /\ nc \in Nat /\ Len(chunks) <= nc /\ ChunksLinked(chunks')
      /\ CallsOK(frames', pos, bufn, p, nc, answers')
      /\ Resumable(SubSeq(frames', 1, Len(frames') - 1))
  BY <1>1, EvaluateCalls
<1>3. /\ input' = input /\ start' = start /\ parses' = parses /\ pos' = pos /\ bufn' = bufn
      /\ walk' = walk /\ log' = log /\ thunks' = thunks /\ work' = work
  BY DEF envVars
<1>4. TypeOK'
  <2>1. cur' \in Idx
    BY SMTT(20), Numbers DEF Idx
  <2>2. phase' \in Phases
    BY <1>2 DEF Phases
  <2> QED
    BY <1>2, <1>3, <2>1, <2>2 DEF IInv, TypeOK, HeapsOK
<1>5. InBuffer'
  BY <1>3, Numbers DEF InBuffer
<1>6. Calls'
  <2>1. Here' = p
    BY <1>3 DEF Here
  <2> QED
    BY <1>2, <1>3, <2>1 DEF Calls, Popped
<1>7. Links'
  <2>1. Walking'
    BY <1>2 DEF Walking
  <2>2. Pointing(thunks, nc) /\ Pointing(work, nc)
    <3>1. Pointing(thunks, Len(chunks)) /\ Pointing(work, Len(chunks))
      BY DEF IInv, Links
    <3>2. \A c \in 1 .. Len(chunks) : c \in 1 .. nc
      BY <1>1, <1>2, Wider
    <3> QED
      BY <3>1, <3>2 DEF Pointing
  <2>3. AnswersLinked(answers', Len(entries'), nc) /\ EntriesLinked(entries', Len(heads'), nc)
    <3>1. AnswersLinked(answers', Len(entries'), Len(chunks)) /\ EntriesLinked(entries', Len(heads'), Len(chunks))
      BY DEF HeapsOK
    <3>2. Len(entries') <= Len(entries') /\ Len(heads') <= Len(heads')
      BY <1>1
    <3> HIDE DEF nc
    <3> QED
      BY <1>1, <1>2, <3>1, <3>2, WidenAnswers, WidenEntries
  <2> QED
    BY <1>2, <1>3, <2>1, <2>2, <2>3 DEF Links, HeapsOK
<1> QED
  BY <1>4, <1>5, <1>6, <1>7 DEF IInv

-----------------------------------------------------------------------------
(* pcc_apply_rule: the look-up.                                             *)

\* The activations that wait while a rule is applied.
LEMMA Applicant ==
  ASSUME IInv, Applying
  PROVE  /\ Applied \in Rule
         /\ frames \in Seq(FrameRec) /\ Resumable(frames)
         /\ CallsOK(frames, pos, bufn, Here, Len(chunks), answers)
         /\ chunks \in Seq(ChunkRec) /\ ChunksLinked(chunks)
<1>1. /\ frames \in Seq(FrameRec) /\ chunks \in Seq(ChunkRec) /\ ChunksLinked(chunks)
      /\ CallsOK(frames, pos, bufn, Here, Len(chunks), answers)
  BY DEF IInv, TypeOK, Calls, Links
<1>2. CASE phase = "calling"
  <2>1. Applied \in Rule
    BY <1>2, RuntimeAssumption DEF Applied, IInv, TypeOK
  <2>2. Resumable(frames)
    BY <1>2 DEF IInv, Calls
  <2> QED
    BY <1>1, <2>1, <2>2
<1>3. CASE phase # "calling"
  <2>1. At("apply")
    BY <1>3 DEF Applying
  <2>2. /\ phase = "running" /\ frames # <<>> /\ Stmt \in Instr
        /\ Top.pc \in DOMAIN Code[Top.rule]
    BY <2>1, Reading
  <2>3. Applied \in Rule
    BY <1>3, <2>2 DEF Applied, Instr
  <2>4. Resumable(frames)
    <3> DEFINE m == Len(frames)
    <3>1. m \in Nat /\ m \in 1 .. m
      BY <1>1, <2>2, NotEmpty
    <3>2. Len(Popped) = m - 1 /\ \A j \in 1 .. Len(Popped) : Popped[j] = frames[j]
      BY <1>1, <2>2, PopType DEF Popped
    <3>3. \A k \in 1 .. Len(Popped) : Popped[k].pc \in DOMAIN Code[Popped[k].rule]
      BY <2>2 DEF IInv, Calls, Resumable
    <3>4. frames[m].pc \in DOMAIN Code[frames[m].rule]
      BY <2>2 DEF Top
    <3> HIDE DEF m
    <3>5. \A k \in 1 .. m : frames[k].pc \in DOMAIN Code[frames[k].rule]
      BY <3>1, <3>2, <3>3, <3>4
    <3> QED
      BY <3>5 DEF Resumable, m
  <2> QED
    BY <1>1, <2>3, <2>4
<1> QED
  BY <1>2, <1>3

\* What the look-up at the parsing position finds.
LEMMA Found ==
  ASSUME IInv, Applying
  PROVE  /\ HeadHere \in 0 .. Len(heads) /\ HeadHere \in Nat
         /\ HeadHere # NULL => HeadHere \in 1 .. Len(heads)
         /\ MemoHere \in Nat
         /\ MemoHere # NULL => /\ MemoHere \in 1 .. Len(answers)
                               /\ answers[MemoHere] \in AnswerRec
                               /\ Here <= answers[MemoHere].pos
                               /\ answers[MemoHere].pos <= pos + bufn
                               /\ answers[MemoHere].pos \in Nat
                               /\ answers[MemoHere].chunk \in 0 .. Len(chunks)
                               /\ answers[MemoHere].type = "LR" =>
                                    answers[MemoHere].lr \in 1 .. Len(entries)
<1>1. Here \in Idx /\ Here \in Nat /\ Applied \in Rule /\ Len(heads) \in Nat
  BY Numbers, Applicant
<1>2. table[Here] \in TableRec /\ TableLinked(table, answers, Len(heads))
  BY <1>1 DEF IInv, TypeOK, Links
<1>3. /\ HeadHere \in 0 .. Len(heads) /\ HeadHere \in Nat
      /\ HeadHere # NULL => HeadHere \in 1 .. Len(heads)
  <2>1. HeadHere \in 0 .. Len(heads)
    BY <1>1, <1>2 DEF HeadHere, TableLinked
  <2> QED
    BY <1>1, <2>1 DEF NULL
<1>4. MemoHere \in Nat
  BY <1>1, <1>2, TableFields DEF MemoHere
<1>5. ASSUME MemoHere # NULL
      PROVE  /\ MemoHere \in 1 .. Len(answers)
             /\ answers[MemoHere] \in AnswerRec
             /\ Here <= answers[MemoHere].pos
             /\ answers[MemoHere].pos <= pos + bufn
             /\ answers[MemoHere].pos \in Nat
             /\ answers[MemoHere].chunk \in 0 .. Len(chunks)
             /\ answers[MemoHere].type = "LR" => answers[MemoHere].lr \in 1 .. Len(entries)
  <2> DEFINE a == MemoHere
  <2>1. a \in 1 .. Len(answers) /\ Here <= answers[a].at
    BY <1>1, <1>2, <1>5 DEF TableLinked, MemoHere
  <2> HIDE DEF a
  <2>2. answers[a] \in AnswerRec
    BY <2>1, ElementOfSeq DEF IInv, TypeOK
  <2>3. /\ answers[a].at <= answers[a].pos /\ answers[a].pos <= pos + bufn
        /\ answers[a].chunk \in 0 .. Len(chunks)
        /\ answers[a].type = "LR" => answers[a].lr \in 1 .. Len(entries)
    BY <2>1 DEF IInv, Links, AnswersSpan, AnswersLinked
  <2>4. answers[a].pos \in Nat /\ answers[a].at \in Nat
    BY <2>2, AnswerFields
  <2>5. Here <= answers[a].pos
    BY <1>1, <2>1, <2>3, <2>4
  <2> QED
    BY <2>1, <2>2, <2>3, <2>4, <2>5 DEF a
<1> QED
  BY <1>3, <1>4, <1>5

\* The same calls further on in the input.
LEMMA LaterCalls ==
  ASSUME NEW fs \in Seq(FrameRec), NEW lo, NEW n, NEW here \in Nat, NEW here1 \in Nat,
         NEW nc, NEW ans, CallsOK(fs, lo, n, here, nc, ans), here <= here1
  PROVE  CallsOK(fs, lo, n, here1, nc, ans)
<1>1. BeganBy(fs, here1)
  <2>1. CASE fs # <<>>
    <3>1. fs[Len(fs)] \in FrameRec
      BY <2>1, NotEmpty
    <3>2. fs[Len(fs)].p \in Nat /\ fs[Len(fs)].p <= here
      BY <2>1, <3>1, FrameFields DEF CallsOK, BeganBy
    <3> QED
      BY <3>2 DEF BeganBy
  <2> QED
    BY <2>1 DEF BeganBy
<1> QED
  BY <1>1 DEF CallsOK

\* An activation with an answer has one that exists.
LEMMA OwnAnswerExists ==
  ASSUME NEW fs, NEW lo, NEW n, NEW here, NEW nc, NEW ans, Len(ans) \in Nat,
         CallsOK(fs, lo, n, here, nc, ans),
         NEW k \in 1 .. Len(fs), fs[k].mode # "eval"
  PROVE  fs[k].ans # NULL /\ fs[k].ans \in 1 .. Len(ans)
<1>1. Answering(fs[k], ans)
  BY DEF CallsOK
<1>2. fs[k].ans \in 1 .. Len(ans)
  BY <1>1 DEF Answering
<1> QED
  BY <1>2 DEF NULL

\* A rule that takes no part in the growth fails.
LEMMA ApplyBlockedStep ==
  ASSUME IInv, ApplyBlocked PROVE IInv'
<1>1. /\ Applying /\ Deliver(frames, chunks, NULL) /\ cur' = cur
      /\ answers' = answers /\ entries' = entries /\ table' = table /\ lrstack' = lrstack
      /\ UNCHANGED <<envVars, pos, bufn, heads, walk, log>>
  BY DEF ApplyBlocked, bufferVars, lrVars
<1>2. cur \in Nat /\ cur <= bufn /\ NULL \in 0 .. Len(chunks) /\ Here = pos + cur
  BY Numbers DEF NULL
<1> QED
  BY <1>1, <1>2, Applicant, HeapsNow, DeliverInv

\* A memoized result or the seed of a left recursion moves the parsing position.
LEMMA MemoPosition ==
  ASSUME IInv, Applying, MemoHere # NULL, cur' = answers[MemoHere].pos - pos
  PROVE  /\ cur' \in Nat /\ cur' <= bufn /\ pos + cur' \in Nat
         /\ CallsOK(frames, pos, bufn, pos + cur', Len(chunks), answers)
<1> DEFINE q == answers[MemoHere].pos
<1>1. q \in Nat /\ Here <= q /\ q <= pos + bufn
  BY Found
<1>2. pos \in Nat /\ cur \in Nat /\ bufn \in Nat /\ Here = pos + cur /\ Here \in Nat
  BY Numbers
<1>3. cur' = q - pos
  OBVIOUS
<1> HIDE DEF q
<1>4. cur' \in Nat /\ cur' <= bufn /\ pos + cur' = q
  BY <1>1, <1>2, <1>3
<1>5. CallsOK(frames, pos, bufn, q, Len(chunks), answers)
  BY <1>1, <1>2, Applicant, LaterCalls
<1> QED
  BY <1>1, <1>4, <1>5

\* A memo is used.
LEMMA ApplyMemoizedStep ==
  ASSUME IInv, ApplyMemoized PROVE IInv'
<1> DEFINE c == answers[MemoHere].chunk
<1>1. /\ Applying /\ MemoHere # NULL /\ cur' = answers[MemoHere].pos - pos
      /\ Deliver(frames, chunks, c)
      /\ answers' = answers /\ entries' = entries /\ table' = table /\ lrstack' = lrstack
      /\ UNCHANGED <<envVars, pos, bufn, heads, walk, log>>
  BY DEF ApplyMemoized, bufferVars, lrVars
<1>2. c \in 0 .. Len(chunks)
  BY <1>1, Found
<1> HIDE DEF c
<1>3. /\ cur' \in Nat /\ cur' <= bufn
      /\ CallsOK(frames, pos, bufn, pos + cur', Len(chunks), answers)
  BY <1>1, MemoPosition
<1> QED
  BY <1>1, <1>2, <1>3, Applicant, HeapsNow, DeliverInv

\* The fields of a head.
LEMMA HeadFields ==
  ASSUME NEW h \in HeadRec
  PROVE  h.rule \in Rule /\ h.invol \in Seq(Rule) /\ h.eval \in Seq(Rule)
BY DEF HeadRec

\* Rule sets stay sequences of rules.
LEMMA RuleSetType ==
  ASSUME NEW s \in Seq(Rule), NEW r \in Rule
  PROVE  RuleSetAdd(s, r) \in Seq(Rule) /\ RuleSetRemove(s, r) \in Seq(Rule)
<1>1. RuleSetAdd(s, r) \in Seq(Rule)
  BY Appended DEF RuleSetAdd
<1>2. RuleSetRemove(s, r) \in Seq(Rule)
  <2> DEFINE k == CHOOSE k \in 1 .. Len(s) : s[k] = r /\ \A j \in 1 .. (k - 1) : s[j] # r
             m == Len(s)
             u == [j \in 1 .. m |-> IF j < k \/ j = m THEN s[j] ELSE s[j + 1]]
  <2>1. RuleSetRemove(s, r) = u
    BY DEF RuleSetRemove
  <2>2. m \in Nat /\ \A j \in 1 .. m : s[j] \in Rule
    BY LenProperties, ElementOfSeq
  <2> HIDE DEF k, m
  <2>3. \A j \in 1 .. m : j # m => j + 1 \in 1 .. m
    BY <2>2
  <2>4. u \in [1 .. m -> Rule]
    BY <2>2, <2>3
  <2>5. u \in Seq(Rule)
    <3> HIDE DEF u
    <3> QED
      BY <2>2, <2>4, SeqDef
  <2> QED
    BY <2>1, <2>5
<1> QED
  BY <1>1, <1>2

\* A set of rules of a head changes.
LEMMA HeadWith ==
  ASSUME NEW d \in HeadRec, NEW s \in Seq(Rule)
  PROVE  [d EXCEPT !.invol = s] \in HeadRec /\ [d EXCEPT !.eval = s] \in HeadRec
BY DEF HeadRec

\* A rule of the growth is evaluated again.
LEMMA ApplyReevaluateStep ==
  ASSUME IInv, ApplyReevaluate PROVE IInv'
<1>1. /\ Applying /\ HeadHere # NULL
      /\ heads' = [heads EXCEPT ![HeadHere].eval = RuleSetRemove(@, Applied)]
      /\ Evaluate(frames, chunks, Applied, Here, "eval", NULL, HeadHere, cur)
      /\ cur' = cur /\ answers' = answers /\ entries' = entries /\ table' = table
      /\ lrstack' = lrstack
      /\ UNCHANGED <<envVars, pos, bufn, walk, thunks, work, log>>
  BY DEF ApplyReevaluate, Reevaluated, bufferVars, actVars
<1>2. HeadHere \in 1 .. Len(heads) /\ HeadHere \in Nat /\ Applied \in Rule
  BY <1>1, Found, Applicant
<1>3. heads' \in Seq(HeadRec) /\ Len(heads') = Len(heads)
  <2> DEFINE s == RuleSetRemove(heads[HeadHere].eval, Applied)
  <2>1. heads \in Seq(HeadRec)
    BY DEF IInv, TypeOK
  <2>2. heads[HeadHere].eval \in Seq(Rule)
    BY <1>2, <2>1, ElementOfSeq, HeadFields
  <2>3. s \in Seq(Rule)
    BY <1>2, <2>2, RuleSetType
  <2>4. heads' = [heads EXCEPT ![HeadHere].eval = s]
    BY <1>1
  <2> HIDE DEF s
  <2>5. PICK i \in 1 .. Len(heads) : i = HeadHere
    BY <1>2
  <2> DEFINE x == [heads[i] EXCEPT !.eval = s]
  <2>6. heads' = [heads EXCEPT ![i] = x]
    BY <2>4, <2>5
  <2>7. x \in HeadRec
    BY <2>1, <2>3, ElementOfSeq, HeadWith
  <2> HIDE DEF x
  <2> QED
    BY <2>1, <2>6, <2>7, Replaced
<1>4. /\ pos \in Nat /\ cur \in Nat /\ cur <= bufn /\ Here = pos + cur /\ Here \in Nat
      /\ NULL \in Nat /\ Len(answers) \in Nat
  BY Numbers DEF NULL
<1>5. /\ frames \in Seq(FrameRec) /\ Resumable(frames)
      /\ CallsOK(frames, pos, bufn, Here, Len(chunks), answers)
      /\ chunks \in Seq(ChunkRec) /\ ChunksLinked(chunks)
  BY <1>1, Applicant
<1>6. MayBegin(frames, answers, Here, "eval", NULL)
  BY <1>4, <1>5, OwnAnswerExists DEF MayBegin
<1>7. HeapsOK(answers, entries, Len(heads'), table, lrstack, pos + bufn, Len(chunks))
  BY <1>3, HeapsNow
<1> QED
  BY <1>1, <1>2, <1>3, <1>4, <1>5, <1>6, <1>7, EvaluateInv

-----------------------------------------------------------------------------
(* pcc_apply_rule: a left recursion.                                        *)

\* A step of the walk over lrstack, its beginning included.
LEMMA WalkInv ==
  ASSUME IInv, phase' = "involve", frames \in Seq(FrameRec), Resumable(frames),
         cur' \in Nat, cur' <= bufn,
         CallsOK(frames, pos, bufn, pos + cur', Len(chunks), answers),
         heads' \in Seq(HeadRec),
         HeapsOK(answers, entries', Len(heads'), table', lrstack, pos + bufn, Len(chunks)),
         walk' \in [ans: Nat, i: Nat], Walking',
         UNCHANGED <<envVars, pos, bufn, lrstack, frames, chunks, answers, thunks, work, log>>
  PROVE  IInv'
<1>1. /\ input' = input /\ start' = start /\ parses' = parses /\ pos' = pos /\ bufn' = bufn
      /\ lrstack' = lrstack /\ frames' = frames /\ chunks' = chunks /\ answers' = answers
      /\ thunks' = thunks /\ work' = work /\ log' = log
  BY DEF envVars
<1>2. TypeOK'
  <2>1. cur' \in Idx
    BY Numbers DEF Idx
  <2>2. phase' \in Phases
    BY DEF Phases
  <2> QED
    BY <1>1, <2>1, <2>2 DEF IInv, TypeOK, HeapsOK
<1>3. InBuffer'
  BY <1>1, Numbers DEF InBuffer
<1>4. Calls'
  BY <1>1 DEF Calls, Here
<1>5. Links'
  BY <1>1 DEF IInv, Links, HeapsOK
<1> QED
  BY <1>2, <1>3, <1>4, <1>5 DEF IInv

\* A lr entry with another head or seed.
LEMMA EntryWith ==
  ASSUME NEW d \in EntryRec, NEW n \in Nat
  PROVE  /\ [d EXCEPT !.head = n] \in EntryRec
         /\ [d EXCEPT !.head = n].head = n /\ [d EXCEPT !.head = n].seed = d.seed
         /\ [d EXCEPT !.seed = n] \in EntryRec
         /\ [d EXCEPT !.seed = n].seed = n /\ [d EXCEPT !.seed = n].head = d.head
BY DEF EntryRec

\* A left recursion is found.
LEMMA ApplyRecursiveStep ==
  ASSUME IInv, ApplyRecursive PROVE IInv'
<1> DEFINE a == MemoHere
           e == answers[a].lr
           nh == Len(heads)
           nc == Len(chunks)
<1>1. /\ Applying /\ a # NULL /\ answers[a].type = "LR"
      /\ cur' = answers[a].pos - pos
      /\ walk' = [ans |-> a, i |-> Len(lrstack)]
      /\ phase' = "involve"
      /\ UNCHANGED <<envVars, pos, bufn, lrstack, frames, chunks, answers, thunks, work, log>>
  BY DEF ApplyRecursive, bufferVars, actVars
<1>2. \/ /\ entries[e].head = NULL
         /\ heads' = Append(heads, [rule |-> Applied, invol |-> <<>>,
                                    eval |-> <<>>, live |-> TRUE])
         /\ entries' = [entries EXCEPT ![e].head = nh + 1]
         /\ table' = [table EXCEPT ![Here].heads = @ \cup {nh + 1}]
      \/ /\ entries[e].head # NULL
         /\ heads' = heads /\ entries' = entries /\ table' = table
  BY DEF ApplyRecursive
<1>3. /\ a \in 1 .. Len(answers) /\ e \in 1 .. Len(entries) /\ a \in Nat
  BY <1>1, Found
<1>4. /\ cur' \in Nat /\ cur' <= bufn
      /\ CallsOK(frames, pos, bufn, pos + cur', nc, answers)
      /\ frames \in Seq(FrameRec) /\ Resumable(frames)
      /\ Applied \in Rule
  BY <1>1, MemoPosition, Applicant
<1>5. /\ nh \in Nat /\ nc \in Nat /\ Len(lrstack) \in Nat /\ Len(answers) \in Nat
      /\ Here \in Idx
  BY Numbers, LenProperties DEF IInv, TypeOK
<1>6. HeapsOK(answers, entries, nh, table, lrstack, pos + bufn, nc)
  BY HeapsNow
<1>7. walk' \in [ans: Nat, i: Nat] /\ walk'.ans = a /\ walk'.i = Len(lrstack)
  BY <1>1, <1>3, <1>5
<1>8. /\ heads' \in Seq(HeadRec)
      /\ HeapsOK(answers, entries', Len(heads'), table', lrstack, pos + bufn, nc)
      /\ entries'[e].head \in 1 .. Len(heads')
  <2>1. CASE entries[e].head # NULL
    <3>1. entries[e].head \in 0 .. nh
      BY <1>3 DEF IInv, Links, EntriesLinked
    <3>2. entries[e].head \in 1 .. nh
      BY <1>5, <2>1, <3>1 DEF NULL
    <3>3. heads \in Seq(HeadRec)
      BY DEF IInv, TypeOK
    <3> QED
      BY <1>2, <1>6, <2>1, <3>2, <3>3
  <2>2. CASE entries[e].head = NULL
    <3> DEFINE h == [rule |-> Applied, invol |-> <<>>, eval |-> <<>>, live |-> TRUE]
    <3>1. /\ heads' = Append(heads, h) /\ entries' = [entries EXCEPT ![e].head = nh + 1]
          /\ table' = [table EXCEPT ![Here].heads = @ \cup {nh + 1}]
      BY <1>2, <2>2
    <3>2. h \in HeadRec
      <4>1. <<>> \in Seq(Rule)
        BY EmptySeq
      <4> QED
        BY <1>4, <4>1 DEF HeadRec
    <3> HIDE DEF h
    <3>3. heads' \in Seq(HeadRec) /\ Len(heads') = nh + 1
      <4>1. heads \in Seq(HeadRec)
        BY DEF IInv, TypeOK
      <4> QED
        BY <3>1, <3>2, <4>1, Appended
    <3> DEFINE m == nh + 1
    <3>4. m \in Nat /\ nh <= m /\ m \in 1 .. m /\ Len(answers) <= Len(answers) /\ nc <= nc
      BY <1>5
    <3>5. m = Len(heads')
      BY <3>3
    <3> HIDE DEF m, nh, nc, e
    <3>6. EntriesLinked(entries, m, nc)
      BY <1>5, <1>6, <3>4, WidenEntries DEF HeapsOK
    <3>7. /\ entries' \in Seq(EntryRec) /\ Len(entries') = Len(entries)
          /\ EntriesLinked(entries', m, nc) /\ entries'[e].head = m
      <4> DEFINE x == [entries[e] EXCEPT !.head = m]
      <4>1. entries' = [entries EXCEPT ![e] = x] /\ entries \in Seq(EntryRec)
        BY <1>6, <3>1 DEF m, HeapsOK
      <4>2. x \in EntryRec /\ x.head = m /\ x.seed = entries[e].seed
        BY <1>3, <3>4, <4>1, ElementOfSeq, EntryWith
      <4>3. x.head \in 0 .. m /\ x.seed \in 0 .. nc
        <5>1. entries[e].seed \in 0 .. nc
          BY <1>3, <3>6 DEF EntriesLinked
        <5> QED
          BY <3>4, <4>2, <5>1
      <4> HIDE DEF x
      <4>4. PICK i \in 1 .. Len(entries) : i = e
        BY <1>3
      <4>5. entries' = [entries EXCEPT ![i] = x]
        BY <4>1, <4>4
      <4>8. entries \in Seq(EntryRec)
        BY <4>1
      <4>6. /\ entries' \in Seq(EntryRec) /\ Len(entries') = Len(entries)
            /\ \A j \in 1 .. Len(entries) : entries'[j] = IF j = i THEN x ELSE entries[j]
        BY <4>2, <4>5, <4>8, Replaced
      <4>7. EntriesLinked(entries', m, nc)
        BY <3>6, <4>3, <4>6, PutEntry
      <4> QED
        BY <4>2, <4>4, <4>6, <4>7
    <3>8. table' \in [Idx -> TableRec] /\ TableLinked(table', answers, m)
      <4>1. table' = [table EXCEPT ![Here].heads = @ \cup {m}] /\ table \in [Idx -> TableRec]
        BY <1>6, <3>1 DEF m, HeapsOK
      <4>2. TableLinked(table, answers, m)
        BY <1>5, <1>6, <3>4, WidenTable DEF HeapsOK
      <4> QED
        BY <1>5, <3>4, <4>1, <4>2, KeepHeadTable
    <3>9. HeapsOK(answers, entries', m, table', lrstack, pos + bufn, nc)
      BY <1>6, <3>7, <3>8 DEF HeapsOK
    <3> QED
      BY <3>3, <3>4, <3>5, <3>7, <3>9
  <2> QED
    BY <2>1, <2>2
<1>9. Walking'
  <2>1. answers' = answers /\ lrstack' = lrstack
    BY <1>1
  <2> QED
    BY <1>1, <1>3, <1>5, <1>7, <1>8, <2>1 DEF Walking, WalkHead
<1> QED
  BY <1>1, <1>4, <1>7, <1>8, <1>9, WalkInv

\* What is known during the walk.
LEMMA Walked ==
  ASSUME IInv, phase = "involve"
  PROVE  /\ walk.ans \in 1 .. Len(answers) /\ answers[walk.ans].type = "LR"
         /\ answers[walk.ans].lr \in 1 .. Len(entries)
         /\ WalkHead \in 1 .. Len(heads)
         /\ walk \in [ans: Nat, i: Nat] /\ walk.i \in Nat /\ walk.i <= Len(lrstack)
         /\ walk.i > 0 => /\ lrstack[walk.i] \in 1 .. Len(entries)
                          /\ entries[lrstack[walk.i]] \in EntryRec
         /\ frames \in Seq(FrameRec) /\ Resumable(frames)
         /\ CallsOK(frames, pos, bufn, Here, Len(chunks), answers)
<1>1. /\ walk.ans \in 1 .. Len(answers) /\ answers[walk.ans].type = "LR"
      /\ WalkHead \in 1 .. Len(heads) /\ walk.i <= Len(lrstack)
  BY DEF IInv, Links, Walking
<1>2. answers[walk.ans].lr \in 1 .. Len(entries)
  BY <1>1 DEF IInv, Links, AnswersLinked
<1>3. walk \in [ans: Nat, i: Nat] /\ walk.i \in Nat /\ Len(lrstack) \in Nat
  BY LenProperties DEF IInv, TypeOK
<1>4. ASSUME walk.i > 0
      PROVE  lrstack[walk.i] \in 1 .. Len(entries) /\ entries[lrstack[walk.i]] \in EntryRec
  <2>1. walk.i \in 1 .. Len(lrstack)
    BY <1>1, <1>3, <1>4
  <2>2. lrstack[walk.i] \in 1 .. Len(entries)
    BY <2>1 DEF IInv, Links
  <2> QED
    BY <2>2, ElementOfSeq DEF IInv, TypeOK
<1>5. /\ frames \in Seq(FrameRec) /\ Resumable(frames)
      /\ CallsOK(frames, pos, bufn, Here, Len(chunks), answers)
  BY DEF IInv, TypeOK, Calls
<1> QED
  BY <1>1, <1>2, <1>3, <1>4, <1>5

\* An entry on the way down the lr stack is marked as involved.
LEMMA InvolveStep ==
  ASSUME IInv, Involve PROVE IInv'
<1> DEFINE e == lrstack[walk.i]
           h == WalkHead
           nh == Len(heads)
           nc == Len(chunks)
<1>1. /\ phase = "involve" /\ phase' = phase /\ walk.i > 0
      /\ entries' = [entries EXCEPT ![e].head = h]
      /\ heads' = [heads EXCEPT ![h].invol = RuleSetAdd(@, entries[e].rule)]
      /\ walk' = [walk EXCEPT !.i = @ - 1] /\ cur' = cur /\ table' = table
      /\ UNCHANGED <<envVars, pos, bufn, lrstack, frames, chunks, answers, thunks, work, log>>
  BY DEF Involve, bufferVars, actVars
<1>2. /\ walk.ans \in 1 .. Len(answers) /\ answers[walk.ans].type = "LR"
      /\ answers[walk.ans].lr \in 1 .. Len(entries)
      /\ h \in 1 .. nh /\ e \in 1 .. Len(entries) /\ entries[e] \in EntryRec
      /\ walk \in [ans: Nat, i: Nat] /\ walk.i \in Nat /\ walk.i <= Len(lrstack)
      /\ frames \in Seq(FrameRec) /\ Resumable(frames)
      /\ CallsOK(frames, pos, bufn, Here, nc, answers)
  BY <1>1, Walked
<1>3. /\ nh \in Nat /\ nc \in Nat /\ Len(lrstack) \in Nat
      /\ cur \in Nat /\ cur <= bufn /\ Here = pos + cur
  BY Numbers, LenProperties DEF IInv, TypeOK
<1>4. HeapsOK(answers, entries, nh, table, lrstack, pos + bufn, nc)
  BY HeapsNow
<1>5. heads' \in Seq(HeadRec) /\ Len(heads') = nh
  <2> DEFINE s == RuleSetAdd(heads[h].invol, entries[e].rule)
  <2>1. heads \in Seq(HeadRec)
    BY DEF IInv, TypeOK
  <2>2. heads[h] \in HeadRec
    BY <1>2, <2>1, ElementOfSeq
  <2>3. s \in Seq(Rule)
    BY <1>2, <2>2, HeadFields, EntryFields, RuleSetType
  <2>4. heads' = [heads EXCEPT ![h].invol = s]
    BY <1>1
  <2> HIDE DEF s
  <2>5. PICK i \in 1 .. nh : i = h
    BY <1>2
  <2> DEFINE x == [heads[i] EXCEPT !.invol = s]
  <2>6. heads' = [heads EXCEPT ![i] = x]
    BY <2>4, <2>5
  <2>7. x \in HeadRec
    BY <2>2, <2>3, <2>5, HeadWith
  <2> HIDE DEF x
  <2> QED
    BY <2>1, <2>6, <2>7, Replaced
<1>6. /\ entries' \in Seq(EntryRec) /\ Len(entries') = Len(entries)
      /\ EntriesLinked(entries', nh, nc)
      /\ \A j \in 1 .. Len(entries) :
           entries'[j].head = IF j = e THEN h ELSE entries[j].head
  <2>1. PICK i \in 1 .. Len(entries) : i = e
    BY <1>2
  <2>2. PICK g \in 1 .. nh : g = h
    BY <1>2
  <2> DEFINE x == [entries[i] EXCEPT !.head = g]
  <2>3. /\ entries' = [entries EXCEPT ![i] = x] /\ entries \in Seq(EntryRec)
        /\ EntriesLinked(entries, nh, nc)
    BY <1>1, <1>4, <2>1, <2>2 DEF HeapsOK
  <2> HIDE DEF e, h, nh, nc
  <2>5. g \in Nat
    BY <1>3
  <2>6. x \in EntryRec /\ x.head = g /\ x.seed = entries[i].seed
    BY <2>3, <2>5, ElementOfSeq, EntryWith
  <2>7. x.head \in 0 .. nh /\ x.seed \in 0 .. nc
    <3>1. entries[i].seed \in 0 .. nc
      BY <2>3 DEF EntriesLinked
    <3> QED
      BY <1>3, <2>5, <2>6, <3>1
  <2> HIDE DEF x
  <2>8. /\ entries' \in Seq(EntryRec) /\ Len(entries') = Len(entries)
        /\ \A j \in 1 .. Len(entries) : entries'[j] = IF j = i THEN x ELSE entries[j]
    BY <2>3, <2>6, Replaced
  <2>9. EntriesLinked(entries', nh, nc)
    BY <2>3, <2>7, <2>8, PutEntry
  <2>4. /\ entries' \in Seq(EntryRec) /\ Len(entries') = Len(entries)
        /\ EntriesLinked(entries', nh, nc)
        /\ \A j \in 1 .. Len(entries) :
             entries'[j].head = IF j = i THEN g ELSE entries[j].head
    BY <2>6, <2>8, <2>9
  <2> QED
    BY <2>1, <2>2, <2>4
<1>7. HeapsOK(answers, entries', Len(heads'), table', lrstack, pos + bufn, nc)
  BY <1>1, <1>4, <1>5, <1>6 DEF HeapsOK
<1>8. walk' \in [ans: Nat, i: Nat] /\ walk'.ans = walk.ans /\ walk'.i = walk.i - 1
  <2>1. walk.i - 1 \in Nat
    BY <1>1, <1>2
  <2> QED
    BY <1>1, <1>2, <2>1
<1>9. Walking'
  <2>1. answers' = answers /\ lrstack' = lrstack
    BY <1>1
  <2>2. entries'[answers[walk.ans].lr].head \in 1 .. nh
    BY <1>2, <1>6 DEF WalkHead
  <2>3. walk.i - 1 <= Len(lrstack)
    BY <1>2, <1>3
  <2> QED
    BY <1>2, <1>5, <1>8, <2>1, <2>2, <2>3 DEF Walking, WalkHead
<1> QED
  BY <1>1, <1>2, <1>3, <1>5, <1>7, <1>8, <1>9, WalkInv

\* The walk down the lr stack is over.
LEMMA InvolvedStep ==
  ASSUME IInv, Involved PROVE IInv'
<1> DEFINE c == entries[answers[walk.ans].lr].seed
<1>1. /\ phase = "involve" /\ Deliver(frames, chunks, c) /\ cur' = cur
      /\ answers' = answers /\ entries' = entries /\ table' = table /\ lrstack' = lrstack
      /\ UNCHANGED <<envVars, pos, bufn, heads, walk, log>>
  BY DEF Involved, bufferVars, lrVars
<1>2. /\ frames \in Seq(FrameRec) /\ Resumable(frames)
      /\ CallsOK(frames, pos, bufn, Here, Len(chunks), answers)
      /\ answers[walk.ans].lr \in 1 .. Len(entries)
  BY <1>1, Walked
<1>3. c \in 0 .. Len(chunks)
  BY <1>2 DEF IInv, Links, EntriesLinked
<1> HIDE DEF c
<1>4. cur \in Nat /\ cur <= bufn /\ Here = pos + cur
  BY Numbers
<1>5. chunks \in Seq(ChunkRec) /\ ChunksLinked(chunks)
  BY DEF IInv, TypeOK, Links
<1> QED
  BY <1>1, <1>2, <1>3, <1>4, <1>5, HeapsNow, DeliverInv

-----------------------------------------------------------------------------
(* pcc_apply_rule: the first application.                                   *)

\* The same calls while answers are made and none is changed.
LEMMA AnswerMade ==
  ASSUME NEW fs \in Seq(FrameRec), NEW lo, NEW n \in Nat, NEW here, NEW nc \in Nat,
         NEW ans, NEW bs, Len(ans) \in Nat, Len(bs) \in Nat, Len(ans) <= Len(bs),
         \A a \in 1 .. Len(ans) : bs[a] = ans[a],
         CallsOK(fs, lo, n, here, nc, ans)
  PROVE  CallsOK(fs, lo, n, here, nc, bs)
<1>1. /\ BeganBy(fs, here) /\ n <= n /\ nc <= nc
      /\ \A a \in 1 .. Len(ans) : bs[a].at = ans[a].at /\ (a # NULL => bs[a].type = ans[a].type)
  BY DEF CallsOK
<1>2. \A k \in 1 .. Len(fs) : fs[k].mode # "eval" => fs[k].ans # NULL
  BY OwnAnswerExists
<1> QED
  BY <1>1, <1>2, WidenCalls

\* A rule is evaluated at a position for the first time.
LEMMA ApplyFirstStep ==
  ASSUME IInv, ApplyFirst PROVE IInv'
<1> DEFINE a == Len(answers) + 1
           e == Len(entries) + 1
           b == NewAnswer("LR", Applied, Here, Here, e, NULL)
           x == [rule |-> Applied, seed |-> NULL, head |-> NULL, live |-> TRUE]
           nh == Len(heads)
           nc == Len(chunks)
           l == pos + bufn
<1>1. /\ Applying
      /\ entries' = Append(entries, x) /\ lrstack' = Append(lrstack, e)
      /\ answers' = Append(answers, b)
      /\ table' = [table EXCEPT ![Here].memos[Applied] = a]
      /\ Evaluate(frames, chunks, Applied, Here, "first", a, NULL, cur)
      /\ cur' = cur /\ heads' = heads
      /\ UNCHANGED <<envVars, pos, bufn, walk, thunks, work, log>>
  BY DEF ApplyFirst, bufferVars, actVars
<1>2. /\ pos \in Nat /\ cur \in Nat /\ bufn \in Nat /\ cur <= bufn
      /\ Here = pos + cur /\ Here \in Nat /\ Here \in Idx /\ Here <= l
      /\ nh \in Nat /\ nc \in Nat /\ Len(answers) \in Nat /\ Len(entries) \in Nat
      /\ NULL \in Nat /\ NULL \in 0 .. nc /\ NULL \in 0 .. nh
  BY Numbers DEF NULL
<1>3. /\ Applied \in Rule /\ frames \in Seq(FrameRec) /\ Resumable(frames)
      /\ CallsOK(frames, pos, bufn, Here, nc, answers)
      /\ chunks \in Seq(ChunkRec) /\ ChunksLinked(chunks)
  BY <1>1, Applicant
<1>4. HeapsOK(answers, entries, nh, table, lrstack, l, nc)
  BY HeapsNow
<1>5. /\ answers \in Seq(AnswerRec) /\ entries \in Seq(EntryRec)
      /\ table \in [Idx -> TableRec] /\ lrstack \in Seq(Nat)
      /\ AnswersSpan(answers, l) /\ AnswersLinked(answers, Len(entries), nc)
      /\ EntriesLinked(entries, nh, nc) /\ TableLinked(table, answers, nh)
      /\ \A k \in 1 .. Len(lrstack) : lrstack[k] \in 1 .. Len(entries)
  BY <1>4 DEF HeapsOK
<1>6. a \in Nat /\ e \in Nat /\ e \in 1 .. e /\ a \in 1 .. a /\ Len(entries) <= e /\ Len(answers) <= a
  BY <1>2
<1>7. x \in EntryRec /\ x.head \in 0 .. nh /\ x.seed \in 0 .. nc
  BY <1>2, <1>3 DEF EntryRec
<1>8. /\ b \in AnswerRec /\ b.type = "LR" /\ b.at = Here /\ b.pos = Here /\ b.lr = e
      /\ b.chunk = NULL
  BY <1>2, <1>3, <1>6 DEF NewAnswer, AnswerRec
<1> HIDE DEF x, b, nh, nc, l
<1>9. /\ entries' \in Seq(EntryRec) /\ Len(entries') = e /\ EntriesLinked(entries', nh, nc)
  <2>1. /\ entries' \in Seq(EntryRec) /\ Len(entries') = Len(entries) + 1
        /\ entries'[Len(entries) + 1] = x
        /\ \A j \in 1 .. Len(entries) : entries'[j] = entries[j]
    BY <1>1, <1>5, <1>7, Appended
  <2>2. \A j \in 1 .. Len(entries) : entries[j].head \in 0 .. nh /\ entries[j].seed \in 0 .. nc
    BY <1>5 DEF EntriesLinked
  <2>3. \A j \in 1 .. Len(entries) + 1 : j \in 1 .. Len(entries) \/ j = Len(entries) + 1
    BY <1>2
  <2>4. \A j \in 1 .. Len(entries') : entries'[j].head \in 0 .. nh /\ entries'[j].seed \in 0 .. nc
    BY <1>7, <2>1, <2>2, <2>3
  <2> QED
    BY <2>1, <2>4 DEF EntriesLinked
<1>10. /\ answers' \in Seq(AnswerRec) /\ Len(answers') = a /\ answers'[a] = b
       /\ \A j \in 1 .. Len(answers) : answers'[j] = answers[j]
       /\ AnswersSpan(answers', l) /\ AnswersLinked(answers', e, nc)
  <2>1. /\ answers' \in Seq(AnswerRec) /\ Len(answers') = Len(answers) + 1
        /\ answers'[Len(answers) + 1] = b
        /\ \A j \in 1 .. Len(answers) : answers'[j] = answers[j]
    BY <1>1, <1>5, <1>8, Appended
  <2>2. AnswersLinked(answers, e, nc)
    <3>1. nc <= nc
      BY <1>2
    <3> HIDE DEF e
    <3> QED
      BY <1>2, <1>5, <1>6, <3>1, WidenAnswers
  <2>3. b.at <= b.pos /\ b.pos <= l /\ b.chunk \in 0 .. nc /\ b.lr \in 1 .. e
    BY <1>2, <1>6, <1>8
  <2>4. AnswersSpan(answers', l) /\ AnswersLinked(answers', e, nc)
    BY <1>5, <1>8, <2>1, <2>2, <2>3, AppendAnswer
  <2> QED
    BY <2>1, <2>4
<1>11. /\ lrstack' \in Seq(Nat) /\ \A k \in 1 .. Len(lrstack') : lrstack'[k] \in 1 .. e
  <2> DEFINE m == Len(lrstack)
  <2>1. /\ m \in Nat /\ lrstack' \in Seq(Nat) /\ Len(lrstack') = m + 1 /\ lrstack'[m + 1] = e
        /\ \A j \in 1 .. m : lrstack'[j] = lrstack[j]
    BY <1>1, <1>5, <1>6, Appended
  <2> HIDE DEF m
  <2>2. \A j \in 1 .. m + 1 : j \in 1 .. m \/ j = m + 1
    BY <2>1
  <2>3. \A j \in 1 .. m : lrstack[j] \in 1 .. e
    <3> HIDE DEF e
    <3>1. \A y \in 1 .. Len(entries) : y \in 1 .. e
      BY <1>2, <1>6, Wider
    <3> QED
      BY <1>5, <3>1 DEF m
  <2> HIDE DEF e
  <2> QED
    BY <1>6, <2>1, <2>2, <2>3
<1> HIDE DEF a, e
<1>12. /\ table' \in [Idx -> TableRec] /\ TableLinked(table', answers', nh)
  <2>1. TableLinked(table, answers', nh)
    <3>1. nh <= nh
      BY <1>2
    <3> QED
      BY <1>2, <1>5, <1>6, <1>10, <3>1, WidenTable
  <2>2. a \in 1 .. Len(answers') /\ Here <= answers'[a].at
    BY <1>2, <1>6, <1>8, <1>10
  <2> QED
    BY <1>1, <1>2, <1>3, <1>5, <1>6, <2>1, <2>2, MemoTable
<1>13. HeapsOK(answers', entries', Len(heads'), table', lrstack', l, nc)
  <2>1. Len(heads') = nh
    BY <1>1 DEF nh
  <2> QED
    BY <1>9, <1>10, <1>11, <1>12, <2>1 DEF HeapsOK
<1>14. CallsOK(frames, pos, bufn, Here, nc, answers')
  <2>1. Len(answers) \in Nat /\ Len(answers') \in Nat /\ Len(answers) <= Len(answers')
    BY <1>2, <1>6, <1>10
  <2>2. \A j \in 1 .. Len(answers) : answers'[j] = answers[j]
    BY <1>10
  <2> QED
    BY <1>2, <1>3, <2>1, <2>2, AnswerMade
<1>15. MayBegin(frames, answers', Here, "first", a)
  <2>1. ASSUME NEW k \in 1 .. Len(frames) PROVE frames[k].ans # a
    <3>1. CASE frames[k].mode = "eval"
      <4>1. frames[k].ans = NULL
        BY <1>3, <3>1 DEF CallsOK, Answering
      <4> QED
        BY <1>2, <4>1 DEF NULL, a
    <3>2. CASE frames[k].mode # "eval"
      <4>1. frames[k].ans \in 1 .. Len(answers)
        BY <1>2, <1>3, <3>2, OwnAnswerExists
      <4> QED
        BY <1>2, <4>1 DEF a
    <3> QED
      BY <3>1, <3>2
  <2>2. a \in 1 .. Len(answers') /\ answers'[a].at = Here /\ answers'[a].type = "LR"
    BY <1>6, <1>8, <1>10
  <2> QED
    BY <2>1, <2>2 DEF MayBegin
<1>16. heads' \in Seq(HeadRec)
  BY <1>1 DEF IInv, TypeOK
<1>17. HeapsOK(answers', entries', Len(heads'), table', lrstack', pos + bufn, Len(chunks))
  BY <1>13 DEF l, nc
<1>18. CallsOK(frames, pos, bufn, Here, Len(chunks), answers')
  BY <1>14 DEF nc
<1> QED
  BY <1>1, <1>2, <1>3, <1>6, <1>15, <1>16, <1>17, <1>18, EvaluateInv

-----------------------------------------------------------------------------
(* pcc_apply_rule: the return of an evaluation.                             *)

\* The activation that returns and those that wait.
LEMMA Returned ==
  ASSUME IInv, At("ret") \/ At("fail")
  PROVE  /\ Top \in FrameRec /\ Top.rule \in Rule /\ Top.p \in Nat /\ Top.p \in Idx
         /\ pos <= Top.p /\ Top.p <= Here /\ Reached = Here
         /\ Popped \in Seq(FrameRec) /\ Resumable(Popped)
         /\ CallsOK(Popped, pos, bufn, Top.p, Len(chunks), answers)
         /\ CallsOK(Popped, pos, bufn, Here, Len(chunks), answers)
         /\ \A k \in 1 .. Len(Popped) :
              Popped[k].mode # "eval" \/ Top.mode # "eval" => Popped[k].ans # Top.ans
         /\ AfterReturn \in Seq(ChunkRec) /\ Len(AfterReturn) = Len(chunks)
         /\ ChunksLinked(AfterReturn)
         /\ Result \in 0 .. Len(chunks)
<1>1. phase = "running" /\ frames # <<>>
  BY DEF At
<1>2. /\ Top = frames[Len(frames)] /\ Top \in FrameRec /\ Top.chunk \in 1 .. Len(chunks)
      /\ Within(Top, pos, bufn) /\ Top.p <= Here /\ Resumable(Popped)
  BY <1>1, Running
<1>3. /\ pos \in Nat /\ bufn \in Nat /\ Here \in Nat /\ Here <= pos + bufn
      /\ pos + bufn <= MaxPos /\ MaxPos \in Nat /\ Len(chunks) \in Nat /\ Here = pos + cur
  BY Numbers
<1>4. Top.rule \in Rule /\ Top.p \in Nat /\ Top.p \in Idx /\ pos <= Top.p
  <2>1. Top.rule \in Rule /\ Top.p \in Nat /\ pos <= Top.p
    BY <1>2, FrameFields DEF Within
  <2> QED
    BY <1>2, <1>3, <2>1 DEF Idx
<1>5. Reached = Here
  BY DEF Reached, Here
<1>6. frames \in Seq(FrameRec) /\ CallsOK(frames, pos, bufn, Here, Len(chunks), answers)
  BY DEF IInv, TypeOK, Calls
<1>7. Popped \in Seq(FrameRec) /\ CallsOK(Popped, pos, bufn, Top.p, Len(chunks), answers)
  BY <1>1, <1>2, <1>6, PopCalls DEF Popped
<1>8. CallsOK(Popped, pos, bufn, Here, Len(chunks), answers)
  BY <1>2, <1>3, <1>4, <1>7, LaterCalls
<1>9. \A k \in 1 .. Len(Popped) :
        Popped[k].mode # "eval" \/ Top.mode # "eval" => Popped[k].ans # Top.ans
  <2> DEFINE m == Len(frames)
  <2>1. Len(Popped) = m - 1 /\ \A j \in 1 .. Len(Popped) : Popped[j] = frames[j]
    BY <1>1, <1>6, PopType DEF Popped
  <2>2. m \in Nat /\ m \in 1 .. m
    BY <1>1, <1>6, NotEmpty
  <2>3. \A j, k \in 1 .. m : j # k /\ frames[k].mode # "eval" => frames[j].ans # frames[k].ans
    BY <1>6 DEF CallsOK, OwnAnswers
  <2>4. Top = frames[m]
    BY <1>2
  <2> HIDE DEF m
  <2>5. \A k \in 1 .. Len(Popped) : k \in 1 .. m /\ k # m
    BY <2>1, <2>2
  <2> QED
    BY <2>1, <2>2, <2>3, <2>4, <2>5
<1>10. chunks \in Seq(ChunkRec) /\ ChunksLinked(chunks)
  BY DEF IInv, TypeOK, Links
<1>11. /\ AfterReturn \in Seq(ChunkRec) /\ Len(AfterReturn) = Len(chunks)
       /\ ChunksLinked(AfterReturn)
  <2>1. Top.chunk \in 0 .. Len(chunks)
    BY <1>2, <1>3
  <2> QED
    BY <1>10, <2>1, FreeChunkLinked DEF AfterReturn
<1>12. Result \in 0 .. Len(chunks)
  BY <1>2, <1>3 DEF Result, NULL
<1> QED
  BY <1>2, <1>4, <1>5, <1>7, <1>8, <1>9, <1>11, <1>12

\* The answer of an activation that returns.
LEMMA OwnAnswer ==
  ASSUME IInv, At("ret") \/ At("fail"), Top.mode # "eval"
  PROVE  /\ Top.ans \in 1 .. Len(answers) /\ Top.ans \in Nat
         /\ answers[Top.ans] \in AnswerRec
         /\ answers[Top.ans].at = Top.p /\ Top.p <= answers[Top.ans].pos
         /\ answers[Top.ans].pos <= pos + bufn /\ answers[Top.ans].pos \in Nat
         /\ answers[Top.ans].chunk \in 0 .. Len(chunks)
         /\ Top.mode = "first" => /\ OwnEntry \in 1 .. Len(entries)
                                  /\ OwnHead \in 0 .. Len(heads)
                                  /\ OwnHead # NULL => OwnHead \in 1 .. Len(heads)
<1>1. phase = "running" /\ frames # <<>>
  BY DEF At
<1>2. Answering(Top, answers)
  BY <1>1, Running
<1>3. Top.ans \in 1 .. Len(answers) /\ answers[Top.ans].at = Top.p
  BY <1>2 DEF Answering
<1>4. Top.ans \in Nat /\ Len(heads) \in Nat
  BY <1>3, Numbers
<1>5. answers[Top.ans] \in AnswerRec
  BY <1>3, ElementOfSeq DEF IInv, TypeOK
<1>6. /\ Top.p <= answers[Top.ans].pos /\ answers[Top.ans].pos <= pos + bufn
      /\ answers[Top.ans].chunk \in 0 .. Len(chunks)
      /\ answers[Top.ans].type = "LR" => answers[Top.ans].lr \in 1 .. Len(entries)
  BY <1>3 DEF IInv, Links, AnswersSpan, AnswersLinked
<1>7. answers[Top.ans].pos \in Nat
  BY <1>5, AnswerFields
<1>8. ASSUME Top.mode = "first"
      PROVE  /\ OwnEntry \in 1 .. Len(entries) /\ OwnHead \in 0 .. Len(heads)
             /\ OwnHead # NULL => OwnHead \in 1 .. Len(heads)
  <2>1. OwnEntry \in 1 .. Len(entries)
    BY <1>2, <1>6, <1>8 DEF Answering, OwnEntry
  <2>2. OwnHead \in 0 .. Len(heads)
    BY <2>1 DEF IInv, Links, EntriesLinked, OwnHead
  <2> QED
    BY <1>4, <2>1, <2>2 DEF NULL
<1> QED
  BY <1>3, <1>4, <1>5, <1>6, <1>7, <1>8

\* The table when one answer more is held at p.
LEMMA HeldTable ==
  ASSUME IInv, NEW p \in Idx, NEW bs, Len(bs) \in Nat, Len(answers) <= Len(bs),
         \A a \in 1 .. Len(answers) : bs[a].at = answers[a].at
  PROVE  Held(p) \in [Idx -> TableRec] /\ TableLinked(Held(p), bs, Len(heads))
<1>1. /\ Len(heads) \in Nat /\ Len(answers) \in Nat /\ Len(answers) + 1 \in Nat
      /\ Len(heads) <= Len(heads)
  BY Numbers
<1>2. table \in [Idx -> TableRec] /\ TableLinked(table, answers, Len(heads))
  BY DEF IInv, TypeOK, Links
<1>3. TableLinked(table, bs, Len(heads))
  BY <1>1, <1>2, WidenTable
<1> DEFINE a == Len(answers) + 1
           u == Held(p)
<1>4. u = [table EXCEPT ![p].held = @ \cup {a}]
  BY DEF Held
<1>5. a \in Nat
  BY <1>1
<1> HIDE DEF u, a
<1>6. u \in [Idx -> TableRec] /\ TableLinked(u, bs, Len(heads))
  BY <1>2, <1>3, <1>4, <1>5, HoldTable
<1> QED
  BY <1>6 DEF u

\* An answer for the chunk c found between the activation's beginning and here.
LEMMA ResultAnswer ==
  ASSUME IInv, At("ret") \/ At("fail"), NEW c \in 0 .. Len(chunks)
  PROVE  LET b == NewAnswer("CHUNK", Top.rule, Top.p, Reached, NULL, c)
         IN /\ b \in AnswerRec /\ b.at <= b.pos /\ b.pos <= pos + bufn
            /\ b.chunk \in 0 .. Len(chunks) /\ b.type # "LR"
<1> DEFINE b == NewAnswer("CHUNK", Top.rule, Top.p, Reached, NULL, c)
<1>1. /\ Top.rule \in Rule /\ Top.p \in Nat /\ Top.p <= Here /\ Reached = Here
      /\ Here \in Nat /\ Here <= pos + bufn /\ c \in Nat /\ NULL \in Nat
  BY Returned, Numbers DEF NULL
<1>2. b \in AnswerRec /\ b.at = Top.p /\ b.pos = Here /\ b.type = "CHUNK" /\ b.chunk = c
  BY <1>1 DEF NewAnswer, AnswerRec
<1> HIDE DEF b
<1>3. b.at <= b.pos /\ b.pos <= pos + bufn /\ b.chunk \in 0 .. Len(chunks) /\ b.type # "LR"
  BY <1>1, <1>2
<1> QED
  BY <1>2, <1>3 DEF b

\* A re-evaluation returns.
LEMMA ReturnReevaluatedStep ==
  ASSUME IInv, ReturnReevaluated PROVE IInv'
<1> DEFINE b == NewAnswer("CHUNK", Top.rule, Top.p, Reached, NULL, Result)
           l == pos + bufn
           nc == Len(chunks)
<1>1. /\ At("ret") \/ At("fail")
      /\ answers' = Append(answers, b)
      /\ table' = Held(Top.p)
      /\ Deliver(Popped, AfterReturn, Result)
      /\ cur' = cur /\ lrstack' = lrstack /\ entries' = entries
      /\ UNCHANGED <<envVars, pos, bufn, heads, walk, log>>
  BY DEF ReturnReevaluated, Returning, bufferVars
<1>2. /\ Top.p \in Idx /\ Reached = Here
      /\ Popped \in Seq(FrameRec) /\ Resumable(Popped)
      /\ CallsOK(Popped, pos, bufn, Here, nc, answers)
      /\ AfterReturn \in Seq(ChunkRec) /\ Len(AfterReturn) = nc
      /\ ChunksLinked(AfterReturn) /\ Result \in 0 .. nc
  BY <1>1, Returned
<1>3. /\ cur \in Nat /\ cur <= bufn /\ bufn \in Nat /\ Here = pos + cur
      /\ Len(answers) \in Nat /\ nc \in Nat
  BY Numbers
<1>4. HeapsOK(answers, entries, Len(heads), table, lrstack, l, nc)
  BY HeapsNow
<1>5. /\ answers \in Seq(AnswerRec) /\ AnswersSpan(answers, l)
      /\ AnswersLinked(answers, Len(entries), nc)
  BY <1>4 DEF HeapsOK
<1>6. /\ answers' \in Seq(AnswerRec) /\ Len(answers') = Len(answers) + 1
      /\ \A a \in 1 .. Len(answers) : answers'[a] = answers[a]
      /\ AnswersSpan(answers', l) /\ AnswersLinked(answers', Len(entries), nc)
  <2>1. /\ b \in AnswerRec /\ b.at <= b.pos /\ b.pos <= l
        /\ b.chunk \in 0 .. nc /\ b.type # "LR"
    BY <1>1, <1>2, ResultAnswer
  <2> HIDE DEF b, l, nc
  <2>2. /\ answers' \in Seq(AnswerRec) /\ Len(answers') = Len(answers) + 1
        /\ answers'[Len(answers) + 1] = b
        /\ \A a \in 1 .. Len(answers) : answers'[a] = answers[a]
    BY <1>1, <1>5, <2>1, Appended
  <2>3. AnswersSpan(answers', l) /\ AnswersLinked(answers', Len(entries), nc)
    BY <1>5, <2>1, <2>2, AppendAnswer
  <2> QED
    BY <2>2, <2>3
<1>7. Len(answers') \in Nat /\ Len(answers) <= Len(answers')
  BY <1>3, <1>6
<1>8. table' \in [Idx -> TableRec] /\ TableLinked(table', answers', Len(heads))
  BY <1>1, <1>2, <1>6, <1>7, HeldTable
<1>9. HeapsOK(answers', entries', Len(heads), table', lrstack', l, nc)
  BY <1>1, <1>4, <1>6, <1>8 DEF HeapsOK
<1>10. CallsOK(Popped, pos, bufn, pos + cur', nc, answers')
  <2> HIDE DEF nc
  <2>1. CallsOK(Popped, pos, bufn, Here, nc, answers')
    BY <1>2, <1>3, <1>6, <1>7, AnswerMade
  <2> QED
    BY <1>1, <1>3, <2>1
<1> QED
  BY <1>1, <1>2, <1>3, <1>9, <1>10, DeliverInv

\* The answers when that of the returning activation ends here.
Moved == [answers EXCEPT ![Top.ans].pos = Reached]

\* The lr entries when that of the returning activation has the seed c.
Seeded(c) == [entries EXCEPT ![OwnEntry].seed = c]

\* The answer of the returning rule gets the position that was reached.
LEMMA MovedAnswers ==
  ASSUME IInv, At("ret") \/ At("fail"), Top.mode # "eval"
  PROVE  /\ Moved \in Seq(AnswerRec) /\ Len(Moved) = Len(answers)
         /\ \A a \in 1 .. Len(answers) :
              Moved[a].at = answers[a].at /\ (a # Top.ans => Moved[a] = answers[a])
         /\ AnswersSpan(Moved, pos + bufn)
         /\ AnswersLinked(Moved, Len(entries), Len(chunks))
<1> DEFINE d == answers[Top.ans]
           b == [d EXCEPT !.pos = Reached]
           l == pos + bufn
           ne == Len(entries)
           nc == Len(chunks)
<1>1. /\ Top.p \in Nat /\ Top.p <= Reached /\ Reached \in Nat /\ Reached <= l
  BY Returned, Numbers
<1>2. /\ Top.ans \in 1 .. Len(answers) /\ d \in AnswerRec /\ d.at = Top.p
  BY OwnAnswer
<1>3. d.chunk \in 0 .. nc /\ (d.type = "LR" => d.lr \in 1 .. ne)
  BY <1>2 DEF IInv, Links, AnswersLinked
<1>4. PICK i \in 1 .. Len(answers) : i = Top.ans
  BY <1>2
<1>5. Moved = [answers EXCEPT ![i] = b]
  BY <1>4 DEF Moved
<1> HIDE DEF d, l, ne, nc
<1>6. /\ b \in AnswerRec /\ b.at = d.at /\ b.pos = Reached /\ b.chunk = d.chunk
      /\ b.type = d.type /\ b.lr = d.lr
  BY <1>1, <1>2 DEF AnswerRec
<1> HIDE DEF b
<1>7. b.at <= b.pos /\ b.pos <= l /\ b.chunk \in 0 .. nc /\ (b.type = "LR" => b.lr \in 1 .. ne)
  BY <1>1, <1>2, <1>3, <1>6
<1>8. answers \in Seq(AnswerRec) /\ AnswersSpan(answers, l) /\ AnswersLinked(answers, ne, nc)
  BY DEF IInv, TypeOK, Links, l, ne, nc
<1>9. /\ Moved \in Seq(AnswerRec) /\ Len(Moved) = Len(answers)
      /\ \A j \in 1 .. Len(answers) : Moved[j] = IF j = i THEN b ELSE answers[j]
  BY <1>5, <1>6, <1>8, Replaced
<1>10. AnswersSpan(Moved, l) /\ AnswersLinked(Moved, ne, nc)
  <2>1. /\ \A j \in 1 .. Len(Moved) : Moved[j].at <= Moved[j].pos /\ Moved[j].pos <= l
        /\ \A j \in 1 .. Len(Moved) : /\ Moved[j].chunk \in 0 .. nc
                                      /\ Moved[j].type = "LR" => Moved[j].lr \in 1 .. ne
    BY <1>7, <1>8, <1>9 DEF AnswersSpan, AnswersLinked
  <2> QED
    BY <2>1 DEF AnswersSpan, AnswersLinked
<1>11. \A a \in 1 .. Len(answers) :
         Moved[a].at = answers[a].at /\ (a # Top.ans => Moved[a] = answers[a])
  BY <1>4, <1>6, <1>9 DEF d
<1> QED
  BY <1>9, <1>10, <1>11 DEF l, ne, nc

\* The entry of the returning rule gets its seed.
LEMMA SeededEntries ==
  ASSUME IInv, At("ret") \/ At("fail"), Top.mode = "first", NEW c \in 0 .. Len(chunks)
  PROVE  /\ Seeded(c) \in Seq(EntryRec) /\ Len(Seeded(c)) = Len(entries)
         /\ EntriesLinked(Seeded(c), Len(heads), Len(chunks))
<1> DEFINE d == entries[OwnEntry]
           x == [d EXCEPT !.seed = c]
           nh == Len(heads)
           nc == Len(chunks)
           es == Seeded(c)
<1>1. OwnEntry \in 1 .. Len(entries)
  BY OwnAnswer
<1>2. entries \in Seq(EntryRec) /\ EntriesLinked(entries, nh, nc)
  BY DEF IInv, TypeOK, Links
<1>3. d \in EntryRec /\ d.head \in 0 .. nh
  BY <1>1, <1>2, ElementOfSeq DEF EntriesLinked
<1>4. PICK i \in 1 .. Len(entries) : i = OwnEntry
  BY <1>1
<1>5. es = [entries EXCEPT ![i] = x]
  BY <1>4 DEF Seeded
<1>6. c \in Nat /\ c \in 0 .. nc
  BY Numbers
<1> HIDE DEF d, nh, nc, es
<1>7. x \in EntryRec /\ x.seed = c /\ x.head = d.head
  BY <1>3, <1>6, EntryWith
<1> HIDE DEF x
<1>8. /\ es \in Seq(EntryRec) /\ Len(es) = Len(entries)
      /\ \A j \in 1 .. Len(entries) : es[j] = IF j = i THEN x ELSE entries[j]
  BY <1>2, <1>5, <1>7, Replaced
<1>9. EntriesLinked(es, nh, nc)
  <2>1. x.head \in 0 .. nh /\ x.seed \in 0 .. nc
    BY <1>3, <1>6, <1>7
  <2>2. \A j \in 1 .. Len(entries) : es[j] = x \/ es[j] = entries[j]
    BY <1>8
  <2> QED
    BY <1>2, <1>8, <2>1, <2>2, PutEntry
<1> QED
  BY <1>8, <1>9 DEF es, nh, nc

\* The lr stack without its last entry.
LEMMA PoppedStack ==
  ASSUME IInv
  PROVE  PopLR \in Seq(Nat) /\ \A k \in 1 .. Len(PopLR) : PopLR[k] \in 1 .. Len(entries)
<1> DEFINE st == PopLR
           m == Len(lrstack)
<1>1. lrstack \in Seq(Nat) /\ \A k \in 1 .. m : lrstack[k] \in 1 .. Len(entries)
  BY DEF IInv, TypeOK, Links
<1>2. CASE lrstack = <<>>
  <2>1. st = <<>>
    BY <1>2, EmptySeq, SubSeqEmpty DEF PopLR
  <2> QED
    BY <2>1, EmptySeq
<1>3. CASE lrstack # <<>>
  <2>5. st = SubSeq(lrstack, 1, Len(lrstack) - 1)
    BY DEF PopLR
  <2>2. m \in Nat
    BY <1>1, LenProperties
  <2> DEFINE S == Nat
  <2>6. lrstack \in Seq(S)
    BY <1>1
  <2> HIDE DEF st, S
  <2>7. st \in Seq(S) /\ Len(st) = Len(lrstack) - 1 /\ \A j \in 1 .. Len(st) : st[j] = lrstack[j]
    BY <1>3, <2>5, <2>6, PopType
  <2>1. st \in Seq(Nat) /\ Len(st) = m - 1 /\ \A j \in 1 .. Len(st) : st[j] = lrstack[j]
    BY <2>7 DEF S
  <2> HIDE DEF m
  <2>3. \A j \in 1 .. Len(st) : j \in 1 .. m
    BY <2>1, <2>2
  <2>4. st \in Seq(Nat) /\ \A j \in 1 .. Len(st) : st[j] \in 1 .. Len(entries)
    BY <1>1, <2>1, <2>3
  <2> QED
    BY <2>4 DEF st
<1> QED
  BY <1>2, <1>3

\* What stays true of the waiting calls and the heaps when the answer of the
\* returning activation changes to those in bs.
LEMMA AnswerSettled ==
  ASSUME IInv, At("ret") \/ At("fail"), Top.mode # "eval",
         NEW bs \in Seq(AnswerRec), Len(bs) = Len(answers) + 1,
         \A a \in 1 .. Len(answers) :
           bs[a].at = answers[a].at /\ (a # Top.ans => bs[a] = answers[a])
  PROVE  /\ CallsOK(Popped, pos, bufn, Top.p, Len(chunks), bs)
         /\ Held(Top.p) \in [Idx -> TableRec]
         /\ TableLinked(Held(Top.p), bs, Len(heads))
         /\ Len(bs) \in Nat /\ Top.ans \in 1 .. Len(bs) /\ bs[Top.ans].at = Top.p
<1> DEFINE n == Len(answers)
           nc == Len(chunks)
           m == Len(bs)
<1>1. /\ n \in Nat /\ m \in Nat /\ n <= m /\ bufn \in Nat /\ nc \in Nat
      /\ bufn <= bufn /\ nc <= nc
  BY Numbers
<1>2. /\ Popped \in Seq(FrameRec) /\ CallsOK(Popped, pos, bufn, Top.p, nc, answers)
      /\ \A k \in 1 .. Len(Popped) : Popped[k].mode # "eval" => Popped[k].ans # Top.ans
      /\ Top.p \in Idx
  BY Returned
<1>3. BeganBy(Popped, Top.p)
  BY <1>2 DEF CallsOK
<1>4. /\ Top.ans \in 1 .. n /\ answers[Top.ans].at = Top.p
  BY OwnAnswer
<1>5. \A a \in 1 .. n : bs[a].at = answers[a].at /\ (a # Top.ans => bs[a].type = answers[a].type)
  OBVIOUS
<1>6. CallsOK(Popped, pos, bufn, Top.p, nc, bs)
  <2> HIDE DEF nc
  <2> QED
    BY <1>1, <1>2, <1>3, <1>5, WidenCalls
<1>7. Held(Top.p) \in [Idx -> TableRec] /\ TableLinked(Held(Top.p), bs, Len(heads))
  BY <1>1, <1>2, <1>5, HeldTable
<1>8. Top.ans \in 1 .. m /\ bs[Top.ans].at = Top.p
  <2>1. Top.ans \in 1 .. m
    <3> HIDE DEF n, m
    <3> QED
      BY <1>1, <1>4, Wider
  <2> QED
    BY <1>4, <1>5, <2>1
<1> QED
  BY <1>1, <1>6, <1>7, <1>8

\* The answer of the returning activation gets the chunk c.
LEMMA SetAnswers ==
  ASSUME IInv, At("ret") \/ At("fail"), Top.mode # "eval", NEW c \in 0 .. Len(chunks),
         NEW bs, bs = WithChunk(Moved, Top.ans, c)
  PROVE  /\ bs \in Seq(AnswerRec) /\ Len(bs) = Len(answers) + 1
         /\ \A a \in 1 .. Len(answers) :
              bs[a].at = answers[a].at /\ (a # Top.ans => bs[a] = answers[a])
         /\ AnswersSpan(bs, pos + bufn) /\ AnswersLinked(bs, Len(entries), Len(chunks))
<1> DEFINE l == pos + bufn
           ne == Len(entries)
           nc == Len(chunks)
           n == Len(answers)
<1>1. nc \in Nat
  BY Numbers
<1>2. /\ Moved \in Seq(AnswerRec) /\ Len(Moved) = n
      /\ \A a \in 1 .. n :
           Moved[a].at = answers[a].at /\ (a # Top.ans => Moved[a] = answers[a])
      /\ AnswersSpan(Moved, l) /\ AnswersLinked(Moved, ne, nc)
  BY MovedAnswers
<1>3. PICK i \in 1 .. Len(Moved) : i = Top.ans
  BY <1>2, OwnAnswer
<1>4. bs = WithChunk(Moved, i, c) /\ c \in 0 .. nc
  BY <1>3
<1> HIDE DEF l, ne, nc, n
<1>5. /\ bs \in Seq(AnswerRec) /\ Len(bs) = Len(Moved) + 1
      /\ \A x \in 1 .. Len(Moved) : bs[x].at = Moved[x].at /\ (x # i => bs[x] = Moved[x])
      /\ AnswersSpan(bs, l) /\ AnswersLinked(bs, ne, nc)
  BY <1>1, <1>2, <1>4, WithChunkAnswers
<1>6. \A a \in 1 .. n : bs[a].at = answers[a].at /\ (a # Top.ans => bs[a] = answers[a])
  BY <1>2, <1>3, <1>5
<1> QED
  BY <1>2, <1>5, <1>6 DEF l, ne, nc, n

\* A first application that returns to its caller.
LEMMA FirstReturned ==
  ASSUME IInv, At("ret") \/ At("fail"), Top.mode = "first", NEW c \in 0 .. Len(chunks),
         Deliver(Popped, AfterReturn, c), cur' = cur, lrstack' = PopLR,
         answers' \in Seq(AnswerRec), Len(answers') = Len(answers) + 1,
         \A a \in 1 .. Len(answers) :
           answers'[a].at = answers[a].at /\ (a # Top.ans => answers'[a] = answers[a]),
         AnswersSpan(answers', pos + bufn),
         AnswersLinked(answers', Len(entries), Len(chunks)),
         entries' = entries \/ entries' = Seeded(c), table' = Held(Top.p),
         UNCHANGED <<envVars, pos, bufn, heads, walk, log>>
  PROVE  IInv'
<1> DEFINE nc == Len(chunks)
           nh == Len(heads)
<1>1. /\ Popped \in Seq(FrameRec) /\ Resumable(Popped) /\ Top.p \in Nat /\ Top.p <= Here
      /\ AfterReturn \in Seq(ChunkRec) /\ Len(AfterReturn) = nc /\ ChunksLinked(AfterReturn)
  BY Returned
<1>2. cur \in Nat /\ cur <= bufn /\ Here = pos + cur /\ Here \in Nat
  BY Numbers
<1>3. /\ CallsOK(Popped, pos, bufn, Top.p, nc, answers')
      /\ table' \in [Idx -> TableRec] /\ TableLinked(table', answers', nh)
  BY AnswerSettled
<1>4. CallsOK(Popped, pos, bufn, pos + cur', nc, answers')
  <2> HIDE DEF nc
  <2>1. CallsOK(Popped, pos, bufn, Here, nc, answers')
    BY <1>1, <1>2, <1>3, LaterCalls
  <2> QED
    BY <1>2, <2>1
<1>5. entries' \in Seq(EntryRec) /\ Len(entries') = Len(entries) /\ EntriesLinked(entries', nh, nc)
  <2>1. CASE entries' = entries
    BY <2>1 DEF IInv, TypeOK, Links
  <2>2. CASE entries' = Seeded(c)
    BY <2>2, SeededEntries
  <2> QED
    BY <2>1, <2>2
<1>6. lrstack' \in Seq(Nat) /\ \A k \in 1 .. Len(lrstack') : lrstack'[k] \in 1 .. Len(entries')
  BY <1>5, PoppedStack
<1>7. HeapsOK(answers', entries', nh, table', lrstack', pos + bufn, nc)
  <2>1. AnswersSpan(answers', pos + bufn) /\ AnswersLinked(answers', Len(entries'), nc)
    BY <1>5
  <2> QED
    BY <1>3, <1>5, <1>6, <2>1 DEF HeapsOK
<1> QED
  BY <1>1, <1>2, <1>4, <1>7, DeliverInv

\* A rule returns that was in no left recursion.
LEMMA ReturnPlainStep ==
  ASSUME IInv, ReturnPlain PROVE IInv'
<1>1. /\ At("ret") \/ At("fail")
      /\ Top.mode = "first" /\ Deliver(Popped, AfterReturn, Result)
      /\ cur' = cur /\ lrstack' = PopLR
      /\ answers' = WithChunk(Moved, Top.ans, Result)
      /\ entries' = entries /\ table' = Held(Top.p)
      /\ UNCHANGED <<envVars, pos, bufn, heads, walk, log>>
  BY DEF ReturnPlain, Returning, Moved, bufferVars
<1>2. Result \in 0 .. Len(chunks)
  BY <1>1, Returned
<1>3. /\ answers' \in Seq(AnswerRec) /\ Len(answers') = Len(answers) + 1
      /\ \A a \in 1 .. Len(answers) :
           answers'[a].at = answers[a].at /\ (a # Top.ans => answers'[a] = answers[a])
      /\ AnswersSpan(answers', pos + bufn)
      /\ AnswersLinked(answers', Len(entries), Len(chunks))
  BY <1>1, <1>2, SetAnswers
<1> QED
  BY <1>1, <1>2, <1>3, FirstReturned

\* The head of a left recursion returns and failed.
LEMMA ReturnNoSeedStep ==
  ASSUME IInv, ReturnNoSeed PROVE IInv'
<1>1. /\ At("ret") \/ At("fail")
      /\ Top.mode = "first" /\ Deliver(Popped, AfterReturn, NULL)
      /\ cur' = cur /\ lrstack' = PopLR
      /\ answers' = WithChunk(Moved, Top.ans, NULL)
      /\ entries' = Seeded(NULL) /\ table' = Held(Top.p)
      /\ UNCHANGED <<envVars, pos, bufn, heads, walk, log>>
  BY DEF ReturnNoSeed, Returning, Moved, Seeded, bufferVars
<1>2. NULL \in 0 .. Len(chunks)
  BY Numbers DEF NULL
<1>3. /\ answers' \in Seq(AnswerRec) /\ Len(answers') = Len(answers) + 1
      /\ \A a \in 1 .. Len(answers) :
           answers'[a].at = answers[a].at /\ (a # Top.ans => answers'[a] = answers[a])
      /\ AnswersSpan(answers', pos + bufn)
      /\ AnswersLinked(answers', Len(entries), Len(chunks))
  BY <1>1, <1>2, SetAnswers
<1> QED
  BY <1>1, <1>2, <1>3, FirstReturned

\* A rule returns that took part in a left recursion of another.
LEMMA ReturnInvolvedStep ==
  ASSUME IInv, ReturnInvolved PROVE IInv'
<1> DEFINE b == NewAnswer("CHUNK", Top.rule, Top.p, Reached, NULL, Result)
           l == pos + bufn
           ne == Len(entries)
           nc == Len(chunks)
<1>1. /\ At("ret") \/ At("fail")
      /\ Top.mode = "first" /\ Deliver(Popped, AfterReturn, Result)
      /\ cur' = cur /\ lrstack' = PopLR
      /\ answers' = Append(Moved, b)
      /\ entries' = Seeded(Result) /\ table' = Held(Top.p)
      /\ UNCHANGED <<envVars, pos, bufn, heads, walk, log>>
  BY DEF ReturnInvolved, Returning, Moved, Seeded, bufferVars
<1>2. Result \in 0 .. nc
  BY <1>1, Returned
<1>3. /\ Moved \in Seq(AnswerRec) /\ Len(Moved) = Len(answers)
      /\ \A a \in 1 .. Len(answers) :
           Moved[a].at = answers[a].at /\ (a # Top.ans => Moved[a] = answers[a])
      /\ AnswersSpan(Moved, l) /\ AnswersLinked(Moved, ne, nc)
  BY <1>1, MovedAnswers
<1>4. /\ b \in AnswerRec /\ b.at <= b.pos /\ b.pos <= l
      /\ b.chunk \in 0 .. nc /\ b.type # "LR"
  BY <1>1, <1>2, ResultAnswer
<1> HIDE DEF b, l, ne, nc
<1>5. /\ answers' \in Seq(AnswerRec) /\ Len(answers') = Len(Moved) + 1
      /\ answers'[Len(Moved) + 1] = b
      /\ \A a \in 1 .. Len(Moved) : answers'[a] = Moved[a]
  BY <1>1, <1>3, <1>4, Appended
<1>6. AnswersSpan(answers', l) /\ AnswersLinked(answers', ne, nc)
  BY <1>3, <1>4, <1>5, AppendAnswer
<1>7. /\ answers' \in Seq(AnswerRec) /\ Len(answers') = Len(answers) + 1
      /\ \A a \in 1 .. Len(answers) :
           answers'[a].at = answers[a].at /\ (a # Top.ans => answers'[a] = answers[a])
  BY <1>3, <1>5
<1>8. /\ AnswersSpan(answers', pos + bufn)
      /\ AnswersLinked(answers', Len(entries), Len(chunks))
      /\ Result \in 0 .. Len(chunks)
  BY <1>2, <1>6 DEF l, ne, nc
<1> QED
  BY <1>1, <1>7, <1>8, FirstReturned

-----------------------------------------------------------------------------
(* pcc_apply_rule: the growing of a seed.                                   *)

\* Every rule involved with the head h is to be evaluated anew.
LEMMA HeadsAgain ==
  ASSUME NEW hs \in Seq(HeadRec), NEW h \in Nat,
         NEW gs, gs = [hs EXCEPT ![h].eval = hs[h].invol]
  PROVE  gs \in Seq(HeadRec) /\ Len(gs) = Len(hs)
<1>1. CASE h \in 1 .. Len(hs)
  <2> DEFINE d == hs[h]
             x == [d EXCEPT !.eval = d.invol]
  <2>1. d \in HeadRec
    BY <1>1, ElementOfSeq
  <2>2. gs = [hs EXCEPT ![h] = x]
    OBVIOUS
  <2> HIDE DEF d
  <2>3. x \in HeadRec
    BY <2>1, HeadFields, HeadWith
  <2> HIDE DEF x
  <2> QED
    BY <1>1, <2>2, <2>3, Replaced
<1>2. CASE h \notin 1 .. Len(hs)
  <2>1. /\ Len(hs) \in Nat /\ DOMAIN hs = 1 .. Len(hs)
        /\ hs = [j \in 1 .. Len(hs) |-> hs[j]]
    BY LenProperties
  <2>2. gs = [j \in 1 .. Len(hs) |-> hs[j]]
    BY <1>2, <2>1
  <2>3. gs = hs
    BY <2>1, <2>2
  <2> QED
    BY <2>3
<1> QED
  BY <1>1, <1>2

\* One more turn of the growing loop.
LEMMA GrowInv ==
  ASSUME IInv, At("ret") \/ At("fail"), Top.mode # "eval", NEW h \in Nat,
         GrowTurn(Top.ans, h),
         answers' \in Seq(AnswerRec), Len(answers') = Len(answers) + 1,
         \A a \in 1 .. Len(answers) :
           answers'[a].at = answers[a].at /\ (a # Top.ans => answers'[a] = answers[a]),
         AnswersSpan(answers', pos + bufn),
         AnswersLinked(answers', Len(entries), Len(chunks)),
         entries' \in Seq(EntryRec), Len(entries') = Len(entries),
         EntriesLinked(entries', Len(heads), Len(chunks)),
         table' \in [Idx -> TableRec], TableLinked(table', answers', Len(heads)),
         lrstack' \in Seq(Nat), \A k \in 1 .. Len(lrstack') : lrstack'[k] \in 1 .. Len(entries),
         UNCHANGED <<envVars, pos, bufn, walk, thunks, work, log>>
  PROVE  IInv'
<1> DEFINE at == Top.p - pos
           nc == Len(chunks)
<1>1. /\ cur' = at
      /\ heads' = [heads EXCEPT ![h].eval = heads[h].invol]
      /\ Evaluate(Popped, AfterReturn, Top.rule, Top.p, "grow", Top.ans, h, at)
  BY DEF GrowTurn
<1>2. /\ Popped \in Seq(FrameRec) /\ Resumable(Popped) /\ Top.rule \in Rule
      /\ Top.p \in Nat /\ pos <= Top.p /\ Top.p <= Here
      /\ AfterReturn \in Seq(ChunkRec) /\ Len(AfterReturn) = nc /\ ChunksLinked(AfterReturn)
      /\ \A k \in 1 .. Len(Popped) : Popped[k].ans # Top.ans
  BY Returned
<1>3. /\ pos \in Nat /\ bufn \in Nat /\ Here \in Nat /\ Here <= pos + bufn
  BY Numbers
<1>4. at \in Nat /\ Top.p = pos + at /\ at <= bufn
  BY <1>2, <1>3
<1>5. heads' \in Seq(HeadRec) /\ Len(heads') = Len(heads)
  <2>1. heads \in Seq(HeadRec)
    BY DEF IInv, TypeOK
  <2> QED
    BY <1>1, <2>1, HeadsAgain
<1>6. /\ CallsOK(Popped, pos, bufn, Top.p, nc, answers')
      /\ Top.ans \in 1 .. Len(answers') /\ answers'[Top.ans].at = Top.p /\ Top.ans \in Nat
  BY AnswerSettled, OwnAnswer
<1>7. MayBegin(Popped, answers', Top.p, "grow", Top.ans)
  BY <1>2, <1>6 DEF MayBegin
<1>8. HeapsOK(answers', entries', Len(heads'), table', lrstack', pos + bufn, nc)
  <2>1. /\ AnswersLinked(answers', Len(entries'), nc)
        /\ \A k \in 1 .. Len(lrstack') : lrstack'[k] \in 1 .. Len(entries')
        /\ EntriesLinked(entries', Len(heads'), nc)
        /\ TableLinked(table', answers', Len(heads'))
    BY <1>5
  <2> QED
    BY <2>1 DEF HeapsOK
<1> HIDE DEF at
<1> QED
  BY <1>1, <1>2, <1>4, <1>5, <1>6, <1>7, <1>8, EvaluateInv

\* The head of a left recursion returns and begins to grow.
LEMMA ReturnSeedStep ==
  ASSUME IInv, ReturnSeed PROVE IInv'
<1> DEFINE nh == Len(heads)
<1>1. /\ At("ret") \/ At("fail")
      /\ Top.mode = "first" /\ OwnHead # NULL
      /\ lrstack' = PopLR
      /\ answers' = WithChunk(Moved, Top.ans, Result)
      /\ entries' = Seeded(Result)
      /\ table' = [Held(Top.p) EXCEPT ![Top.p].head = OwnHead]
      /\ GrowTurn(Top.ans, OwnHead)
      /\ UNCHANGED <<envVars, pos, bufn, walk, thunks, work, log>>
  BY DEF ReturnSeed, Returning, Moved, Seeded, bufferVars, actVars
<1>2. Result \in 0 .. Len(chunks) /\ Top.p \in Idx
  BY <1>1, Returned
<1>3. /\ answers' \in Seq(AnswerRec) /\ Len(answers') = Len(answers) + 1
      /\ \A a \in 1 .. Len(answers) :
           answers'[a].at = answers[a].at /\ (a # Top.ans => answers'[a] = answers[a])
      /\ AnswersSpan(answers', pos + bufn)
      /\ AnswersLinked(answers', Len(entries), Len(chunks))
  BY <1>1, <1>2, SetAnswers
<1>4. /\ entries' \in Seq(EntryRec) /\ Len(entries') = Len(entries)
      /\ EntriesLinked(entries', Len(heads), Len(chunks))
  BY <1>1, <1>2, SeededEntries
<1>5. /\ lrstack' \in Seq(Nat)
      /\ \A k \in 1 .. Len(lrstack') : lrstack'[k] \in 1 .. Len(entries)
  BY <1>1, PoppedStack
<1>6. nh \in Nat /\ OwnHead \in 0 .. nh /\ OwnHead \in Nat
  BY <1>1, OwnAnswer, Numbers
<1>7. table' \in [Idx -> TableRec] /\ TableLinked(table', answers', Len(heads))
  <2> DEFINE t == Held(Top.p)
             p == Top.p
             h == OwnHead
  <2>1. t \in [Idx -> TableRec] /\ TableLinked(t, answers', nh)
    BY <1>1, <1>3, AnswerSettled
  <2>2. table' = [t EXCEPT ![p].head = h] /\ p \in Idx /\ h \in 0 .. nh
    BY <1>1, <1>2, <1>6
  <2> HIDE DEF t, p, h, nh
  <2>3. table' \in [Idx -> TableRec] /\ TableLinked(table', answers', nh)
    BY <1>6, <2>1, <2>2, HeadTable
  <2> QED
    BY <2>3 DEF nh
<1> QED
  BY <1>1, <1>3, <1>4, <1>5, <1>6, <1>7, GrowInv

\* The answer with a longer result.
LEMMA LongerAnswers ==
  ASSUME IInv, At("ret") \/ At("fail"), Top.mode # "eval",
         NEW bs, bs = [WithChunk(answers, Top.ans, Result) EXCEPT ![Top.ans].pos = Reached]
  PROVE  /\ bs \in Seq(AnswerRec) /\ Len(bs) = Len(answers) + 1
         /\ \A a \in 1 .. Len(answers) :
              bs[a].at = answers[a].at /\ (a # Top.ans => bs[a] = answers[a])
         /\ AnswersSpan(bs, pos + bufn) /\ AnswersLinked(bs, Len(entries), Len(chunks))
<1> DEFINE l == pos + bufn
           ne == Len(entries)
           nc == Len(chunks)
           n == Len(answers)
           ws == WithChunk(answers, Top.ans, Result)
<1>1. /\ Top.p \in Nat /\ Top.p <= Reached /\ Reached \in Nat /\ Reached <= l
      /\ nc \in Nat /\ n \in Nat /\ Result \in 0 .. nc
  BY Returned, Numbers
<1>2. answers \in Seq(AnswerRec) /\ AnswersSpan(answers, l) /\ AnswersLinked(answers, ne, nc)
  BY DEF IInv, TypeOK, Links
<1>3. PICK i \in 1 .. n : i = Top.ans
  BY OwnAnswer
<1>4. answers[i].at = Top.p
  BY <1>3, OwnAnswer
<1>5. ws = WithChunk(answers, i, Result)
  BY <1>3
<1>6. bs = [ws EXCEPT ![i].pos = Reached]
  BY <1>3
<1> HIDE DEF l, ne, nc, ws
<1>7. /\ ws \in Seq(AnswerRec) /\ Len(ws) = n + 1
      /\ \A x \in 1 .. n : ws[x].at = answers[x].at /\ (x # i => ws[x] = answers[x])
      /\ AnswersSpan(ws, l) /\ AnswersLinked(ws, ne, nc)
  BY <1>1, <1>2, <1>5, WithChunkAnswers
<1> HIDE DEF n
<1> DEFINE d == ws[i]
           b == [d EXCEPT !.pos = Reached]
<1>8. i \in 1 .. Len(ws)
  BY <1>1, <1>3, <1>7
<1>9. /\ d \in AnswerRec /\ d.at = Top.p /\ d.chunk \in 0 .. nc
      /\ d.type = "LR" => d.lr \in 1 .. ne
  BY <1>3, <1>4, <1>7, <1>8, ElementOfSeq DEF AnswersLinked
<1>10. bs = [ws EXCEPT ![i] = b]
  BY <1>6
<1> HIDE DEF d
<1>11. /\ b \in AnswerRec /\ b.at = d.at /\ b.pos = Reached /\ b.chunk = d.chunk
       /\ b.type = d.type /\ b.lr = d.lr
  BY <1>1, <1>9 DEF AnswerRec
<1> HIDE DEF b
<1>12. b.at <= b.pos /\ b.pos <= l /\ b.chunk \in 0 .. nc /\ (b.type = "LR" => b.lr \in 1 .. ne)
  BY <1>1, <1>9, <1>11
<1>13. /\ bs \in Seq(AnswerRec) /\ Len(bs) = Len(ws)
       /\ \A j \in 1 .. Len(ws) : bs[j] = IF j = i THEN b ELSE ws[j]
  <2>1. ws \in Seq(AnswerRec)
    BY <1>7
  <2>2. b \in AnswerRec
    BY <1>11
  <2> QED
    BY ONLY <2>1, <2>2, <1>8, <1>10, Replaced
<1>14. AnswersSpan(bs, l) /\ AnswersLinked(bs, ne, nc)
  <2>1. /\ \A j \in 1 .. Len(bs) : bs[j].at <= bs[j].pos /\ bs[j].pos <= l
        /\ \A j \in 1 .. Len(bs) : /\ bs[j].chunk \in 0 .. nc
                                   /\ bs[j].type = "LR" => bs[j].lr \in 1 .. ne
    <3>1. \A j \in 1 .. Len(ws) : /\ ws[j].at <= ws[j].pos /\ ws[j].pos <= l
                                  /\ ws[j].chunk \in 0 .. nc
                                  /\ ws[j].type = "LR" => ws[j].lr \in 1 .. ne
      BY <1>7 DEF AnswersSpan, AnswersLinked
    <3> QED
      BY ONLY <3>1, <1>12, <1>13
  <2> QED
    BY <2>1 DEF AnswersSpan, AnswersLinked
<1>15. \A a \in 1 .. n : bs[a].at = answers[a].at /\ (a # Top.ans => bs[a] = answers[a])
  <2>1. \A a \in 1 .. n : a \in 1 .. Len(ws)
    BY <1>1, <1>7
  <2>2. b.at = ws[i].at
    BY <1>11 DEF d
  <2> QED
    BY <1>3, <1>7, <1>13, <2>1, <2>2
<1> QED
  BY <1>7, <1>13, <1>14, <1>15 DEF l, ne, nc, n

\* A turn of the growth got further.
LEMMA GrowNextStep ==
  ASSUME IInv, GrowNext PROVE IInv'
<1>1. /\ At("ret") \/ At("fail")
      /\ Top.mode = "grow" /\ lrstack' = lrstack /\ entries' = entries
      /\ answers' = [WithChunk(answers, Top.ans, Result) EXCEPT ![Top.ans].pos = Reached]
      /\ table' = Held(Top.p)
      /\ GrowTurn(Top.ans, Top.head)
      /\ UNCHANGED <<envVars, pos, bufn, walk, thunks, work, log>>
  BY DEF GrowNext, Returning, bufferVars, actVars
<1>2. Top.mode # "eval"
  BY <1>1
<1>3. /\ answers' \in Seq(AnswerRec) /\ Len(answers') = Len(answers) + 1
      /\ \A a \in 1 .. Len(answers) :
           answers'[a].at = answers[a].at /\ (a # Top.ans => answers'[a] = answers[a])
      /\ AnswersSpan(answers', pos + bufn)
      /\ AnswersLinked(answers', Len(entries), Len(chunks))
  BY <1>1, <1>2, LongerAnswers
<1>4. /\ entries' \in Seq(EntryRec) /\ Len(entries') = Len(entries)
      /\ EntriesLinked(entries', Len(heads), Len(chunks))
      /\ lrstack' \in Seq(Nat)
      /\ \A k \in 1 .. Len(lrstack') : lrstack'[k] \in 1 .. Len(entries)
  BY <1>1 DEF IInv, TypeOK, Links
<1>5. table' \in [Idx -> TableRec] /\ TableLinked(table', answers', Len(heads))
  BY <1>1, <1>2, <1>3, AnswerSettled
<1>6. Top.head \in Nat
  BY <1>1, Returned, FrameFields
<1> QED
  BY <1>1, <1>2, <1>3, <1>4, <1>5, <1>6, GrowInv

\* A turn of the growth got no further, and the last one counts.
LEMMA GrowEndStep ==
  ASSUME IInv, GrowEnd PROVE IInv'
<1> DEFINE q == answers[Top.ans].pos
           c == answers[Top.ans].chunk
           cs == FreeChunk(AfterReturn, Result)
           nc == Len(chunks)
           nh == Len(heads)
<1>1. /\ At("ret") \/ At("fail")
      /\ Top.mode = "grow" /\ Top.mode # "eval"
      /\ table' = [table EXCEPT ![Top.p].head = NULL]
      /\ cur' = q - pos
      /\ Deliver(Popped, cs, c)
      /\ lrstack' = lrstack /\ answers' = answers /\ entries' = entries
      /\ UNCHANGED <<envVars, pos, bufn, heads, walk, log>>
  BY DEF GrowEnd, Returning, Unheaded, bufferVars
<1>2. /\ Popped \in Seq(FrameRec) /\ Resumable(Popped)
      /\ Top.p \in Nat /\ Top.p \in Idx /\ pos <= Top.p
      /\ CallsOK(Popped, pos, bufn, Top.p, nc, answers)
      /\ AfterReturn \in Seq(ChunkRec) /\ Len(AfterReturn) = nc /\ ChunksLinked(AfterReturn)
      /\ Result \in 0 .. nc
  BY <1>1, Returned
<1>3. q \in Nat /\ Top.p <= q /\ q <= pos + bufn /\ c \in 0 .. nc
  BY <1>1, OwnAnswer
<1>4. cs \in Seq(ChunkRec) /\ Len(cs) = nc /\ ChunksLinked(cs)
  BY <1>2, FreeChunkLinked
<1> HIDE DEF q, c, cs
<1>5. pos \in Nat /\ bufn \in Nat /\ nh \in Nat /\ NULL \in 0 .. nh
  BY Numbers DEF NULL
<1>6. cur' \in Nat /\ cur' <= bufn /\ pos + cur' = q
  BY <1>1, <1>2, <1>3, <1>5
<1>7. CallsOK(Popped, pos, bufn, pos + cur', nc, answers')
  <2> HIDE DEF nc
  <2>1. CallsOK(Popped, pos, bufn, q, nc, answers)
    BY <1>2, <1>3, LaterCalls
  <2> QED
    BY <1>1, <1>6, <2>1
<1>8. HeapsOK(answers', entries', nh, table', lrstack', pos + bufn, nc)
  <2>1. HeapsOK(answers, entries, nh, table, lrstack, pos + bufn, nc)
    BY HeapsNow
  <2>2. table \in [Idx -> TableRec] /\ TableLinked(table, answers, nh)
    BY <2>1 DEF HeapsOK
  <2>3. table' \in [Idx -> TableRec] /\ TableLinked(table', answers, nh)
    <3> DEFINE p == Top.p
               h == NULL
    <3>1. table' = [table EXCEPT ![p].head = h] /\ p \in Idx /\ h \in 0 .. nh
      BY <1>1, <1>2, <1>5
    <3> HIDE DEF p, h, nh
    <3> QED
      BY <1>5, <2>2, <3>1, HeadTable
  <2> QED
    BY <1>1, <2>1, <2>3 DEF HeapsOK
<1> QED
  BY <1>1, <1>2, <1>3, <1>4, <1>6, <1>7, <1>8, DeliverInv

-----------------------------------------------------------------------------
(* The beginning and the end of pcc_parse, pcc_commit_buffer and           *)
(* pcc_destroy: no activation is under way.                                *)

Outside == phase \notin {"running", "involve", "crash"}

\* A buffer that ends further on.
LEMMA LaterLimit ==
  ASSUME NEW ans \in Seq(AnswerRec), NEW l \in Nat, NEW l1 \in Nat, l <= l1,
         AnswersSpan(ans, l)
  PROVE  AnswersSpan(ans, l1)
<1>1. ASSUME NEW a \in 1 .. Len(ans) PROVE ans[a].at <= ans[a].pos /\ ans[a].pos <= l1
  <2>1. ans[a] \in AnswerRec
    BY ElementOfSeq
  <2>2. ans[a].at <= ans[a].pos /\ ans[a].pos <= l
    BY DEF AnswersSpan
  <2>3. ans[a].pos \in Nat
    BY <2>1, AnswerFields
  <2> QED
    BY <2>2, <2>3
<1> QED
  BY <1>1 DEF AnswersSpan

\* The invariant from the heaps alone.
LEMMA OutsideInv ==
  ASSUME IInv, Outside, frames' = frames, lrstack' = lrstack, walk' = walk,
         input' = input, start' = start, parses' \in Nat,
         phase' \in Phases, phase' \notin {"running", "involve", "crash"},
         pos' \in Nat, cur' \in Nat, bufn' \in Nat, cur' <= bufn',
         pos' + bufn' <= Len(input), pos + bufn <= pos' + bufn',
         chunks' \in Seq(ChunkRec), Len(chunks') = Len(chunks), ChunksLinked(chunks'),
         heads' \in Seq(HeadRec), Len(heads') = Len(heads),
         entries' \in Seq(EntryRec), Len(entries') = Len(entries),
         EntriesLinked(entries', Len(heads), Len(chunks)),
         answers' \in Seq(AnswerRec), AnswersSpan(answers', pos + bufn),
         AnswersLinked(answers', Len(entries), Len(chunks)),
         table' \in [Idx -> TableRec], TableLinked(table', answers', Len(heads)),
         thunks' \in Seq(ThunkRec), Pointing(thunks', Len(chunks)),
         work' \in Seq(ThunkRec), Pointing(work', Len(chunks)),
         log' \in Seq(LogRec)
  PROVE  IInv'
<1>1. frames = <<>>
  BY DEF Outside, IInv, Calls
<1>2. TypeOK'
  <2>1. pos' \in Idx /\ cur' \in Idx /\ bufn' \in Idx
    <3> DEFINE l == Len(input)
    <3>1. l \in Nat /\ l <= MaxPos /\ MaxPos \in Nat
      BY Numbers
    <3>2. PICK p, c, b : p = pos' /\ c = cur' /\ b = bufn'
      OBVIOUS
    <3>3. p \in Nat /\ c \in Nat /\ b \in Nat /\ c <= b /\ p + b <= l
      BY <3>2
    <3> HIDE DEF l
    <3>4. p \in Idx /\ c \in Idx /\ b \in Idx
      BY ONLY <3>1, <3>3 DEF Idx
    <3> QED
      BY <3>2, <3>4
  <2> QED
    BY <2>1 DEF IInv, TypeOK
<1>3. InBuffer'
  BY DEF InBuffer
<1>4. Calls'
  <2>1. /\ frames' = <<>> /\ Len(frames') = 0
    BY <1>1
  <2>2. Resumable(frames')
    BY <2>1 DEF Resumable
  <2>3. CallsOK(frames', pos', bufn', Here', Len(chunks'), answers')
    BY <2>1 DEF CallsOK, Sorted, BeganBy, OwnAnswers
  <2> QED
    BY <2>1, <2>2, <2>3 DEF Calls
<1>5. Links'
  <2>1. AnswersSpan(answers', pos' + bufn')
    <3>1. pos \in Nat /\ bufn \in Nat
      BY Numbers
    <3>2. PICK p, b : p = pos' /\ b = bufn'
      OBVIOUS
    <3>3. p + b \in Nat /\ pos + bufn \in Nat
      <4>1. p \in Nat /\ b \in Nat
        BY <3>2
      <4> QED
        BY ONLY <3>1, <4>1
    <3>4. AnswersSpan(answers', p + b)
      <4>1. pos + bufn <= p + b
        BY <3>2
      <4> QED
        BY <3>3, <4>1, LaterLimit
    <3> QED
      BY <3>2, <3>4
  <2>2. \A k \in 1 .. Len(lrstack) : lrstack[k] \in 1 .. Len(entries)
    BY DEF IInv, Links
  <2>3. Walking'
    BY DEF Walking
  <2> QED
    BY <2>1, <2>2, <2>3 DEF Links
<1> QED
  BY <1>2, <1>3, <1>4, <1>5 DEF IInv

\* What stays as it is.
LEMMA OutsideNow ==
  ASSUME IInv
  PROVE  /\ chunks \in Seq(ChunkRec) /\ ChunksLinked(chunks)
         /\ heads \in Seq(HeadRec) /\ entries \in Seq(EntryRec)
         /\ EntriesLinked(entries, Len(heads), Len(chunks))
         /\ answers \in Seq(AnswerRec) /\ AnswersSpan(answers, pos + bufn)
         /\ AnswersLinked(answers, Len(entries), Len(chunks))
         /\ table \in [Idx -> TableRec] /\ TableLinked(table, answers, Len(heads))
         /\ thunks \in Seq(ThunkRec) /\ Pointing(thunks, Len(chunks))
         /\ work \in Seq(ThunkRec) /\ Pointing(work, Len(chunks))
         /\ log \in Seq(LogRec) /\ parses \in Nat
BY DEF IInv, TypeOK, Links

\* pcc_parse begins.
LEMMA ParseBeginStep ==
  ASSUME IInv, ParseBegin PROVE IInv'
<1>1. /\ phase = "idle" /\ bufn' = Refilled(1) /\ phase' \in {"calling", "eof"}
      /\ parses' = parses + 1 /\ log' = <<>>
      /\ UNCHANGED <<input, start, pos, cur, table, lrstack, frames, chunks,
                     answers, entries, heads, walk, thunks, work>>
  BY DEF ParseBegin, heapVars
<1>2. /\ bufn' \in Nat /\ bufn <= bufn' /\ pos + bufn' <= Len(input)
  BY <1>1, Buffering DEF IInv
<1>3. pos \in Nat /\ cur \in Nat /\ bufn \in Nat /\ cur <= bufn
  BY Numbers
<1>4. cur <= bufn' /\ pos + bufn <= pos + bufn'
  <2>1. PICK b : b = bufn'
    OBVIOUS
  <2>2. b \in Nat /\ bufn <= b
    BY <1>2, <2>1
  <2>3. cur <= b /\ pos + bufn <= pos + b
    BY <1>3, <2>2
  <2> QED
    BY <2>1, <2>3
<1>5. log' \in Seq(LogRec) /\ parses' \in Nat
  BY <1>1, EmptySeq, OutsideNow
<1>6. Outside /\ phase' \in Phases /\ phase' \notin {"running", "involve", "crash"}
  BY <1>1 DEF Outside, Phases
<1> QED
  BY <1>1, <1>2, <1>3, <1>4, <1>5, <1>6, OutsideNow, OutsideInv

\* The thunks still to visit: those behind the first.
LEMMA TailThunks ==
  ASSUME NEW ths \in Seq(ThunkRec), ths # <<>>, NEW nc, Pointing(ths, nc)
  PROVE  /\ Head(ths) \in ThunkRec /\ Head(ths).chunk \in 1 .. nc
         /\ Tail(ths) \in Seq(ThunkRec) /\ Pointing(Tail(ths), nc)
<1> DEFINE n == Len(ths)
           us == Tail(ths)
<1>1. n \in Nat /\ 1 \in 1 .. n
  BY EmptySeq
<1>2. /\ Head(ths) \in ThunkRec /\ us \in Seq(ThunkRec) /\ Len(us) = n - 1
      /\ \A i \in 1 .. Len(us) : us[i] = ths[i + 1]
  BY HeadTailProperties
<1>3. Head(ths) = ths[1]
  OBVIOUS
<1>4. \A k \in 1 .. n : ths[k].chunk \in 1 .. nc
  BY DEF Pointing
<1> HIDE DEF n, us
<1>5. \A i \in 1 .. Len(us) : i + 1 \in 1 .. n
  BY <1>1, <1>2
<1>6. Pointing(us, nc)
  BY <1>2, <1>4, <1>5 DEF Pointing
<1> QED
  BY <1>1, <1>2, <1>3, <1>4, <1>6 DEF us

\* Thunks of two sequences point where they did when they are joined.
LEMMA JoinThunks ==
  ASSUME NEW ths \in Seq(ThunkRec), NEW us \in Seq(ThunkRec), NEW nc,
         Pointing(ths, nc), Pointing(us, nc)
  PROVE  ths \o us \in Seq(ThunkRec) /\ Pointing(ths \o us, nc)
<1> DEFINE ws == ths \o us
           m == Len(ths)
           n == Len(us)
<1>1. /\ m \in Nat /\ n \in Nat /\ ws \in Seq(ThunkRec) /\ Len(ws) = m + n
      /\ \A i \in 1 .. m + n : ws[i] = IF i <= m THEN ths[i] ELSE us[i - m]
  BY ConcatProperties, LenProperties
<1>2. /\ \A k \in 1 .. m : ths[k].chunk \in 1 .. nc
      /\ \A k \in 1 .. n : us[k].chunk \in 1 .. nc
  BY DEF Pointing
<1> HIDE DEF ws, m, n
<1>3. ASSUME NEW i \in 1 .. Len(ws) PROVE ws[i].chunk \in 1 .. nc
  <2>1. i \in 1 .. m + n
    BY <1>1
  <2>2. CASE i <= m
    <3>1. i \in 1 .. m
      BY <2>1, <2>2, <1>1
    <3> QED
      BY <1>1, <1>2, <2>1, <2>2, <3>1
  <2>3. CASE ~ (i <= m)
    <3>1. i - m \in 1 .. n
      BY <2>1, <2>3, <1>1
    <3> QED
      BY <1>1, <1>2, <2>1, <2>3, <3>1
  <2> QED
    BY <2>2, <2>3
<1> QED
  BY <1>1, <1>3 DEF ws, Pointing

\* An action is executed, or a thunk is expanded to those below it.
LEMMA DoActionStep ==
  ASSUME IInv, DoAction PROVE IInv'
<1> DEFINE t == Head(work)
           nc == Len(chunks)
<1>1. /\ phase = "acting" /\ work # <<>>
      /\ UNCHANGED <<envVars, phase, pos, bufn, cur, table, lrstack, frames, chunks,
                     answers, entries, heads, walk, thunks>>
  BY DEF DoAction, bufferVars, heapVars
<1>2. \/ /\ log' = Append(log, Executed("action", t.act, t.s, t.e, t.chunk))
         /\ work' = Tail(work)
      \/ /\ log' = log
         /\ work' = chunks[t.chunk].thunks \o Tail(work)
  BY DEF DoAction
<1>3. /\ t \in ThunkRec /\ t.chunk \in 1 .. nc
      /\ Tail(work) \in Seq(ThunkRec) /\ Pointing(Tail(work), nc)
  BY <1>1, OutsideNow, TailThunks
<1> HIDE DEF t
<1>4. t.act \in Nat /\ t.s \in Nat /\ t.e \in Nat
  BY <1>3 DEF ThunkRec
<1>5. Append(log, Executed("action", t.act, t.s, t.e, t.chunk)) \in Seq(LogRec)
  BY <1>3, <1>4, ExecutedType
<1>6. chunks[t.chunk].thunks \in Seq(ThunkRec) /\ Pointing(chunks[t.chunk].thunks, nc)
  <2>1. chunks[t.chunk] \in ChunkRec
    BY <1>3, OutsideNow, ElementOfSeq
  <2>2. Pointing(chunks[t.chunk].thunks, nc)
    BY <1>3, OutsideNow DEF ChunksLinked
  <2> QED
    BY <2>1, <2>2, ChunkFields
<1>7. /\ chunks[t.chunk].thunks \o Tail(work) \in Seq(ThunkRec)
      /\ Pointing(chunks[t.chunk].thunks \o Tail(work), nc)
  BY <1>3, <1>6, JoinThunks
<1>8. log' \in Seq(LogRec) /\ work' \in Seq(ThunkRec) /\ Pointing(work', Len(chunks))
  BY <1>2, <1>3, <1>5, <1>7, OutsideNow
<1>9. /\ pos \in Nat /\ cur \in Nat /\ bufn \in Nat /\ cur <= bufn
      /\ pos + bufn <= Len(input) /\ pos + bufn <= pos + bufn
  BY Numbers
<1>10. Outside /\ phase' \in Phases /\ phase' \notin {"running", "involve", "crash"}
  BY <1>1 DEF Outside, Phases
<1> QED
  BY <1>1, <1>8, <1>9, <1>10, OutsideNow, OutsideInv DEF envVars

\* pcc_parse goes on to commit, or the program ends.
LEMMA FinishStep ==
  ASSUME IInv, ActionsDone \/ SyntaxError PROVE IInv'
<1>1. /\ phase \in {"acting", "error"} /\ phase' \in {"exit", "commit"}
      /\ UNCHANGED <<envVars, pos, bufn, cur, table, lrstack, frames, chunks,
                     answers, entries, heads, walk, thunks, work, log>>
  BY DEF ActionsDone, SyntaxError, bufferVars, heapVars, actVars
<1>2. /\ pos \in Nat /\ cur \in Nat /\ bufn \in Nat /\ cur <= bufn
      /\ pos + bufn <= Len(input) /\ pos + bufn <= pos + bufn
  BY Numbers
<1>3. Outside /\ phase' \in Phases /\ phase' \notin {"running", "involve", "crash"}
  BY <1>1 DEF Outside, Phases
<1> QED
  BY <1>1, <1>2, <1>3, OutsideNow, OutsideInv DEF envVars

\* A function on 1 .. n is a sequence.
LEMMA SequenceMade ==
  ASSUME NEW n \in Nat, NEW S, NEW u \in [1 .. n -> S]
  PROVE  u \in Seq(S) /\ Len(u) = n
BY SeqDef, LenProperties

\* Destroyed objects keep all but their mark, and chunks lose their thunks.
LEMMA DestroyedHeaps ==
  ASSUME IInv, NEW I, Destroyed(I)
  PROVE  /\ chunks' \in Seq(ChunkRec) /\ Len(chunks') = Len(chunks)
         /\ ChunksLinked(chunks')
         /\ heads' \in Seq(HeadRec) /\ Len(heads') = Len(heads)
         /\ entries' \in Seq(EntryRec) /\ Len(entries') = Len(entries)
         /\ EntriesLinked(entries', Len(heads), Len(chunks))
         /\ answers' \in Seq(AnswerRec) /\ Len(answers') = Len(answers)
         /\ \A a \in 1 .. Len(answers) : answers'[a].at = answers[a].at
         /\ AnswersSpan(answers', pos + bufn)
         /\ AnswersLinked(answers', Len(entries), Len(chunks))
<1> DEFINE na == Len(answers)
           nc == Len(chunks)
           ne == Len(entries)
           nh == Len(heads)
           l == pos + bufn
<1>1. /\ na \in Nat /\ nc \in Nat /\ ne \in Nat /\ nh \in Nat
      /\ DOMAIN answers = 1 .. na /\ DOMAIN chunks = 1 .. nc
      /\ DOMAIN entries = 1 .. ne /\ DOMAIN heads = 1 .. nh
  BY OutsideNow, LenProperties
<1>2. /\ \A a \in 1 .. na : answers[a] \in AnswerRec
      /\ \A c \in 1 .. nc : chunks[c] \in ChunkRec
      /\ \A e \in 1 .. ne : entries[e] \in EntryRec
      /\ \A h \in 1 .. nh : heads[h] \in HeadRec
  BY OutsideNow, ElementOfSeq
<1>3. /\ ChunksLinked(chunks) /\ EntriesLinked(entries, nh, nc)
      /\ AnswersSpan(answers, l) /\ AnswersLinked(answers, ne, nc)
  BY OutsideNow
<1>4. PICK da, cs, es, hs :
        /\ answers' = [a \in DOMAIN answers |->
                         IF a \in da THEN Dead(answers[a]) ELSE answers[a]]
        /\ chunks'  = [c \in DOMAIN chunks |->
                         IF c \in cs THEN FreeChunk(chunks, c)[c] ELSE chunks[c]]
        /\ entries' = [e \in DOMAIN entries |->
                         IF e \in es THEN Dead(entries[e]) ELSE entries[e]]
        /\ heads'   = [h \in DOMAIN heads |->
                         IF h \in hs THEN Dead(heads[h]) ELSE heads[h]]
  <2> DEFINE da == UNION {table[i].held \cup {table[i].memos[r] : r \in Rule} : i \in I}
             cs == {answers[a].chunk : a \in
                     {a \in da \cap DOMAIN answers : answers[a].type = "CHUNK"}}
             es == {answers[a].lr : a \in
                     {a \in da \cap DOMAIN answers : answers[a].type = "LR"}}
             hs == UNION {table[i].heads : i \in I}
  <2>1. /\ answers' = [a \in DOMAIN answers |->
                         IF a \in da THEN Dead(answers[a]) ELSE answers[a]]
        /\ chunks'  = [c \in DOMAIN chunks |->
                         IF c \in cs THEN FreeChunk(chunks, c)[c] ELSE chunks[c]]
        /\ entries' = [e \in DOMAIN entries |->
                         IF e \in es THEN Dead(entries[e]) ELSE entries[e]]
        /\ heads'   = [h \in DOMAIN heads |->
                         IF h \in hs THEN Dead(heads[h]) ELSE heads[h]]
    BY Zenon DEF Destroyed
  <2> HIDE DEF da, cs, es, hs
  <2> QED
    BY <2>1, Zenon
<1> HIDE DEF na, nc, ne, nh, l
<1>5. /\ answers' \in Seq(AnswerRec) /\ Len(answers') = na
      /\ \A a \in 1 .. na : /\ answers'[a].at = answers[a].at
                            /\ answers'[a].pos = answers[a].pos
                            /\ answers'[a].chunk = answers[a].chunk
                            /\ answers'[a].type = answers[a].type
                            /\ answers'[a].lr = answers[a].lr
  <2>1. ASSUME NEW d \in AnswerRec
        PROVE  /\ Dead(d) \in AnswerRec /\ Dead(d).at = d.at /\ Dead(d).pos = d.pos
               /\ Dead(d).chunk = d.chunk /\ Dead(d).type = d.type /\ Dead(d).lr = d.lr
    BY DEF Dead, AnswerRec
  <2>2. \A a \in 1 .. na : answers'[a] = answers[a] \/ answers'[a] = Dead(answers[a])
    BY <1>1, <1>4
  <2>3. \A a \in 1 .. na : answers'[a] \in AnswerRec
    BY <1>2, <2>1, <2>2
  <2>4. DOMAIN answers' = 1 .. na /\ answers' = [a \in 1 .. na |-> answers'[a]]
    BY <1>1, <1>4
  <2>5. answers' \in [1 .. na -> AnswerRec]
    BY <2>3, <2>4
  <2>6. answers' \in Seq(AnswerRec) /\ Len(answers') = na
    BY <1>1, <2>5, SequenceMade
  <2> QED
    BY <1>2, <2>1, <2>2, <2>6
<1>6. /\ entries' \in Seq(EntryRec) /\ Len(entries') = ne
      /\ \A e \in 1 .. ne : /\ entries'[e].head = entries[e].head
                            /\ entries'[e].seed = entries[e].seed
  <2>1. ASSUME NEW d \in EntryRec
        PROVE  Dead(d) \in EntryRec /\ Dead(d).head = d.head /\ Dead(d).seed = d.seed
    BY DEF Dead, EntryRec
  <2>2. \A e \in 1 .. ne : entries'[e] = entries[e] \/ entries'[e] = Dead(entries[e])
    BY <1>1, <1>4
  <2>3. \A e \in 1 .. ne : entries'[e] \in EntryRec
    BY <1>2, <2>1, <2>2
  <2>4. DOMAIN entries' = 1 .. ne /\ entries' = [e \in 1 .. ne |-> entries'[e]]
    BY <1>1, <1>4
  <2>5. entries' \in [1 .. ne -> EntryRec]
    BY <2>3, <2>4
  <2>6. entries' \in Seq(EntryRec) /\ Len(entries') = ne
    BY <1>1, <2>5, SequenceMade
  <2> QED
    BY <1>2, <2>1, <2>2, <2>6
<1>7. heads' \in Seq(HeadRec) /\ Len(heads') = nh
  <2>1. \A d \in HeadRec : Dead(d) \in HeadRec
    BY DEF Dead, HeadRec
  <2>2. \A h \in 1 .. nh : heads'[h] = heads[h] \/ heads'[h] = Dead(heads[h])
    BY <1>1, <1>4
  <2>3. \A h \in 1 .. nh : heads'[h] \in HeadRec
    BY <1>2, <2>1, <2>2
  <2>4. DOMAIN heads' = 1 .. nh /\ heads' = [h \in 1 .. nh |-> heads'[h]]
    BY <1>1, <1>4
  <2>5. heads' \in [1 .. nh -> HeadRec]
    BY <2>3, <2>4
  <2> QED
    BY <1>1, <2>5, SequenceMade
<1>8. chunks' \in Seq(ChunkRec) /\ Len(chunks') = nc /\ ChunksLinked(chunks')
  <2>1. ASSUME NEW c \in 1 .. nc
        PROVE  chunks'[c] \in ChunkRec /\ Pointing(chunks'[c].thunks, nc)
    <3>1. chunks[c] \in ChunkRec /\ Pointing(chunks[c].thunks, nc)
      BY <1>2, <1>3 DEF ChunksLinked, nc
    <3>2. c \in 1 .. Len(chunks) /\ c \in 0 .. Len(chunks)
      BY <1>1 DEF nc
    <3>3. LET ds == FreeChunk(chunks, c)
          IN ds \in Seq(ChunkRec) /\ Len(ds) = Len(chunks) /\ ChunksLinked(ds)
      BY <1>3, <3>2, FreeChunkLinked, OutsideNow
    <3>4. FreeChunk(chunks, c)[c] \in ChunkRec /\ Pointing(FreeChunk(chunks, c)[c].thunks, nc)
      BY <3>2, <3>3, ElementOfSeq DEF ChunksLinked, nc
    <3>5. chunks'[c] = chunks[c] \/ chunks'[c] = FreeChunk(chunks, c)[c]
      BY <1>1, <1>4
    <3> QED
      BY <3>1, <3>4, <3>5
  <2>2. DOMAIN chunks' = 1 .. nc /\ chunks' = [c \in 1 .. nc |-> chunks'[c]]
    BY <1>1, <1>4
  <2>3. chunks' \in [1 .. nc -> ChunkRec]
    BY <2>1, <2>2
  <2>4. chunks' \in Seq(ChunkRec) /\ Len(chunks') = nc
    BY <1>1, <2>3, SequenceMade
  <2> QED
    BY <2>1, <2>4 DEF ChunksLinked
<1>9. EntriesLinked(entries', nh, nc)
  BY <1>3, <1>6 DEF EntriesLinked, ne
<1>10. AnswersSpan(answers', l) /\ AnswersLinked(answers', ne, nc)
  <2>1. /\ \A a \in 1 .. na : answers[a].at <= answers[a].pos /\ answers[a].pos <= l
        /\ \A a \in 1 .. na : /\ answers[a].chunk \in 0 .. nc
                              /\ answers[a].type = "LR" => answers[a].lr \in 1 .. ne
    BY <1>3 DEF AnswersSpan, AnswersLinked, na
  <2>2. AnswersSpan(answers', l)
    BY <1>5, <2>1 DEF AnswersSpan
  <2>3. AnswersLinked(answers', ne, nc)
    BY <1>5, <2>1 DEF AnswersLinked
  <2> QED
    BY <2>2, <2>3
<1> QED
  BY <1>5, <1>6, <1>7, <1>8, <1>9, <1>10 DEF na, nc, ne, nh, l

\* A table entry without memos.
LEMMA NoEntryFields ==
  NoEntry \in TableRec /\ NoEntry.head = NULL /\ \A r \in Rule : NoEntry.memos[r] = NULL
BY DEF NoEntry, TableRec, NULL

\* A table each of whose entries is empty or comes from one not before it.
LEMMA MovedTable ==
  ASSUME NEW t \in [Idx -> TableRec], NEW ans \in Seq(AnswerRec), NEW nh \in Nat,
         TableLinked(t, ans, nh), NEW u,
         u = [i \in Idx |-> u[i]],
         \A i \in Idx : u[i] = NoEntry \/ \E j \in Idx : i <= j /\ u[i] = t[j]
  PROVE  u \in [Idx -> TableRec] /\ TableLinked(u, ans, nh)
<1>1. ASSUME NEW i \in Idx
      PROVE  /\ u[i] \in TableRec /\ u[i].head \in 0 .. nh
             /\ \A r \in Rule : u[i].memos[r] # NULL =>
                  u[i].memos[r] \in 1 .. Len(ans) /\ i <= ans[u[i].memos[r]].at
  <2>1. CASE u[i] = NoEntry
    BY <2>1, NoEntryFields DEF NULL
  <2>2. ASSUME NEW j \in Idx, i <= j, u[i] = t[j]
        PROVE  /\ u[i] \in TableRec /\ u[i].head \in 0 .. nh
               /\ \A r \in Rule : u[i].memos[r] # NULL =>
                    u[i].memos[r] \in 1 .. Len(ans) /\ i <= ans[u[i].memos[r]].at
    <3>1. t[j] \in TableRec /\ t[j].head \in 0 .. nh
      BY DEF TableLinked
    <3>2. ASSUME NEW r \in Rule, t[j].memos[r] # NULL
          PROVE  t[j].memos[r] \in 1 .. Len(ans) /\ i <= ans[t[j].memos[r]].at
      <4> DEFINE a == t[j].memos[r]
      <4>1. a \in 1 .. Len(ans) /\ j <= ans[a].at
        BY <3>2 DEF TableLinked
      <4>2. ans[a].at \in Nat
        BY <4>1, ElementOfSeq, AnswerFields
      <4>3. i \in Nat /\ j \in Nat
        BY DEF Idx
      <4> HIDE DEF a
      <4>4. i <= ans[a].at
        BY <2>2, <4>1, <4>2, <4>3
      <4> QED
        BY <4>1, <4>4 DEF a
    <3> QED
      BY <2>2, <3>1, <3>2
  <2> QED
    BY <2>1, <2>2
<1>2. u \in [Idx -> TableRec]
  BY <1>1
<1> QED
  BY <1>1, <1>2 DEF TableLinked

\* The table with the answers marked as destroyed.
LEMMA TableOfDestroyed ==
  ASSUME IInv, answers' \in Seq(AnswerRec), Len(answers') = Len(answers),
         \A a \in 1 .. Len(answers) : answers'[a].at = answers[a].at
  PROVE  TableLinked(table, answers', Len(heads))
BY OutsideNow DEF TableLinked

\* pcc_commit_buffer and the end of pcc_parse.
LEMMA CommitStep ==
  ASSUME IInv, Commit PROVE IInv'
<1>1. /\ phase = "commit" /\ bufn' = bufn - cur /\ pos' = pos + cur /\ cur' = 0
      /\ Destroyed({i \in Idx : i < cur})
      /\ table' = Shifted(cur)
      /\ thunks' = CutTo(thunks, 0) /\ phase' = "idle"
      /\ UNCHANGED <<envVars, lrstack, frames, walk, work, log>>
  BY DEF Commit
<1>2. /\ pos \in Nat /\ cur \in Nat /\ bufn \in Nat /\ cur <= bufn
      /\ pos + bufn <= Len(input) /\ Len(heads) \in Nat
  BY Numbers
<1>3. /\ pos' \in Nat /\ cur' \in Nat /\ bufn' \in Nat /\ cur' <= bufn'
      /\ pos' + bufn' = pos + bufn /\ pos + bufn <= pos' + bufn'
  BY <1>1, <1>2
<1>4. /\ chunks' \in Seq(ChunkRec) /\ Len(chunks') = Len(chunks)
      /\ ChunksLinked(chunks')
      /\ heads' \in Seq(HeadRec) /\ Len(heads') = Len(heads)
      /\ entries' \in Seq(EntryRec) /\ Len(entries') = Len(entries)
      /\ EntriesLinked(entries', Len(heads), Len(chunks))
      /\ answers' \in Seq(AnswerRec) /\ Len(answers') = Len(answers)
      /\ \A a \in 1 .. Len(answers) : answers'[a].at = answers[a].at
      /\ AnswersSpan(answers', pos + bufn)
      /\ AnswersLinked(answers', Len(entries), Len(chunks))
  BY <1>1, DestroyedHeaps
<1>5. table' \in [Idx -> TableRec] /\ TableLinked(table', answers', Len(heads))
  <2>1. TableLinked(table, answers', Len(heads)) /\ table \in [Idx -> TableRec]
    BY <1>4, TableOfDestroyed, OutsideNow
  <2>2. table' = [i \in Idx |-> IF i + cur \in Idx THEN table[i + cur] ELSE NoEntry]
    BY <1>1 DEF Shifted
  <2>3. table' = [i \in Idx |-> table'[i]]
    BY <2>2
  <2>4. ASSUME NEW i \in Idx
        PROVE  table'[i] = NoEntry \/ \E j \in Idx : i <= j /\ table'[i] = table[j]
    <3>1. table'[i] = IF i + cur \in Idx THEN table[i + cur] ELSE NoEntry
      BY <2>2
    <3>2. i <= i + cur
      BY <1>2 DEF Idx
    <3> QED
      BY <3>1, <3>2
  <2> QED
    BY <1>2, <1>4, <2>1, <2>3, <2>4, MovedTable
<1>6. thunks' \in Seq(ThunkRec) /\ Pointing(thunks', Len(chunks))
  <2>1. thunks \in Seq(ThunkRec) /\ Pointing(thunks, Len(chunks)) /\ Len(thunks) \in Nat
    BY OutsideNow, LenProperties
  <2>2. CASE Len(thunks) > 0
    <3>1. thunks' = SubSeq(thunks, 1, 0)
      BY <1>1, <2>2 DEF CutTo
    <3>2. thunks' = <<>>
      BY <3>1, SubSeqEmpty
    <3> QED
      BY <3>2, EmptySeq DEF Pointing
  <2>3. CASE ~ (Len(thunks) > 0)
    BY <1>1, <2>1, <2>3 DEF CutTo
  <2> QED
    BY <2>2, <2>3
<1>7. Outside /\ phase' \in Phases /\ phase' \notin {"running", "involve", "crash"}
  BY <1>1 DEF Outside, Phases
<1>8. work' \in Seq(ThunkRec) /\ Pointing(work', Len(chunks)) /\ log' \in Seq(LogRec)
      /\ parses' \in Nat
  BY <1>1, OutsideNow DEF envVars
<1>9. pos' + bufn' <= Len(input)
  BY <1>2, <1>3
<1> QED
  BY <1>1, <1>3, <1>4, <1>5, <1>6, <1>7, <1>8, <1>9, OutsideInv DEF envVars

\* pcc_destroy.
LEMMA DestroyStep ==
  ASSUME IInv, Destroy PROVE IInv'
<1>1. /\ phase \in {"idle", "eof"} /\ phase' = "destroyed"
      /\ Destroyed(Idx)
      /\ table' = [i \in Idx |-> NoEntry]
      /\ UNCHANGED <<envVars, pos, bufn, cur, lrstack, frames, walk, thunks, work, log>>
  BY DEF Destroy, bufferVars, actVars
<1>2. /\ pos \in Nat /\ cur \in Nat /\ bufn \in Nat /\ cur <= bufn
      /\ pos + bufn <= Len(input) /\ pos + bufn <= pos + bufn /\ Len(heads) \in Nat
  BY Numbers
<1>3. /\ chunks' \in Seq(ChunkRec) /\ Len(chunks') = Len(chunks)
      /\ ChunksLinked(chunks')
      /\ heads' \in Seq(HeadRec) /\ Len(heads') = Len(heads)
      /\ entries' \in Seq(EntryRec) /\ Len(entries') = Len(entries)
      /\ EntriesLinked(entries', Len(heads), Len(chunks))
      /\ answers' \in Seq(AnswerRec) /\ Len(answers') = Len(answers)
      /\ \A a \in 1 .. Len(answers) : answers'[a].at = answers[a].at
      /\ AnswersSpan(answers', pos + bufn)
      /\ AnswersLinked(answers', Len(entries), Len(chunks))
  BY <1>1, DestroyedHeaps
<1>4. table' \in [Idx -> TableRec] /\ TableLinked(table', answers', Len(heads))
  <2>1. TableLinked(table, answers', Len(heads)) /\ table \in [Idx -> TableRec]
    BY <1>3, TableOfDestroyed, OutsideNow
  <2>2. table' = [i \in Idx |-> table'[i]] /\ \A i \in Idx : table'[i] = NoEntry
    BY <1>1
  <2> QED
    BY <1>2, <1>3, <2>1, <2>2, MovedTable
<1>5. Outside /\ phase' \in Phases /\ phase' \notin {"running", "involve", "crash"}
  BY <1>1 DEF Outside, Phases
<1> QED
  BY <1>1, <1>2, <1>3, <1>4, <1>5, OutsideNow, OutsideInv DEF envVars

-----------------------------------------------------------------------------
(* The invariant holds initially and every step keeps it.                  *)

\* The invariant holds in the beginning.
LEMMA InitInv ==
  ASSUME Init PROVE IInv
<1>1. /\ input \in Inputs /\ start \in StartRules /\ phase = "idle" /\ parses = 0
      /\ pos = 0 /\ cur = 0 /\ bufn = 0
      /\ table = [i \in Idx |-> NoEntry]
      /\ lrstack = <<>> /\ frames = <<>>
      /\ chunks = <<>> /\ answers = <<>> /\ entries = <<>> /\ heads = <<>>
      /\ walk = [ans |-> NULL, i |-> 0]
      /\ thunks = <<>> /\ work = <<>> /\ log = <<>>
  BY DEF Init
<1>2. Len(<<>>) = 0
  OBVIOUS
<1>3. 0 \in Idx /\ 0 \in Nat /\ NULL \in Nat
  BY RuntimeAssumption DEF Idx, NULL
<1>4. TypeOK
  <2>1. \A S : <<>> \in Seq(S)
    BY EmptySeq
  <2>2. table \in [Idx -> TableRec]
    BY <1>1, NoEntryFields
  <2>3. walk \in [ans : Nat, i : Nat] /\ phase \in Phases
    BY <1>1, <1>3 DEF Phases
  <2> QED
    BY <1>1, <1>3, <2>1, <2>2, <2>3 DEF TypeOK
<1>5. InBuffer
  <2>1. Len(input) \in Nat
    BY <1>4, InputBounded
  <2> DEFINE l == Len(input)
  <2> HIDE DEF l
  <2>2. l \in Nat => 0 <= 0 /\ 0 + 0 <= l
    OBVIOUS
  <2>3. l \in Nat
    BY <2>1 DEF l
  <2> QED
    BY <1>1, <2>2, <2>3 DEF InBuffer, l
<1>6. Calls
  BY <1>1, <1>2 DEF Calls, Resumable, CallsOK, Sorted, BeganBy, OwnAnswers
<1>7. Links
  <2>1. TableLinked(table, answers, Len(heads))
    <3>1. 0 \in 0 .. 0
      OBVIOUS
    <3> QED
      BY <1>1, <1>2, <3>1, NoEntryFields DEF TableLinked, NULL
  <2>2. /\ ChunksLinked(chunks) /\ Pointing(thunks, Len(chunks))
        /\ Pointing(work, Len(chunks))
    BY <1>1, <1>2 DEF ChunksLinked, Pointing
  <2>3. /\ AnswersSpan(answers, pos + bufn)
        /\ AnswersLinked(answers, Len(entries), Len(chunks))
        /\ EntriesLinked(entries, Len(heads), Len(chunks))
        /\ \A k \in 1 .. Len(lrstack) : lrstack[k] \in 1 .. Len(entries)
    BY <1>1, <1>2 DEF AnswersSpan, AnswersLinked, EntriesLinked
  <2>4. Walking
    BY <1>1 DEF Walking
  <2> QED
    BY <2>1, <2>2, <2>3, <2>4 DEF Links
<1> QED
  BY <1>4, <1>5, <1>6, <1>7 DEF IInv

\* The invariant speaks of the variables only.
LEMMA StutterStep ==
  ASSUME IInv, UNCHANGED vars PROVE IInv'
<1>1. /\ TypeOK' <=> TypeOK
      /\ InBuffer' <=> InBuffer
  BY DEF vars, TypeOK, InBuffer
<1>2. Calls' <=> Calls
  BY DEF vars, Calls, Popped, Here
<1>3. Links' <=> Links
  BY DEF vars, Links, Walking, WalkHead
<1> QED
  BY <1>1, <1>2, <1>3 DEF IInv

\* pcc_apply_rule, before a rule is evaluated.
LEMMA ApplyInv ==
  ASSUME IInv, Apply PROVE IInv'
BY ApplyBlockedStep, ApplyReevaluateStep, ApplyMemoizedStep, ApplyRecursiveStep,
   InvolveStep, InvolvedStep, ApplyFirstStep DEF Apply

\* pcc_apply_rule, when a rule has been evaluated.
LEMMA ReturnInv ==
  ASSUME IInv, Return PROVE IInv'
BY ReturnReevaluatedStep, ReturnPlainStep, ReturnInvolvedStep, ReturnNoSeedStep,
   ReturnSeedStep, GrowNextStep, GrowEndStep DEF Return

\* The end of pcc_parse.
LEMMA FinishInv ==
  ASSUME IInv, Finish PROVE IInv'
BY DoActionStep, FinishStep, CommitStep DEF Finish

\* Every step keeps the invariant.
LEMMA NextInv ==
  ASSUME IInv, [Next]_vars PROVE IInv'
<1>1. CASE Parsing
  BY <1>1, ParseBeginStep, StatementInv, ApplyInv, ReturnInv, FinishInv DEF Parsing
<1>2. CASE Destroy
  BY <1>2, DestroyStep
<1>3. CASE Ended
  BY <1>3, StutterStep DEF Ended
<1>4. CASE UNCHANGED vars
  BY <1>4, StutterStep
<1> QED
  BY <1>1, <1>2, <1>3, <1>4 DEF Next

-----------------------------------------------------------------------------
(* What follows for every execution of the parser.                         *)

\* The inductive invariant: whatever the grammar and the input, every state
\* that pcc_parse, pcc_apply_rule and the evaluation functions reach has its
\* positions ordered, its heap addresses allocated and its call stack resumable.
THEOREM InvariantHolds == Spec => []IInv
<1>1. Init => IInv
  BY InitInv
<1>2. IInv /\ [Next]_vars => IInv'
  BY NextInv
<1> QED
  BY <1>1, <1>2, PTL DEF Spec

\* The variables keep their types: addresses, positions and counts stay natural
\* numbers, positions inside the input.
THEOREM TypesHold == Spec => []TypeOK
<1>1. IInv => TypeOK
  BY DEF IInv
<1> QED
  BY <1>1, InvariantHolds, PTL

\* ctx->cur never leaves the buffered characters and the buffer never the input,
\* so that `ctx->buffer.n -= ctx->cur' in pcc_commit_buffer does not wrap.
THEOREM BufferHolds == Spec => []InBuffer
<1>1. IInv => InBuffer
  BY DEF IInv
<1> QED
  BY <1>1, InvariantHolds, PTL

\* What the memo table yields at a position ends at it or behind it and in the
\* buffer, so that `ctx->cur = a->pos - ctx->pos' in pcc_apply_rule neither wraps
\* nor moves backwards, also after commits have moved the table.
THEOREM MemosLeadAhead == Spec => []MemoAhead
<1>1. ASSUME IInv PROVE MemoAhead
  <2>1. ASSUME NEW i \in Idx, NEW r \in Rule, Memo(i, r) # NULL
        PROVE  answers[Memo(i, r)].pos \in i .. (pos + bufn)
    <3> DEFINE a == Memo(i, r)
    <3>1. a \in 1 .. Len(answers) /\ i <= answers[a].at
      BY <1>1, <2>1, OutsideNow DEF TableLinked, Memo
    <3>2. answers[a].at <= answers[a].pos /\ answers[a].pos <= pos + bufn
      BY <1>1, <3>1, OutsideNow DEF AnswersSpan
    <3>3. answers[a].at \in Nat /\ answers[a].pos \in Nat
      BY <1>1, <3>1, OutsideNow, ElementOfSeq, AnswerFields
    <3>4. i \in Nat /\ pos + bufn \in Nat
      BY <1>1, Numbers DEF Idx
    <3> HIDE DEF a
    <3>5. answers[a].pos \in i .. (pos + bufn)
      BY <3>1, <3>2, <3>3, <3>4
    <3> QED
      BY <3>5 DEF a
  <2> QED
    BY <2>1 DEF MemoAhead
<1>2. IInv => MemoAhead
  BY <1>1
<1> QED
  BY <1>2, InvariantHolds, PTL

\* The activations of pcc_apply_rule began in the order of their positions and
\* none before ctx->pos or behind the parsing position: `p - ctx->pos' with which
\* a growing rule starts over does not wrap.
THEOREM CallsStayInOrder == Spec => []CallsInOrder
<1>1. ASSUME IInv PROVE CallsInOrder
  <2> DEFINE n == Len(frames)
  <2>1. /\ frames \in Seq(FrameRec) /\ n \in Nat /\ Here \in Nat /\ pos \in Nat
        /\ CallsOK(frames, pos, bufn, Here, Len(chunks), answers)
    BY <1>1, Numbers DEF IInv, TypeOK, Calls
  <2>2. \A k \in 1 .. n : pos <= frames[k].p /\ frames[k].p \in Nat
    <3>1. ASSUME NEW k \in 1 .. n PROVE pos <= frames[k].p /\ frames[k].p \in Nat
      <4>1. Within(frames[k], pos, bufn) /\ frames[k] \in FrameRec
        BY <2>1, ElementOfSeq DEF CallsOK
      <4> QED
        BY <4>1, FrameFields DEF Within
    <3> QED
      BY <3>1
  <2>3. \A k \in 1 .. n : \A j \in 1 .. k : frames[j].p <= frames[k].p
    BY <2>1 DEF CallsOK, Sorted
  <2>4. frames # <<>> => frames[n].p <= Here
    BY <2>1 DEF CallsOK, BeganBy
  <2>5. \A k \in 1 .. n : frames[k].p <= Here
    <3>1. ASSUME NEW k \in 1 .. n PROVE frames[k].p <= Here
      <4>1. frames # <<>>
        BY <2>1, <3>1, EmptySeq
      <4> HIDE DEF n
      <4>2. n \in 1 .. n /\ k \in 1 .. n
        BY <2>1, <3>1
      <4>3. frames[k].p <= frames[n].p /\ frames[n].p \in Nat /\ frames[k].p \in Nat
        BY <2>2, <2>3, <4>2
      <4>4. frames[n].p <= Here
        BY <2>4, <4>1
      <4> QED
        BY <2>1, <4>3, <4>4
    <3> QED
      BY <3>1
  <2> QED
    BY <2>2, <2>3, <2>5 DEF CallsInOrder
<1>2. IInv => CallsInOrder
  BY <1>1
<1> QED
  BY <1>2, InvariantHolds, PTL
=============================================================================
