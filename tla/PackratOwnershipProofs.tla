----------------------- MODULE PackratOwnershipProofs -----------------------
(***************************************************************************)
(* The parser never follows a pointer to a destroyed object, destroys each *)
(* object once and, at the end, all of them; and lrstack and the memo      *)
(* table mirror the calls under way: for every grammar, input and bound.   *)
(* First, what every kind of change of the heaps, the memo table and the   *)
(* activations preserves: a step of the parser is a chain of such changes. *)
(***************************************************************************)
EXTENDS PackratOwnership, PackratProofs, Integers, TLAPS

-----------------------------------------------------------------------------
(* Changes that make nothing unreachable.                                   *)

\* Every chunk that is owned at a position is still owned there.
Covered(t, as, t1, as1) ==
  \A j \in Idx : \A a \in Kept(t, j) :
    as[a].type = "CHUNK" => \E b \in Kept(t1, j) : OwnsChunk(as1, b, as[a].chunk)

LEMMA CoveredFrom ==
  ASSUME NEW t, NEW as, NEW t1, NEW as1, Covered(t, as, t1, as1)
  PROVE  \A c, i : ChunkFrom(c, i, t, as) => ChunkFrom(c, i, t1, as1)
BY DEF Covered, ChunkFrom, OwnsChunk

LEMMA CoveredThunks ==
  ASSUME NEW t, NEW as, NEW t1, NEW as1, Covered(t, as, t1, as1),
         NEW cs, NEW cs1, NEW c, cs1[c].thunks = cs[c].thunks,
         NEW i, ThunksFrom(cs, c, i, t, as)
  PROVE  ThunksFrom(cs1, c, i, t1, as1)
<1>1. ASSUME NEW k \in 1 .. Len(cs1[c].thunks)
      PROVE  \/ cs1[c].thunks[k].chunk = c
             \/ ChunkFrom(cs1[c].thunks[k].chunk, i, t1, as1)
  <2>1. \/ cs1[c].thunks[k].chunk = c
        \/ ChunkFrom(cs1[c].thunks[k].chunk, i, t, as)
    BY <1>1 DEF ThunksFrom
  <2>2. \A d : ChunkFrom(d, i, t, as) => ChunkFrom(d, i, t1, as1)
    BY CoveredFrom
  <2> QED
    BY <2>1, <2>2
<1> QED
  BY <1>1 DEF ThunksFrom

\* A position in front of another one.
LEMMA FromBehind ==
  ASSUME NEW t, NEW as, NEW i \in Int, NEW j \in Int, j <= i, MaxPos \in Nat
  PROVE  /\ \A c : ChunkFrom(c, i, t, as) => ChunkFrom(c, j, t, as)
         /\ \A h : HeadFrom(h, i, t) => HeadFrom(h, j, t)
         /\ \A cs, c : ThunksFrom(cs, c, i, t, as) => ThunksFrom(cs, c, j, t, as)
<1>1. \A k \in Idx : i <= k => j <= k
  BY DEF Idx
<1>2. \A c : ChunkFrom(c, i, t, as) => ChunkFrom(c, j, t, as)
  BY <1>1 DEF ChunkFrom
<1>3. \A h : HeadFrom(h, i, t) => HeadFrom(h, j, t)
  BY <1>1 DEF HeadFrom
<1> QED
  BY <1>2, <1>3 DEF ThunksFrom

\* The table u is t with one more answer m kept at position p.
Joined(t, u, p, m) ==
  \A i \in Idx : /\ Kept(u, i) = IF i = p THEN Kept(t, i) \cup {m} ELSE Kept(t, i)
                 /\ u[i].heads = t[i].heads /\ u[i].head = t[i].head

LEMMA JoinedForward ==
  ASSUME NEW t, NEW as, NEW u, NEW bs, Covered(t, as, u, bs),
         NEW p, NEW m, Joined(t, u, p, m)
  PROVE  /\ \A h, i : HeadFrom(h, i, t) => HeadFrom(h, i, u)
         /\ \A cs, c, i : ThunksFrom(cs, c, i, t, as) => ThunksFrom(cs, c, i, u, bs)
         /\ \A e, i, es : EntryForward(e, i, t, as, es) => EntryForward(e, i, u, bs, es)
<1>1. \A h, i : HeadFrom(h, i, t) => HeadFrom(h, i, u)
  BY DEF HeadFrom, Joined
<1>2. \A cs, c, i : ThunksFrom(cs, c, i, t, as) => ThunksFrom(cs, c, i, u, bs)
  BY CoveredThunks
<1>3. \A c, i : ChunkFrom(c, i, t, as) => ChunkFrom(c, i, u, bs)
  BY CoveredFrom
<1> QED
  BY <1>1, <1>2, <1>3 DEF EntryForward

LEMMA HousedJoined ==
  ASSUME NEW t, NEW as, NEW hs, Housed(t, as, hs),
         NEW m, m \notin Live(as), NEW bs, Live(bs) = Live(as) \cup {m},
         NEW p \in Idx, NEW u, Joined(t, u, p, m)
  PROVE  Housed(u, bs, hs)
<1>1. \A i \in Idx : Kept(u, i) \subseteq Live(bs) /\ u[i].heads \subseteq Live(hs)
  BY DEF Housed, Joined
<1>2. ASSUME NEW i \in Idx, NEW j \in Idx, i # j
      PROVE  Kept(u, i) \cap Kept(u, j) = {} /\ u[i].heads \cap u[j].heads = {}
  <2>1. m \notin Kept(t, i) /\ m \notin Kept(t, j) /\ Kept(t, i) \cap Kept(t, j) = {}
    BY <1>2 DEF Housed
  <2>2. Kept(u, i) \cap Kept(u, j) = {}
    BY <1>2, <2>1 DEF Joined
  <2> QED
    BY <1>2, <2>2 DEF Housed, Joined
<1>3. \A a \in Live(bs) : \E i \in Idx : a \in Kept(u, i)
  BY DEF Housed, Joined
<1>4. \A h \in Live(hs) : \E i \in Idx : h \in u[i].heads
  BY DEF Housed, Joined
<1> QED
  BY <1>1, <1>2, <1>3, <1>4 DEF Housed

LEMMA UsingJoined ==
  ASSUME NEW t, NEW as, NEW u, NEW bs, Covered(t, as, u, bs),
         NEW p, NEW m, Joined(t, u, p, m),
         NEW fs, NEW cs, Using(fs, t, as, cs),
         \A k \in 1 .. Len(fs) : fs[k].p \in Idx
  PROVE  Using(fs, u, bs, cs)
<1>1. ASSUME NEW k \in 1 .. Len(fs)
      PROVE  ThunksFrom(cs, fs[k].chunk, fs[k].p, u, bs)
  <2>1. \A c, i : ThunksFrom(cs, c, i, t, as) => ThunksFrom(cs, c, i, u, bs)
    BY JoinedForward
  <2> QED
    BY <2>1 DEF Using
<1>2. ASSUME NEW k \in 1 .. Len(fs), fs[k].mode # "eval"
      PROVE  fs[k].ans \in Kept(u, fs[k].p)
  BY <1>2 DEF Using, Joined
<1>3. ASSUME NEW k \in 1 .. Len(fs), fs[k].head # NULL
      PROVE  HeadFrom(fs[k].head, 0, u)
  BY <1>3, JoinedForward DEF Using
<1> QED
  BY <1>1, <1>2, <1>3 DEF Using

-----------------------------------------------------------------------------
(* Thunks and activations.                                                  *)

\* Activations that differ only in where they are and in what they saved.
SameCalls(fs, gs) ==
  /\ Len(gs) = Len(fs)
  /\ \A k \in 1 .. Len(fs) :
       /\ gs[k].chunk = fs[k].chunk /\ gs[k].p = fs[k].p /\ gs[k].mode = fs[k].mode
       /\ gs[k].ans = fs[k].ans /\ gs[k].head = fs[k].head

\* A chunk has got no other thunks than leaves of its own, those it had, and those
\* that the activation building it may add.
SameThunks(cs, ds, t, as, fs) ==
  \A c \in Live(cs) : \A k \in 1 .. Len(ds[c].thunks) :
    LET x == ds[c].thunks[k].chunk
    IN \/ x = c
       \/ \E m \in 1 .. Len(cs[c].thunks) : x = cs[c].thunks[m].chunk
       \/ \E n \in 1 .. Len(fs) : fs[n].chunk = c /\ ChunkFrom(x, fs[n].p, t, as)

\* Activations add thunks.
LEMMA WorldThunks ==
  ASSUME NEW t, NEW as, NEW es, NEW cs, NEW hs, NEW fs, NEW hand,
         World(t, as, es, cs, hs, fs, hand),
         NEW ds, Live(ds) = Live(cs), SameThunks(cs, ds, t, as, fs),
         NEW gs, SameCalls(fs, gs), NEW gd, Live(gd) = Live(hs)
  PROVE  World(t, as, es, ds, gd, gs, hand)
<1>1. Housed(t, as, gd)
  BY DEF World, Housed
<1>2. Owning(as, ds, es)
  BY DEF World, Owning
<1>3. Owned(as, ds, es, gs, hand)
  BY DEF World, Owned, SameCalls
<1>4. Building(as, ds, gs, hand)
  BY ZenonT(30) DEF World, Building, Unowned, SameCalls
<1>5. ASSUME NEW c \in Live(cs), \A n \in 1 .. Len(fs) : fs[n].chunk # c,
             NEW i, ThunksFrom(cs, c, i, t, as)
      PROVE  ThunksFrom(ds, c, i, t, as)
  <2>1. ASSUME NEW k \in 1 .. Len(ds[c].thunks), ds[c].thunks[k].chunk # c
        PROVE  ChunkFrom(ds[c].thunks[k].chunk, i, t, as)
    <3>1. PICK m \in 1 .. Len(cs[c].thunks) : ds[c].thunks[k].chunk = cs[c].thunks[m].chunk
      BY <1>5, <2>1 DEF SameThunks
    <3> QED
      BY <1>5, <2>1, <3>1 DEF ThunksFrom
  <2> QED
    BY <2>1 DEF ThunksFrom
<1>6. Forward(t, as, ds, es)
  <2>1. ASSUME NEW i \in Idx, NEW a \in Kept(t, i), as[a].chunk # NULL
        PROVE  ThunksFrom(ds, as[a].chunk, i, t, as)
    <3>1. a \in Live(as) /\ ThunksFrom(cs, as[a].chunk, i, t, as)
      BY <2>1 DEF World, Housed, Forward
    <3>2. as[a].chunk \in Live(cs) /\ OwnsChunk(as, a, as[a].chunk)
      BY <2>1, <3>1 DEF World, Owning, OwnsChunk
    <3>3. \A n \in 1 .. Len(fs) : fs[n].chunk # as[a].chunk
      BY <3>1, <3>2 DEF World, Building, Unowned
    <3> QED
      BY <3>1, <3>2, <3>3, <1>5
  <2> QED
    BY <2>1 DEF World, Forward
<1>7. Using(gs, t, as, ds)
  <2>1. ASSUME NEW k \in 1 .. Len(fs)
        PROVE  ThunksFrom(ds, fs[k].chunk, fs[k].p, t, as)
    <3>1. fs[k].chunk \in Live(cs) /\ ThunksFrom(cs, fs[k].chunk, fs[k].p, t, as)
      BY DEF World, Building, Unowned, Using
    <3>2. \A n \in 1 .. Len(fs) : fs[n].chunk = fs[k].chunk => n = k
      BY DEF World, Building
    <3> QED
      BY <3>1, <3>2 DEF SameThunks, ThunksFrom
  <2> QED
    BY <2>1 DEF World, Using, SameCalls
<1> QED
  BY <1>1, <1>2, <1>3, <1>4, <1>6, <1>7 DEF World

\* The innermost activation returns and hands over its chunk.
LEMMA WorldPop ==
  ASSUME NEW t, NEW as, NEW es, NEW cs, NEW hs, NEW fs, Len(fs) \in Nat, Len(fs) > 0,
         World(t, as, es, cs, hs, fs, NULL), fs[Len(fs)].chunk # NULL,
         NEW gs, Len(gs) = Len(fs) - 1, \A k \in 1 .. Len(gs) : gs[k] = fs[k]
  PROVE  /\ World(t, as, es, cs, hs, gs, fs[Len(fs)].chunk)
         /\ ThunksFrom(cs, fs[Len(fs)].chunk, fs[Len(fs)].p, t, as)
         /\ fs[Len(fs)].mode # "eval" => fs[Len(fs)].ans \in Kept(t, fs[Len(fs)].p)
         /\ fs[Len(fs)].head # NULL => HeadFrom(fs[Len(fs)].head, 0, t)
<1>1. /\ Len(fs) \in 1 .. Len(fs) /\ Len(gs) \in Nat
      /\ \A k \in 1 .. Len(gs) : k \in 1 .. Len(fs) /\ k # Len(fs) /\ gs[k] = fs[k]
      /\ \A k \in 1 .. Len(fs) : k # Len(fs) => k \in 1 .. Len(gs)
  OBVIOUS
<1>2. Owned(as, cs, es, gs, fs[Len(fs)].chunk)
  <2>1. ASSUME NEW c \in Live(cs), NEW k \in 1 .. Len(fs), fs[k].chunk = c
        PROVE  (\E j \in 1 .. Len(gs) : gs[j].chunk = c) \/ c = fs[Len(fs)].chunk
    BY <1>1, <2>1
  <2>2. ASSUME NEW c \in Live(cs)
        PROVE  \/ \E a \in Live(as) : OwnsChunk(as, a, c)
               \/ \E k \in 1 .. Len(fs) : fs[k].chunk = c
    BY DEF World, Owned
  <2>3. \A e \in Live(es) : \E a \in Live(as) : OwnsEntry(as, a, e)
    BY DEF World, Owned
  <2> QED
    BY <2>1, <2>2, <2>3 DEF Owned
<1>3. Building(as, cs, gs, fs[Len(fs)].chunk)
  BY <1>1 DEF World, Building
<1>4. Using(gs, t, as, cs)
  BY <1>1 DEF World, Using
<1>5. World(t, as, es, cs, hs, gs, fs[Len(fs)].chunk)
  BY <1>2, <1>3, <1>4 DEF World
<1> QED
  BY <1>1, <1>5 DEF World, Using

\* A chunk that nothing owns is destroyed.
LEMMA WorldFree ==
  ASSUME NEW t, NEW as, NEW es, NEW cs, NEW hs, NEW fs, NEW c, c # NULL,
         World(t, as, es, cs, hs, fs, c),
         NEW ds, Live(ds) = Live(cs) \ {c}, \A x \in Live(ds) : ds[x].thunks = cs[x].thunks
  PROVE  World(t, as, es, ds, hs, fs, NULL)
<1>1. /\ \A a \in Live(as) : ~OwnsChunk(as, a, c)
      /\ \A k \in 1 .. Len(fs) : fs[k].chunk # c
  BY DEF World, Building, Unowned
<1>2. Owning(as, ds, es)
  BY <1>1 DEF World, Owning, OwnsChunk
<1>3. Owned(as, ds, es, fs, NULL)
  BY <1>1 DEF World, Owned
<1>4. Building(as, ds, fs, NULL)
  BY <1>1 DEF World, Building, Unowned
<1>5. ASSUME NEW x \in Live(ds), NEW i, ThunksFrom(cs, x, i, t, as)
      PROVE  ThunksFrom(ds, x, i, t, as)
  BY <1>5 DEF ThunksFrom
<1>6. Forward(t, as, ds, es)
  <2>1. ASSUME NEW i \in Idx, NEW a \in Kept(t, i), as[a].chunk # NULL
        PROVE  as[a].chunk \in Live(ds) /\ ThunksFrom(cs, as[a].chunk, i, t, as)
    BY <1>2, <2>1 DEF World, Housed, Forward, Owning
  <2> QED
    BY <1>5, <2>1 DEF World, Forward
<1>7. Using(fs, t, as, ds)
  <2>1. \A k \in 1 .. Len(fs) : fs[k].chunk \in Live(ds)
    BY <1>4 DEF Building, Unowned
  <2> QED
    BY <1>5, <2>1 DEF World, Using
<1> QED
  BY <1>2, <1>3, <1>4, <1>6, <1>7 DEF World

-----------------------------------------------------------------------------
(* Answers that are made and that change.                                   *)

\* The heap bs is as with one more answer m.
Made(as, bs, m) == m \notin Live(as) /\ Live(bs) = Live(as) \cup {m}

\* A new answer at position p takes the chunk c.
LEMMA WorldAdopt ==
  ASSUME NEW t, NEW as, NEW es, NEW cs, NEW hs, NEW fs, NEW c,
         World(t, as, es, cs, hs, fs, c), NULL \notin Live(cs),
         \A k \in 1 .. Len(fs) : fs[k].p \in Idx,
         NEW p \in Idx, c # NULL => ThunksFrom(cs, c, p, t, as),
         NEW bs, NEW m, Made(as, bs, m), \A a \in Live(as) : bs[a] = as[a],
         bs[m].type = "CHUNK", bs[m].chunk = c,
         NEW u, Joined(t, u, p, m)
  PROVE  /\ World(u, bs, es, cs, hs, fs, NULL)
         /\ c # NULL => ChunkFrom(c, p, u, bs)
<1>1. Covered(t, as, u, bs)
  BY DEF Covered, OwnsChunk, Joined, World, Housed
<1>2. Housed(u, bs, hs)
  BY HousedJoined DEF World, Made
<1>3. /\ c # NULL => c \in Live(cs) /\ \A a \in Live(as) : ~OwnsChunk(as, a, c)
      /\ \A k \in 1 .. Len(fs) : fs[k].chunk # c
  BY DEF World, Building, Unowned
<1>10. /\ \A a \in Live(as) : \A x : /\ OwnsChunk(bs, a, x) = OwnsChunk(as, a, x)
                                   /\ OwnsEntry(bs, a, x) = OwnsEntry(as, a, x)
       /\ \A x : OwnsChunk(bs, m, x) = (x = c)
       /\ \A x : ~OwnsEntry(bs, m, x)
  BY DEF OwnsChunk, OwnsEntry
<1>11. /\ m \notin Live(as) /\ Live(bs) = Live(as) \cup {m}
       /\ \A a \in Live(bs) : (a \in Live(as) /\ a # m) \/ a = m
  BY DEF Made
<1>4. Owning(bs, cs, es)
  <2>1. ASSUME NEW a \in Live(as), bs[a].type = "LR"
        PROVE  bs[a].lr \in Live(es) /\ \A b \in Live(bs) : a # b => ~OwnsEntry(bs, b, bs[a].lr)
    <3>1. bs[a].lr \in Live(es) /\ \A b \in Live(as) : a # b => ~OwnsEntry(as, b, bs[a].lr)
      BY <2>1 DEF World, Owning
    <3>2. ASSUME NEW b \in Live(bs), a # b PROVE ~OwnsEntry(bs, b, bs[a].lr)
      <4>1. CASE b \in Live(as)
        <5>1. ~OwnsEntry(as, b, bs[a].lr)
          BY <3>1, <3>2, <4>1
        <5> QED
          BY <5>1, <4>1 DEF OwnsEntry
      <4>2. CASE b = m
        BY <4>2 DEF OwnsEntry
      <4> QED
        BY <4>1, <4>2, <1>11
    <3> QED
      BY <3>1, <3>2
  <2>2. ASSUME NEW a \in Live(as), bs[a].chunk # NULL
        PROVE  /\ bs[a].type = "CHUNK" /\ bs[a].chunk \in Live(cs)
               /\ \A b \in Live(bs) : a # b => ~OwnsChunk(bs, b, bs[a].chunk)
    <3>1. /\ bs[a].type = "CHUNK" /\ bs[a].chunk \in Live(cs)
          /\ \A b \in Live(as) : a # b => ~OwnsChunk(as, b, bs[a].chunk)
      BY <2>2 DEF World, Owning
    <3>2. OwnsChunk(as, a, bs[a].chunk)
      BY <3>1 DEF OwnsChunk
    <3>3. bs[a].chunk # c
      BY <1>3, <2>2, <3>2
    <3> QED
      BY <3>1, <3>3, <1>10, <1>11
  <2>3. bs[m].chunk # NULL =>
          bs[m].chunk \in Live(cs) /\ \A b \in Live(bs) : m # b => ~OwnsChunk(bs, b, bs[m].chunk)
    BY <1>3, <1>10, <1>11
  <2> QED
    BY <1>11, <2>1, <2>2, <2>3 DEF Owning
<1>5. Owned(bs, cs, es, fs, NULL)
  <2>1. ASSUME NEW e \in Live(es) PROVE \E a \in Live(bs) : OwnsEntry(bs, a, e)
    <3>1. PICK a \in Live(as) : OwnsEntry(as, a, e)
      BY DEF World, Owned
    <3> QED
      BY <3>1, <1>10, <1>11
  <2>2. ASSUME NEW d \in Live(cs), \A k \in 1 .. Len(fs) : fs[k].chunk # d
        PROVE  \E a \in Live(bs) : OwnsChunk(bs, a, d)
    <3>1. (\E a \in Live(as) : OwnsChunk(as, a, d)) \/ d = c
      BY <2>2 DEF World, Owned
    <3> QED
      BY <3>1, <1>10, <1>11
  <2> QED
    BY <2>1, <2>2 DEF Owned
<1>6. Building(bs, cs, fs, NULL)
  <2>1. \A k \in 1 .. Len(fs) : Unowned(bs, cs, fs[k].chunk)
    BY <1>3, <1>10, <1>11 DEF World, Building, Unowned
  <2> QED
    BY <2>1 DEF World, Building
<1>7. Forward(u, bs, cs, es)
  <2>1. ASSUME NEW i \in Idx, u[i].head # NULL PROVE HeadFrom(u[i].head, i, u)
    <3>1. HeadFrom(u[i].head, i, t)
      BY <2>1 DEF World, Forward, Joined
    <3>2. \A h, j : HeadFrom(h, j, t) => HeadFrom(h, j, u)
      BY <1>1, JoinedForward
    <3> QED
      BY <3>1, <3>2
  <2>2. ASSUME NEW i \in Idx, NEW a \in Kept(u, i), bs[a].chunk # NULL
        PROVE  ThunksFrom(cs, bs[a].chunk, i, u, bs)
    <3>1. \A d, j : ThunksFrom(cs, d, j, t, as) => ThunksFrom(cs, d, j, u, bs)
      BY <1>1, JoinedForward
    <3>2. ThunksFrom(cs, bs[a].chunk, i, t, as)
      <4>1. CASE a \in Kept(t, i)
        BY <2>2, <4>1 DEF World, Forward, Housed
      <4>2. CASE i = p /\ a = m
        BY <2>2, <4>2
      <4> QED
        BY <4>1, <4>2 DEF Joined
    <3> QED
      BY <3>1, <3>2
  <2>3. ASSUME NEW i \in Idx, NEW a \in Kept(u, i), bs[a].type = "LR"
        PROVE  EntryForward(bs[a].lr, i, u, bs, es)
    <3>1. \A e, j : EntryForward(e, j, t, as, es) => EntryForward(e, j, u, bs, es)
      BY <1>1, JoinedForward
    <3>2. a \in Kept(t, i)
      BY <2>3 DEF Joined
    <3>3. EntryForward(bs[a].lr, i, t, as, es)
      BY <2>3, <3>2 DEF World, Forward, Housed
    <3> QED
      BY <3>1, <3>3
  <2> QED
    BY <2>1, <2>2, <2>3 DEF Forward
<1>8. Using(fs, u, bs, cs)
  BY <1>1, UsingJoined DEF World
<1>9. c # NULL => ChunkFrom(c, p, u, bs)
  BY DEF ChunkFrom, OwnsChunk, Joined, Idx
<1> QED
  BY <1>2, <1>4, <1>5, <1>6, <1>7, <1>8, <1>9 DEF World

\* What the answer b of bs owns is what the answer a of as owned.
SameData(as, a, bs, b) ==
  bs[b].type = as[a].type /\ bs[b].lr = as[a].lr /\ bs[b].chunk = as[a].chunk

OthersSame(as, bs, a, m) == \A x \in Live(as) : x # a /\ x # m => SameData(as, x, bs, x)

\* Two answers kept at one position exchange what they own.
LEMMA WorldExchange ==
  ASSUME NEW t, NEW as, NEW es, NEW cs, NEW hs, NEW fs, NEW hand,
         World(t, as, es, cs, hs, fs, hand),
         NEW p \in Idx, NEW a \in Kept(t, p), NEW m \in Kept(t, p),
         NEW bs, Live(bs) = Live(as), SameData(as, a, bs, m), SameData(as, m, bs, a),
         OthersSame(as, bs, a, m)
  PROVE  /\ World(t, bs, es, cs, hs, fs, hand)
         /\ \A c, i : ChunkFrom(c, i, t, as) => ChunkFrom(c, i, t, bs)
<1> DEFINE S(x) == IF x = a THEN m ELSE IF x = m THEN a ELSE x
<1>1. a \in Live(as) /\ m \in Live(as)
  BY DEF World, Housed
<1>2. ASSUME NEW x \in Live(as)
      PROVE  S(x) \in Live(as) /\ S(S(x)) = x /\ SameData(as, S(x), bs, x)
  BY <1>1 DEF OthersSame
<1>3. ASSUME NEW i \in Idx, NEW x \in Kept(t, i)
      PROVE  S(x) \in Kept(t, i) /\ x \in Live(as)
  BY DEF World, Housed
<1> HIDE DEF S
<1>4. ASSUME NEW x \in Live(as), NEW y
      PROVE  /\ OwnsChunk(bs, x, y) = OwnsChunk(as, S(x), y)
             /\ OwnsEntry(bs, x, y) = OwnsEntry(as, S(x), y)
             /\ OwnsChunk(bs, S(x), y) = OwnsChunk(as, x, y)
             /\ OwnsEntry(bs, S(x), y) = OwnsEntry(as, x, y)
  <2>1. SameData(as, S(x), bs, x)
    BY <1>2
  <2>2. SameData(as, x, bs, S(x))
    <3>1. S(x) \in Live(as) /\ S(S(x)) = x
      BY <1>2
    <3>2. SameData(as, S(S(x)), bs, S(x))
      BY <3>1, <1>2
    <3> QED
      BY <3>1, <3>2
  <2> QED
    BY <2>1, <2>2 DEF OwnsChunk, OwnsEntry, SameData
<1>5. Covered(t, as, t, bs)
  <2>1. ASSUME NEW j \in Idx, NEW x \in Kept(t, j), as[x].type = "CHUNK"
        PROVE  \E b \in Kept(t, j) : OwnsChunk(bs, b, as[x].chunk)
    <3>1. S(x) \in Kept(t, j) /\ x \in Live(as) /\ OwnsChunk(as, x, as[x].chunk)
      BY <1>3, <2>1 DEF OwnsChunk
    <3> QED
      BY <3>1, <1>4
  <2> QED
    BY <2>1 DEF Covered
<1>6. Housed(t, bs, hs)
  BY DEF World, Housed
<1>7. Owning(bs, cs, es)
  <2>1. ASSUME NEW x \in Live(as), bs[x].type = "LR"
        PROVE  bs[x].lr \in Live(es) /\ \A b \in Live(as) : x # b => ~OwnsEntry(bs, b, bs[x].lr)
    <3>1. S(x) \in Live(as) /\ as[S(x)].type = "LR" /\ bs[x].lr = as[S(x)].lr
      BY <1>2, <2>1 DEF SameData
    <3>2. /\ as[S(x)].lr \in Live(es)
          /\ \A b \in Live(as) : S(x) # b => ~OwnsEntry(as, b, as[S(x)].lr)
      BY <3>1 DEF World, Owning
    <3>3. ASSUME NEW b \in Live(as), x # b PROVE ~OwnsEntry(bs, b, bs[x].lr)
      <4>1. S(b) \in Live(as) /\ S(x) # S(b)
        BY <1>2, <3>3
      <4> QED
        BY <3>1, <3>2, <4>1, <1>4
    <3> QED
      BY <3>1, <3>2, <3>3
  <2>2. ASSUME NEW x \in Live(as), bs[x].chunk # NULL
        PROVE  /\ bs[x].type = "CHUNK" /\ bs[x].chunk \in Live(cs)
               /\ \A b \in Live(as) : x # b => ~OwnsChunk(bs, b, bs[x].chunk)
    <3>1. /\ S(x) \in Live(as) /\ as[S(x)].chunk # NULL
          /\ bs[x].chunk = as[S(x)].chunk /\ bs[x].type = as[S(x)].type
      BY <1>2, <2>2 DEF SameData
    <3>2. /\ as[S(x)].chunk \in Live(cs) /\ as[S(x)].type = "CHUNK"
          /\ \A b \in Live(as) : S(x) # b => ~OwnsChunk(as, b, as[S(x)].chunk)
      BY <3>1 DEF World, Owning
    <3>3. ASSUME NEW b \in Live(as), x # b PROVE ~OwnsChunk(bs, b, bs[x].chunk)
      <4>1. S(b) \in Live(as) /\ S(x) # S(b)
        BY <1>2, <3>3
      <4> QED
        BY <3>1, <3>2, <4>1, <1>4
    <3> QED
      BY <3>1, <3>2, <3>3
  <2> QED
    BY <2>1, <2>2 DEF Owning
<1>8. Owned(bs, cs, es, fs, hand)
  <2>1. ASSUME NEW e \in Live(es) PROVE \E b \in Live(bs) : OwnsEntry(bs, b, e)
    <3>1. PICK b \in Live(as) : OwnsEntry(as, b, e)
      BY DEF World, Owned
    <3> QED
      BY <3>1, <1>2, <1>4
  <2>2. ASSUME NEW c \in Live(cs), NEW b \in Live(as), OwnsChunk(as, b, c)
        PROVE  \E x \in Live(bs) : OwnsChunk(bs, x, c)
    BY <2>2, <1>2, <1>4
  <2> QED
    BY <2>1, <2>2 DEF World, Owned
<1>9. ASSUME NEW c, Unowned(as, cs, c) PROVE Unowned(bs, cs, c)
  <2>1. ASSUME NEW x \in Live(bs) PROVE ~OwnsChunk(bs, x, c)
    BY <1>9, <1>2, <1>4 DEF Unowned
  <2> QED
    BY <2>1, <1>9 DEF Unowned
<1>10. Building(bs, cs, fs, hand)
  BY <1>9 DEF World, Building
<1>11. \A c, i : ChunkFrom(c, i, t, as) => ChunkFrom(c, i, t, bs)
  BY <1>5, CoveredFrom
<1>12. \A c, i : ThunksFrom(cs, c, i, t, as) => ThunksFrom(cs, c, i, t, bs)
  BY <1>5, CoveredThunks
<1>13. \A e, i : EntryForward(e, i, t, as, es) => EntryForward(e, i, t, bs, es)
  BY <1>11 DEF EntryForward
<1>14. Forward(t, bs, cs, es)
  <2>1. ASSUME NEW i \in Idx, NEW x \in Kept(t, i)
        PROVE  /\ bs[x].chunk # NULL => ThunksFrom(cs, bs[x].chunk, i, t, bs)
               /\ bs[x].type = "LR" => EntryForward(bs[x].lr, i, t, bs, es)
    <3>1. S(x) \in Kept(t, i) /\ SameData(as, S(x), bs, x)
      BY <1>2, <1>3
    <3>2. /\ as[S(x)].chunk # NULL => ThunksFrom(cs, as[S(x)].chunk, i, t, as)
          /\ as[S(x)].type = "LR" => EntryForward(as[S(x)].lr, i, t, as, es)
      BY <3>1 DEF World, Forward
    <3> QED
      BY <3>1, <3>2, <1>12, <1>13 DEF SameData
  <2> QED
    BY <2>1 DEF World, Forward
<1>15. Using(fs, t, bs, cs)
  BY <1>12 DEF World, Using
<1> QED
  BY <1>6, <1>7, <1>8, <1>10, <1>11, <1>14, <1>15 DEF World

\* A marker for a first application and its lr entry are made.
LEMMA WorldMemo ==
  ASSUME NEW t, NEW as, NEW es, NEW cs, NEW hs, NEW fs,
         World(t, as, es, cs, hs, fs, NULL),
         \A k \in 1 .. Len(fs) : fs[k].p \in Idx,
         NEW p \in Idx,
         NEW bs, NEW m, Made(as, bs, m), \A a \in Live(as) : bs[a] = as[a],
         NEW ds, NEW n, Made(es, ds, n), \A e \in Live(es) : ds[e] = es[e],
         bs[m].type = "LR", bs[m].chunk = NULL, bs[m].lr = n,
         ds[n].seed = NULL, ds[n].head = NULL,
         NEW u, Joined(t, u, p, m)
  PROVE  World(u, bs, ds, cs, hs, fs, NULL)
<1>1. Covered(t, as, u, bs)
  BY DEF Covered, OwnsChunk, Joined, World, Housed
<1>2. Housed(u, bs, hs)
  BY HousedJoined DEF World, Made
<1>3. /\ \A a \in Live(as) : \A x : /\ OwnsChunk(bs, a, x) = OwnsChunk(as, a, x)
                                  /\ OwnsEntry(bs, a, x) = OwnsEntry(as, a, x)
      /\ \A x : ~OwnsChunk(bs, m, x)
      /\ \A x : OwnsEntry(bs, m, x) = (x = n)
  BY DEF OwnsChunk, OwnsEntry
<1>4. /\ m \notin Live(as) /\ Live(bs) = Live(as) \cup {m}
      /\ \A a \in Live(bs) : (a \in Live(as) /\ a # m) \/ a = m
      /\ n \notin Live(es) /\ Live(ds) = Live(es) \cup {n}
  BY DEF Made
<1>5. ASSUME NEW a \in Live(as), as[a].type = "LR"
      PROVE  as[a].lr \in Live(es) /\ as[a].lr # n
  BY <1>4, <1>5 DEF World, Owning
<1>6. Owning(bs, cs, ds)
  <2>1. ASSUME NEW a \in Live(as), bs[a].type = "LR"
        PROVE  bs[a].lr \in Live(ds) /\ \A b \in Live(bs) : a # b => ~OwnsEntry(bs, b, bs[a].lr)
    <3>1. bs[a].lr \in Live(es) /\ \A b \in Live(as) : a # b => ~OwnsEntry(as, b, bs[a].lr)
      BY <2>1 DEF World, Owning
    <3> QED
      BY ZenonT(30), <3>1, <1>3, <1>4
  <2>2. ASSUME NEW a \in Live(as), bs[a].chunk # NULL
        PROVE  /\ bs[a].type = "CHUNK" /\ bs[a].chunk \in Live(cs)
               /\ \A b \in Live(bs) : a # b => ~OwnsChunk(bs, b, bs[a].chunk)
    <3>1. /\ bs[a].type = "CHUNK" /\ bs[a].chunk \in Live(cs)
          /\ \A b \in Live(as) : a # b => ~OwnsChunk(as, b, bs[a].chunk)
      BY <2>2 DEF World, Owning
    <3> QED
      BY ZenonT(30), <3>1, <1>3, <1>4
  <2>3. bs[m].lr \in Live(ds) /\ \A b \in Live(bs) : m # b => ~OwnsEntry(bs, b, bs[m].lr)
    <3>1. ASSUME NEW b \in Live(as) PROVE ~OwnsEntry(as, b, n)
      BY <1>5 DEF OwnsEntry
    <3> QED
      BY <3>1, <1>3, <1>4
  <2> QED
    BY <1>4, <2>1, <2>2, <2>3 DEF Owning
<1>7. Owned(bs, cs, ds, fs, NULL)
  <2>1. ASSUME NEW e \in Live(ds) PROVE \E a \in Live(bs) : OwnsEntry(bs, a, e)
    <3>1. CASE e = n
      BY <3>1, <1>3, <1>4
    <3>2. CASE e \in Live(es)
      <4>1. PICK a \in Live(as) : OwnsEntry(as, a, e)
        BY <3>2 DEF World, Owned
      <4> QED
        BY <4>1, <1>3, <1>4
    <3> QED
      BY <3>1, <3>2, <1>4
  <2>2. ASSUME NEW d \in Live(cs), NEW a \in Live(as), OwnsChunk(as, a, d)
        PROVE  \E b \in Live(bs) : OwnsChunk(bs, b, d)
    BY <2>2, <1>3, <1>4
  <2> QED
    BY <2>1, <2>2 DEF World, Owned
<1>8. Building(bs, cs, fs, NULL)
  <2>1. ASSUME NEW k \in 1 .. Len(fs) PROVE Unowned(bs, cs, fs[k].chunk)
    <3>1. Unowned(as, cs, fs[k].chunk)
      BY DEF World, Building
    <3>2. ASSUME NEW b \in Live(bs) PROVE ~OwnsChunk(bs, b, fs[k].chunk)
      BY <3>1, <1>3, <1>4 DEF Unowned
    <3> QED
      BY <3>1, <3>2 DEF Unowned
  <2> QED
    BY <2>1 DEF World, Building
<1>9. /\ \A h, i : HeadFrom(h, i, t) => HeadFrom(h, i, u)
      /\ \A c, i : ThunksFrom(cs, c, i, t, as) => ThunksFrom(cs, c, i, u, bs)
      /\ \A c, i : ChunkFrom(c, i, t, as) => ChunkFrom(c, i, u, bs)
  BY <1>1, JoinedForward, CoveredFrom
<1>10. ASSUME NEW e \in Live(es), NEW i, EntryForward(e, i, t, as, es)
       PROVE  EntryForward(e, i, u, bs, ds)
  BY <1>9, <1>10 DEF EntryForward
<1>11. Forward(u, bs, cs, ds)
  <2>1. ASSUME NEW i \in Idx, u[i].head # NULL PROVE HeadFrom(u[i].head, i, u)
    <3>1. HeadFrom(u[i].head, i, t)
      BY <2>1 DEF World, Forward, Joined
    <3> QED
      BY <3>1, <1>9
  <2>2. ASSUME NEW i \in Idx, NEW a \in Kept(t, i)
        PROVE  /\ bs[a].chunk # NULL => ThunksFrom(cs, bs[a].chunk, i, u, bs)
               /\ bs[a].type = "LR" => EntryForward(bs[a].lr, i, u, bs, ds)
    <3>1. a \in Live(as) /\ bs[a] = as[a]
      BY DEF World, Housed
    <3>2. /\ as[a].chunk # NULL => ThunksFrom(cs, as[a].chunk, i, t, as)
          /\ as[a].type = "LR" => EntryForward(as[a].lr, i, t, as, es)
      BY DEF World, Forward
    <3> QED
      BY <3>1, <3>2, <1>5, <1>9, <1>10
  <2>3. ASSUME NEW i \in Idx PROVE EntryForward(n, i, u, bs, ds)
    BY DEF EntryForward
  <2>4. ASSUME NEW i \in Idx, NEW a \in Kept(u, i) PROVE a \in Kept(t, i) \/ a = m
    BY DEF Joined
  <2> QED
    BY <2>1, <2>2, <2>3, <2>4 DEF Forward
<1>12. Using(fs, u, bs, cs)
  BY <1>1, UsingJoined DEF World
<1> QED
  BY <1>2, <1>6, <1>7, <1>8, <1>11, <1>12 DEF World

-----------------------------------------------------------------------------
(* Entries and heads.                                                       *)

\* The lr entry n, whose owner is kept at position p, points ahead of p.
LEMMA WorldEntry ==
  ASSUME NEW t, NEW as, NEW es, NEW cs, NEW hs, NEW fs, NEW hand,
         World(t, as, es, cs, hs, fs, hand),
         NEW p \in Idx, NEW a \in Kept(t, p), NEW n, OwnsEntry(as, a, n),
         NEW ds, Live(ds) = Live(es), \A e \in Live(es) : e # n => ds[e] = es[e],
         EntryForward(n, p, t, as, ds)
  PROVE  World(t, as, ds, cs, hs, fs, hand)
<1>1. a \in Live(as)
  BY DEF World, Housed
<1>2. Owning(as, cs, ds)
  BY DEF World, Owning
<1>3. Owned(as, cs, ds, fs, hand)
  BY DEF World, Owned
<1>4. Forward(t, as, cs, ds)
  <2>1. ASSUME NEW i \in Idx, NEW b \in Kept(t, i), as[b].type = "LR"
        PROVE  EntryForward(as[b].lr, i, t, as, ds)
    <3>1. b \in Live(as) /\ as[b].lr \in Live(es) /\ EntryForward(as[b].lr, i, t, as, es)
      BY <2>1 DEF World, Housed, Owning, Forward
    <3>2. CASE as[b].lr = n
      <4>1. b = a
        BY <1>1, <2>1, <3>1, <3>2 DEF World, Owning, OwnsEntry
      <4>2. i = p
        BY <4>1 DEF World, Housed
      <4> QED
        BY <3>2, <4>2
    <3>3. CASE as[b].lr # n
      BY <3>1, <3>3 DEF EntryForward
    <3> QED
      BY <3>2, <3>3
  <2> QED
    BY <2>1 DEF World, Forward
<1> QED
  BY <1>2, <1>3, <1>4 DEF World

\* In the table u, position p owns the head h as well.
HeadAdded(t, u, p, h) ==
  \A i \in Idx : /\ Kept(u, i) = Kept(t, i) /\ u[i].head = t[i].head
                 /\ u[i].heads = IF i = p THEN t[i].heads \cup {h} ELSE t[i].heads

\* A head is made that the entry for position p owns.
LEMMA WorldNewHead ==
  ASSUME NEW t, NEW as, NEW es, NEW cs, NEW hs, NEW fs, NEW hand,
         World(t, as, es, cs, hs, fs, hand),
         \A k \in 1 .. Len(fs) : fs[k].p \in Idx,
         NEW p \in Idx, NEW gs, NEW h, Made(hs, gs, h),
         NEW u, HeadAdded(t, u, p, h)
  PROVE  /\ World(u, as, es, cs, gs, fs, hand)
         /\ HeadFrom(h, p, u)
         /\ \A c, i : ChunkFrom(c, i, t, as) => ChunkFrom(c, i, u, as)
<1> USE DEF HeadAdded
<1>1. Housed(u, as, gs)
  <2>1. \A i \in Idx : Kept(u, i) \subseteq Live(as) /\ u[i].heads \subseteq Live(gs)
    BY DEF World, Housed, Made
  <2>2. ASSUME NEW i \in Idx, NEW j \in Idx, i # j
        PROVE  Kept(u, i) \cap Kept(u, j) = {} /\ u[i].heads \cap u[j].heads = {}
    <3>1. /\ h \notin t[i].heads /\ h \notin t[j].heads
          /\ t[i].heads \cap t[j].heads = {} /\ Kept(t, i) \cap Kept(t, j) = {}
      BY <2>2 DEF World, Housed, Made
    <3> QED
      BY <2>2, <3>1
  <2>3. \A a \in Live(as) : \E i \in Idx : a \in Kept(u, i)
    BY DEF World, Housed
  <2>4. \A g \in Live(gs) : \E i \in Idx : g \in u[i].heads
    BY DEF World, Housed, Made
  <2> QED
    BY <2>1, <2>2, <2>3, <2>4 DEF Housed
<1>2. Covered(t, as, u, as)
  BY DEF Covered, OwnsChunk
<1>3. /\ \A c, i : ChunkFrom(c, i, t, as) => ChunkFrom(c, i, u, as)
      /\ \A c, i : ThunksFrom(cs, c, i, t, as) => ThunksFrom(cs, c, i, u, as)
  BY <1>2, CoveredFrom, CoveredThunks
<1>4. \A g, i : HeadFrom(g, i, t) => HeadFrom(g, i, u)
  BY DEF HeadFrom
<1>5. \A e, i : EntryForward(e, i, t, as, es) => EntryForward(e, i, u, as, es)
  BY <1>3, <1>4 DEF EntryForward
<1>6. Forward(u, as, cs, es)
  BY <1>3, <1>4, <1>5 DEF World, Forward
<1>7. Using(fs, u, as, cs)
  <2>1. ASSUME NEW k \in 1 .. Len(fs), fs[k].mode # "eval" PROVE fs[k].ans \in Kept(u, fs[k].p)
    BY <2>1 DEF World, Using
  <2> QED
    BY <1>3, <1>4, <2>1 DEF World, Using
<1>8. HeadFrom(h, p, u)
  <2>1. h \in u[p].heads
    OBVIOUS
  <2>2. p <= p
    BY RuntimeAssumption DEF Idx
  <2> QED
    BY <2>1, <2>2 DEF HeadFrom
<1> QED
  BY <1>1, <1>3, <1>6, <1>7, <1>8 DEF World

\* In the table u, the head of position p may be another.
HeadSet(t, u, p) ==
  \A i \in Idx : /\ Kept(u, i) = Kept(t, i) /\ u[i].heads = t[i].heads
                 /\ i # p => u[i].head = t[i].head

\* The head of position p in the table is set or taken away.
LEMMA WorldTableHead ==
  ASSUME NEW t, NEW as, NEW es, NEW cs, NEW hs, NEW fs, NEW hand,
         World(t, as, es, cs, hs, fs, hand),
         \A k \in 1 .. Len(fs) : fs[k].p \in Idx,
         NEW p \in Idx, NEW u,
         HeadSet(t, u, p),
         u[p].head # NULL => HeadFrom(u[p].head, p, t)
  PROVE  /\ World(u, as, es, cs, hs, fs, hand)
         /\ \A c, i : ChunkFrom(c, i, t, as) => ChunkFrom(c, i, u, as)
         /\ \A h, i : HeadFrom(h, i, t) => HeadFrom(h, i, u)
<1> USE DEF HeadSet
<1>1. Housed(u, as, hs)
  BY DEF World, Housed
<1>2. Covered(t, as, u, as)
  BY DEF Covered, OwnsChunk
<1>3. /\ \A c, i : ChunkFrom(c, i, t, as) => ChunkFrom(c, i, u, as)
      /\ \A c, i : ThunksFrom(cs, c, i, t, as) => ThunksFrom(cs, c, i, u, as)
  BY <1>2, CoveredFrom, CoveredThunks
<1>4. \A g, i : HeadFrom(g, i, t) => HeadFrom(g, i, u)
  BY DEF HeadFrom
<1>5. \A e, i : EntryForward(e, i, t, as, es) => EntryForward(e, i, u, as, es)
  BY <1>3, <1>4 DEF EntryForward
<1>6. Forward(u, as, cs, es)
  <2>1. ASSUME NEW i \in Idx, u[i].head # NULL PROVE HeadFrom(u[i].head, i, u)
    <3>1. HeadFrom(u[i].head, i, t)
      BY <2>1 DEF World, Forward
    <3> QED
      BY <3>1, <1>4
  <2>2. ASSUME NEW i \in Idx, NEW a \in Kept(u, i)
        PROVE  /\ as[a].chunk # NULL => ThunksFrom(cs, as[a].chunk, i, u, as)
               /\ as[a].type = "LR" => EntryForward(as[a].lr, i, u, as, es)
    BY <1>3, <1>5 DEF World, Forward
  <2> QED
    BY <2>1, <2>2 DEF Forward
<1>7. Using(fs, u, as, cs)
  <2>1. ASSUME NEW k \in 1 .. Len(fs), fs[k].mode # "eval" PROVE fs[k].ans \in Kept(u, fs[k].p)
    BY <2>1 DEF World, Using
  <2> QED
    BY <1>3, <1>4, <2>1 DEF World, Using
<1> QED
  BY <1>1, <1>3, <1>4, <1>6, <1>7 DEF World

\* An evaluation begins with a new chunk.
LEMMA WorldPush ==
  ASSUME NEW t, NEW as, NEW es, NEW cs, NEW hs, NEW fs, Len(fs) \in Nat,
         World(t, as, es, cs, hs, fs, NULL),
         NEW ds, NEW c, c # NULL, Made(cs, ds, c), \A x \in Live(cs) : ds[x] = cs[x],
         ds[c].thunks = <<>>,
         NEW gs, Len(gs) = Len(fs) + 1, \A k \in 1 .. Len(fs) : gs[k] = fs[k],
         NEW f, gs[Len(fs) + 1] = f, f.chunk = c,
         f.mode # "eval" => f.ans \in Kept(t, f.p),
         f.head # NULL => HeadFrom(f.head, 0, t)
  PROVE  World(t, as, es, ds, hs, gs, NULL)
<1>1. /\ c \notin Live(cs) /\ Live(ds) = Live(cs) \cup {c}
      /\ Len(fs) + 1 \in 1 .. Len(gs) /\ Len(gs) \in Nat
      /\ \A k \in 1 .. Len(fs) : k \in 1 .. Len(gs)
      /\ \A k \in 1 .. Len(gs) : k \in 1 .. Len(fs) \/ k = Len(fs) + 1
      /\ \A k \in 1 .. Len(fs) : k # Len(fs) + 1
  BY DEF Made
<1>2. Owning(as, ds, es)
  BY <1>1 DEF World, Owning
<1>3. Owned(as, ds, es, gs, NULL)
  <2>1. ASSUME NEW d \in Live(ds)
        PROVE  (\E a \in Live(as) : OwnsChunk(as, a, d)) \/ \E k \in 1 .. Len(gs) : gs[k].chunk = d
    <3>1. CASE d = c
      BY <3>1, <1>1
    <3>2. CASE d \in Live(cs)
      <4>1. (\E a \in Live(as) : OwnsChunk(as, a, d)) \/ \E k \in 1 .. Len(fs) : fs[k].chunk = d
        BY <3>2 DEF World, Owned
      <4> QED
        BY <4>1, <1>1
    <3> QED
      BY <3>1, <3>2, <1>1
  <2> QED
    BY <2>1 DEF World, Owned
<1>4. Unowned(as, ds, c)
  <2>1. ASSUME NEW a \in Live(as), OwnsChunk(as, a, c) PROVE FALSE
    BY <1>1, <2>1 DEF World, Owning, OwnsChunk
  <2> QED
    BY <2>1, <1>1 DEF Unowned
<1>5. ASSUME NEW k \in 1 .. Len(fs)
      PROVE  /\ fs[k].chunk \in Live(cs) /\ Unowned(as, ds, fs[k].chunk)
             /\ fs[k].chunk # c
  BY <1>1 DEF World, Building, Unowned
<1>6. Building(as, ds, gs, NULL)
  <2>1. ASSUME NEW k \in 1 .. Len(gs) PROVE Unowned(as, ds, gs[k].chunk)
    BY <1>1, <1>4, <1>5
  <2>2. ASSUME NEW j \in 1 .. Len(gs), NEW k \in 1 .. Len(gs), j # k
        PROVE  gs[j].chunk # gs[k].chunk
    <3>1. CASE j \in 1 .. Len(fs) /\ k \in 1 .. Len(fs)
      BY <2>2, <3>1 DEF World, Building
    <3>2. CASE j = Len(fs) + 1 \/ k = Len(fs) + 1
      BY <2>2, <3>2, <1>1, <1>5
    <3> QED
      BY <3>1, <3>2, <1>1
  <2> QED
    BY <2>1, <2>2 DEF Building
<1>7. ASSUME NEW x \in Live(cs), NEW i, ThunksFrom(cs, x, i, t, as)
      PROVE  ThunksFrom(ds, x, i, t, as)
  BY <1>7 DEF ThunksFrom
<1>8. Forward(t, as, ds, es)
  <2>1. ASSUME NEW i \in Idx, NEW a \in Kept(t, i), as[a].chunk # NULL
        PROVE  as[a].chunk \in Live(cs) /\ ThunksFrom(cs, as[a].chunk, i, t, as)
    BY <2>1 DEF World, Housed, Forward, Owning
  <2> QED
    BY <1>7, <2>1 DEF World, Forward
<1>9. Using(gs, t, as, ds)
  <2>1. ASSUME NEW k \in 1 .. Len(fs)
        PROVE  /\ ThunksFrom(ds, fs[k].chunk, fs[k].p, t, as)
               /\ fs[k].mode # "eval" => fs[k].ans \in Kept(t, fs[k].p)
               /\ fs[k].head # NULL => HeadFrom(fs[k].head, 0, t)
    BY <1>5, <1>7 DEF World, Using
  <2>2. ThunksFrom(ds, c, f.p, t, as)
    BY DEF ThunksFrom
  <2>3. ASSUME NEW k \in 1 .. Len(gs)
        PROVE  /\ ThunksFrom(ds, gs[k].chunk, gs[k].p, t, as)
               /\ gs[k].mode # "eval" => gs[k].ans \in Kept(t, gs[k].p)
               /\ gs[k].head # NULL => HeadFrom(gs[k].head, 0, t)
    <3>1. CASE k \in 1 .. Len(fs)
      BY <2>1, <3>1
    <3>2. CASE k = Len(fs) + 1
      BY <2>2, <3>2
    <3> QED
      BY <3>1, <3>2, <1>1
  <2> QED
    BY <2>3 DEF Using
<1> QED
  BY <1>2, <1>3, <1>6, <1>8, <1>9 DEF World

-----------------------------------------------------------------------------
(* The first n entries of the table are destroyed, the others move there.   *)

\* The table u is what is left of t.
Advanced(t, u, n) ==
  \A i \in Idx :
    /\ i + n \in Idx => /\ Kept(u, i) = Kept(t, i + n)
                        /\ u[i].heads = t[i + n].heads /\ u[i].head = t[i + n].head
    /\ i + n \notin Idx => Kept(u, i) = {} /\ u[i].heads = {} /\ u[i].head = NULL

\* The answer a, the head h is owned by an entry that is destroyed.
Gone(t, n, a)     == \E i \in Idx : i < n /\ a \in Kept(t, i)
GoneHead(t, n, h) == \E i \in Idx : i < n /\ h \in t[i].heads

\* What remains of the heaps as, cs, es and hs.
Remaining(t, n, as, cs, es, hs, bs, ds, fs, ks) ==
  /\ \A a : a \in Live(bs) <=> a \in Live(as) /\ ~Gone(t, n, a)
  /\ \A c : c \in Live(ds) <=>
       c \in Live(cs) /\ \A a \in Live(as) : OwnsChunk(as, a, c) => ~Gone(t, n, a)
  /\ \A e : e \in Live(fs) <=>
       e \in Live(es) /\ \A a \in Live(as) : OwnsEntry(as, a, e) => ~Gone(t, n, a)
  /\ \A h : h \in Live(ks) <=> h \in Live(hs) /\ ~GoneHead(t, n, h)
  /\ \A a \in Live(bs) : bs[a] = as[a]
  /\ \A c \in Live(ds) : ds[c] = cs[c]
  /\ \A e \in Live(fs) : fs[e] = es[e]

LEMMA WorldShift ==
  ASSUME NEW t, NEW as, NEW es, NEW cs, NEW hs, NEW calls, Len(calls) = 0,
         World(t, as, es, cs, hs, calls, NULL),
         NEW n \in Nat, NEW u, Advanced(t, u, n),
         NEW bs, NEW ds, NEW fs, NEW ks, Remaining(t, n, as, cs, es, hs, bs, ds, fs, ks)
  PROVE  World(u, bs, fs, ds, ks, calls, NULL)
<1>1. MaxPos \in Nat /\ \A i \in Idx : i \in Int
  BY RuntimeAssumption DEF Idx
<1>2. ASSUME NEW i \in Idx, i + n \in Idx
      PROVE  /\ \A a \in Kept(t, i + n) : ~Gone(t, n, a)
             /\ \A h \in t[i + n].heads : ~GoneHead(t, n, h)
  <2>1. \A j \in Idx : j < n => j # i + n
    BY <1>1, <1>2 DEF Idx
  <2> QED
    BY <2>1, <1>2 DEF World, Housed, Gone, GoneHead
<1>3. ASSUME NEW j \in Idx, ~(j < n)
      PROVE  \E i \in Idx : j = i + n
  <2>1. j - n \in Idx /\ j = (j - n) + n
    BY <1>1, <1>3 DEF Idx
  <2> QED
    BY <2>1
<1>4. /\ \A a \in Live(bs) : a \in Live(as) /\ bs[a] = as[a] /\ ~Gone(t, n, a)
      /\ \A a \in Live(as) : ~Gone(t, n, a) => a \in Live(bs)
      /\ \A h \in Live(hs) : ~GoneHead(t, n, h) => h \in Live(ks)
      /\ \A h \in Live(ks) : h \in Live(hs) /\ ~GoneHead(t, n, h)
      /\ \A c \in Live(ds) : c \in Live(cs) /\ ds[c] = cs[c]
      /\ \A e \in Live(fs) : e \in Live(es) /\ fs[e] = es[e]
  BY DEF Remaining
<1>5. ASSUME NEW i \in Idx
      PROVE  /\ \A a \in Kept(u, i) : i + n \in Idx /\ a \in Kept(t, i + n) /\ a \in Live(bs)
             /\ \A h \in u[i].heads : i + n \in Idx /\ h \in t[i + n].heads /\ h \in Live(ks)
  BY <1>2, <1>4 DEF Advanced, World, Housed
<1>6. Housed(u, bs, ks)
  <2>1. ASSUME NEW i \in Idx, NEW j \in Idx, i # j
        PROVE  Kept(u, i) \cap Kept(u, j) = {} /\ u[i].heads \cap u[j].heads = {}
    <3>1. i + n # j + n
      BY <1>1, <2>1
    <3>2. ASSUME i + n \in Idx, j + n \in Idx
          PROVE  /\ Kept(t, i + n) \cap Kept(t, j + n) = {}
                 /\ t[i + n].heads \cap t[j + n].heads = {}
      BY <3>1, <3>2 DEF World, Housed
    <3> QED
      BY <3>2, <1>5
  <2>2. ASSUME NEW a \in Live(bs) PROVE \E i \in Idx : a \in Kept(u, i)
    <3>1. PICK j \in Idx : a \in Kept(t, j)
      BY <1>4 DEF World, Housed
    <3>2. PICK i \in Idx : j = i + n
      BY <3>1, <1>3, <1>4 DEF Gone
    <3> QED
      BY <3>1, <3>2 DEF Advanced
  <2>3. ASSUME NEW h \in Live(ks) PROVE \E i \in Idx : h \in u[i].heads
    <3>1. PICK j \in Idx : h \in t[j].heads
      BY <1>4 DEF World, Housed
    <3>2. PICK i \in Idx : j = i + n
      BY <3>1, <1>3, <1>4 DEF GoneHead
    <3> QED
      BY <3>1, <3>2 DEF Advanced
  <2> QED
    BY <1>5, <2>1, <2>2, <2>3 DEF Housed
<1>7. ASSUME NEW a \in Live(as), NEW b \in Live(as), NEW c, c # NULL,
             OwnsChunk(as, a, c), OwnsChunk(as, b, c)
      PROVE  a = b /\ c \in Live(cs)
  BY <1>7 DEF World, Owning, OwnsChunk
<1>8. ASSUME NEW a \in Live(as), NEW b \in Live(as), NEW e,
             OwnsEntry(as, a, e), OwnsEntry(as, b, e)
      PROVE  a = b /\ e \in Live(es)
  BY <1>8 DEF World, Owning, OwnsEntry
<1>9. Owning(bs, ds, fs)
  <2>1. ASSUME NEW a \in Live(bs), bs[a].type = "LR"
        PROVE  bs[a].lr \in Live(fs) /\ \A b \in Live(bs) : a # b => ~OwnsEntry(bs, b, bs[a].lr)
    <3>1. a \in Live(as) /\ bs[a] = as[a] /\ ~Gone(t, n, a) /\ OwnsEntry(as, a, bs[a].lr)
      BY <2>1, <1>4 DEF OwnsEntry
    <3>2. \A b \in Live(as) : OwnsEntry(as, b, bs[a].lr) => b = a
      BY <3>1, <1>8
    <3>3. bs[a].lr \in Live(es)
      BY <3>1, <1>8
    <3>4. bs[a].lr \in Live(fs)
      BY <3>1, <3>2, <3>3 DEF Remaining
    <3> QED
      BY <3>2, <3>4, <1>4 DEF OwnsEntry
  <2>2. ASSUME NEW a \in Live(bs), bs[a].chunk # NULL
        PROVE  /\ bs[a].type = "CHUNK" /\ bs[a].chunk \in Live(ds)
               /\ \A b \in Live(bs) : a # b => ~OwnsChunk(bs, b, bs[a].chunk)
    <3>1. a \in Live(as) /\ bs[a] = as[a] /\ ~Gone(t, n, a) /\ OwnsChunk(as, a, bs[a].chunk)
      BY <2>2, <1>4 DEF OwnsChunk, World, Owning
    <3>2. \A b \in Live(as) : OwnsChunk(as, b, bs[a].chunk) => b = a
      BY <2>2, <3>1, <1>7
    <3>3. bs[a].chunk \in Live(cs)
      BY <2>2, <3>1, <1>7
    <3>4. bs[a].chunk \in Live(ds)
      BY <3>1, <3>2, <3>3 DEF Remaining
    <3> QED
      BY <3>1, <3>2, <3>4, <1>4 DEF OwnsChunk
  <2> QED
    BY <2>1, <2>2 DEF Owning
<1>10. \A k \in 1 .. Len(calls) : FALSE
  OBVIOUS
<1>11. Owned(bs, ds, fs, calls, NULL)
  <2>1. ASSUME NEW e \in Live(fs) PROVE \E a \in Live(bs) : OwnsEntry(bs, a, e)
    <3>1. PICK a \in Live(as) : OwnsEntry(as, a, e)
      BY <1>4 DEF World, Owned
    <3>2. a \in Live(bs) /\ bs[a] = as[a]
      BY <3>1, <1>4 DEF Remaining
    <3> QED
      BY <3>1, <3>2 DEF OwnsEntry
  <2>2. ASSUME NEW c \in Live(ds) PROVE \E a \in Live(bs) : OwnsChunk(bs, a, c)
    <3>1. PICK a \in Live(as) : OwnsChunk(as, a, c)
      BY <1>4, <1>10 DEF World, Owned
    <3>2. a \in Live(bs) /\ bs[a] = as[a]
      BY <3>1, <1>4 DEF Remaining
    <3> QED
      BY <3>1, <3>2 DEF OwnsChunk
  <2> QED
    BY <2>1, <2>2 DEF Owned
<1>12. Building(bs, ds, calls, NULL) /\ Using(calls, u, bs, ds)
  BY <1>10 DEF Building, Using
<1>13. ASSUME NEW i \in Idx, i + n \in Idx, NEW j \in Idx, i + n <= j
       PROVE  \E k \in Idx : i <= k /\ j = k + n
  <2>1. j - n \in Idx /\ i <= j - n /\ j = (j - n) + n
    BY <1>1, <1>13 DEF Idx
  <2> QED
    BY <2>1
<1>14. ASSUME NEW i \in Idx, i + n \in Idx, NEW c, ChunkFrom(c, i + n, t, as)
       PROVE  ChunkFrom(c, i, u, bs)
  <2>1. PICK j \in Idx : i + n <= j /\ \E a \in Kept(t, j) : OwnsChunk(as, a, c)
    BY <1>14 DEF ChunkFrom
  <2>2. PICK a \in Kept(t, j) : OwnsChunk(as, a, c)
    BY <2>1
  <2>3. PICK k \in Idx : i <= k /\ j = k + n
    BY <1>13, <1>14, <2>1
  <2>4. a \in Kept(u, k)
    BY <2>3 DEF Advanced
  <2>5. bs[a] = as[a]
    BY <2>4, <1>4, <1>5
  <2> QED
    BY <2>2, <2>3, <2>4, <2>5 DEF ChunkFrom, OwnsChunk
<1>15. ASSUME NEW i \in Idx, i + n \in Idx, NEW h, HeadFrom(h, i + n, t)
       PROVE  HeadFrom(h, i, u)
  <2>1. PICK j \in Idx : i + n <= j /\ h \in t[j].heads
    BY <1>15 DEF HeadFrom
  <2>2. PICK k \in Idx : i <= k /\ j = k + n
    BY <1>13, <1>15, <2>1
  <2> QED
    BY <2>1, <2>2 DEF HeadFrom, Advanced
<1>16. Forward(u, bs, ds, fs)
  <2>1. ASSUME NEW i \in Idx, u[i].head # NULL PROVE HeadFrom(u[i].head, i, u)
    <3>1. i + n \in Idx /\ u[i].head = t[i + n].head
      BY <2>1 DEF Advanced
    <3>2. HeadFrom(t[i + n].head, i + n, t)
      BY <2>1, <3>1 DEF World, Forward
    <3> QED
      BY <3>1, <3>2, <1>15
  <2>2. ASSUME NEW i \in Idx, NEW a \in Kept(u, i), bs[a].chunk # NULL
        PROVE  ThunksFrom(ds, bs[a].chunk, i, u, bs)
    <3>1. i + n \in Idx /\ a \in Kept(t, i + n) /\ a \in Live(bs) /\ bs[a] = as[a]
      BY <1>4, <1>5
    <3>2. ThunksFrom(cs, bs[a].chunk, i + n, t, as)
      BY <2>2, <3>1 DEF World, Forward
    <3>3. ds[bs[a].chunk] = cs[bs[a].chunk]
      BY <2>2, <3>1, <1>4, <1>9 DEF Owning
    <3>4. \A c : ChunkFrom(c, i + n, t, as) => ChunkFrom(c, i, u, bs)
      BY <3>1, <1>14
    <3> QED
      BY <3>2, <3>3, <3>4 DEF ThunksFrom
  <2>3. ASSUME NEW i \in Idx, NEW a \in Kept(u, i), bs[a].type = "LR"
        PROVE  EntryForward(bs[a].lr, i, u, bs, fs)
    <3>1. i + n \in Idx /\ a \in Kept(t, i + n) /\ a \in Live(bs) /\ bs[a] = as[a]
      BY <1>4, <1>5
    <3>2. EntryForward(bs[a].lr, i + n, t, as, es)
      BY <2>3, <3>1 DEF World, Forward
    <3>3. fs[bs[a].lr] = es[bs[a].lr]
      BY <2>3, <3>1, <1>4, <1>9 DEF Owning
    <3>4. /\ \A c : ChunkFrom(c, i + n, t, as) => ChunkFrom(c, i, u, bs)
          /\ \A h : HeadFrom(h, i + n, t) => HeadFrom(h, i, u)
      BY <3>1, <1>14, <1>15
    <3> QED
      BY <3>2, <3>3, <3>4 DEF EntryForward
  <2> QED
    BY <2>1, <2>2, <2>3 DEF Forward
<1> QED
  BY <1>6, <1>9, <1>11, <1>12, <1>16 DEF World

-----------------------------------------------------------------------------
(* The lr stack and the activations.                                        *)

\* The markers of the first applications keep their lr entries.
SameMarkers(fs, as, bs) ==
  \A k \in 1 .. Len(fs) : fs[k].mode = "first" => bs[fs[k].ans].lr = as[fs[k].ans].lr

\* The activations change, but not which are first applications, of what.
LEMMA StackSame ==
  ASSUME NEW ls, NEW fs, NEW as, StackOK(ls, fs, as),
         NEW gs, SameCalls(fs, gs), NEW bs,
         SameMarkers(fs, as, bs)
  PROVE  StackOK(ls, gs, bs)
<1>1. /\ Len(gs) = Len(fs)
      /\ \A n, k : k \in 1 .. Len(fs) => (Stacked(ls, gs, bs, n, k) = Stacked(ls, fs, as, n, k))
  BY DEF SameCalls, Stacked, SameMarkers
<1>2. \A k \in 1 .. Len(fs) : gs[k].mode = fs[k].mode
  BY DEF SameCalls
<1>3. \A n \in 1 .. Len(ls) : \E k \in 1 .. Len(gs) : Stacked(ls, gs, bs, n, k)
  BY <1>1 DEF StackOK
<1>4. \A k \in 1 .. Len(gs) : gs[k].mode = "first" =>
        \E n \in 1 .. Len(ls) : Stacked(ls, gs, bs, n, k)
  BY <1>1, <1>2 DEF StackOK
<1>5. \A n, m \in 1 .. Len(ls) : \A j, k \in 1 .. Len(gs) :
        Stacked(ls, gs, bs, n, j) /\ Stacked(ls, gs, bs, m, k) => (n < m <=> j < k)
  BY <1>1 DEF StackOK
<1> QED
  BY <1>3, <1>4, <1>5 DEF StackOK

\* Two entries of the lr stack are in the order of their activations.
LEMMA StackOrder ==
  ASSUME NEW ls, NEW fs, NEW as, StackOK(ls, fs, as),
         NEW n \in 1 .. Len(ls), NEW m \in 1 .. Len(ls),
         NEW j \in 1 .. Len(fs), NEW k \in 1 .. Len(fs),
         Stacked(ls, fs, as, n, j), Stacked(ls, fs, as, m, k)
  PROVE  /\ n < m => j < k
         /\ j < k => n < m
BY DEF StackOK

\* The lr stack ms is ls without the last entry, with one more entry e.
Lowered(ls, ms) == Len(ms) = Len(ls) - 1 /\ \A n \in 1 .. Len(ms) : ms[n] = ls[n]
Raised(ls, ms, e) ==
  /\ Len(ms) = Len(ls) + 1 /\ ms[Len(ms)] = e
  /\ \A n \in 1 .. Len(ls) : ms[n] = ls[n] /\ ls[n] # e

\* An activation returns, with its lr entry if it is a first application.
LEMMA StackPop ==
  ASSUME NEW ls, NEW fs, NEW as, StackOK(ls, fs, as),
         Len(fs) \in Nat, Len(fs) > 0, Len(ls) \in Nat,
         NEW gs, Len(gs) = Len(fs) - 1, \A k \in 1 .. Len(gs) : gs[k] = fs[k],
         NEW bs,
         SameMarkers(gs, as, bs),
         NEW ms,
         fs[Len(fs)].mode = "first" => Lowered(ls, ms),
         fs[Len(fs)].mode # "first" => ms = ls
  PROVE  StackOK(ms, gs, bs)
<1>1. /\ Len(gs) \in Nat /\ Len(fs) \in 1 .. Len(fs)
      /\ \A k \in 1 .. Len(gs) : k \in 1 .. Len(fs) /\ k < Len(fs)
      /\ \A k \in 1 .. Len(fs) : k \in 1 .. Len(gs) \/ k = Len(fs)
      /\ \A n \in 1 .. Len(ms) : n \in 1 .. Len(ls) /\ ms[n] = ls[n]
  BY DEF Lowered
<1>2. ASSUME NEW n \in 1 .. Len(ms), NEW k \in 1 .. Len(gs)
      PROVE  Stacked(ms, gs, bs, n, k) = Stacked(ls, fs, as, n, k)
  BY <1>1 DEF Stacked, SameMarkers
<1>5. ASSUME NEW n \in 1 .. Len(ms), NEW m \in 1 .. Len(ms),
             NEW j \in 1 .. Len(gs), NEW k \in 1 .. Len(gs),
             Stacked(ms, gs, bs, n, j), Stacked(ms, gs, bs, m, k)
      PROVE  n < m <=> j < k
  <2>1. /\ n \in 1 .. Len(ls) /\ m \in 1 .. Len(ls)
        /\ j \in 1 .. Len(fs) /\ k \in 1 .. Len(fs)
    BY <1>1
  <2>2. Stacked(ls, fs, as, n, j) /\ Stacked(ls, fs, as, m, k)
    BY <1>2, <1>5
  <2>3. (n < m => j < k) /\ (j < k => n < m)
    BY <2>1, <2>2, StackOrder
  <2> QED
    BY <2>3
<1>3. CASE fs[Len(fs)].mode = "first"
  <2>1. PICK n \in 1 .. Len(ls) : Stacked(ls, fs, as, n, Len(fs))
    BY <1>1, <1>3 DEF StackOK
  <2>2. Len(ls) \in 1 .. Len(ls)
    OBVIOUS
  <2>3. PICK k \in 1 .. Len(fs) : Stacked(ls, fs, as, Len(ls), k)
    BY <2>2 DEF StackOK
  <2>4. n < Len(ls) => Len(fs) < k
    BY ZenonT(30), <1>1, <2>1, <2>2, <2>3, StackOrder
  <2>5. Stacked(ls, fs, as, Len(ls), Len(fs))
    <3>1. n = Len(ls)
      BY <2>2, <2>4
    <3> QED
      BY <2>1, <3>1
  <2>6. ASSUME NEW x \in 1 .. Len(ms) PROVE \E j \in 1 .. Len(gs) : Stacked(ms, gs, bs, x, j)
    <3>1. x \in 1 .. Len(ls) /\ x < Len(ls)
      BY <1>3 DEF Lowered
    <3>2. PICK j \in 1 .. Len(fs) : Stacked(ls, fs, as, x, j)
      BY <3>1 DEF StackOK
    <3>3. j < Len(fs)
      <4>1. Len(fs) \in 1 .. Len(fs) /\ x \in 1 .. Len(ls) /\ Len(ls) \in 1 .. Len(ls)
        BY <1>1, <2>2, <3>1
      <4>2. x < Len(ls) => j < Len(fs)
        BY ZenonT(30), <2>5, <3>2, <4>1, StackOrder
      <4> QED
        BY <3>1, <4>2
    <3>4. j \in 1 .. Len(gs)
      BY <3>3
    <3>5. Stacked(ms, gs, bs, x, j) = Stacked(ls, fs, as, x, j)
      BY <1>2, <3>4
    <3> QED
      BY <3>2, <3>4, <3>5
  <2>7. ASSUME NEW j \in 1 .. Len(gs), gs[j].mode = "first"
        PROVE  \E x \in 1 .. Len(ms) : Stacked(ms, gs, bs, x, j)
    <3>1. PICK x \in 1 .. Len(ls) : Stacked(ls, fs, as, x, j)
      BY <1>1, <2>7 DEF StackOK
    <3>2. x < Len(ls)
      <4>1. j < Len(fs) /\ j \in 1 .. Len(fs)
        BY <1>1
      <4> QED
        BY <1>1, <2>2, <2>5, <3>1, <4>1, StackOrder
    <3>3. x \in 1 .. Len(ms)
      BY <1>3, <3>2 DEF Lowered
    <3> QED
      BY <1>2, <3>1, <3>3
  <2> QED
    BY <1>5, <2>6, <2>7 DEF StackOK
<1>4. CASE fs[Len(fs)].mode # "first"
  <2>1. ms = ls
    BY <1>4
  <2>2. ASSUME NEW n \in 1 .. Len(ls) PROVE \E k \in 1 .. Len(gs) : Stacked(ls, gs, bs, n, k)
    <3>1. PICK k \in 1 .. Len(fs) : Stacked(ls, fs, as, n, k)
      BY DEF StackOK
    <3>2. k \in 1 .. Len(gs)
      BY <1>1, <1>4, <3>1 DEF Stacked, SameMarkers
    <3> QED
      BY <1>2, <2>1, <3>1, <3>2
  <2>3. ASSUME NEW j \in 1 .. Len(gs), gs[j].mode = "first"
        PROVE  \E x \in 1 .. Len(ls) : Stacked(ls, gs, bs, x, j)
    <3>1. PICK x \in 1 .. Len(ls) : Stacked(ls, fs, as, x, j)
      BY <1>1, <2>3 DEF StackOK
    <3> QED
      BY <1>2, <2>1, <3>1
  <2> QED
    BY <1>5, <2>1, <2>2, <2>3 DEF StackOK
<1> QED
  BY <1>3, <1>4

\* An activation begins, with a new lr entry if it is a first application.
LEMMA StackPush ==
  ASSUME NEW ls, NEW fs, NEW as, StackOK(ls, fs, as), Len(fs) \in Nat, Len(ls) \in Nat,
         NEW gs, Len(gs) = Len(fs) + 1, \A k \in 1 .. Len(fs) : gs[k] = fs[k],
         NEW bs,
         SameMarkers(fs, as, bs),
         NEW ms,
         NEW f, f = gs[Len(gs)],
         f.mode = "first" => Raised(ls, ms, bs[f.ans].lr), f.mode # "first" => ms = ls
  PROVE  StackOK(ms, gs, bs)
<1>1. /\ Len(gs) \in Nat /\ Len(gs) \in 1 .. Len(gs)
      /\ \A k \in 1 .. Len(fs) : k \in 1 .. Len(gs) /\ k < Len(gs)
      /\ \A k \in 1 .. Len(gs) : k \in 1 .. Len(fs) \/ k = Len(gs)
      /\ \A n \in 1 .. Len(ls) : n \in 1 .. Len(ms) /\ ms[n] = ls[n]
  BY DEF Raised
<1>2. ASSUME NEW n \in 1 .. Len(ls), NEW k \in 1 .. Len(fs)
      PROVE  Stacked(ms, gs, bs, n, k) = Stacked(ls, fs, as, n, k)
  BY <1>1 DEF Stacked, SameMarkers
<1>3. ASSUME NEW n \in 1 .. Len(ls) PROVE \E k \in 1 .. Len(fs) : Stacked(ms, gs, bs, n, k)
  BY <1>2 DEF StackOK
<1>4. ASSUME NEW k \in 1 .. Len(fs), gs[k].mode = "first"
      PROVE  \E n \in 1 .. Len(ls) : Stacked(ms, gs, bs, n, k)
  BY <1>2, <1>4 DEF StackOK
<1>5. CASE f.mode = "first"
  <2>1. /\ Len(ms) \in 1 .. Len(ms) /\ Len(ms) = Len(ls) + 1
        /\ \A n \in 1 .. Len(ms) : n \in 1 .. Len(ls) \/ n = Len(ms)
        /\ \A n \in 1 .. Len(ls) : n < Len(ms)
    BY <1>5 DEF Raised
  <2>2. Stacked(ms, gs, bs, Len(ms), Len(gs))
    BY <1>5 DEF Stacked, Raised
  <2>3. ASSUME NEW n \in 1 .. Len(ls) PROVE ~Stacked(ms, gs, bs, n, Len(gs))
    BY <1>1, <1>5 DEF Stacked, Raised
  <2>4. ASSUME NEW k \in 1 .. Len(fs) PROVE ~Stacked(ms, gs, bs, Len(ms), k)
    <3>1. ASSUME Stacked(ms, gs, bs, Len(ms), k) PROVE FALSE
      <4>1. fs[k].mode = "first" /\ as[fs[k].ans].lr = ms[Len(ms)]
        BY <1>1, <3>1 DEF Stacked, SameMarkers
      <4>2. PICK n \in 1 .. Len(ls) : as[fs[k].ans].lr = ls[n]
        BY <4>1 DEF StackOK, Stacked
      <4> QED
        BY <4>1, <4>2, <1>5 DEF Raised
    <3> QED
      BY <3>1
  <2>5. ASSUME NEW n \in 1 .. Len(ms), NEW m \in 1 .. Len(ms),
               NEW j \in 1 .. Len(gs), NEW k \in 1 .. Len(gs),
               Stacked(ms, gs, bs, n, j), Stacked(ms, gs, bs, m, k)
        PROVE  n < m <=> j < k
    <3>1. (n \in 1 .. Len(ls) /\ j \in 1 .. Len(fs)) \/ (n = Len(ms) /\ j = Len(gs))
      BY <1>1, <2>1, <2>3, <2>4, <2>5
    <3>2. (m \in 1 .. Len(ls) /\ k \in 1 .. Len(fs)) \/ (m = Len(ms) /\ k = Len(gs))
      BY <1>1, <2>1, <2>3, <2>4, <2>5
    <3>3. CASE n \in 1 .. Len(ls) /\ j \in 1 .. Len(fs) /\ m \in 1 .. Len(ls) /\ k \in 1 .. Len(fs)
      BY <3>3, <1>2, <2>5 DEF StackOK
    <3> QED
      BY <3>1, <3>2, <3>3, <1>1, <2>1
  <2> QED
    BY <1>1, <1>3, <1>4, <2>1, <2>2, <2>5 DEF StackOK
<1>6. CASE f.mode # "first"
  <2>1. ms = ls
    BY <1>6
  <2>2. ASSUME NEW n \in 1 .. Len(ls) PROVE ~Stacked(ms, gs, bs, n, Len(gs))
    BY <1>6 DEF Stacked, SameMarkers
  <2>3. ASSUME NEW n \in 1 .. Len(ls), NEW m \in 1 .. Len(ls),
               NEW j \in 1 .. Len(gs), NEW k \in 1 .. Len(gs),
               Stacked(ms, gs, bs, n, j), Stacked(ms, gs, bs, m, k)
        PROVE  n < m <=> j < k
    <3>1. j \in 1 .. Len(fs) /\ k \in 1 .. Len(fs)
      BY <1>1, <2>2, <2>3
    <3> QED
      BY ZenonT(30), <3>1, <1>2, <2>3 DEF StackOK
  <2> QED
    BY <1>1, <1>3, <1>4, <1>6, <2>1, <2>3 DEF StackOK
<1> QED
  BY <1>5, <1>6


-----------------------------------------------------------------------------
(* Heaps: which objects of a sequence are live after a change.              *)

LEMMA LiveIn ==
  ASSUME NEW S, NEW s \in Seq(S)
  PROVE  /\ Live(s) = {x \in 1 .. Len(s) : s[x].live}
         /\ NULL \notin Live(s)
<1>1. DOMAIN s = 1 .. Len(s) /\ Len(s) \in Nat
  BY LenProperties
<1> QED
  BY <1>1 DEF Live, NULL

LEMMA HeapAppend ==
  ASSUME NEW S, NEW s \in Seq(S), NEW u \in Seq(S), NEW m, m = Len(u),
         Len(u) = Len(s) + 1, u[m].live = TRUE, \A j \in 1 .. Len(s) : u[j] = s[j]
  PROVE  Made(s, u, m) /\ m # NULL /\ \A a \in Live(s) : u[a] = s[a]
<1>1. Len(s) \in Nat
  BY LenProperties
<1>2. /\ Live(s) = {a \in 1 .. Len(s) : s[a].live}
      /\ Live(u) = {a \in 1 .. Len(u) : u[a].live}
  BY LiveIn
<1>3. 1 .. Len(u) = (1 .. Len(s)) \cup {m} /\ m \notin 1 .. Len(s) /\ m # NULL
  BY <1>1 DEF NULL
<1>4. Live(u) = Live(s) \cup {m}
  BY <1>1, <1>2, <1>3
<1> QED
  BY <1>2, <1>3, <1>4 DEF Made

LEMMA HeapPut ==
  ASSUME NEW S, NEW s \in Seq(S), NEW c \in 1 .. Len(s),
         NEW u \in Seq(S), Len(u) = Len(s), u[c].live = s[c].live,
         \A j \in 1 .. Len(s) : j # c => u[j] = s[j]
  PROVE  Live(u) = Live(s) /\ \A a \in Live(s) : a # c => u[a] = s[a]
<1>1. Len(s) \in Nat
  BY LenProperties
<1>2. /\ Live(s) = {a \in 1 .. Len(s) : s[a].live}
      /\ Live(u) = {a \in 1 .. Len(s) : u[a].live}
  BY LiveIn
<1>3. \A a \in 1 .. Len(s) : u[a].live = s[a].live
  OBVIOUS
<1> QED
  BY <1>1, <1>2, <1>3

LEMMA ChunkFreed ==
  ASSUME NEW cs \in Seq(ChunkRec), NEW c \in 1 .. Len(cs), NEW ds, ds = FreeChunk(cs, c)
  PROVE  /\ Live(ds) = Live(cs) \ {c}
         /\ \A x \in Live(ds) : ds[x].thunks = cs[x].thunks
<1> DEFINE k == [Dead(cs[c]) EXCEPT !.thunks = <<>>]
<1>1. c # NULL
  BY DEF NULL
<1>2. ds = [cs EXCEPT ![c] = k]
  BY <1>1 DEF FreeChunk
<1>3. cs[c] \in ChunkRec
  BY ElementOfSeq
<1>4. k \in ChunkRec /\ k.live = FALSE
  <2>1. <<>> \in Seq(ThunkRec)
    BY EmptySeq
  <2>2. Dead(cs[c]) \in ChunkRec /\ Dead(cs[c]).live = FALSE
    BY <1>3 DEF ChunkRec, Dead
  <2> QED
    BY <2>1, <2>2 DEF ChunkRec
<1> HIDE DEF k
<1>5. /\ Len(cs) \in Nat /\ ds \in Seq(ChunkRec) /\ Len(ds) = Len(cs)
      /\ \A j \in 1 .. Len(cs) : ds[j] = IF j = c THEN k ELSE cs[j]
  BY <1>2, <1>4, Replaced
<1>6. /\ Live(cs) = {a \in 1 .. Len(cs) : cs[a].live}
      /\ Live(ds) = {a \in 1 .. Len(cs) : ds[a].live}
  BY <1>5, LiveIn
<1>7. Live(ds) = Live(cs) \ {c}
  BY <1>4, <1>5, <1>6
<1> QED
  BY <1>5, <1>6, <1>7

-----------------------------------------------------------------------------
(* Activations.                                                             *)

\* Every activation lies at a position of the table, and has a chunk.
LEMMA CallPlaces ==
  ASSUME NEW fs \in Seq(FrameRec), NEW lo, NEW n, NEW here \in Idx, NEW nc, NEW as,
         CallsOK(fs, lo, n, here, nc, as)
  PROVE  /\ Len(fs) \in Nat
         /\ \A k \in 1 .. Len(fs) : /\ fs[k] \in FrameRec /\ fs[k].p \in Idx
                                    /\ fs[k].p <= here
                                    /\ fs[k].chunk \in 1 .. nc
<1>1. Len(fs) \in Nat /\ \A k \in 1 .. Len(fs) : fs[k] \in FrameRec
  BY LenProperties, ElementOfSeq
<1>2. ASSUME NEW k \in 1 .. Len(fs) PROVE fs[k].p \in Nat /\ fs[k].p <= here
  <2>1. Len(fs) \in 1 .. Len(fs) /\ fs # <<>>
    BY <1>1
  <2>2. fs[Len(fs)].p <= here /\ fs[k].p <= fs[Len(fs)].p
    BY <2>1 DEF CallsOK, BeganBy, Sorted
  <2>3. fs[k].p \in Nat /\ fs[Len(fs)].p \in Nat /\ here \in Nat
    <3>1. here \in Nat
      BY RuntimeAssumption DEF Idx
    <3> QED
      BY <1>1, <2>1, <3>1, FrameFields
  <2> QED
    BY <2>2, <2>3
<1>3. \A p \in Nat : p <= here => p \in Idx
  BY RuntimeAssumption DEF Idx
<1> QED
  BY <1>1, <1>2, <1>3 DEF CallsOK

LEMMA PutSame ==
  ASSUME NEW fs \in Seq(FrameRec), fs # <<>>, NEW f \in FrameRec,
         NEW gs, gs = [fs EXCEPT ![Len(fs)] = f],
         f.chunk = fs[Len(fs)].chunk, f.p = fs[Len(fs)].p, f.mode = fs[Len(fs)].mode,
         f.ans = fs[Len(fs)].ans, f.head = fs[Len(fs)].head
  PROVE  SameCalls(fs, gs)
<1>1. Len(fs) \in 1 .. Len(fs)
  BY NotEmpty
<1>2. Len(gs) = Len(fs) /\ \A j \in 1 .. Len(fs) : gs[j] = IF j = Len(fs) THEN f ELSE fs[j]
  BY <1>1, Replaced
<1> QED
  BY <1>1, <1>2 DEF SameCalls

LEMMA JumpSame ==
  ASSUME IInv, phase = "running", frames # <<>>, NEW v \in Nat, Jump(v)
  PROVE  SameCalls(frames, frames')
<1> DEFINE f == [Top EXCEPT !.pc = v]
<1>1. frames' = [frames EXCEPT ![Len(frames)] = f]
  BY DEF Jump, Top
<1>2. Top \in FrameRec /\ Top = frames[Len(frames)] /\ frames \in Seq(FrameRec)
  BY Running DEF IInv, TypeOK
<1>3. /\ f \in FrameRec /\ f.chunk = Top.chunk /\ f.p = Top.p /\ f.mode = Top.mode
      /\ f.ans = Top.ans /\ f.head = Top.head
  BY <1>2 DEF FrameRec
<1> HIDE DEF f
<1> QED
  BY <1>1, <1>2, <1>3, PutSame

LEMMA SameItself ==
  \A fs, as : SameCalls(fs, fs) /\ SameMarkers(fs, as, as)
BY DEF SameCalls, SameMarkers

-----------------------------------------------------------------------------
(* Statements.                                                              *)

\* A step that makes and destroys nothing: it may add thunks to the chunks that are
\* being built.
LEMMA QuietStep ==
  ASSUME OInv, Live(chunks') = Live(chunks), SameCalls(frames, frames'),
         SameThunks(chunks, chunks', table, answers, frames),
         Live(heads') = Live(heads),
         UNCHANGED <<table, lrstack, answers, entries>>
  PROVE  /\ World(table, answers, entries, chunks, heads, frames, NULL)'
         /\ phase # "crash" \/ phase' = "crash" => StackSound'
<1>1. World(table, answers, entries, chunks', heads', frames', NULL)
  BY WorldThunks DEF OInv
<1>2. World(table, answers, entries, chunks, heads, frames, NULL)'
  BY <1>1
<1>3. ASSUME phase # "crash" PROVE StackOK(lrstack', frames', answers')
  <2>1. StackOK(lrstack, frames, answers)
    BY <1>3 DEF OInv, StackSound
  <2>2. StackOK(lrstack, frames', answers)
    BY <2>1, SameItself, StackSame
  <2> QED
    BY <2>2
<1>4. \A n \in 1 .. Len(lrstack') : lrstack'[n] \in Live(entries')
  BY DEF OInv, StackSound
<1> QED
  BY <1>2, <1>3, <1>4 DEF StackSound

\* A step of an evaluation function that makes and destroys nothing.
LEMMA QuietOInv ==
  ASSUME OInv, phase = "running", Live(chunks') = Live(chunks),
         SameThunks(chunks, chunks', table, answers, frames), SameCalls(frames, frames'),
         UNCHANGED <<phase, table, lrstack, answers, entries, heads, thunks>>
  PROVE  OInv'
<1>1. World(table, answers, entries, chunks, heads, frames, NULL)' /\ StackSound'
  BY QuietStep
<1>2. Outer'
  <2>1. thunks' = <<>> /\ phase' = "running"
    BY DEF OInv, Outer
  <2> QED
    BY <2>1 DEF Outer
<1> QED
  BY <1>1, <1>2 DEF OInv

LEMMA SameChunks ==
  \A cs, t, as, fs : SameThunks(cs, cs, t, as, fs)
BY DEF SameThunks

\* The running function changes its chunk.
LEMMA OwnChunkPut ==
  ASSUME NEW cs \in Seq(ChunkRec), NEW d \in 1 .. Len(cs), NEW t, NEW as, NEW fs,
         NEW ds \in Seq(ChunkRec), Len(ds) = Len(cs),
         ds[d].live = cs[d].live,
         \A j \in 1 .. Len(cs) : j # d => ds[j] = cs[j],
         \A i \in 1 .. Len(ds[d].thunks) :
           \/ ds[d].thunks[i].chunk = d
           \/ \E m \in 1 .. Len(cs[d].thunks) :
                ds[d].thunks[i].chunk = cs[d].thunks[m].chunk
           \/ \E n \in 1 .. Len(fs) :
                fs[n].chunk = d /\ ChunkFrom(ds[d].thunks[i].chunk, fs[n].p, t, as)
  PROVE  Live(ds) = Live(cs) /\ SameThunks(cs, ds, t, as, fs)
<1>1. /\ Live(ds) = Live(cs)
      /\ \A a \in Live(cs) : a # d => ds[a] = cs[a]
  BY HeapPut
<1>2. ASSUME NEW c \in Live(cs), NEW i \in 1 .. Len(ds[c].thunks)
      PROVE  \/ ds[c].thunks[i].chunk = c
             \/ \E m \in 1 .. Len(cs[c].thunks) :
                  ds[c].thunks[i].chunk = cs[c].thunks[m].chunk
             \/ \E n \in 1 .. Len(fs) :
                  fs[n].chunk = c /\ ChunkFrom(ds[c].thunks[i].chunk, fs[n].p, t, as)
  <2>1. CASE c = d
    BY <2>1
  <2>2. CASE c # d
    BY <2>2, <1>1
  <2> QED
    BY <2>1, <2>2
<1> QED
  BY <1>1, <1>2 DEF SameThunks

LEMMA SetChunkOwned ==
  ASSUME IInv, OInv, NEW op, NEW k \in ChunkRec, SetChunkOf(op, k),
         k.live = chunks[Top.chunk].live,
         \A i \in 1 .. Len(k.thunks) :
           \/ k.thunks[i].chunk = Top.chunk
           \/ \E m \in 1 .. Len(chunks[Top.chunk].thunks) :
                k.thunks[i].chunk = chunks[Top.chunk].thunks[m].chunk
  PROVE  OInv'
<1>1. /\ At(op) /\ Jump(Top.pc + 1) /\ chunks' = [chunks EXCEPT ![Top.chunk] = k]
      /\ UNCHANGED <<phase, table, lrstack, answers, entries, heads, thunks>>
  BY DEF SetChunkOf, Fall, lrVars, actVars
<1>2. phase = "running" /\ frames # <<>> /\ Top.pc + 1 \in Nat
  BY <1>1, Reading
<1>3. SameCalls(frames, frames')
  BY <1>1, <1>2, JumpSame
<1>4. /\ Live(chunks') = Live(chunks)
      /\ SameThunks(chunks, chunks', table, answers, frames)
  <2>1. Top.chunk \in 1 .. Len(chunks) /\ chunks \in Seq(ChunkRec)
    BY <1>1, OwnChunk DEF IInv, TypeOK
  <2>2. PICK d \in 1 .. Len(chunks) : d = Top.chunk
    BY <2>1
  <2>3. chunks' = [chunks EXCEPT ![d] = k]
    BY <1>1, <2>2
  <2>4. /\ chunks' \in Seq(ChunkRec) /\ Len(chunks') = Len(chunks)
        /\ \A j \in 1 .. Len(chunks) : chunks'[j] = IF j = d THEN k ELSE chunks[j]
    BY <2>1, <2>3, Replaced
  <2>5. /\ chunks'[d] = k /\ chunks'[d].live = chunks[d].live
        /\ \A j \in 1 .. Len(chunks) : j # d => chunks'[j] = chunks[j]
    BY <2>2, <2>4
  <2>6. \A i \in 1 .. Len(chunks'[d].thunks) :
          \/ chunks'[d].thunks[i].chunk = d
          \/ \E m \in 1 .. Len(chunks[d].thunks) :
               chunks'[d].thunks[i].chunk = chunks[d].thunks[m].chunk
    BY <2>2, <2>5
  <2> QED
    BY <2>1, <2>4, <2>5, <2>6, OwnChunkPut
<1> QED
  BY <1>1, <1>2, <1>3, <1>4, QuietOInv

\* A statement that moves to statement v and leaves all objects alone.
LEMMA JumpOwned ==
  ASSUME IInv, OInv, NEW op, At(op), NEW v \in Nat, Jump(v),
         UNCHANGED <<phase, table, lrstack, answers, entries, heads, thunks, chunks>>
  PROVE  OInv'
<1>1. phase = "running" /\ frames # <<>>
  BY Reading
<1>2. SameCalls(frames, frames')
  BY <1>1, JumpSame
<1> QED
  BY <1>1, <1>2, SameChunks, QuietOInv

LEMMA SetTopOwned ==
  ASSUME IInv, OInv, NEW op, At(op), NEW f \in FrameRec, SetTop(f),
         f.p = Top.p, f.mode = Top.mode, f.ans = Top.ans, f.chunk = Top.chunk,
         f.head = Top.head
  PROVE  OInv'
<1>1. phase = "running" /\ frames # <<>>
  BY Reading
<1>2. /\ frames' = [frames EXCEPT ![Len(frames)] = f]
      /\ UNCHANGED <<phase, table, lrstack, answers, entries, heads, thunks, chunks>>
  BY DEF SetTop, heapVars, actVars
<1>3. frames \in Seq(FrameRec) /\ Top = frames[Len(frames)]
  BY DEF IInv, TypeOK, Top
<1>4. SameCalls(frames, frames')
  BY <1>1, <1>2, <1>3, PutSame
<1> QED
  BY <1>1, <1>2, <1>4, SameChunks, QuietOInv

LEMMA ControlOwned ==
  ASSUME IInv, OInv,
         MatchPosition \/ GotoStmt \/ BreakIfEmpty \/ BranchOnCount \/ Predicate
  PROVE  OInv'
<1>1. ASSUME NEW op, NEW v \in Nat, Control(op, v) PROVE OInv'
  <2>1. /\ At(op) /\ Jump(v)
        /\ UNCHANGED <<phase, table, lrstack, answers, entries, heads, thunks, chunks>>
    BY <1>1 DEF Control, heapVars, actVars
  <2> QED
    BY <2>1, JumpOwned
<1>2. ASSUME NEW op, At(op) PROVE Stmt.to \in Nat /\ Top.pc + 1 \in Nat
  BY <1>2, Targets
<1>3. CASE MatchPosition
  <2> DEFINE v == IF pos + cur = Stmt.num THEN Top.pc + 1 ELSE Stmt.to
  <2>1. Control("pos", v) /\ v \in Nat
    BY <1>2, <1>3 DEF MatchPosition, Control
  <2> QED
    BY <1>1, <2>1
<1>4. CASE GotoStmt
  <2>1. Control("goto", Stmt.to) /\ Stmt.to \in Nat
    BY <1>2, <1>4 DEF GotoStmt, Control
  <2> QED
    BY <1>1, <2>1
<1>5. CASE BreakIfEmpty
  <2> DEFINE v == IF cur = Top.ploc[Stmt.slot] THEN Stmt.to ELSE Top.pc + 1
  <2>1. Control("ifatp", v) /\ v \in Nat
    BY <1>2, <1>5 DEF BreakIfEmpty, Control
  <2> QED
    BY <1>1, <2>1
<1>6. CASE BranchOnCount
  <2> DEFINE v == IF Top.iloc[Stmt.slot] >= Stmt.num THEN Stmt.to ELSE Top.pc + 1
  <2>1. Control("ifge", v) /\ v \in Nat
    BY <1>2, <1>6 DEF BranchOnCount, Control
  <2> QED
    BY <1>1, <2>1
<1>7. CASE Predicate
  <2>1. PICK op \in {"pred", "npred"} : Control(op, Top.pc + 1) \/ Control(op, Stmt.to)
    BY <1>7 DEF Predicate
  <2>2. Top.pc + 1 \in Nat /\ Stmt.to \in Nat
    BY <1>2, <2>1 DEF Control
  <2> QED
    BY <1>1, <2>1, <2>2
<1> QED
  BY <1>3, <1>4, <1>5, <1>6, <1>7

\* Positions and counts are saved in the locals of a block.
LEMMA SavesOwned ==
  ASSUME IInv, OInv, SavePosition \/ SaveThunkCount \/ CountZero \/ CountNext
  PROVE  OInv'
<1>1. PICK op : At(op)
  BY DEF SavePosition, SaveThunkCount, CountZero, CountNext
<1>2. phase = "running" /\ frames # <<>> /\ Top.pc + 1 \in Nat /\ Stmt.slot \in Slot
  BY <1>1, Reading, Targets
<1>3. Top \in FrameRec /\ chunks[Top.chunk] \in ChunkRec /\ Top.iloc[Stmt.slot] \in Nat
  BY <1>2, Running
<1>4. CASE SavePosition
  <2> DEFINE f == [Top EXCEPT !.ploc[Stmt.slot] = cur, !.pc = @ + 1]
  <2>1. SetTop(f)
    BY <1>4 DEF SavePosition
  <2>2. cur \in Nat
    BY Numbers
  <2>3. f \in FrameRec
    BY <1>2, <1>3, <2>2 DEF FrameRec
  <2>4. /\ f.p = Top.p /\ f.mode = Top.mode /\ f.ans = Top.ans /\ f.chunk = Top.chunk
        /\ f.head = Top.head
    BY <1>3 DEF FrameRec
  <2> HIDE DEF f
  <2> QED
    BY <1>1, <2>1, <2>3, <2>4, SetTopOwned
<1>5. CASE SaveThunkCount
  <2> DEFINE n == Len(chunks[Top.chunk].thunks)
             f == [Top EXCEPT !.nloc[Stmt.slot] = n, !.pc = @ + 1]
  <2>1. SetTop(f)
    BY <1>5 DEF SaveThunkCount
  <2>2. n \in Nat
    BY <1>3, ChunkFields, LenProperties
  <2> HIDE DEF n
  <2>3. f \in FrameRec
    BY <1>2, <1>3, <2>2 DEF FrameRec
  <2>4. /\ f.p = Top.p /\ f.mode = Top.mode /\ f.ans = Top.ans /\ f.chunk = Top.chunk
        /\ f.head = Top.head
    BY <1>3 DEF FrameRec
  <2> HIDE DEF f
  <2> QED
    BY <1>1, <2>1, <2>3, <2>4, SetTopOwned
<1>6. CASE CountZero \/ CountNext
  <2>1. PICK n \in Nat : SetTop([Top EXCEPT !.iloc[Stmt.slot] = n, !.pc = @ + 1])
    <3>1. CASE CountZero
      BY <3>1 DEF CountZero
    <3>2. CASE CountNext
      <4>1. SetTop([Top EXCEPT !.iloc[Stmt.slot] = @ + 1, !.pc = @ + 1])
        BY <3>2 DEF CountNext
      <4>2. Top.iloc[Stmt.slot] + 1 \in Nat
        BY <1>3
      <4> QED
        BY <4>1, <4>2
    <3> QED
      BY <1>6, <3>1, <3>2
  <2> DEFINE f == [Top EXCEPT !.iloc[Stmt.slot] = n, !.pc = @ + 1]
  <2>2. SetTop(f)
    BY <2>1
  <2>3. f \in FrameRec
    BY <1>2, <1>3 DEF FrameRec
  <2>4. /\ f.p = Top.p /\ f.mode = Top.mode /\ f.ans = Top.ans /\ f.chunk = Top.chunk
        /\ f.head = Top.head
    BY <1>3 DEF FrameRec
  <2> HIDE DEF f
  <2> QED
    BY <1>1, <2>2, <2>3, <2>4, SetTopOwned
<1> QED
  BY <1>4, <1>5, <1>6

\* ctx->cur = p, an error action, and the comparison of a string.
LEMMA MovesOwned ==
  ASSUME IInv, OInv, RestorePosition \/ ErrorAction \/ MatchChars \/ MatchCapture \/ MatchMarker
  PROVE  OInv'
<1>1. ASSUME NEW op, At(op), NEW cs, Compare(cs) PROVE OInv'
  <2> DEFINE v == IF Matches(cs) THEN Top.pc + 1 ELSE Stmt.to
  <2>1. /\ Jump(v)
        /\ UNCHANGED <<phase, table, lrstack, answers, entries, heads, thunks, chunks>>
    BY <1>1 DEF Compare, heapVars, actVars
  <2>2. v \in Nat
    BY <1>1, Targets
  <2> HIDE DEF v
  <2> QED
    BY <1>1, <2>1, <2>2, JumpOwned
<1>2. CASE RestorePosition
  <2>1. /\ At("setp") /\ Jump(Top.pc + 1)
        /\ UNCHANGED <<phase, table, lrstack, answers, entries, heads, thunks, chunks>>
    BY <1>2 DEF RestorePosition, Fall, heapVars, actVars
  <2>2. Top.pc + 1 \in Nat
    BY <2>1, Targets
  <2> QED
    BY <2>1, <2>2, JumpOwned
<1>3. CASE ErrorAction
  <2>1. /\ At("err") /\ Jump(Top.pc + 1)
        /\ UNCHANGED <<phase, table, lrstack, answers, entries, heads, thunks, chunks>>
    BY <1>3 DEF ErrorAction, Fall, heapVars, actVars
  <2>2. Top.pc + 1 \in Nat
    BY <2>1, Targets
  <2> QED
    BY <2>1, <2>2, JumpOwned
<1>4. CASE MatchChars
  BY <1>1, <1>4 DEF MatchChars
<1>5. CASE MatchCapture
  BY <1>1, <1>5 DEF MatchCapture
<1>6. CASE MatchMarker
  BY <1>1, <1>6 DEF MatchMarker, CompareMarker
<1> QED
  BY <1>2, <1>3, <1>4, <1>5, <1>6

\* The beginning of a sequence of thunks.
LEMMA Cut ==
  ASSUME NEW S, NEW s \in Seq(S), NEW n \in Nat, NEW u, u = CutTo(s, n)
  PROVE  /\ u \in Seq(S)
         /\ \A i \in 1 .. Len(u) : i \in 1 .. Len(s) /\ u[i] = s[i]
<1>1. Len(s) \in Nat /\ \A i \in 1 .. Len(s) : s[i] \in S
  BY LenProperties, ElementOfSeq
<1>2. CASE Len(s) > n
  <2>1. u = SubSeq(s, 1, n)
    BY <1>2 DEF CutTo
  <2>2. \A i \in 1 .. n : i \in 1 .. Len(s) /\ s[i] \in S
    BY <1>1, <1>2
  <2>3. /\ u \in Seq(S) /\ Len(u) = IF 1 <= n THEN n - 1 + 1 ELSE 0
        /\ \A i \in 1 .. n - 1 + 1 : u[i] = s[1 + i - 1]
    <3>1. 1 \in Int /\ n \in Int
      OBVIOUS
    <3> QED
      BY <2>1, <2>2, <3>1, SubSeqProperties
  <2>4. Len(u) = n /\ \A i \in 1 .. n : i \in 1 .. n - 1 + 1 /\ 1 + i - 1 = i
    BY <2>3
  <2> QED
    BY <2>2, <2>3, <2>4
<1>3. CASE ~(Len(s) > n)
  BY <1>1, <1>3 DEF CutTo
<1> QED
  BY <1>2, <1>3

\* The statements that change the chunk that is being built.
LEMMA ChunkStatementsOwned ==
  ASSUME IInv, OInv, RevertThunks \/ RecordCapture \/ ThunkAction
  PROVE  OInv'
<1> DEFINE k == chunks[Top.chunk]
<1>1. PICK op : At(op)
  BY DEF RevertThunks, RecordCapture, ThunkAction, SetChunkOf
<1>2. /\ k \in ChunkRec /\ k.thunks \in Seq(ThunkRec) /\ k.pos \in Nat
      /\ k.capts \in [CaptIndex -> Span]
      /\ Top.chunk \in 1 .. Len(chunks) /\ Top.chunk \in Nat
  BY <1>1, OwnChunk
<1>3. ASSUME NEW o, NEW l \in ChunkRec, SetChunkOf(o, l), l.live = k.live,
             \A i \in 1 .. Len(l.thunks) :
               \/ l.thunks[i].chunk = Top.chunk
               \/ \E m \in 1 .. Len(k.thunks) : l.thunks[i].chunk = k.thunks[m].chunk
      PROVE  OInv'
  BY <1>3, SetChunkOwned
<1>4. CASE RevertThunks
  <2> DEFINE n == Top.nloc[Stmt.slot]
             ths == CutTo(k.thunks, n)
             l == [k EXCEPT !.thunks = ths]
  <2>1. SetChunkOf("revert", l)
    BY <1>4 DEF RevertThunks
  <2>2. At("revert")
    BY <2>1 DEF SetChunkOf
  <2>3. n \in Nat
    BY <2>2, Reading, Targets, Running
  <2> HIDE DEF k, n
  <2>4. /\ ths \in Seq(ThunkRec)
        /\ \A i \in 1 .. Len(ths) : i \in 1 .. Len(k.thunks) /\ ths[i] = k.thunks[i]
    BY <1>2, <2>3, Cut
  <2> HIDE DEF ths
  <2>5. l \in ChunkRec /\ l.thunks = ths /\ l.live = k.live
    BY <1>2, <2>4 DEF ChunkRec
  <2> HIDE DEF l
  <2> QED
    BY <1>3, <2>1, <2>4, <2>5
<1>5. CASE RecordCapture
  <2> DEFINE x == [s |-> Top.ploc[Stmt.slot], e |-> cur]
             l == [k EXCEPT !.capts[Stmt.num] = x]
  <2>1. SetChunkOf("capt", l)
    BY <1>5 DEF RecordCapture
  <2>2. At("capt")
    BY <2>1 DEF SetChunkOf
  <2>3. x \in Span /\ Stmt.num \in CaptIndex
    <3>1. Stmt.slot \in Slot
      BY <2>2, Targets
    <3>2. Top.ploc[Stmt.slot] \in Nat /\ cur \in Nat
      BY <2>2, <3>1, Reading, Running
    <3>3. Stmt.num \in CaptIndex
      BY <2>2, Reading
    <3> QED
      BY <3>2, <3>3 DEF Span
  <2> HIDE DEF k, x
  <2>4. l \in ChunkRec /\ l.thunks = k.thunks /\ l.live = k.live
    BY <1>2, <2>3 DEF ChunkRec
  <2> HIDE DEF l
  <2> QED
    BY <1>3, <2>1, <2>4
<1>6. CASE ThunkAction
  <2> DEFINE t == LeafThunk(Top.chunk, Stmt.num, k.pos, cur)
             ths == Append(k.thunks, t)
             l == [k EXCEPT !.thunks = Append(@, t)]
  <2>1. SetChunkOf("act", l)
    BY <1>6 DEF ThunkAction
  <2>2. At("act")
    BY <2>1 DEF SetChunkOf
  <2>3. Stmt.num \in Nat /\ cur \in Nat
    BY <2>2, Targets, Numbers
  <2>4. t \in ThunkRec /\ t.chunk = Top.chunk
    BY ZenonT(30), <1>2, <2>3, ThunkFields
  <2> HIDE DEF k, t
  <2>5. /\ Len(k.thunks) \in Nat /\ ths \in Seq(ThunkRec) /\ Len(ths) = Len(k.thunks) + 1
        /\ ths[Len(k.thunks) + 1] = t /\ \A j \in 1 .. Len(k.thunks) : ths[j] = k.thunks[j]
    BY <1>2, <2>4, Appended
  <2>6. l \in ChunkRec /\ l.thunks = ths /\ l.live = k.live
    BY <1>2, <2>5 DEF ChunkRec
  <2> HIDE DEF l, ths
  <2>7. \A i \in 1 .. Len(ths) :
           \/ ths[i].chunk = Top.chunk
           \/ \E m \in 1 .. Len(k.thunks) : ths[i].chunk = k.thunks[m].chunk
    <3>1. 1 .. Len(ths) = (1 .. Len(k.thunks)) \cup {Len(k.thunks) + 1}
      BY <2>5
    <3> QED
      BY <2>4, <2>5, <3>1
  <2> QED
    BY <1>3, <2>1, <2>6, <2>7
<1> QED
  BY <1>4, <1>5, <1>6

\* No statement of an evaluation function breaks the invariant.
LEMMA StatementOwned ==
  ASSUME IInv, OInv, Statement PROVE OInv'
BY ControlOwned, SavesOwned, MovesOwned, ChunkStatementsOwned DEF Statement

-----------------------------------------------------------------------------
(* The end of pcc_apply_rule, and the beginning of an evaluation.           *)

\* A chunk that is owned at position i or behind it is handed to the caller.
LEMMA DeliverOwned ==
  ASSUME NEW fs \in Seq(FrameRec), NEW cs \in Seq(ChunkRec), NEW c \in Nat,
         Deliver(fs, cs, c), thunks = <<>>, Resumable(fs),
         NEW i \in Idx,
         \A k \in 1 .. Len(fs) : /\ fs[k].p \in Idx /\ fs[k].p <= i
                                 /\ fs[k].chunk \in 1 .. Len(cs),
         World(table', answers', entries', cs, heads', fs, NULL),
         c # NULL => ChunkFrom(c, i, table', answers'),
         StackOK(lrstack', fs, answers'),
         \A n \in 1 .. Len(lrstack') : lrstack'[n] \in Live(entries')
  PROVE  OInv'
<1>1. NodeThunk(c) \in ThunkRec /\ NodeThunk(c).chunk = c
  BY DEF NodeThunk, ThunkRec
<1>2. i \in Int /\ MaxPos \in Nat /\ 0 \in Int /\ 0 <= i
  BY RuntimeAssumption DEF Idx
<1>3. CASE fs = <<>>
  <2>1. /\ frames' = fs /\ chunks' = cs
        /\ thunks' = IF c = NULL THEN <<>> ELSE Append(<<>>, NodeThunk(c))
        /\ phase' \in {"error", "acting"} /\ (c # NULL => phase' = "acting")
    BY <1>3 DEF Deliver
  <2>2. World(table, answers, entries, chunks, heads, frames, NULL)'
    BY <2>1
  <2>3. StackSound'
    BY <2>1 DEF StackSound
  <2>4. CASE c = NULL
    <3>1. thunks' = <<>> /\ Len(thunks') = 0 /\ phase' # "destroyed" /\ phase' # "involve"
      BY <2>1, <2>4
    <3>2. Outer'
      BY <3>1 DEF Outer
    <3> QED
      BY <2>2, <2>3, <3>2 DEF OInv
  <2>5. CASE c # NULL
    <3>1. <<>> \in Seq(ThunkRec) /\ Len(<<>>) = 0
      BY EmptySeq
    <3>2. thunks' = Append(<<>>, NodeThunk(c)) /\ phase' = "acting"
      BY <2>1, <2>5
    <3>3. Len(thunks') = 1 /\ thunks'[1] = NodeThunk(c)
      BY <1>1, <3>1, <3>2
    <3>4. ChunkFrom(c, 0, table', answers')
      BY <1>2, <2>5, FromBehind
    <3>5. \A k \in 1 .. Len(thunks') : ChunkFrom(thunks'[k].chunk, 0, table', answers')
      <4>1. \A k \in 1 .. Len(thunks') : k = 1
        BY <3>3
      <4> QED
        BY <1>1, <3>3, <3>4, <4>1
    <3>6. Outer'
      BY <3>2, <3>5 DEF Outer
    <3> QED
      BY <2>2, <2>3, <3>6 DEF OInv
  <2> QED
    BY <2>4, <2>5
<1>4. CASE fs # <<>>
  <2> DEFINE m == Len(fs)
             f == fs[m]
             v == IF c = NULL THEN Code[f.rule][f.pc].to ELSE f.pc + 1
             g == [f EXCEPT !.pc = v]
             k == cs[f.chunk]
             ths == Append(k.thunks, NodeThunk(c))
             l == [k EXCEPT !.thunks = Append(@, NodeThunk(c))]
  <2>1. /\ frames' = [fs EXCEPT ![m] = g]
        /\ chunks' = IF c = NULL THEN cs ELSE [cs EXCEPT ![f.chunk] = l]
        /\ phase' = "running" /\ thunks' = <<>>
    BY <1>4 DEF Deliver
  <2>2. m \in 1 .. m /\ f \in FrameRec /\ f.p \in Idx /\ f.p <= i
        /\ f.chunk \in 1 .. Len(cs) /\ f.pc \in DOMAIN Code[f.rule]
    BY <1>4, NotEmpty DEF Resumable
  <2> HIDE DEF m, f
  <2>3. v \in Nat
    <3>1. f.rule \in Rule /\ f.pc \in Nat
      BY <2>2, FrameFields
    <3>2. Code[f.rule] \in Seq(Instr)
      BY <3>1, RuntimeAssumption
    <3>3. f.pc \in 1 .. Len(Code[f.rule])
      BY <2>2, <3>2, LenProperties
    <3>4. Code[f.rule][f.pc] \in Instr
      BY <3>2, <3>3, ElementOfSeq
    <3> QED
      BY <3>1, <3>4 DEF Instr
  <2> HIDE DEF v
  <2>4. /\ g \in FrameRec /\ g.p = f.p /\ g.mode = f.mode /\ g.ans = f.ans
        /\ g.chunk = f.chunk /\ g.head = f.head
    BY <2>2, <2>3 DEF FrameRec
  <2> HIDE DEF g
  <2>5. SameCalls(fs, frames')
    <3>1. /\ g.chunk = fs[Len(fs)].chunk /\ g.p = fs[Len(fs)].p /\ g.mode = fs[Len(fs)].mode
          /\ g.ans = fs[Len(fs)].ans /\ g.head = fs[Len(fs)].head
          /\ frames' = [fs EXCEPT ![Len(fs)] = g]
      BY <2>1, <2>4 DEF f, m
    <3> QED
      BY <1>4, <2>4, <3>1, PutSame
  <2>6. /\ Live(chunks') = Live(cs)
        /\ SameThunks(cs, chunks', table', answers', fs)
    <3>1. CASE c = NULL
      BY <2>1, <3>1, SameChunks
    <3>2. CASE c # NULL
      <4>1. PICK d \in 1 .. Len(cs) : d = f.chunk
        BY <2>2
      <4>2. k \in ChunkRec /\ k.thunks \in Seq(ThunkRec) /\ k = cs[d]
        BY <4>1, ElementOfSeq, ChunkFields
      <4> HIDE DEF k
      <4>3. /\ Len(k.thunks) \in Nat /\ ths \in Seq(ThunkRec) /\ Len(ths) = Len(k.thunks) + 1
            /\ ths[Len(k.thunks) + 1] = NodeThunk(c)
            /\ \A j \in 1 .. Len(k.thunks) : ths[j] = k.thunks[j]
        BY <1>1, <4>2, Appended
      <4>4. l \in ChunkRec /\ l.thunks = ths /\ l.live = k.live
        BY <4>2, <4>3 DEF ChunkRec
      <4> HIDE DEF l, ths
      <4>5. chunks' = [cs EXCEPT ![d] = l]
        BY <2>1, <3>2, <4>1
      <4>6. /\ chunks' \in Seq(ChunkRec) /\ Len(chunks') = Len(cs)
            /\ \A j \in 1 .. Len(cs) : chunks'[j] = IF j = d THEN l ELSE cs[j]
        BY <4>4, <4>5, Replaced
      <4>7. /\ chunks'[d].live = cs[d].live /\ chunks'[d].thunks = ths
            /\ \A j \in 1 .. Len(cs) : j # d => chunks'[j] = cs[j]
        BY <4>2, <4>4, <4>6
      <4>8. ChunkFrom(c, f.p, table', answers')
        <5>1. f.p \in Int
          BY <2>2 DEF Idx
        <5> QED
          BY <1>2, <2>2, <3>2, <5>1, FromBehind
      <4>9. ASSUME NEW j \in 1 .. Len(chunks'[d].thunks)
            PROVE  \/ chunks'[d].thunks[j].chunk = d
                   \/ \E n \in 1 .. Len(cs[d].thunks) :
                        chunks'[d].thunks[j].chunk = cs[d].thunks[n].chunk
                   \/ \E n \in 1 .. Len(fs) :
                        fs[n].chunk = d /\ ChunkFrom(chunks'[d].thunks[j].chunk, fs[n].p,
                                                     table', answers')
        <5>1. j \in 1 .. Len(k.thunks) \/ j = Len(k.thunks) + 1
          BY <4>3, <4>7
        <5>2. CASE j \in 1 .. Len(k.thunks)
          BY <4>2, <4>3, <4>7, <5>2
        <5>3. CASE j = Len(k.thunks) + 1
          <6>1. chunks'[d].thunks[j].chunk = c
            BY <1>1, <4>3, <4>7, <5>3
          <6>2. m \in 1 .. Len(fs) /\ fs[m].chunk = d /\ fs[m].p = f.p
            BY <2>2, <4>1 DEF f, m
          <6> QED
            BY <4>8, <6>1, <6>2
        <5> QED
          BY <5>1, <5>2, <5>3
      <4> QED
        BY <4>6, <4>7, <4>9, OwnChunkPut
    <3> QED
      BY <3>1, <3>2
  <2>7. World(table, answers, entries, chunks, heads, frames, NULL)'
    <3>1. World(table', answers', entries', chunks', heads', frames', NULL)
      BY <2>5, <2>6, WorldThunks
    <3> QED
      BY <3>1
  <2>8. StackSound'
    <3>1. StackOK(lrstack', frames', answers')
      BY <2>5, SameItself, StackSame
    <3> QED
      BY <3>1 DEF StackSound
  <2>9. Outer'
    <3>1. Len(thunks') = 0 /\ phase' = "running"
      BY <2>1, EmptySeq
    <3> QED
      BY <2>1, <3>1 DEF Outer
  <2> QED
    BY <2>7, <2>8, <2>9 DEF OInv
<1> QED
  BY <1>3, <1>4

\* The frame of an evaluation.
LEMMA FrameMade ==
  ASSUME NEW r, NEW p, NEW mode, NEW a, NEW h, NEW c, NEW at,
         NEW f, f = NewFrame(r, p, mode, a, h, c, at)
  PROVE  f.p = p /\ f.mode = mode /\ f.ans = a /\ f.head = h /\ f.chunk = c
BY DEF NewFrame

\* An evaluation begins, with a new chunk.
LEMMA EvaluateOwned ==
  ASSUME NEW fs \in Seq(FrameRec), NEW cs \in Seq(ChunkRec), NEW r \in Rule, NEW p \in Nat,
         NEW mode \in {"eval", "first", "grow"}, NEW a \in Nat, NEW h \in Nat, NEW at \in Nat,
         Evaluate(fs, cs, r, p, mode, a, h, at), thunks' = <<>>,
         World(table', answers', entries', cs, heads', fs, NULL),
         mode # "eval" => a \in Kept(table', p),
         h # NULL => HeadFrom(h, 0, table'),
         NEW ls, NEW as, StackOK(ls, fs, as), Len(ls) \in Nat,
         SameMarkers(fs, as, answers'),
         mode = "first" => Raised(ls, lrstack', answers'[a].lr),
         mode # "first" => lrstack' = ls,
         \A n \in 1 .. Len(lrstack') : lrstack'[n] \in Live(entries')
  PROVE  OInv'
<1> DEFINE c == Len(cs) + 1
           f == NewFrame(r, p, mode, a, h, c, at)
           k == NewChunk(r, at)
<1>1. Len(thunks') = 0
  BY EmptySeq
<1>2. Len(fs) \in Nat /\ Len(cs) \in Nat /\ c \in Nat
  BY LenProperties
<1>3. CASE Len(fs) >= MaxDepth
  <2>1. phase' = "crash" /\ frames' = fs /\ chunks' = cs
    BY <1>3 DEF Evaluate
  <2>2. World(table, answers, entries, chunks, heads, frames, NULL)'
    BY <2>1
  <2>3. StackSound' /\ Outer'
    BY <1>1, <2>1 DEF StackSound, Outer
  <2> QED
    BY <2>2, <2>3 DEF OInv
<1>4. CASE ~(Len(fs) >= MaxDepth)
  <2>1. phase' = "running" /\ chunks' = Append(cs, k) /\ frames' = Append(fs, f)
    BY <1>4 DEF Evaluate
  <2>2. k \in ChunkRec /\ k.thunks = <<>> /\ k.live = TRUE
    <3>1. k.live = TRUE
      BY DEF NewChunk
    <3> QED
      BY <3>1, NewChunkFields
  <2>3. f \in FrameRec
    BY <1>2, NewFrameType
  <2>4. f.p = p /\ f.mode = mode /\ f.ans = a /\ f.head = h /\ f.chunk = c
    BY FrameMade
  <2> HIDE DEF k, f
  <2>5. /\ Made(cs, chunks', c) /\ chunks'[c] = k /\ c # NULL
        /\ \A x \in Live(cs) : chunks'[x] = cs[x]
    <3>1. /\ chunks' \in Seq(ChunkRec) /\ Len(chunks') = Len(cs) + 1 /\ c = Len(chunks')
          /\ chunks'[c] = k /\ \A j \in 1 .. Len(cs) : chunks'[j] = cs[j]
      BY <2>1, <2>2, Appended
    <3> HIDE DEF c
    <3> QED
      BY <2>2, <3>1, HeapAppend
  <2>6. /\ Len(frames') = Len(fs) + 1 /\ frames'[Len(fs) + 1] = f
        /\ \A j \in 1 .. Len(fs) : frames'[j] = fs[j]
    BY <2>1, <2>3, Appended
  <2> HIDE DEF c
  <2>7. World(table', answers', entries', chunks', heads', frames', NULL)
    <3>1. /\ chunks'[c].thunks = <<>>
          /\ f.mode # "eval" => f.ans \in Kept(table', f.p)
          /\ f.head # NULL => HeadFrom(f.head, 0, table')
      BY <2>2, <2>4, <2>5
    <3> QED
      BY <1>2, <2>4, <2>5, <2>6, <3>1, WorldPush
  <2>8. StackOK(lrstack', frames', answers')
    <3>1. f = frames'[Len(frames')]
      BY <2>6
    <3>2. f.mode = "first" => Raised(ls, lrstack', answers'[f.ans].lr)
      BY <2>4
    <3>3. f.mode # "first" => lrstack' = ls
      BY <2>4
    <3> QED
      BY <1>2, <2>6, <3>1, <3>2, <3>3, StackPush
  <2>9. StackSound' /\ Outer'
    BY <1>1, <2>1, <2>8 DEF StackSound, Outer
  <2>10. World(table, answers, entries, chunks, heads, frames, NULL)'
    BY <2>7
  <2> QED
    BY <2>9, <2>10 DEF OInv
<1> QED
  BY <1>3, <1>4

-----------------------------------------------------------------------------
(* Steps of pcc_parse that make and destroy nothing.                        *)

LEMMA OutsideOwned ==
  ASSUME OInv, phase # "crash", phase' \notin {"involve", "destroyed"},
         phase' \notin {"acting", "commit"} => thunks = <<>>,
         UNCHANGED <<table, lrstack, frames, chunks, answers, entries, heads, thunks>>
  PROVE  OInv'
<1>1. World(table, answers, entries, chunks, heads, frames, NULL)' /\ StackSound'
  BY SameItself, SameChunks, QuietStep
<1>2. Outer'
  BY DEF OInv, Outer
<1> QED
  BY <1>1, <1>2 DEF OInv

LEMMA QuietFinishOwned ==
  ASSUME OInv, ParseBegin \/ DoAction \/ ActionsDone \/ SyntaxError
  PROVE  OInv'
<1>1. phase \notin {"acting", "commit"} => thunks = <<>>
  BY DEF OInv, Outer
<1>2. CASE ParseBegin
  BY <1>1, <1>2, OutsideOwned DEF ParseBegin, heapVars
<1>3. CASE DoAction
  BY <1>1, <1>3, OutsideOwned DEF DoAction, heapVars
<1>4. CASE ActionsDone
  BY <1>1, <1>4, OutsideOwned DEF ActionsDone, heapVars, actVars
<1>5. CASE SyntaxError
  BY <1>1, <1>5, OutsideOwned DEF SyntaxError, heapVars, actVars
<1> QED
  BY <1>2, <1>3, <1>4, <1>5

LEMMA StutterOwned ==
  ASSUME OInv, UNCHANGED vars PROVE OInv'
<1>1. UNCHANGED <<phase, table, lrstack, frames, chunks, answers, entries, heads, thunks, walk,
                  pos, cur>>
  BY DEF vars
<1> QED
  BY <1>1 DEF OInv, World, StackSound, Outer, WalkAt

-----------------------------------------------------------------------------
(* pcc_apply_rule: the look-up.                                             *)

\* When a rule is applied.
LEMMA ApplyingNow ==
  ASSUME IInv, OInv, Applying \/ phase = "involve"
  PROVE  /\ thunks = <<>> /\ phase # "crash" /\ Here \in Idx
         /\ frames \in Seq(FrameRec) /\ Resumable(frames) /\ chunks \in Seq(ChunkRec)
         /\ \A k \in 1 .. Len(frames) : /\ frames[k].p \in Idx /\ frames[k].p <= Here
                                        /\ frames[k].chunk \in 1 .. Len(chunks)
         /\ World(table, answers, entries, chunks, heads, frames, NULL)
         /\ StackOK(lrstack, frames, answers)
         /\ \A n \in 1 .. Len(lrstack) : lrstack[n] \in Live(entries)
<1>1. phase \in {"calling", "running", "involve"}
  BY DEF Applying, At
<1>2. thunks = <<>> /\ phase # "crash"
  BY <1>1 DEF OInv, Outer
<1>3. Here \in Idx
  BY Numbers
<1>4. /\ frames \in Seq(FrameRec) /\ chunks \in Seq(ChunkRec)
      /\ CallsOK(frames, pos, bufn, Here, Len(chunks), answers)
  BY DEF IInv, TypeOK, Calls
<1>5. Resumable(frames)
  <2>1. CASE Applying
    BY <2>1, Applicant
  <2>2. CASE phase = "involve"
    BY <2>2 DEF IInv, Calls
  <2> QED
    BY <2>1, <2>2
<1>6. \A k \in 1 .. Len(frames) : /\ frames[k].p \in Idx /\ frames[k].p <= Here
                                  /\ frames[k].chunk \in 1 .. Len(chunks)
  BY <1>3, <1>4, CallPlaces
<1> QED
  BY <1>2, <1>3, <1>4, <1>5, <1>6 DEF OInv, StackSound

\* A rule that takes no part in the growth fails.
LEMMA ApplyBlockedOwned ==
  ASSUME IInv, OInv, ApplyBlocked PROVE OInv'
<1>1. /\ Applying /\ Deliver(frames, chunks, NULL)
      /\ UNCHANGED <<table, lrstack, answers, entries, heads>>
  BY DEF ApplyBlocked, lrVars
<1>2. NULL \in Nat
  BY DEF NULL
<1> QED
  BY <1>1, <1>2, ApplyingNow, DeliverOwned

\* An answer that is owned at position i has its chunk from there on.
LEMMA KeptChunk ==
  ASSUME NEW t, NEW as, NEW es, NEW cs, NEW hs, NEW fs, NEW hand,
         World(t, as, es, cs, hs, fs, hand),
         NEW i \in Idx, NEW a \in Kept(t, i), as[a].type = "CHUNK"
  PROVE  ChunkFrom(as[a].chunk, i, t, as)
<1>1. OwnsChunk(as, a, as[a].chunk)
  BY DEF OwnsChunk
<1>2. i <= i
  BY RuntimeAssumption DEF Idx
<1> QED
  BY <1>1, <1>2 DEF ChunkFrom

LEMMA MemoKept ==
  \A t, i, r : r \in Rule /\ t[i].memos[r] # NULL => t[i].memos[r] \in Kept(t, i)
BY DEF Kept

\* A memo is used.
LEMMA ApplyMemoizedOwned ==
  ASSUME IInv, OInv, ApplyMemoized PROVE OInv'
<1> DEFINE a == MemoHere
           c == answers[a].chunk
<1>1. /\ Applying /\ Deliver(frames, chunks, c) /\ a # NULL /\ answers[a].type = "CHUNK"
      /\ UNCHANGED <<table, lrstack, answers, entries, heads>>
  BY DEF ApplyMemoized, lrVars
<1>2. c \in 0 .. Len(chunks) /\ Applied \in Rule
  BY <1>1, Found, Applicant
<1>3. a \in Kept(table, Here)
  BY <1>1, <1>2, MemoKept DEF MemoHere
<1> HIDE DEF a
<1>4. ChunkFrom(c, Here, table, answers)
  BY <1>1, <1>3, ApplyingNow, KeptChunk
<1>5. c \in Nat
  BY <1>2, Numbers
<1> HIDE DEF c
<1> QED
  BY <1>1, <1>4, <1>5, ApplyingNow, DeliverOwned

\* The end of the walk over lrstack: the seed is delivered.
LEMMA InvolvedOwned ==
  ASSUME IInv, OInv, Involved PROVE OInv'
<1> DEFINE a == walk.ans
           e == answers[a].lr
           c == entries[e].seed
<1>1. /\ phase = "involve" /\ Deliver(frames, chunks, c)
      /\ UNCHANGED <<table, lrstack, answers, entries, heads>>
  BY DEF Involved, lrVars
<1>2. answers[a].type = "LR" /\ e \in 1 .. Len(entries)
  BY <1>1, Walked
<1>3. PICK q \in Idx : a \in Kept(table, q) /\ \A k \in 1 .. Len(frames) : frames[k].p <= q
  BY <1>1 DEF OInv, Outer, WalkAt
<1>4. c \in Nat
  <2>1. entries \in Seq(EntryRec)
    BY DEF IInv, TypeOK
  <2>2. entries[e] \in EntryRec
    BY <1>2, <2>1, ElementOfSeq
  <2> QED
    BY <2>2 DEF EntryRec
<1>5. c # NULL => ChunkFrom(c, q, table, answers)
  <2>1. EntryForward(e, q, table, answers, entries)
    BY <1>2, <1>3 DEF OInv, World, Forward
  <2> QED
    BY <2>1 DEF EntryForward
<1> HIDE DEF c
<1>6. \A k \in 1 .. Len(frames) : /\ frames[k].p \in Idx /\ frames[k].p <= q
                                  /\ frames[k].chunk \in 1 .. Len(chunks)
  BY <1>1, <1>3, ApplyingNow
<1> QED
  BY <1>1, <1>4, <1>5, <1>6, ApplyingNow, DeliverOwned

\* Sets of rules of the head i change.
LEMMA HeadPut ==
  ASSUME NEW hs \in Seq(HeadRec), NEW i \in 1 .. Len(hs), NEW x \in HeadRec,
         NEW l, x.live = l, hs[i].live = l, NEW gs, gs = [hs EXCEPT ![i] = x]
  PROVE  Live(gs) = Live(hs)
<1>1. /\ gs \in Seq(HeadRec) /\ Len(gs) = Len(hs)
      /\ \A j \in 1 .. Len(hs) : gs[j] = IF j = i THEN x ELSE hs[j]
  BY Replaced
<1>2. gs[i].live = hs[i].live /\ \A j \in 1 .. Len(hs) : j # i => gs[j] = hs[j]
  BY <1>1
<1>3. hs \in Seq(HeadRec) /\ i \in 1 .. Len(hs)
  OBVIOUS
<1> QED
  BY ONLY <1>1, <1>2, <1>3, HeapPut

\* A rule of the growth is evaluated again.
LEMMA ApplyReevaluateOwned ==
  ASSUME IInv, OInv, ApplyReevaluate PROVE OInv'
<1>1. /\ Applying /\ HeadHere # NULL
      /\ heads' = [heads EXCEPT ![HeadHere].eval = RuleSetRemove(@, Applied)]
      /\ Evaluate(frames, chunks, Applied, Here, "eval", NULL, HeadHere, cur)
      /\ UNCHANGED <<table, lrstack, answers, entries, thunks>>
  BY DEF ApplyReevaluate, Reevaluated, actVars
<1>2. /\ HeadHere \in 1 .. Len(heads) /\ HeadHere \in Nat /\ Applied \in Rule
      /\ heads \in Seq(HeadRec)
  BY <1>1, Found, Applicant DEF IInv, TypeOK
<1>3. Live(heads') = Live(heads)
  <2> DEFINE s == RuleSetRemove(heads[HeadHere].eval, Applied)
  <2>1. heads[HeadHere].eval \in Seq(Rule)
    BY <1>2, ElementOfSeq, HeadFields
  <2>2. s \in Seq(Rule)
    BY <1>2, <2>1, RuleSetType
  <2>3. heads' = [heads EXCEPT ![HeadHere].eval = s]
    BY <1>1
  <2> HIDE DEF s
  <2>4. PICK i \in 1 .. Len(heads) : i = HeadHere
    BY <1>2
  <2> DEFINE x == [heads[i] EXCEPT !.eval = s]
             l == heads[i].live
  <2>5. heads' = [heads EXCEPT ![i] = x]
    BY <2>3, <2>4
  <2>6. heads[i] \in HeadRec
    BY <1>2, ElementOfSeq
  <2>7. x \in HeadRec /\ x.live = heads[i].live
    BY <2>2, <2>6, HeadWith DEF HeadRec
  <2>8. x.live = l /\ heads[i].live = l
    BY <2>7
  <2> HIDE DEF x, l
  <2> QED
    BY <1>2, <2>5, <2>7, <2>8, HeadPut
<1>4. World(table', answers', entries', chunks, heads', frames, NULL)
  <2>1. World(table, answers, entries, chunks, heads', frames, NULL)
    BY <1>1, <1>3, ApplyingNow, SameItself, SameChunks, WorldThunks
  <2> QED
    BY <1>1, <2>1
<1>5. HeadFrom(HeadHere, 0, table')
  <2>1. HeadFrom(HeadHere, Here, table)
    BY <1>1, ApplyingNow DEF HeadHere, World, Forward
  <2>2. Here \in Int /\ 0 \in Int /\ 0 <= Here /\ MaxPos \in Nat
    BY Numbers
  <2> QED
    BY <1>1, <2>1, <2>2, FromBehind
<1>6. /\ Here \in Nat /\ cur \in Nat /\ NULL \in Nat /\ thunks' = <<>>
      /\ lrstack \in Seq(Nat) /\ Len(lrstack) \in Nat
  BY <1>1, ApplyingNow, Numbers, LenProperties DEF NULL, IInv, TypeOK
<1>7. /\ StackOK(lrstack, frames, answers) /\ SameMarkers(frames, answers, answers')
      /\ \A n \in 1 .. Len(lrstack') : lrstack'[n] \in Live(entries')
      /\ frames \in Seq(FrameRec) /\ chunks \in Seq(ChunkRec)
  BY <1>1, ApplyingNow, SameItself
<1> DEFINE mode == "eval"
<1>8. /\ mode \in {"eval", "first", "grow"} /\ mode # "first" /\ lrstack' = lrstack
      /\ mode # "eval" => NULL \in Kept(table', Here)
      /\ Evaluate(frames, chunks, Applied, Here, mode, NULL, HeadHere, cur)
  BY <1>1
<1> HIDE DEF mode
<1> QED
  BY <1>2, <1>4, <1>5, <1>6, <1>7, <1>8, EvaluateOwned

-----------------------------------------------------------------------------
(* pcc_apply_rule: a left recursion.                                        *)

\* Of the lr entries, only the head, only the seed of n was assigned.
HeadGiven(es, ds, n, h) ==
  /\ Live(ds) = Live(es) /\ \A e \in Live(es) : e # n => ds[e] = es[e]
  /\ ds[n].head = h /\ ds[n].seed = es[n].seed
SeedGiven(es, ds, n, c) ==
  /\ Live(ds) = Live(es) /\ \A e \in Live(es) : e # n => ds[e] = es[e]
  /\ ds[n].seed = c /\ ds[n].head = es[n].head

\* The head, the seed of an lr entry is set.
LEMMA EntryHead ==
  ASSUME NEW es \in Seq(EntryRec), NEW n \in 1 .. Len(es), NEW h \in Nat,
         NEW ds, ds = [es EXCEPT ![n].head = h]
  PROVE  HeadGiven(es, ds, n, h) /\ ds \in Seq(EntryRec) /\ Len(ds) = Len(es)
<1> DEFINE x == [es[n] EXCEPT !.head = h]
<1>1. es[n] \in EntryRec
  BY ElementOfSeq
<1>2. x \in EntryRec /\ x.head = h /\ x.seed = es[n].seed /\ x.live = es[n].live
  BY <1>1 DEF EntryRec
<1>3. ds = [es EXCEPT ![n] = x]
  OBVIOUS
<1> HIDE DEF x
<1>4. /\ ds \in Seq(EntryRec) /\ Len(ds) = Len(es)
      /\ \A j \in 1 .. Len(es) : ds[j] = IF j = n THEN x ELSE es[j]
  BY <1>2, <1>3, Replaced
<1>5. /\ ds[n].live = es[n].live /\ ds[n].head = h /\ ds[n].seed = es[n].seed
      /\ \A j \in 1 .. Len(es) : j # n => ds[j] = es[j]
      /\ es \in Seq(EntryRec) /\ n \in 1 .. Len(es)
  BY <1>2, <1>4
<1>6. Live(ds) = Live(es) /\ \A e \in Live(es) : e # n => ds[e] = es[e]
  BY ONLY <1>4, <1>5, HeapPut
<1> QED
  BY ONLY <1>4, <1>5, <1>6 DEF HeadGiven

LEMMA EntrySeed ==
  ASSUME NEW es \in Seq(EntryRec), NEW n \in 1 .. Len(es), NEW c \in Nat,
         NEW ds, ds = [es EXCEPT ![n].seed = c]
  PROVE  SeedGiven(es, ds, n, c) /\ ds \in Seq(EntryRec) /\ Len(ds) = Len(es)
<1> DEFINE x == [es[n] EXCEPT !.seed = c]
<1>1. es[n] \in EntryRec
  BY ElementOfSeq
<1>2. x \in EntryRec /\ x.seed = c /\ x.head = es[n].head /\ x.live = es[n].live
  BY <1>1 DEF EntryRec
<1>3. ds = [es EXCEPT ![n] = x]
  OBVIOUS
<1> HIDE DEF x
<1>4. /\ ds \in Seq(EntryRec) /\ Len(ds) = Len(es)
      /\ \A j \in 1 .. Len(es) : ds[j] = IF j = n THEN x ELSE es[j]
  BY <1>2, <1>3, Replaced
<1>5. /\ ds[n].live = es[n].live /\ ds[n].seed = c /\ ds[n].head = es[n].head
      /\ \A j \in 1 .. Len(es) : j # n => ds[j] = es[j]
      /\ es \in Seq(EntryRec) /\ n \in 1 .. Len(es)
  BY <1>2, <1>4
<1>6. Live(ds) = Live(es) /\ \A e \in Live(es) : e # n => ds[e] = es[e]
  BY ONLY <1>4, <1>5, HeapPut
<1> QED
  BY ONLY <1>4, <1>5, <1>6 DEF SeedGiven

\* The lr entry of an answer that is kept points ahead.
LEMMA KeptEntry ==
  ASSUME NEW t, NEW as, NEW es, NEW cs, NEW hs, NEW fs, NEW hand,
         World(t, as, es, cs, hs, fs, hand),
         NEW i \in Idx, NEW a \in Kept(t, i), as[a].type = "LR"
  PROVE  /\ OwnsEntry(as, a, as[a].lr) /\ as[a].lr \in Live(es)
         /\ EntryForward(as[a].lr, i, t, as, es)
<1>1. a \in Live(as)
  BY DEF World, Housed
<1> QED
  BY <1>1 DEF World, Owning, Forward, OwnsEntry

\* A new head, owned by the entry for position p.
LEMMA HeadsTable ==
  ASSUME NEW t \in [Idx -> TableRec], NEW p \in Idx, NEW h,
         NEW u, u = [t EXCEPT ![p].heads = @ \cup {h}]
  PROVE  HeadAdded(t, u, p, h)
<1>1. \A i \in Idx : /\ u[i].held = t[i].held /\ u[i].memos = t[i].memos
                     /\ u[i].head = t[i].head
                     /\ u[i].heads = IF i = p THEN t[i].heads \cup {h} ELSE t[i].heads
  BY DEF TableRec
<1> QED
  BY <1>1 DEF Kept, HeadAdded

\* A head for the lr entry n, which an answer that is kept at position p owns.
LEMMA HeadOwned ==
  ASSUME NEW t, NEW as, NEW es, NEW cs, NEW hs, NEW fs, NEW hand,
         World(t, as, es, cs, hs, fs, hand),
         \A k \in 1 .. Len(fs) : fs[k].p \in Idx,
         NEW p \in Idx, NEW a \in Kept(t, p), NEW n, OwnsEntry(as, a, n),
         EntryForward(n, p, t, as, es),
         NEW u, NEW gs, NEW h, Made(hs, gs, h), HeadAdded(t, u, p, h),
         NEW ds, HeadGiven(es, ds, n, h)
  PROVE  World(u, as, ds, cs, gs, fs, hand) /\ Live(ds) = Live(es) /\ a \in Kept(u, p)
<1>1. /\ World(u, as, es, cs, gs, fs, hand) /\ HeadFrom(h, p, u)
      /\ \A c, i : ChunkFrom(c, i, t, as) => ChunkFrom(c, i, u, as)
  BY WorldNewHead
<1>2. EntryForward(n, p, u, as, ds)
  BY <1>1 DEF EntryForward, HeadGiven
<1>3. a \in Kept(u, p)
  BY DEF HeadAdded
<1>4. Live(ds) = Live(es) /\ \A e \in Live(es) : e # n => ds[e] = es[e]
  BY DEF HeadGiven
<1>5. World(u, as, ds, cs, gs, fs, hand)
  BY <1>1, <1>2, <1>3, <1>4, WorldEntry
<1> QED
  BY <1>3, <1>4, <1>5

\* A left recursion is met.
LEMMA ApplyRecursiveOwned ==
  ASSUME IInv, OInv, ApplyRecursive PROVE OInv'
<1> DEFINE a == MemoHere
           e == answers[a].lr
           h == Len(heads) + 1
<1>1. /\ Applying /\ a # NULL /\ answers[a].type = "LR"
      /\ walk' = [ans |-> a, i |-> Len(lrstack)] /\ phase' = "involve"
      /\ UNCHANGED <<lrstack, frames, chunks, answers, thunks>>
  BY DEF ApplyRecursive, actVars
<1>2. \/ /\ entries[e].head = NULL
         /\ heads' = Append(heads, [rule |-> Applied, invol |-> <<>>,
                                    eval |-> <<>>, live |-> TRUE])
         /\ entries' = [entries EXCEPT ![e].head = h]
         /\ table' = [table EXCEPT ![Here].heads = @ \cup {h}]
      \/ /\ entries[e].head # NULL
         /\ heads' = heads /\ entries' = entries /\ table' = table
  BY DEF ApplyRecursive
<1>3. /\ a \in 1 .. Len(answers) /\ e \in 1 .. Len(entries) /\ Applied \in Rule
  BY <1>1, Found, Applicant
<1>4. a \in Kept(table, Here)
  BY <1>1, <1>3, MemoKept DEF MemoHere
<1>5. /\ Here \in Idx /\ thunks = <<>> /\ StackOK(lrstack, frames, answers)
      /\ \A n \in 1 .. Len(lrstack) : lrstack[n] \in Live(entries)
      /\ \A k \in 1 .. Len(frames) : frames[k].p \in Idx /\ frames[k].p <= Here
      /\ World(table, answers, entries, chunks, heads, frames, NULL)
  BY <1>1, ApplyingNow
<1>6. walk'.ans = a
  BY <1>1
<1>7. /\ entries \in Seq(EntryRec) /\ heads \in Seq(HeadRec) /\ table \in [Idx -> TableRec]
      /\ Len(heads) \in Nat /\ h \in Nat
  BY SMTT(20), Numbers DEF IInv, TypeOK
<1> HIDE DEF a
<1>8. /\ OwnsEntry(answers, a, e) /\ EntryForward(e, Here, table, answers, entries)
  BY <1>1, <1>4, <1>5, KeptEntry
<1>9. /\ World(table', answers, entries', chunks, heads', frames, NULL)
      /\ Live(entries') = Live(entries) /\ a \in Kept(table', Here)
  <2>1. CASE entries[e].head # NULL
    BY <1>2, <1>4, <1>5, <2>1
  <2>2. CASE entries[e].head = NULL
    <3> DEFINE x == [rule |-> Applied, invol |-> <<>>, eval |-> <<>>, live |-> TRUE]
    <3>1. /\ heads' = Append(heads, x) /\ entries' = [entries EXCEPT ![e].head = h]
          /\ table' = [table EXCEPT ![Here].heads = @ \cup {h}]
      BY <1>2, <2>2
    <3>2. x \in HeadRec /\ x.live = TRUE
      <4>1. <<>> \in Seq(Rule)
        BY EmptySeq
      <4> QED
        BY <1>3, <4>1 DEF HeadRec
    <3> HIDE DEF x
    <3>3. /\ heads' \in Seq(HeadRec) /\ Len(heads') = Len(heads) + 1
          /\ heads'[h] = x /\ (\A j \in 1 .. Len(heads) : heads'[j] = heads[j]) /\ h = Len(heads')
      BY <1>7, <3>1, <3>2, Appended
    <3> HIDE DEF e, h
    <3>4. Made(heads, heads', h)
      <4>1. heads'[h].live = TRUE
        BY <3>2, <3>3
      <4> QED
        BY ONLY <1>7, <3>3, <4>1, HeapAppend
    <3>5. HeadAdded(table, table', Here, h)
      BY ONLY <1>5, <1>7, <3>1, HeadsTable
    <3>6. HeadGiven(entries, entries', e, h)
      <4>1. PICK n \in 1 .. Len(entries) : n = e
        BY <1>3
      <4>2. entries' = [entries EXCEPT ![n].head = h]
        BY <3>1, <4>1
      <4>3. HeadGiven(entries, entries', n, h)
        BY ONLY <1>7, <4>2, EntryHead
      <4> QED
        BY <4>1, <4>3
    <3> QED
      BY ONLY <1>4, <1>5, <1>8, <3>4, <3>5, <3>6, HeadOwned
  <2> QED
    BY <2>1, <2>2
<1>10. World(table, answers, entries, chunks, heads, frames, NULL)'
  BY <1>1, <1>9
<1>11. StackSound'
  BY <1>1, <1>5, <1>9 DEF StackSound
<1>12. Outer'
  <2>1. \E q \in Idx : WalkAt(q)'
    <3>1. /\ walk'.ans \in Kept(table', Here)
          /\ \A k \in 1 .. Len(frames') : frames'[k].p <= Here
      BY <1>1, <1>5, <1>6, <1>9
    <3> QED
      BY <1>5, <3>1 DEF WalkAt
  <2>2. Len(thunks') = 0 /\ thunks' = <<>> /\ phase' = "involve"
    BY <1>1, <1>5, EmptySeq
  <2> QED
    BY <2>1, <2>2 DEF Outer
<1> QED
  BY <1>10, <1>11, <1>12 DEF OInv

\* Sets of rules of the head n change.
LEMMA SetsPut ==
  ASSUME NEW hs \in Seq(HeadRec), NEW n \in 1 .. Len(hs), NEW s \in Seq(Rule), NEW gs,
         gs = [hs EXCEPT ![n].invol = s] \/ gs = [hs EXCEPT ![n].eval = s]
  PROVE  Live(gs) = Live(hs)
<1> DEFINE l == hs[n].live
<1>1. hs[n] \in HeadRec /\ hs[n].live = l
  BY ElementOfSeq
<1>2. CASE gs = [hs EXCEPT ![n].invol = s]
  <2> DEFINE x == [hs[n] EXCEPT !.invol = s]
  <2>1. x \in HeadRec /\ x.live = l
    BY <1>1, HeadWith DEF HeadRec
  <2>2. gs = [hs EXCEPT ![n] = x]
    BY <1>2
  <2> HIDE DEF x, l
  <2>3. hs \in Seq(HeadRec) /\ n \in 1 .. Len(hs)
    OBVIOUS
  <2> QED
    BY ONLY <1>1, <2>1, <2>2, <2>3, HeadPut
<1>3. CASE gs = [hs EXCEPT ![n].eval = s]
  <2> DEFINE x == [hs[n] EXCEPT !.eval = s]
  <2>1. x \in HeadRec /\ x.live = l
    BY <1>1, HeadWith DEF HeadRec
  <2>2. gs = [hs EXCEPT ![n] = x]
    BY <1>3
  <2> HIDE DEF x, l
  <2>3. hs \in Seq(HeadRec) /\ n \in 1 .. Len(hs)
    OBVIOUS
  <2> QED
    BY ONLY <1>1, <2>1, <2>2, <2>3, HeadPut
<1> QED
  BY <1>2, <1>3

\* An entry of the lr stack belongs to an answer that is kept where its first
\* application began.
LEMMA StackedEntry ==
  ASSUME IInv, OInv, phase # "crash", NEW n \in 1 .. Len(lrstack)
  PROVE  \E k \in 1 .. Len(frames) : \E a \in Kept(table, frames[k].p) :
           OwnsEntry(answers, a, lrstack[n])
<1>1. PICK k \in 1 .. Len(frames) : Stacked(lrstack, frames, answers, n, k)
  BY DEF OInv, StackSound, StackOK
<1>2. frames[k].mode = "first" /\ answers[frames[k].ans].lr = lrstack[n]
  BY <1>1 DEF Stacked
<1>3. frames[k].ans \in Kept(table, frames[k].p)
  BY <1>2 DEF OInv, World, Using
<1>4. answers[frames[k].ans].type = "LR"
  BY <1>2 DEF IInv, Calls, CallsOK, Answering
<1> QED
  BY <1>2, <1>3, <1>4 DEF OwnsEntry

\* A rule on the way down the lr stack becomes involved.
LEMMA InvolveOwned ==
  ASSUME IInv, OInv, Involve PROVE OInv'
<1> DEFINE e == lrstack[walk.i]
           h == WalkHead
<1>1. /\ phase = "involve" /\ phase' = phase /\ walk.i > 0
      /\ entries' = [entries EXCEPT ![e].head = h]
      /\ heads' = [heads EXCEPT ![h].invol = RuleSetAdd(@, entries[e].rule)]
      /\ walk' = [walk EXCEPT !.i = @ - 1]
      /\ UNCHANGED <<table, lrstack, frames, chunks, answers, thunks>>
  BY DEF Involve, actVars
<1>2. /\ walk.ans \in 1 .. Len(answers) /\ answers[walk.ans].type = "LR"
      /\ h \in 1 .. Len(heads) /\ e \in 1 .. Len(entries) /\ entries[e] \in EntryRec
      /\ walk \in [ans: Nat, i: Nat] /\ walk.i \in 1 .. Len(lrstack)
  <2>1. Len(lrstack) \in Nat
    BY LenProperties DEF IInv, TypeOK
  <2> QED
    BY <1>1, <2>1, Walked
<1>3. /\ heads \in Seq(HeadRec) /\ entries \in Seq(EntryRec) /\ h \in Nat /\ h # NULL
  <2>1. Len(heads) \in Nat
    BY LenProperties DEF IInv, TypeOK
  <2> QED
    BY <1>2, <2>1 DEF IInv, TypeOK, NULL
<1>4. PICK q \in Idx : walk.ans \in Kept(table, q) /\ \A k \in 1 .. Len(frames) : frames[k].p <= q
  BY <1>1 DEF OInv, Outer, WalkAt
<1>5. PICK k \in 1 .. Len(frames) :
        \E a \in Kept(table, frames[k].p) : OwnsEntry(answers, a, e)
  BY <1>1, <1>2, StackedEntry
<1>6. World(table, answers, entries, chunks, heads, frames, NULL)
  BY DEF OInv
<1>7. frames[k].p \in Idx /\ frames[k].p <= q /\ MaxPos \in Nat
      /\ frames[k].p \in Int /\ q \in Int
  <2>1. frames[k].p \in Idx
    BY <1>1, ApplyingNow
  <2> QED
    BY <1>4, <2>1, RuntimeAssumption DEF Idx
<1>8. HeadFrom(h, frames[k].p, table)
  <2>1. EntryForward(answers[walk.ans].lr, q, table, answers, entries)
    BY <1>2, <1>4, <1>6, KeptEntry
  <2>2. HeadFrom(h, q, table)
    BY <1>3, <2>1 DEF EntryForward, WalkHead
  <2> QED
    BY <1>7, <2>2, FromBehind
<1>9. Live(heads') = Live(heads)
  <2> DEFINE s == RuleSetAdd(heads[h].invol, entries[e].rule)
  <2>1. heads[h] \in HeadRec
    BY <1>2, <1>3, ElementOfSeq
  <2>2. s \in Seq(Rule)
    BY <1>2, <2>1, HeadFields, EntryFields, RuleSetType
  <2>3. heads' = [heads EXCEPT ![h].invol = s]
    BY <1>1
  <2> HIDE DEF s, h
  <2>4. PICK i \in 1 .. Len(heads) : i = h
    BY <1>2
  <2>5. heads' = [heads EXCEPT ![i].invol = s] \/ heads' = [heads EXCEPT ![i].eval = s]
    BY <2>3, <2>4
  <2> QED
    BY ONLY <1>3, <2>2, <2>5, SetsPut
<1> HIDE DEF e, h
<1>10. HeadGiven(entries, entries', e, h)
  <2>1. PICK n \in 1 .. Len(entries) : n = e
    BY <1>2
  <2>2. entries' = [entries EXCEPT ![n].head = h]
    BY <1>1, <2>1
  <2>3. HeadGiven(entries, entries', n, h)
    BY ONLY <1>3, <2>2, EntryHead
  <2> QED
    BY <2>1, <2>3
<1>11. /\ World(table, answers, entries', chunks, heads, frames, NULL)
       /\ Live(entries') = Live(entries)
  <2>1. /\ Live(entries') = Live(entries)
        /\ \A j \in Live(entries) : j # e => entries'[j] = entries[j]
        /\ entries'[e].head = h /\ entries'[e].seed = entries[e].seed
    BY <1>10 DEF HeadGiven
  <2>2. PICK a \in Kept(table, frames[k].p) : OwnsEntry(answers, a, e)
    BY <1>5
  <2>3. EntryForward(e, frames[k].p, table, answers, entries)
    BY <1>6, <1>7, <2>2, KeptEntry DEF OwnsEntry
  <2>4. EntryForward(e, frames[k].p, table, answers, entries')
    BY <1>8, <2>1, <2>3 DEF EntryForward
  <2>5. World(table, answers, entries', chunks, heads, frames, NULL)
    BY ONLY <1>6, <1>7, <2>1, <2>2, <2>4, WorldEntry
  <2> QED
    BY <2>1, <2>5
<1>12. World(table, answers, entries', chunks, heads', frames, NULL)
  BY <1>9, <1>11, SameItself, SameChunks, WorldThunks
<1>13. World(table, answers, entries, chunks, heads, frames, NULL)'
  BY <1>1, <1>12
<1>14. StackSound'
  BY <1>1, <1>11 DEF OInv, StackSound
<1>15. Outer'
  <2>1. walk'.ans = walk.ans
    BY <1>1, <1>2
  <2>2. \E j \in Idx : WalkAt(j)'
    BY <1>1, <1>4, <2>1 DEF WalkAt
  <2>3. phase' = "involve" /\ thunks' = <<>> /\ Len(thunks') = 0
    BY <1>1, EmptySeq DEF OInv, Outer
  <2> QED
    BY <2>2, <2>3 DEF Outer
<1> QED
  BY <1>13, <1>14, <1>15 DEF OInv

-----------------------------------------------------------------------------
(* pcc_apply_rule: the first application.                                   *)

LEMMA MemoJoined ==
  ASSUME NEW t \in [Idx -> TableRec], NEW p \in Idx, NEW r \in Rule, t[p].memos[r] = NULL,
         NEW a, a # NULL, NEW u, u = [t EXCEPT ![p].memos[r] = a]
  PROVE  Joined(t, u, p, a)
<1>1. t[p] \in TableRec /\ t[p].memos \in [Rule -> Nat]
  BY DEF TableRec
<1>2. \A i \in Idx : /\ u[i].held = t[i].held /\ u[i].heads = t[i].heads
                     /\ u[i].head = t[i].head /\ (i # p => u[i].memos = t[i].memos)
  BY DEF TableRec
<1>3. \A x \in Rule : u[p].memos[x] = IF x = r THEN a ELSE t[p].memos[x]
  BY <1>1 DEF TableRec
<1>4. Kept(u, p) = Kept(t, p) \cup {a}
  BY <1>2, <1>3 DEF Kept
<1>5. \A i \in Idx : i # p => Kept(u, i) = Kept(t, i)
  BY <1>2 DEF Kept
<1> QED
  BY <1>2, <1>4, <1>5 DEF Joined

\* While answers are made and none changes, the markers stay.
LEMMA MarkersStay ==
  ASSUME NEW t, NEW as, NEW es, NEW cs, NEW hs, NEW fs, NEW hand,
         World(t, as, es, cs, hs, fs, hand),
         \A k \in 1 .. Len(fs) : fs[k].p \in Idx,
         NEW bs, \A a \in Live(as) : bs[a] = as[a]
  PROVE  SameMarkers(fs, as, bs)
<1>1. \A k \in 1 .. Len(fs) : fs[k].mode = "first" => fs[k].ans \in Kept(t, fs[k].p)
  BY DEF World, Using
<1>2. \A i \in Idx : Kept(t, i) \subseteq Live(as)
  BY DEF World, Housed
<1> QED
  BY <1>1, <1>2 DEF SameMarkers

\* A rule is evaluated at a position for the first time.
LEMMA ApplyFirstOwned ==
  ASSUME IInv, OInv, ApplyFirst PROVE OInv'
<1> DEFINE a == Len(answers) + 1
           e == Len(entries) + 1
           b == NewAnswer("LR", Applied, Here, Here, e, NULL)
           x == [rule |-> Applied, seed |-> NULL, head |-> NULL, live |-> TRUE]
<1>1. /\ Applying /\ MemoHere = NULL
      /\ entries' = Append(entries, x) /\ lrstack' = Append(lrstack, e)
      /\ answers' = Append(answers, b)
      /\ table' = [table EXCEPT ![Here].memos[Applied] = a]
      /\ Evaluate(frames, chunks, Applied, Here, "first", a, NULL, cur)
      /\ heads' = heads /\ thunks' = thunks
  BY DEF ApplyFirst, actVars
<1>2. /\ cur \in Nat /\ Here \in Nat /\ Here \in Idx /\ NULL \in Nat
      /\ Len(answers) \in Nat /\ Len(entries) \in Nat /\ a \in Nat /\ e \in Nat
  BY Numbers DEF NULL
<1>3. /\ answers \in Seq(AnswerRec) /\ entries \in Seq(EntryRec)
      /\ table \in [Idx -> TableRec] /\ lrstack \in Seq(Nat)
  BY DEF IInv, TypeOK
<1>4. /\ frames \in Seq(FrameRec) /\ chunks \in Seq(ChunkRec) /\ thunks' = <<>>
      /\ \A k \in 1 .. Len(frames) : frames[k].p \in Idx
      /\ World(table, answers, entries, chunks, heads, frames, NULL)
      /\ StackOK(lrstack, frames, answers)
      /\ \A n \in 1 .. Len(lrstack) : lrstack[n] \in Live(entries)
  BY <1>1, ApplyingNow
<1>5. Applied \in Rule
  BY <1>1, Applicant
<1>6. x \in EntryRec /\ x.head = NULL /\ x.seed = NULL /\ x.live = TRUE
  BY <1>2, <1>5 DEF EntryRec
<1>7. b \in AnswerRec /\ b.type = "LR" /\ b.lr = e /\ b.chunk = NULL /\ b.live = TRUE
  BY <1>2, <1>5 DEF NewAnswer, AnswerRec
<1> HIDE DEF x, b
<1>8. /\ Made(entries, entries', e) /\ e # NULL
      /\ \A y \in Live(entries) : entries'[y] = entries[y]
      /\ entries'[e].seed = NULL /\ entries'[e].head = NULL
  <2>1. /\ entries' \in Seq(EntryRec) /\ Len(entries') = Len(entries) + 1
        /\ entries'[e] = x /\ \A j \in 1 .. Len(entries) : entries'[j] = entries[j]
    BY <1>1, <1>3, <1>6, Appended
  <2>2. e = Len(entries') /\ entries'[e].live = TRUE
    BY <1>6, <2>1
  <2> HIDE DEF e
  <2>3. /\ Made(entries, entries', e) /\ e # NULL
        /\ \A y \in Live(entries) : entries'[y] = entries[y]
    BY ONLY <1>3, <2>1, <2>2, HeapAppend
  <2> QED
    BY <1>6, <2>1, <2>3
<1>9. /\ Made(answers, answers', a) /\ a # NULL
      /\ \A y \in Live(answers) : answers'[y] = answers[y]
      /\ answers'[a] = b
  <2>1. /\ answers' \in Seq(AnswerRec) /\ Len(answers') = Len(answers) + 1
        /\ answers'[a] = b /\ \A j \in 1 .. Len(answers) : answers'[j] = answers[j]
    BY <1>1, <1>3, <1>7, Appended
  <2>2. a = Len(answers') /\ answers'[a].live = TRUE
    BY <1>7, <2>1
  <2> HIDE DEF a
  <2>3. /\ Made(answers, answers', a) /\ a # NULL
        /\ \A y \in Live(answers) : answers'[y] = answers[y]
    BY ONLY <1>3, <2>1, <2>2, HeapAppend
  <2> QED
    BY <2>1, <2>3
<1> HIDE DEF a
<1>10. Joined(table, table', Here, a)
  BY <1>1, <1>2, <1>3, <1>5, <1>9, MemoJoined DEF MemoHere
<1>11. /\ answers'[a].type = "LR" /\ answers'[a].chunk = NULL /\ answers'[a].lr = e
  BY <1>7, <1>9
<1>12. Raised(lrstack, lrstack', e) /\ \A n \in 1 .. Len(lrstack') : lrstack'[n] \in Live(entries')
  <2> DEFINE m == Len(lrstack)
  <2>1. /\ m \in Nat /\ Len(lrstack') = m + 1 /\ lrstack'[m + 1] = e
        /\ \A j \in 1 .. m : lrstack'[j] = lrstack[j]
    BY <1>1, <1>2, <1>3, Appended
  <2>2. \A n \in 1 .. m : lrstack[n] \in Live(entries)
    BY <1>4
  <2> HIDE DEF m, e
  <2>3. e \notin Live(entries) /\ Live(entries') = Live(entries) \cup {e}
    BY <1>8 DEF Made
  <2>4. \A n \in 1 .. m : lrstack'[n] = lrstack[n] /\ lrstack[n] # e
    BY <2>1, <2>2, <2>3
  <2>5. Raised(lrstack, lrstack', e)
    BY <2>1, <2>4 DEF Raised, m
  <2>6. \A n \in 1 .. m + 1 : n \in 1 .. m \/ n = m + 1
    BY <2>1
  <2> QED
    BY <2>1, <2>2, <2>3, <2>4, <2>5, <2>6
<1> HIDE DEF e
<1>13. World(table', answers', entries', chunks, heads, frames, NULL)
  BY ONLY <1>2, <1>4, <1>8, <1>9, <1>10, <1>11, WorldMemo
<1>14. World(table', answers', entries', chunks, heads', frames, NULL)
  BY <1>1, <1>13
<1>15. a \in Kept(table', Here)
  BY <1>2, <1>10 DEF Joined
<1>16. SameMarkers(frames, answers, answers')
  BY ONLY <1>4, <1>9, MarkersStay
<1> DEFINE mode == "first"
<1>17. /\ mode \in {"eval", "first", "grow"}
       /\ mode # "eval" => a \in Kept(table', Here)
       /\ NULL # NULL => HeadFrom(NULL, 0, table')
       /\ mode = "first" => Raised(lrstack, lrstack', answers'[a].lr)
       /\ mode # "first" => lrstack' = lrstack
       /\ Evaluate(frames, chunks, Applied, Here, mode, a, NULL, cur)
       /\ Len(lrstack) \in Nat
  BY <1>1, <1>3, <1>11, <1>12, <1>15, LenProperties
<1>18. a \in Nat
  BY <1>2 DEF a
<1> HIDE DEF mode
<1> QED
  BY ONLY <1>2, <1>4, <1>5, <1>12, <1>14, <1>16, <1>17, <1>18, EvaluateOwned

-----------------------------------------------------------------------------
(* pcc_apply_rule: the return of an evaluation.                             *)

\* The activation that returns leaves its result without an owner.
LEMMA HandedOver ==
  ASSUME IInv, OInv, At("ret") \/ At("fail")
  PROVE  /\ thunks = <<>> /\ Top.p \in Idx /\ AfterReturn \in Seq(ChunkRec)
         /\ Popped \in Seq(FrameRec) /\ Resumable(Popped)
         /\ World(table, answers, entries, AfterReturn, heads, Popped, Result)
         /\ Result # NULL => ThunksFrom(AfterReturn, Result, Top.p, table, answers)
         /\ Result \in Nat /\ NULL \notin Live(AfterReturn)
         /\ Top.mode # "eval" => Top.ans \in Kept(table, Top.p)
         /\ Top.head # NULL => HeadFrom(Top.head, 0, table)
         /\ \A k \in 1 .. Len(Popped) : /\ Popped[k].p \in Idx /\ Popped[k].p <= Top.p
                                        /\ Popped[k].chunk \in 1 .. Len(AfterReturn)
<1> DEFINE n == Len(frames)
           c == Top.chunk
<1>1. phase = "running" /\ frames # <<>> /\ frames \in Seq(FrameRec)
  BY DEF At, IInv, TypeOK
<1>2. /\ Top = frames[n] /\ n \in Nat /\ n > 0 /\ c \in 1 .. Len(chunks)
      /\ chunks \in Seq(ChunkRec)
  BY <1>1, Running, NotEmpty DEF IInv, TypeOK
<1>3. /\ Top.p \in Idx /\ Popped \in Seq(FrameRec) /\ Resumable(Popped)
      /\ CallsOK(Popped, pos, bufn, Top.p, Len(chunks), answers)
      /\ AfterReturn \in Seq(ChunkRec) /\ Len(AfterReturn) = Len(chunks)
      /\ Result \in 0 .. Len(chunks)
  BY Returned
<1>4. thunks = <<>>
  BY <1>1 DEF OInv, Outer
<1>5. /\ Len(Popped) = n - 1 /\ \A k \in 1 .. Len(Popped) : Popped[k] = frames[k]
  BY <1>1, PopType DEF Popped
<1>6. c # NULL /\ frames[n].chunk = c /\ frames[n].p = Top.p /\ frames[n].mode = Top.mode
      /\ frames[n].ans = Top.ans /\ frames[n].head = Top.head
  BY <1>2 DEF NULL
<1>7. World(table, answers, entries, chunks, heads, frames, NULL)
  BY DEF OInv
<1> HIDE DEF c, n
<1>8. /\ World(table, answers, entries, chunks, heads, Popped, c)
      /\ ThunksFrom(chunks, c, Top.p, table, answers)
      /\ Top.mode # "eval" => Top.ans \in Kept(table, Top.p)
      /\ Top.head # NULL => HeadFrom(Top.head, 0, table)
  <2>1. /\ Len(frames) \in Nat /\ Len(frames) > 0 /\ frames[Len(frames)].chunk # NULL
        /\ Len(Popped) = Len(frames) - 1 /\ \A k \in 1 .. Len(Popped) : Popped[k] = frames[k]
    BY <1>2, <1>5, <1>6 DEF n
  <2>2. /\ World(table, answers, entries, chunks, heads, Popped, frames[n].chunk)
        /\ ThunksFrom(chunks, frames[n].chunk, frames[n].p, table, answers)
        /\ frames[n].mode # "eval" => frames[n].ans \in Kept(table, frames[n].p)
        /\ frames[n].head # NULL => HeadFrom(frames[n].head, 0, table)
    BY ONLY <1>7, <2>1, WorldPop DEF n
  <2> QED
    BY ONLY <1>6, <2>2
<1>9. /\ World(table, answers, entries, AfterReturn, heads, Popped, Result)
      /\ Result # NULL => ThunksFrom(AfterReturn, Result, Top.p, table, answers)
  <2>1. CASE Stmt.op = "ret"
    BY <1>8, <2>1 DEF Result, AfterReturn, c
  <2>2. CASE Stmt.op # "ret"
    <3>1. Result = NULL /\ AfterReturn = FreeChunk(chunks, c)
      BY <2>2 DEF Result, AfterReturn, c
    <3>2. /\ Live(AfterReturn) = Live(chunks) \ {c}
          /\ \A x \in Live(AfterReturn) : AfterReturn[x].thunks = chunks[x].thunks
      BY ONLY <1>2, <3>1, ChunkFreed
    <3>3. World(table, answers, entries, AfterReturn, heads, Popped, NULL)
      BY ONLY <1>6, <1>8, <3>2, WorldFree
    <3> QED
      BY <3>1, <3>3
  <2> QED
    BY <2>1, <2>2
<1>10. \A k \in 1 .. Len(Popped) : /\ Popped[k].p \in Idx /\ Popped[k].p <= Top.p
                                   /\ Popped[k].chunk \in 1 .. Len(AfterReturn)
  BY <1>3, CallPlaces
<1>11. NULL \notin Live(AfterReturn) /\ Result \in Nat
  <2>1. Len(chunks) \in Nat
    BY <1>2, LenProperties
  <2> QED
    BY <1>3, <2>1, LiveIn
<1> QED
  BY <1>3, <1>4, <1>8, <1>9, <1>10, <1>11

\* The lr stack of the activations that wait.
LEMMA StackReturned ==
  ASSUME IInv, OInv, At("ret") \/ At("fail"), NEW bs, SameMarkers(Popped, answers, bs),
         NEW ms, Top.mode = "first" => ms = PopLR, Top.mode # "first" => ms = lrstack
  PROVE  /\ StackOK(ms, Popped, bs) /\ Len(ms) \in Nat
         /\ \A n \in 1 .. Len(ms) : ms[n] \in Live(entries)
<1>0. phase = "running" /\ frames # <<>> /\ frames \in Seq(FrameRec)
  BY DEF At, IInv, TypeOK
<1>1. phase = "running" /\ frames # <<>> /\ frames \in Seq(FrameRec) /\ lrstack \in Seq(Nat)
  BY <1>0 DEF IInv, TypeOK
<1>2. /\ Len(frames) \in Nat /\ Len(frames) > 0 /\ Top = frames[Len(frames)]
      /\ Len(lrstack) \in Nat
  BY <1>1, NotEmpty, LenProperties DEF Top
<1>3. /\ Len(Popped) = Len(frames) - 1
      /\ \A k \in 1 .. Len(Popped) : Popped[k] = frames[k]
  BY ONLY <1>0, PopType DEF Popped
<1>4. StackOK(lrstack, frames, answers) /\ \A n \in 1 .. Len(lrstack) : lrstack[n] \in Live(entries)
  BY <1>1 DEF OInv, StackSound
<1>5. ASSUME Top.mode = "first"
      PROVE  Lowered(lrstack, ms) /\ Len(ms) \in Nat
  <2>1. lrstack # <<>>
    <3>1. frames[Len(frames)].mode = "first" /\ Len(frames) \in 1 .. Len(frames)
      BY <1>2, <1>5
    <3>2. \E n \in 1 .. Len(lrstack) : Stacked(lrstack, frames, answers, n, Len(frames))
      BY <1>4, <3>1 DEF StackOK
    <3> QED
      BY <1>2, <3>2, EmptySeq
  <2>2. ms = SubSeq(lrstack, 1, Len(lrstack) - 1)
    BY <1>5 DEF PopLR
  <2> DEFINE S == Nat
  <2>3. lrstack \in Seq(S)
    BY <1>1
  <2> HIDE DEF S
  <2>4. Len(ms) = Len(lrstack) - 1 /\ \A j \in 1 .. Len(ms) : ms[j] = lrstack[j]
    BY ONLY <2>1, <2>2, <2>3, PopType
  <2>5. Len(lrstack) > 0
    BY <1>1, <2>1, NotEmpty
  <2> QED
    BY <1>2, <2>4, <2>5 DEF Lowered
<1>6. /\ frames[Len(frames)].mode = "first" => Lowered(lrstack, ms)
      /\ frames[Len(frames)].mode # "first" => ms = lrstack
      /\ SameMarkers(Popped, answers, bs)
  BY <1>2, <1>5
<1>7. StackOK(ms, Popped, bs)
  BY ONLY <1>2, <1>3, <1>4, <1>6, StackPop
<1>8. Len(ms) \in Nat /\ \A n \in 1 .. Len(ms) : n \in 1 .. Len(lrstack) /\ ms[n] = lrstack[n]
  BY <1>2, <1>5 DEF Lowered
<1> QED
  BY <1>4, <1>7, <1>8

\* An answer for the result of the evaluation joins the others.
Adopted == Append(answers, NewAnswer("CHUNK", Top.rule, Top.p, Reached, NULL, Result))

LEMMA AdoptedOwned ==
  ASSUME IInv, OInv, At("ret") \/ At("fail"), NEW m, m = Len(answers) + 1
  PROVE  /\ Adopted \in Seq(AnswerRec) /\ Len(Adopted) = m /\ m \in Nat
         /\ \A j \in 1 .. Len(answers) : Adopted[j] = answers[j]
         /\ Adopted[m].type = "CHUNK" /\ Adopted[m].lr = NULL /\ Adopted[m].chunk = Result
         /\ Adopted[m].live = TRUE /\ Live(Adopted) = Live(answers) \cup {m}
         /\ Joined(table, Held(Top.p), Top.p, m)
         /\ World(Held(Top.p), Adopted, entries, AfterReturn, heads, Popped, NULL)
         /\ Result # NULL => ChunkFrom(Result, Top.p, Held(Top.p), Adopted)
         /\ SameMarkers(Popped, answers, Adopted)
<1> DEFINE b == NewAnswer("CHUNK", Top.rule, Top.p, Reached, NULL, Result)
<1>1. b \in AnswerRec
  BY Returned, ResultAnswer
<1>2. b.type = "CHUNK" /\ b.lr = NULL /\ b.chunk = Result /\ b.live = TRUE
  BY DEF NewAnswer
<1>3. Adopted = Append(answers, b) /\ answers \in Seq(AnswerRec)
  BY DEF Adopted, IInv, TypeOK
<1> HIDE DEF b
<1>4. /\ Len(answers) \in Nat /\ Adopted \in Seq(AnswerRec) /\ Len(Adopted) = Len(answers) + 1
      /\ Adopted[Len(answers) + 1] = b
      /\ \A j \in 1 .. Len(answers) : Adopted[j] = answers[j]
  BY ONLY <1>1, <1>3, Appended
<1>5. /\ m = Len(Adopted) /\ m \in Nat /\ Adopted[m] = b /\ Adopted[m].live = TRUE
  BY <1>2, <1>4
<1>6. /\ Made(answers, Adopted, m) /\ m # NULL
      /\ \A a \in Live(answers) : Adopted[a] = answers[a]
  BY ZenonT(30), <1>3, <1>4, <1>5, HeapAppend
<1>7. Joined(table, Held(Top.p), Top.p, m)
  <2> DEFINE p == Top.p
             u == Held(Top.p)
  <2>1. /\ p \in Idx /\ u = [table EXCEPT ![p].held = @ \cup {m}]
        /\ table \in [Idx -> TableRec]
    BY HandedOver DEF Held, IInv, TypeOK
  <2> HIDE DEF p, u
  <2>2. \A i \in Idx : /\ u[i].memos = table[i].memos /\ u[i].heads = table[i].heads
                       /\ u[i].head = table[i].head
                       /\ u[i].held = IF i = p THEN table[i].held \cup {m} ELSE table[i].held
    BY ONLY <2>1 DEF TableRec
  <2>3. Joined(table, u, p, m)
    BY ONLY <2>1, <2>2 DEF Joined, Kept
  <2> QED
    BY <2>3 DEF p, u
<1>8. /\ Top.p \in Idx /\ \A k \in 1 .. Len(Popped) : Popped[k].p \in Idx
      /\ World(table, answers, entries, AfterReturn, heads, Popped, Result)
      /\ Result # NULL => ThunksFrom(AfterReturn, Result, Top.p, table, answers)
      /\ NULL \notin Live(AfterReturn)
  BY HandedOver
<1>9. Adopted[m].type = "CHUNK" /\ Adopted[m].chunk = Result
  BY <1>2, <1>5
<1> DEFINE u == Held(Top.p)
           p == Top.p
<1>10. /\ World(u, Adopted, entries, AfterReturn, heads, Popped, NULL)
       /\ Result # NULL => ChunkFrom(Result, p, u, Adopted)
  <2>1. /\ p \in Idx /\ Joined(table, u, p, m)
        /\ Result # NULL => ThunksFrom(AfterReturn, Result, p, table, answers)
    BY <1>7, <1>8
  <2> HIDE DEF u, p
  <2> QED
    BY ONLY <1>6, <1>8, <1>9, <2>1, WorldAdopt
<1>11. SameMarkers(Popped, answers, Adopted)
  BY ONLY <1>6, <1>8, MarkersStay
<1> QED
  BY <1>2, <1>4, <1>5, <1>6, <1>7, <1>10, <1>11 DEF Made

\* In bs the answer of the activation has taken the result, and a new answer keeps
\* what it had.
Settled(bs) ==
  /\ bs \in Seq(AnswerRec) /\ Len(bs) = Len(answers) + 1
  /\ SameData(Adopted, Len(answers) + 1, bs, Top.ans)
  /\ SameData(answers, Top.ans, bs, Len(answers) + 1)
  /\ bs[Top.ans].live = answers[Top.ans].live
  /\ bs[Len(answers) + 1].live = answers[Top.ans].live
  /\ \A j \in 1 .. Len(answers) : j # Top.ans => bs[j] = answers[j]

\* In bs a new answer has taken the result; that of the activation has what it had.
Aside(bs) ==
  /\ bs \in Seq(AnswerRec) /\ Len(bs) = Len(answers) + 1
  /\ SameData(answers, Top.ans, bs, Top.ans)
  /\ SameData(Adopted, Len(answers) + 1, bs, Len(answers) + 1)
  /\ bs[Top.ans].live = answers[Top.ans].live
  /\ bs[Len(answers) + 1].live = TRUE
  /\ \A j \in 1 .. Len(answers) : j # Top.ans => bs[j] = answers[j]

\* Either way the result is owned, and so is what the activation's answer owned.
LEMMA ResultOwned ==
  ASSUME IInv, OInv, At("ret") \/ At("fail"), Top.mode # "eval",
         NEW bs, Settled(bs) \/ Aside(bs)
  PROVE  /\ World(Held(Top.p), bs, entries, AfterReturn, heads, Popped, NULL)
         /\ Result # NULL => ChunkFrom(Result, Top.p, Held(Top.p), bs)
         /\ SameMarkers(Popped, answers, bs)
         /\ Top.ans \in Kept(Held(Top.p), Top.p)
         /\ Top.mode = "first" =>
              \E a \in Kept(Held(Top.p), Top.p) : OwnsEntry(bs, a, OwnEntry)
<1> DEFINE m == Len(answers) + 1
           x == Top.ans
           p == Top.p
           u == Held(Top.p)
<1>1. /\ Adopted \in Seq(AnswerRec) /\ Len(Adopted) = m /\ m \in Nat
      /\ \A j \in 1 .. Len(answers) : Adopted[j] = answers[j]
      /\ Adopted[m].live = TRUE /\ Live(Adopted) = Live(answers) \cup {m}
      /\ Joined(table, u, p, m)
      /\ World(u, Adopted, entries, AfterReturn, heads, Popped, NULL)
      /\ Result # NULL => ChunkFrom(Result, p, u, Adopted)
      /\ SameMarkers(Popped, answers, Adopted)
  BY AdoptedOwned
<1>2. /\ x \in Kept(table, p) /\ p \in Idx
      /\ \A k \in 1 .. Len(Popped) : Popped[k].p \in Idx
      /\ World(table, answers, entries, AfterReturn, heads, Popped, Result)
  BY HandedOver
<1>3. x \in 1 .. Len(answers) /\ Len(answers) \in Nat
  BY OwnAnswer, Numbers
<1>4. x \in Live(answers)
  BY <1>2 DEF World, Housed
<1>5. answers \in Seq(AnswerRec)
  BY DEF IInv, TypeOK
<1>6. answers[x].live
  BY <1>4 DEF Live
<1>7. Top.mode = "first" => answers[x].type = "LR" /\ answers[x].lr = OwnEntry
  <2>1. Answering(Top, answers)
    BY Running DEF At
  <2> QED
    BY <2>1 DEF Answering, OwnEntry
<1>8. \A k \in 1 .. Len(Popped) : Popped[k].ans # x
  BY Returned
<1>9. \A k \in 1 .. Len(Popped) : Popped[k].mode = "first" => Popped[k].ans \in 1 .. Len(answers)
  <2>1. CallsOK(Popped, pos, bufn, Top.p, Len(chunks), answers)
    BY Returned
  <2> QED
    BY <2>1 DEF CallsOK, Answering
<1>10. /\ bs \in Seq(AnswerRec) /\ Len(bs) = m
       /\ \A j \in 1 .. Len(answers) : j # x => bs[j] = answers[j]
       /\ bs[x].live /\ bs[m].live
  BY <1>6 DEF Settled, Aside
<1>11. \/ SameData(Adopted, m, bs, x) /\ SameData(answers, x, bs, m)
       \/ SameData(answers, x, bs, x) /\ SameData(Adopted, m, bs, m)
  BY DEF Settled, Aside
<1> HIDE DEF m, x, p, u
<1>12. x # m /\ x \in Kept(u, p) /\ m \in Kept(u, p)
  <2>1. x # m
    BY <1>3 DEF m
  <2>2. Kept(u, p) = Kept(table, p) \cup {m}
    BY <1>1, <1>2 DEF Joined
  <2> QED
    BY <1>2, <2>1, <2>2
<1>13. Live(bs) = Live(Adopted)
  <2>1. /\ Live(bs) = {a \in 1 .. m : bs[a].live}
        /\ Live(Adopted) = {a \in 1 .. m : Adopted[a].live}
    BY ONLY <1>1, <1>10, LiveIn
  <2>2. \A a \in 1 .. m : a \in 1 .. Len(answers) \/ a = m
    BY <1>3 DEF m
  <2>3. \A a \in 1 .. m : bs[a].live <=> Adopted[a].live
    BY <1>1, <1>3, <1>6, <1>10, <2>2
  <2> QED
    BY <2>1, <2>3
<1>14. OthersSame(Adopted, bs, x, m)
  <2>1. Live(answers) \subseteq 1 .. Len(answers)
    BY <1>5, LiveIn
  <2> QED
    BY <1>1, <1>10, <2>1 DEF SameData, OthersSame
<1>15. /\ World(u, bs, entries, AfterReturn, heads, Popped, NULL)
       /\ \A c, i : ChunkFrom(c, i, u, Adopted) => ChunkFrom(c, i, u, bs)
  <2>1. Adopted[x] = answers[x]
    BY <1>1, <1>3
  <2>2. CASE SameData(Adopted, m, bs, x) /\ SameData(answers, x, bs, m)
    <3>1. SameData(Adopted, x, bs, m) /\ SameData(Adopted, m, bs, x)
      BY <2>1, <2>2 DEF SameData
    <3> QED
      BY ONLY <1>1, <1>2, <1>12, <1>13, <1>14, <3>1, WorldExchange
  <2>3. CASE SameData(answers, x, bs, x) /\ SameData(Adopted, m, bs, m)
    <3>1. SameData(Adopted, x, bs, x) /\ SameData(Adopted, m, bs, m)
      BY <2>1, <2>3 DEF SameData
    <3>2. OthersSame(Adopted, bs, x, x)
      BY <1>14, <3>1 DEF OthersSame
    <3> QED
      BY ONLY <1>1, <1>2, <1>12, <1>13, <3>1, <3>2, WorldExchange
  <2> QED
    BY <1>11, <2>2, <2>3
<1>16. SameMarkers(Popped, answers, bs)
  BY <1>8, <1>9, <1>10 DEF SameMarkers
<1>17. Top.mode = "first" => OwnsEntry(bs, x, OwnEntry) \/ OwnsEntry(bs, m, OwnEntry)
  BY <1>7, <1>11 DEF OwnsEntry, SameData
<1> QED
  BY <1>1, <1>12, <1>15, <1>16, <1>17 DEF u, p, x

\* The element of an answer that takes the chunk c.
LEMMA ChunkTaken ==
  ASSUME NEW ans \in Seq(AnswerRec), NEW a \in 1 .. Len(ans), NEW c \in Nat,
         NEW bs, bs = WithChunk(ans, a, c)
  PROVE  /\ bs \in Seq(AnswerRec) /\ Len(bs) = Len(ans) + 1
         /\ bs[a].type = "CHUNK" /\ bs[a].lr = NULL /\ bs[a].chunk = c
         /\ bs[a].live = ans[a].live /\ bs[Len(ans) + 1] = ans[a]
         /\ \A j \in 1 .. Len(ans) : j # a => bs[j] = ans[j]
<1>1. ans[a] \in AnswerRec
  BY ElementOfSeq
<1>2. PICK b \in AnswerRec : b = [ans[a] EXCEPT !.type = "CHUNK", !.lr = NULL, !.chunk = c]
  <2> DEFINE d == ans[a]
  <2>1. NULL \in Nat /\ d \in AnswerRec
    BY <1>1 DEF NULL
  <2> HIDE DEF d
  <2>2. [d EXCEPT !.type = "CHUNK", !.lr = NULL, !.chunk = c] \in AnswerRec
    BY <2>1 DEF AnswerRec
  <2> QED
    BY <2>2 DEF d
<1>3. b.lr = NULL /\ b.chunk = c /\ b.type = "CHUNK" /\ b.live = ans[a].live
  BY <1>1, <1>2 DEF AnswerRec
<1>4. PICK d \in AnswerRec : d = ans[a]
  BY <1>1
<1> DEFINE ds == [ans EXCEPT ![a] = b]
<1>5. bs = Append(ds, d)
  BY <1>2, <1>4 DEF WithChunk
<1>6. /\ Len(ans) \in Nat /\ ds \in Seq(AnswerRec) /\ Len(ds) = Len(ans)
      /\ \A j \in 1 .. Len(ans) : ds[j] = IF j = a THEN b ELSE ans[j]
  <2>1. ans \in Seq(AnswerRec) /\ a \in 1 .. Len(ans) /\ b \in AnswerRec
    OBVIOUS
  <2>2. ds = [ans EXCEPT ![a] = b]
    OBVIOUS
  <2> HIDE DEF ds
  <2> QED
    BY ONLY <2>1, <2>2, Replaced
<1> HIDE DEF ds
<1>7. /\ bs \in Seq(AnswerRec) /\ Len(bs) = Len(ds) + 1 /\ bs[Len(ds) + 1] = d
      /\ \A j \in 1 .. Len(ds) : bs[j] = ds[j]
  <2>1. ds \in Seq(AnswerRec) /\ d \in AnswerRec
    BY <1>6
  <2> QED
    BY ONLY <1>5, <2>1, Appended
<1>8. bs[a] = b
  BY <1>6, <1>7
<1> QED
  BY <1>3, <1>4, <1>6, <1>7, <1>8

\* The end of an answer changes.
EndSet(ans, bs, a, q) == bs = [ans EXCEPT ![a].pos = q]

LEMMA EndMoved ==
  ASSUME NEW ans \in Seq(AnswerRec), NEW a \in 1 .. Len(ans), NEW q \in Nat,
         NEW bs, EndSet(ans, bs, a, q)
  PROVE  /\ bs \in Seq(AnswerRec) /\ Len(bs) = Len(ans)
         /\ SameData(ans, a, bs, a) /\ bs[a].live = ans[a].live
         /\ \A j \in 1 .. Len(ans) : j # a => bs[j] = ans[j]
<1>1. ans[a] \in AnswerRec
  BY ElementOfSeq
<1>2. PICK b \in AnswerRec : b = [ans[a] EXCEPT !.pos = q]
  BY <1>1 DEF AnswerRec
<1>3. /\ b.lr = ans[a].lr /\ b.chunk = ans[a].chunk /\ b.type = ans[a].type
      /\ b.live = ans[a].live
  BY <1>1, <1>2 DEF AnswerRec
<1>4. bs = [ans EXCEPT ![a] = b]
  BY <1>2 DEF EndSet
<1>5. ans \in Seq(AnswerRec) /\ a \in 1 .. Len(ans) /\ b \in AnswerRec
  OBVIOUS
<1>6. /\ bs \in Seq(AnswerRec) /\ Len(bs) = Len(ans)
      /\ \A j \in 1 .. Len(ans) : bs[j] = IF j = a THEN b ELSE ans[j]
  BY ONLY <1>4, <1>5, Replaced
<1> QED
  BY <1>3, <1>6 DEF SameData

\* pcc_lr_answer__set_chunk settles an answer, whether its end is set before or after.
LEMMA SettledSo ==
  ASSUME IInv, OInv, At("ret") \/ At("fail"), Top.mode # "eval", NEW bs,
         \/ bs = WithChunk(Moved, Top.ans, Result)
         \/ bs = [WithChunk(answers, Top.ans, Result) EXCEPT ![Top.ans].pos = Reached]
  PROVE  Settled(bs)
<1> DEFINE n == Len(answers)
           m == n + 1
           x == Top.ans
<1>1. answers \in Seq(AnswerRec) /\ n \in Nat /\ Reached \in Nat
  BY Returned, Numbers DEF IInv, TypeOK
<1>2. PICK a \in 1 .. n : a = x
  BY OwnAnswer
<1>3. a \in Nat /\ a # m /\ m \in 1 .. m /\ a \in 1 .. m /\ \A j \in 1 .. n : j \in 1 .. m /\ j # m
  BY <1>1
<1>4. Result \in Nat /\ Adopted[m].type = "CHUNK" /\ Adopted[m].lr = NULL
      /\ Adopted[m].chunk = Result
  BY HandedOver, AdoptedOwned
<1> DEFINE r == Result
           q == Reached
           ms == [answers EXCEPT ![a].pos = q]
           ws == WithChunk(answers, a, r)
<1>5. \/ bs = WithChunk(ms, a, r)
      \/ bs = [ws EXCEPT ![a].pos = q]
  BY <1>2 DEF Moved
<1>6. /\ ms \in Seq(AnswerRec) /\ Len(ms) = n
      /\ SameData(answers, a, ms, a) /\ ms[a].live = answers[a].live
      /\ \A j \in 1 .. n : j # a => ms[j] = answers[j]
  <2>1. EndSet(answers, ms, a, q) /\ q \in Nat /\ a \in 1 .. Len(answers)
    BY <1>1 DEF EndSet
  <2> HIDE DEF ms, q
  <2> QED
    BY ONLY <1>1, <2>1, EndMoved
<1>7. /\ ws \in Seq(AnswerRec) /\ Len(ws) = m
      /\ ws[a].type = "CHUNK" /\ ws[a].lr = NULL /\ ws[a].chunk = r
      /\ ws[a].live = answers[a].live /\ ws[m] = answers[a]
      /\ \A j \in 1 .. n : j # a => ws[j] = answers[j]
  BY <1>1, <1>4, ChunkTaken
<1> HIDE DEF ms, ws, r, q, m, n
<1>8. /\ bs \in Seq(AnswerRec) /\ Len(bs) = m
      /\ bs[a].type = "CHUNK" /\ bs[a].lr = NULL /\ bs[a].chunk = r
      /\ bs[a].live = answers[a].live /\ SameData(answers, a, bs, m)
      /\ bs[m].live = answers[a].live
      /\ \A j \in 1 .. n : j # a => bs[j] = answers[j]
  <2>1. CASE bs = WithChunk(ms, a, r)
    <3>1. a \in 1 .. Len(ms) /\ r \in Nat /\ Len(ms) + 1 = m
      BY <1>2, <1>4, <1>6 DEF r, m
    <3>2. /\ bs \in Seq(AnswerRec) /\ Len(bs) = Len(ms) + 1
          /\ bs[a].type = "CHUNK" /\ bs[a].lr = NULL /\ bs[a].chunk = r
          /\ bs[a].live = ms[a].live /\ bs[Len(ms) + 1] = ms[a]
          /\ \A j \in 1 .. Len(ms) : j # a => bs[j] = ms[j]
      BY ONLY <1>6, <2>1, <3>1, ChunkTaken
    <3>3. bs[m] = ms[a] /\ \A j \in 1 .. n : j # a => bs[j] = answers[j]
      BY <1>6, <3>1, <3>2
    <3> QED
      BY <1>6, <3>1, <3>2, <3>3 DEF SameData
  <2>2. CASE bs = [ws EXCEPT ![a].pos = q]
    <3>1. a \in 1 .. Len(ws) /\ q \in Nat /\ ws \in Seq(AnswerRec) /\ EndSet(ws, bs, a, q)
      BY <1>1, <1>3, <1>7, <2>2 DEF q, EndSet
    <3>2. /\ bs \in Seq(AnswerRec) /\ Len(bs) = Len(ws)
          /\ SameData(ws, a, bs, a) /\ bs[a].live = ws[a].live
          /\ \A j \in 1 .. Len(ws) : j # a => bs[j] = ws[j]
      BY ONLY <3>1, EndMoved
    <3>3. bs[m] = answers[a] /\ \A j \in 1 .. n : j # a => bs[j] = answers[j]
      BY <1>3, <1>7, <3>2
    <3> QED
      BY <1>7, <3>2, <3>3 DEF SameData
  <2> QED
    BY <1>5, <2>1, <2>2
<1> QED
  BY <1>2, <1>4, <1>8 DEF Settled, SameData, r, m, n, x

\* The chunk c, if any, was found at position p or behind it.
SeedFrom(c, p, t, as) == c # NULL => ChunkFrom(c, p, t, as)

\* A seed for the lr entry n, which an answer that is kept at position p owns.
LEMMA SeedOwned ==
  ASSUME NEW t, NEW as, NEW es, NEW cs, NEW hs, NEW fs, NEW hand,
         World(t, as, es, cs, hs, fs, hand),
         NEW p \in Idx, NEW a \in Kept(t, p), NEW n, OwnsEntry(as, a, n),
         NEW c, SeedFrom(c, p, t, as),
         NEW ds, SeedGiven(es, ds, n, c)
  PROVE  World(t, as, ds, cs, hs, fs, hand) /\ Live(ds) = Live(es)
         /\ (es[n].head # NULL => HeadFrom(es[n].head, p, t))
<1>1. EntryForward(n, p, t, as, es)
  BY KeptEntry DEF OwnsEntry
<1>2. EntryForward(n, p, t, as, ds)
  BY <1>1 DEF EntryForward, SeedGiven, SeedFrom
<1>3. Live(ds) = Live(es) /\ \A e \in Live(es) : e # n => ds[e] = es[e]
  BY DEF SeedGiven
<1>4. World(t, as, ds, cs, hs, fs, hand)
  BY <1>2, <1>3, WorldEntry
<1> QED
  BY <1>1, <1>3, <1>4 DEF EntryForward

\* The entry of the returning activation gets the result as its seed.
LEMMA SeedReturned ==
  ASSUME IInv, OInv, At("ret") \/ At("fail"), Top.mode = "first",
         NEW bs, Settled(bs) \/ Aside(bs)
  PROVE  /\ World(Held(Top.p), bs, Seeded(Result), AfterReturn, heads, Popped, NULL)
         /\ Live(Seeded(Result)) = Live(entries)
         /\ OwnHead # NULL => HeadFrom(OwnHead, Top.p, Held(Top.p))
<1> DEFINE u == Held(Top.p)
           p == Top.p
           n == OwnEntry
           c == Result
           ds == Seeded(Result)
<1>1. p \in Idx /\ c \in Nat
  BY HandedOver
<1>2. Top.mode # "eval"
  OBVIOUS
<1>3. /\ World(u, bs, entries, AfterReturn, heads, Popped, NULL)
      /\ SeedFrom(c, p, u, bs)
  BY <1>2, ResultOwned DEF SeedFrom
<1>4. PICK a \in Kept(u, p) : OwnsEntry(bs, a, n)
  BY <1>2, ResultOwned
<1>5. PICK i \in 1 .. Len(entries) : i = n
  BY <1>2, OwnAnswer
<1>6. ds = [entries EXCEPT ![i].seed = c] /\ entries \in Seq(EntryRec)
  BY <1>5 DEF Seeded, IInv, TypeOK
<1>7. OwnHead = entries[n].head
  BY DEF OwnHead
<1> HIDE DEF u, p, n, c, ds
<1>8. SeedGiven(entries, ds, i, c)
  BY ONLY <1>1, <1>6, EntrySeed
<1>9. SeedGiven(entries, ds, n, c)
  BY <1>5, <1>8
<1>10. /\ World(u, bs, ds, AfterReturn, heads, Popped, NULL)
       /\ Live(ds) = Live(entries)
       /\ entries[n].head # NULL => HeadFrom(entries[n].head, p, u)
  BY ONLY <1>1, <1>3, <1>4, <1>9, SeedOwned
<1> QED
  BY <1>7, <1>10 DEF u, p, ds

\* The evaluation returns to its caller.
LEMMA ReturnDelivers ==
  ASSUME IInv, OInv, At("ret") \/ At("fail"),
         World(table', answers', entries', AfterReturn, heads, Popped, NULL),
         heads' = heads, Live(entries') = Live(entries),
         Result # NULL => ChunkFrom(Result, Top.p, table', answers'),
         SameMarkers(Popped, answers, answers'),
         Top.mode = "first" => lrstack' = PopLR, Top.mode # "first" => lrstack' = lrstack,
         Deliver(Popped, AfterReturn, Result)
  PROVE  OInv'
<1> DEFINE i == Top.p
           ls == lrstack'
           bs == answers'
<1>1. /\ thunks = <<>> /\ i \in Idx /\ AfterReturn \in Seq(ChunkRec) /\ Result \in Nat
      /\ Popped \in Seq(FrameRec) /\ Resumable(Popped)
      /\ \A k \in 1 .. Len(Popped) : /\ Popped[k].p \in Idx /\ Popped[k].p <= i
                                     /\ Popped[k].chunk \in 1 .. Len(AfterReturn)
  BY HandedOver
<1>2. /\ Top.mode = "first" => ls = PopLR
      /\ Top.mode # "first" => ls = lrstack
      /\ SameMarkers(Popped, answers, bs)
  OBVIOUS
<1> HIDE DEF ls, bs
<1>3. StackOK(ls, Popped, bs) /\ \A n \in 1 .. Len(ls) : ls[n] \in Live(entries)
  BY <1>2, StackReturned
<1>4. /\ StackOK(lrstack', Popped, answers')
      /\ \A n \in 1 .. Len(lrstack') : lrstack'[n] \in Live(entries')
  BY <1>3 DEF ls, bs
<1>5. /\ World(table', answers', entries', AfterReturn, heads', Popped, NULL)
      /\ Result # NULL => ChunkFrom(Result, i, table', answers')
      /\ Deliver(Popped, AfterReturn, Result)
  OBVIOUS
<1> HIDE DEF i
<1> QED
  BY ONLY <1>1, <1>4, <1>5, DeliverOwned

\* A re-evaluation returns.
LEMMA ReturnReevaluatedOwned ==
  ASSUME IInv, OInv, ReturnReevaluated PROVE OInv'
<1>1. /\ At("ret") \/ At("fail")
      /\ Top.mode = "eval" /\ answers' = Adopted /\ table' = Held(Top.p)
      /\ Deliver(Popped, AfterReturn, Result)
      /\ lrstack' = lrstack /\ entries' = entries /\ heads' = heads
  BY DEF ReturnReevaluated, Returning, Adopted
<1>2. /\ World(Held(Top.p), Adopted, entries, AfterReturn, heads, Popped, NULL)
      /\ Result # NULL => ChunkFrom(Result, Top.p, Held(Top.p), Adopted)
      /\ SameMarkers(Popped, answers, Adopted)
  BY <1>1, AdoptedOwned
<1> QED
  BY <1>1, <1>2, ReturnDelivers

\* A rule returns that was in no left recursion.
LEMMA ReturnPlainOwned ==
  ASSUME IInv, OInv, ReturnPlain PROVE OInv'
<1>1. /\ At("ret") \/ At("fail")
      /\ Top.mode = "first" /\ Top.mode # "eval"
      /\ answers' = WithChunk(Moved, Top.ans, Result)
      /\ table' = Held(Top.p) /\ Deliver(Popped, AfterReturn, Result)
      /\ lrstack' = PopLR /\ entries' = entries /\ heads' = heads
  BY DEF ReturnPlain, Returning, Moved
<1>2. Settled(answers')
  BY <1>1, SettledSo
<1>3. /\ World(Held(Top.p), answers', entries, AfterReturn, heads, Popped, NULL)
      /\ Result # NULL => ChunkFrom(Result, Top.p, Held(Top.p), answers')
      /\ SameMarkers(Popped, answers, answers')
  BY <1>1, <1>2, ResultOwned
<1> QED
  BY <1>1, <1>3, ReturnDelivers

\* The head of a left recursion returns without a seed.
LEMMA ReturnNoSeedOwned ==
  ASSUME IInv, OInv, ReturnNoSeed PROVE OInv'
<1>1. /\ At("ret") \/ At("fail")
      /\ Top.mode = "first" /\ Top.mode # "eval" /\ Result = NULL
      /\ answers' = WithChunk(Moved, Top.ans, Result)
      /\ table' = Held(Top.p) /\ Deliver(Popped, AfterReturn, Result)
      /\ lrstack' = PopLR /\ entries' = Seeded(Result) /\ heads' = heads
  BY DEF ReturnNoSeed, Returning, Moved, Seeded
<1>2. Settled(answers')
  BY <1>1, SettledSo
<1>3. SameMarkers(Popped, answers, answers')
  BY <1>1, <1>2, ResultOwned
<1>4. /\ World(Held(Top.p), answers', Seeded(Result), AfterReturn, heads, Popped, NULL)
      /\ Live(Seeded(Result)) = Live(entries)
  BY <1>1, <1>2, SeedReturned
<1> QED
  BY <1>1, <1>3, <1>4, ReturnDelivers

\* An involved rule returns: what it recognized becomes the seed.
LEMMA ReturnInvolvedOwned ==
  ASSUME IInv, OInv, ReturnInvolved PROVE OInv'
<1> DEFINE b == NewAnswer("CHUNK", Top.rule, Top.p, Reached, NULL, Result)
<1>1. /\ At("ret") \/ At("fail")
      /\ Top.mode = "first" /\ Top.mode # "eval"
      /\ table' = Held(Top.p) /\ Deliver(Popped, AfterReturn, Result)
      /\ lrstack' = PopLR /\ entries' = Seeded(Result) /\ heads' = heads
  BY DEF ReturnInvolved, Returning, Moved, Seeded
<1>2. answers' = Append(Moved, b)
  BY DEF ReturnInvolved, Moved
<1>3. Aside(answers')
  <2> DEFINE n == Len(answers)
             m == n + 1
             bs == answers'
  <2>1. answers \in Seq(AnswerRec) /\ n \in Nat /\ Reached \in Nat
    BY <1>1, Returned, Numbers DEF IInv, TypeOK
  <2>2. PICK a \in 1 .. n : a = Top.ans
    BY <1>1, OwnAnswer
  <2>3. EndSet(answers, Moved, a, Reached) /\ a \in 1 .. Len(answers)
    BY <2>2 DEF EndSet, Moved
  <2>4. /\ Moved \in Seq(AnswerRec) /\ Len(Moved) = n
        /\ SameData(answers, a, Moved, a) /\ Moved[a].live = answers[a].live
        /\ \A j \in 1 .. n : j # a => Moved[j] = answers[j]
    BY ONLY <2>1, <2>3, EndMoved
  <2>5. b \in AnswerRec
    BY <1>1, Returned, ResultAnswer
  <2>6. b.type = "CHUNK" /\ b.lr = NULL /\ b.chunk = Result /\ b.live = TRUE
    BY DEF NewAnswer
  <2>7. /\ Adopted[m].type = "CHUNK" /\ Adopted[m].lr = NULL /\ Adopted[m].chunk = Result
    BY <1>1, AdoptedOwned
  <2> HIDE DEF b, n, m, bs
  <2>8. /\ bs \in Seq(AnswerRec) /\ Len(bs) = Len(Moved) + 1 /\ bs[Len(Moved) + 1] = b
        /\ \A j \in 1 .. Len(Moved) : bs[j] = Moved[j]
    <3>1. bs = Append(Moved, b) /\ Moved \in Seq(AnswerRec)
      BY <1>2, <2>4 DEF bs
    <3> QED
      BY ONLY <2>5, <3>1, Appended
  <2>9. /\ bs \in Seq(AnswerRec) /\ Len(bs) = m /\ bs[m] = b
        /\ SameData(answers, a, bs, a) /\ bs[a].live = answers[a].live
        /\ \A j \in 1 .. n : j # a => bs[j] = answers[j]
    BY <2>4, <2>8 DEF m, SameData
  <2> QED
    BY <2>2, <2>6, <2>7, <2>9 DEF Aside, SameData, bs, m, n
<1> HIDE DEF b
<1>4. /\ SameMarkers(Popped, answers, answers')
      /\ Result # NULL => ChunkFrom(Result, Top.p, Held(Top.p), answers')
  BY <1>1, <1>3, ResultOwned
<1>5. /\ World(Held(Top.p), answers', Seeded(Result), AfterReturn, heads, Popped, NULL)
      /\ Live(Seeded(Result)) = Live(entries)
  BY <1>1, <1>3, SeedReturned
<1>6. /\ World(table', answers', entries', AfterReturn, heads, Popped, NULL)
      /\ Live(entries') = Live(entries)
      /\ Result # NULL => ChunkFrom(Result, Top.p, table', answers')
  BY <1>1, <1>4, <1>5
<1> QED
  BY <1>1, <1>4, <1>6, ReturnDelivers

-----------------------------------------------------------------------------
(* pcc_apply_rule: the growing of a seed.                                   *)

\* Growing begins another turn: the rules of the head are to be evaluated again.
LEMMA HeadsAgainLive ==
  ASSUME NEW hs \in Seq(HeadRec), NEW h \in Nat,
         NEW gs, gs = [hs EXCEPT ![h].eval = hs[h].invol]
  PROVE  Live(gs) = Live(hs)
<1>1. CASE h \in 1 .. Len(hs)
  <2> DEFINE s == hs[h].invol
  <2>1. s \in Seq(Rule)
    BY <1>1, ElementOfSeq, HeadFields
  <2>2. gs = [hs EXCEPT ![h].eval = s]
    OBVIOUS
  <2> HIDE DEF s
  <2>3. gs = [hs EXCEPT ![h].invol = s] \/ gs = [hs EXCEPT ![h].eval = s]
    BY <2>2
  <2>4. hs \in Seq(HeadRec) /\ h \in 1 .. Len(hs)
    BY <1>1
  <2> QED
    BY ONLY <2>1, <2>3, <2>4, SetsPut
<1>2. CASE h \notin 1 .. Len(hs)
  <2>1. /\ Len(hs) \in Nat /\ DOMAIN hs = 1 .. Len(hs)
        /\ hs = [j \in 1 .. Len(hs) |-> hs[j]]
    BY LenProperties
  <2>2. gs = hs
    BY <1>2, <2>1
  <2> QED
    BY <2>2
<1> QED
  BY <1>1, <1>2

LEMMA GrowOwned ==
  ASSUME IInv, OInv, At("ret") \/ At("fail"), Top.mode # "eval",
         NEW h \in Nat, GrowTurn(Top.ans, h),
         World(table', answers', entries', AfterReturn, heads, Popped, NULL),
         Live(entries') = Live(entries), thunks' = thunks,
         Top.ans \in Kept(table', Top.p),
         h # NULL => HeadFrom(h, 0, table'),
         SameMarkers(Popped, answers, answers'),
         Top.mode = "first" => lrstack' = PopLR, Top.mode # "first" => lrstack' = lrstack
  PROVE  OInv'
<1> DEFINE mode == "grow"
           at == Top.p - pos
           p == Top.p
           a == Top.ans
           r == Top.rule
           ls == lrstack'
           bs == answers'
<1>1. /\ heads' = [heads EXCEPT ![h].eval = heads[h].invol] /\ heads \in Seq(HeadRec)
      /\ Evaluate(Popped, AfterReturn, r, p, mode, a, h, at)
  BY DEF GrowTurn, IInv, TypeOK
<1>2. Live(heads') = Live(heads)
  BY <1>1, HeadsAgainLive
<1>3. World(table', answers', entries', AfterReturn, heads', Popped, NULL)
  BY <1>2, SameItself, SameChunks, WorldThunks
<1>4. /\ p \in Nat /\ r \in Rule /\ a \in Nat /\ at \in Nat
      /\ Popped \in Seq(FrameRec) /\ AfterReturn \in Seq(ChunkRec)
  <2>1. Top.p \in Nat /\ pos \in Nat /\ pos <= Top.p
    BY Returned, Numbers
  <2> QED
    BY <2>1, Returned, OwnAnswer
<1>5. /\ Top.mode = "first" => ls = PopLR
      /\ Top.mode # "first" => ls = lrstack
      /\ SameMarkers(Popped, answers, bs)
  OBVIOUS
<1>6. /\ thunks' = <<>> /\ a \in Kept(table', p)
      /\ h # NULL => HeadFrom(h, 0, table')
      /\ mode \in {"eval", "first", "grow"} /\ mode # "first"
      /\ lrstack' = ls
  BY HandedOver
<1> HIDE DEF ls, bs
<1>7. StackOK(ls, Popped, bs) /\ Len(ls) \in Nat /\ \A n \in 1 .. Len(ls) : ls[n] \in Live(entries)
  BY <1>5, StackReturned
<1>8. /\ StackOK(ls, Popped, bs) /\ Len(ls) \in Nat /\ SameMarkers(Popped, bs, answers')
      /\ \A n \in 1 .. Len(lrstack') : lrstack'[n] \in Live(entries')
  BY <1>7, SameItself DEF ls, bs
<1>9. h \in Nat
  OBVIOUS
<1> HIDE DEF mode, at, p, a, r
<1> QED
  BY ONLY <1>1, <1>3, <1>4, <1>6, <1>8, <1>9, EvaluateOwned

\* The head of a left recursion has a seed: growing begins.
LEMMA ReturnSeedOwned ==
  ASSUME IInv, OInv, ReturnSeed PROVE OInv'
<1> DEFINE h == OwnHead
           p == Top.p
           t == Held(p)
           bs == answers'
           ds == Seeded(Result)
           u == table'
<1>1. /\ At("ret") \/ At("fail")
      /\ Top.mode = "first" /\ Top.mode # "eval" /\ h # NULL
      /\ lrstack' = PopLR
      /\ bs = WithChunk(Moved, Top.ans, Result)
      /\ entries' = ds /\ thunks' = thunks
      /\ GrowTurn(Top.ans, h)
  BY DEF ReturnSeed, Returning, Moved, Seeded, actVars
<1>2. u = [t EXCEPT ![p].head = h]
  BY DEF ReturnSeed
<1>3. Settled(bs)
  BY <1>1, SettledSo
<1>4. /\ SameMarkers(Popped, answers, bs)
      /\ Top.ans \in Kept(t, p)
  BY <1>1, <1>3, ResultOwned
<1>5. /\ World(t, bs, ds, AfterReturn, heads, Popped, NULL)
      /\ Live(ds) = Live(entries)
      /\ HeadFrom(h, p, t)
  BY <1>1, <1>3, SeedReturned
<1>6. /\ p \in Idx /\ \A k \in 1 .. Len(Popped) : Popped[k].p \in Idx
  BY <1>1, HandedOver
<1>7. t \in [Idx -> TableRec] /\ h \in Nat
  <2>1. Len(answers) \in Nat /\ Len(answers) <= Len(answers) /\ Len(heads) \in Nat
    BY Numbers
  <2>2. OwnHead \in Nat
    BY <1>1, <2>1, OwnAnswer
  <2>3. t \in [Idx -> TableRec]
    BY <1>6, <2>1, HeldTable
  <2> QED
    BY <2>2, <2>3
<1>8. HeadSet(t, u, p) /\ u[p].head = h
  <2>1. \A i \in Idx : /\ u[i].held = t[i].held /\ u[i].memos = t[i].memos
                       /\ u[i].heads = t[i].heads
                       /\ u[i].head = IF i = p THEN h ELSE t[i].head
    BY <1>2, <1>6, <1>7 DEF TableRec
  <2> QED
    BY <1>6, <2>1 DEF HeadSet, Kept
<1> HIDE DEF h, t, bs, ds, u
<1>9. /\ World(u, bs, ds, AfterReturn, heads, Popped, NULL)
      /\ HeadFrom(h, p, u)
  BY <1>5, <1>6, <1>8, WorldTableHead
<1>10. HeadFrom(h, 0, u)
  <2>1. p \in Int /\ 0 \in Int /\ 0 <= p /\ MaxPos \in Nat
    BY <1>6, RuntimeAssumption DEF Idx
  <2> QED
    BY <1>9, <2>1, FromBehind
<1>11. Top.ans \in Kept(u, p)
  BY <1>4, <1>6, <1>8 DEF HeadSet
<1>12. /\ World(table', answers', entries', AfterReturn, heads, Popped, NULL)
       /\ Live(entries') = Live(entries)
       /\ h # NULL => HeadFrom(h, 0, table')
       /\ SameMarkers(Popped, answers, answers')
       /\ Top.ans \in Kept(table', Top.p)
  BY <1>1, <1>4, <1>5, <1>9, <1>10, <1>11 DEF u, bs
<1> QED
  BY <1>1, <1>7, <1>12, GrowOwned

\* The evaluation got further than the last one: it becomes the result.
LEMMA GrowNextOwned ==
  ASSUME IInv, OInv, GrowNext PROVE OInv'
<1> DEFINE h == Top.head
           bs == answers'
<1>1. /\ At("ret") \/ At("fail")
      /\ Top.mode = "grow" /\ Top.mode # "eval" /\ Top.mode # "first"
      /\ lrstack' = lrstack /\ entries' = entries /\ thunks' = thunks
      /\ bs = [WithChunk(answers, Top.ans, Result) EXCEPT ![Top.ans].pos = Reached]
      /\ table' = Held(Top.p)
      /\ GrowTurn(Top.ans, h)
  BY DEF GrowNext, Returning, actVars
<1>2. Settled(bs)
  BY <1>1, SettledSo
<1>3. /\ World(Held(Top.p), bs, entries, AfterReturn, heads, Popped, NULL)
      /\ SameMarkers(Popped, answers, bs)
      /\ Top.ans \in Kept(Held(Top.p), Top.p)
  BY <1>1, <1>2, ResultOwned
<1>4. h \in Nat
  BY <1>1, Returned, FrameFields
<1>5. h # NULL => HeadFrom(h, 0, table')
  <2>1. h # NULL => HeadFrom(h, 0, table)
    BY <1>1, HandedOver
  <2>2. Joined(table, table', Top.p, Len(answers) + 1)
    BY <1>1, AdoptedOwned
  <2> QED
    BY <2>1, <2>2 DEF Joined, HeadFrom
<1>6. /\ World(table', answers', entries', AfterReturn, heads, Popped, NULL)
      /\ Live(entries') = Live(entries)
      /\ SameMarkers(Popped, answers, answers')
      /\ Top.ans \in Kept(table', Top.p)
  BY <1>1, <1>3
<1> HIDE DEF h, bs
<1>7. /\ At("ret") \/ At("fail")
      /\ Top.mode # "eval" /\ Top.mode # "first"
      /\ lrstack' = lrstack /\ thunks' = thunks /\ GrowTurn(Top.ans, h)
  BY <1>1
<1> QED
  BY <1>4, <1>5, <1>6, <1>7, GrowOwned

\* It did not: the chunk is destroyed, the last result stands and the head is taken away.
LEMMA GrowEndOwned ==
  ASSUME IInv, OInv, GrowEnd PROVE OInv'
<1> DEFINE c == answers[Top.ans].chunk
           cs == FreeChunk(AfterReturn, Result)
           p == Top.p
           u == table'
<1>1. /\ At("ret") \/ At("fail")
      /\ Top.mode = "grow" /\ Top.mode # "eval" /\ Top.mode # "first"
      /\ Deliver(Popped, cs, c)
      /\ lrstack' = lrstack /\ answers' = answers /\ entries' = entries /\ heads' = heads
  BY DEF GrowEnd, Returning
<1>2. u = [table EXCEPT ![p].head = NULL]
  BY DEF GrowEnd, Unheaded
<1>3. /\ thunks = <<>> /\ p \in Idx /\ AfterReturn \in Seq(ChunkRec)
      /\ Popped \in Seq(FrameRec) /\ Resumable(Popped)
      /\ World(table, answers, entries, AfterReturn, heads, Popped, Result)
      /\ \A k \in 1 .. Len(Popped) : /\ Popped[k].p \in Idx /\ Popped[k].p <= p
                                     /\ Popped[k].chunk \in 1 .. Len(AfterReturn)
      /\ Top.ans \in Kept(table, p)
  BY <1>1, HandedOver
<1>4. /\ Len(AfterReturn) = Len(chunks) /\ Len(chunks) \in Nat
      /\ ChunksLinked(AfterReturn) /\ Result \in 0 .. Len(chunks)
  BY <1>1, Returned, Numbers
<1>5. cs \in Seq(ChunkRec) /\ Len(cs) = Len(AfterReturn)
  BY <1>3, <1>4, FreeChunkLinked
<1>6. World(table, answers, entries, cs, heads, Popped, NULL)
  <2>1. CASE Result = NULL
    BY <1>3, <2>1 DEF FreeChunk
  <2>2. CASE Result # NULL
    <3> DEFINE x == Result
               ds == FreeChunk(AfterReturn, x)
    <3>1. x \in 1 .. Len(AfterReturn) /\ x # NULL
      BY <1>4, <2>2 DEF NULL
    <3> HIDE DEF x
    <3>2. Live(ds) = Live(AfterReturn) \ {x} /\ \A y \in Live(ds) : ds[y].thunks = AfterReturn[y].thunks
      BY <1>3, <3>1, ChunkFreed
    <3>3. World(table, answers, entries, AfterReturn, heads, Popped, x)
      BY <1>3 DEF x
    <3> HIDE DEF ds
    <3>4. World(table, answers, entries, ds, heads, Popped, NULL)
      BY <3>1, <3>2, <3>3, WorldFree
    <3> QED
      BY <3>4 DEF ds, x
  <2> QED
    BY <2>1, <2>2
<1>7. HeadSet(table, u, p) /\ u[p].head = NULL
  <2>1. table \in [Idx -> TableRec]
    BY DEF IInv, TypeOK
  <2>2. \A i \in Idx : /\ u[i].held = table[i].held /\ u[i].memos = table[i].memos
                       /\ u[i].heads = table[i].heads
                       /\ u[i].head = IF i = p THEN NULL ELSE table[i].head
    BY <1>2, <1>3, <2>1 DEF TableRec
  <2> QED
    BY <1>3, <2>2 DEF HeadSet, Kept
<1>8. c \in Nat
  BY <1>1, <1>4, OwnAnswer
<1>9. c # NULL => ChunkFrom(c, p, table, answers)
  <2>1. Top.ans \in Live(answers)
    BY <1>3 DEF World, Housed
  <2>2. c # NULL => answers[Top.ans].type = "CHUNK"
    BY <1>3, <2>1 DEF World, Owning
  <2> QED
    BY <1>3, <2>2, KeptChunk
<1>10. StackOK(lrstack, Popped, answers) /\ \A n \in 1 .. Len(lrstack) : lrstack[n] \in Live(entries)
  BY <1>1, SameItself, StackReturned
<1> HIDE DEF c, cs, u
<1>11. /\ World(u, answers, entries, cs, heads, Popped, NULL)
       /\ c # NULL => ChunkFrom(c, p, u, answers)
  BY <1>3, <1>6, <1>7, <1>9, WorldTableHead
<1>12. /\ World(table', answers', entries', cs, heads', Popped, NULL)
       /\ c # NULL => ChunkFrom(c, p, table', answers')
  BY <1>1, <1>11 DEF u
<1>13. /\ StackOK(lrstack', Popped, answers')
       /\ \A n \in 1 .. Len(lrstack') : lrstack'[n] \in Live(entries')
  BY <1>1, <1>10
<1>14. \A k \in 1 .. Len(Popped) : /\ Popped[k].p \in Idx /\ Popped[k].p <= p
                                   /\ Popped[k].chunk \in 1 .. Len(cs)
  BY <1>3, <1>5
<1>15. Deliver(Popped, cs, c)
  BY <1>1
<1> HIDE DEF p
<1> QED
  BY ONLY <1>3, <1>5, <1>8, <1>12, <1>13, <1>14, <1>15, DeliverOwned

-----------------------------------------------------------------------------
(* pcc_commit_buffer and pcc_destroy: entries of the memo table with all that *)
(* they own.                                                                  *)

\* The objects D of the heap s were destroyed.
Dying(s, u, D) ==
  /\ DOMAIN u = DOMAIN s
  /\ \A x \in DOMAIN s : IF x \in D THEN u[x].live = FALSE ELSE u[x] = s[x]

LEMMA HeapDies ==
  ASSUME NEW s, NEW u, NEW D, Dying(s, u, D)
  PROVE  /\ \A x : x \in Live(u) <=> x \in Live(s) /\ x \notin D
         /\ \A x \in Live(u) : u[x] = s[x]
BY DEF Dying, Live

\* What goes with the entries before position n.
LEMMA DestroyedRemains ==
  ASSUME IInv, OInv, NEW n \in Nat, Destroyed({i \in Idx : i < n})
  PROVE  Remaining(table, n, answers, chunks, entries, heads,
                   answers', chunks', entries', heads')
<1> DEFINE I  == {i \in Idx : i < n}
           da == UNION {table[i].held \cup {table[i].memos[r] : r \in Rule} : i \in I}
           cs == {answers[a].chunk : a \in
                   {a \in da \cap DOMAIN answers : answers[a].type = "CHUNK"}}
           es == {answers[a].lr : a \in
                   {a \in da \cap DOMAIN answers : answers[a].type = "LR"}}
           hs == UNION {table[i].heads : i \in I}
<1>1. /\ answers' = [a \in DOMAIN answers |->
                       IF a \in da THEN Dead(answers[a]) ELSE answers[a]]
      /\ chunks'  = [c \in DOMAIN chunks |->
                       IF c \in cs THEN FreeChunk(chunks, c)[c] ELSE chunks[c]]
      /\ entries' = [e \in DOMAIN entries |->
                       IF e \in es THEN Dead(entries[e]) ELSE entries[e]]
      /\ heads'   = [h \in DOMAIN heads |->
                       IF h \in hs THEN Dead(heads[h]) ELSE heads[h]]
  BY Zenon DEF Destroyed
<1>2. /\ DOMAIN answers = 1 .. Len(answers) /\ DOMAIN chunks = 1 .. Len(chunks)
      /\ DOMAIN entries = 1 .. Len(entries) /\ DOMAIN heads = 1 .. Len(heads)
  BY OutsideNow, LenProperties
<1>3. Housed(table, answers, heads)
  BY DEF OInv, World
<1>4. \A a \in DOMAIN answers : a \in da <=> Gone(table, n, a)
  <2>1. \A a \in DOMAIN answers : a # NULL
    BY <1>2 DEF NULL
  <2> QED
    BY <2>1 DEF Gone, Kept
<1>5. \A a : Gone(table, n, a) => a \in Live(answers) /\ a \in DOMAIN answers
  BY <1>3 DEF Gone, Housed, Live
<1>6. \A a \in Live(answers) : a \in DOMAIN answers
  BY DEF Live
<1>7. \A h : h \in hs <=> GoneHead(table, n, h)
  BY DEF GoneHead
<1> HIDE DEF da
<1>8. \A c : c \in cs <=> \E a \in Live(answers) : OwnsChunk(answers, a, c) /\ Gone(table, n, a)
  BY <1>4, <1>5, <1>6 DEF OwnsChunk
<1>9. \A e : e \in es <=> \E a \in Live(answers) : OwnsEntry(answers, a, e) /\ Gone(table, n, a)
  BY <1>4, <1>5, <1>6 DEF OwnsEntry
<1> HIDE DEF cs, es, hs
<1>10. Dying(answers, answers', da)
  <2>1. ASSUME NEW a \in DOMAIN answers PROVE Dead(answers[a]).live = FALSE
    BY <1>2, OutsideNow, ElementOfSeq DEF Dead, AnswerRec
  <2> QED
    BY <1>1, <2>1 DEF Dying
<1>11. Dying(chunks, chunks', cs)
  <2>1. ASSUME NEW c \in DOMAIN chunks PROVE FreeChunk(chunks, c)[c].live = FALSE
    <3>1. c # NULL /\ chunks[c] \in ChunkRec /\ c \in 1 .. Len(chunks)
      BY <1>2, OutsideNow, ElementOfSeq DEF NULL
    <3>2. FreeChunk(chunks, c)[c] = [Dead(chunks[c]) EXCEPT !.thunks = <<>>]
      BY <3>1 DEF FreeChunk
    <3> QED
      BY <3>1, <3>2 DEF Dead, ChunkRec
  <2> QED
    BY <1>1, <2>1 DEF Dying
<1>12. Dying(entries, entries', es)
  <2>1. ASSUME NEW e \in DOMAIN entries PROVE Dead(entries[e]).live = FALSE
    BY <1>2, OutsideNow, ElementOfSeq DEF Dead, EntryRec
  <2> QED
    BY <1>1, <2>1 DEF Dying
<1>13. Dying(heads, heads', hs)
  <2>1. ASSUME NEW h \in DOMAIN heads PROVE Dead(heads[h]).live = FALSE
    BY <1>2, OutsideNow, ElementOfSeq DEF Dead, HeadRec
  <2> QED
    BY <1>1, <2>1 DEF Dying
<1>14. /\ \A a : a \in Live(answers') <=> a \in Live(answers) /\ ~Gone(table, n, a)
       /\ \A a \in Live(answers') : answers'[a] = answers[a]
  BY <1>4, <1>6, <1>10, HeapDies
<1>15. /\ \A c : c \in Live(chunks') <=> c \in Live(chunks) /\ c \notin cs
       /\ \A c \in Live(chunks') : chunks'[c] = chunks[c]
  BY <1>11, HeapDies
<1>16. /\ \A e : e \in Live(entries') <=> e \in Live(entries) /\ e \notin es
       /\ \A e \in Live(entries') : entries'[e] = entries[e]
  BY <1>12, HeapDies
<1>17. \A h : h \in Live(heads') <=> h \in Live(heads) /\ ~GoneHead(table, n, h)
  BY <1>7, <1>13, HeapDies
<1> QED
  BY <1>8, <1>9, <1>14, <1>15, <1>16, <1>17 DEF Remaining

\* The entry that nothing was kept in.
LEMMA NothingKept ==
  ASSUME NEW u, NEW i, u[i] = NoEntry
  PROVE  Kept(u, i) = {} /\ u[i].heads = {} /\ u[i].head = NULL
BY DEF Kept, NoEntry

\* Outside of pcc_apply_rule no left recursion is under way.
LEMMA NoRecursion ==
  ASSUME IInv, OInv, phase \notin {"running", "involve", "crash"}
  PROVE  Len(frames) = 0 /\ Len(lrstack) = 0
<1>1. frames = <<>> /\ Len(frames) = 0
  BY EmptySeq DEF IInv, Calls
<1>2. StackOK(lrstack, frames, answers)
  BY DEF OInv, StackSound
<1>3. \A n \in 1 .. Len(lrstack) : FALSE
  BY <1>1, <1>2 DEF StackOK
<1>4. lrstack \in Seq(Nat) /\ Len(lrstack) \in Nat
  BY LenProperties DEF IInv, TypeOK
<1>5. Len(lrstack) = 0
  <2> DEFINE l == Len(lrstack)
  <2> HIDE DEF l
  <2>1. l \in Nat /\ \A n \in 1 .. l : FALSE
    BY <1>3, <1>4 DEF l
  <2>2. l = 0
    BY <2>1
  <2> QED
    BY <2>2 DEF l
<1> QED
  BY <1>1, <1>5

\* Entries before position n are destroyed, the others move to the beginning.
LEMMA AdvancedOwned ==
  ASSUME IInv, OInv, phase \notin {"running", "involve", "crash"},
         NEW n \in Nat, Destroyed({i \in Idx : i < n}), Advanced(table, table', n),
         UNCHANGED <<frames, lrstack>>, thunks' = <<>>,
         phase' # "involve",
         phase' = "destroyed" => table' = [i \in Idx |-> NoEntry]
  PROVE  OInv'
<1>1. Len(frames) = 0 /\ Len(lrstack) = 0
  BY NoRecursion
<1>2. Remaining(table, n, answers, chunks, entries, heads,
                answers', chunks', entries', heads')
  BY DestroyedRemains
<1>3. World(table, answers, entries, chunks, heads, frames, NULL)
  BY DEF OInv
<1>4. World(table', answers', entries', chunks', heads', frames, NULL)
  BY <1>1, <1>2, <1>3, WorldShift
<1>5. World(table', answers', entries', chunks', heads', frames', NULL)
  BY <1>4
<1>6. StackSound'
  BY <1>1 DEF StackSound, StackOK
<1>7. Len(thunks') = 0
  BY EmptySeq
<1>8. Outer'
  BY <1>7 DEF Outer
<1> QED
  BY <1>5, <1>6, <1>8 DEF OInv

LEMMA CommitOwned ==
  ASSUME IInv, OInv, Commit PROVE OInv'
<1>1. /\ phase = "commit" /\ phase' = "idle"
      /\ Destroyed({i \in Idx : i < cur})
      /\ table' = Shifted(cur)
      /\ thunks' = CutTo(thunks, 0)
      /\ UNCHANGED <<frames, lrstack>>
  BY DEF Commit
<1>2. cur \in Nat /\ thunks \in Seq(ThunkRec) /\ Len(thunks) \in Nat
  BY Numbers, OutsideNow, LenProperties
<1>3. thunks' = <<>>
  <2>1. CASE Len(thunks) > 0
    BY <1>1, <2>1, SubSeqEmpty DEF CutTo
  <2>2. CASE ~ (Len(thunks) > 0)
    BY <1>1, <1>2, <2>2, LenProperties DEF CutTo
  <2> QED
    BY <2>1, <2>2
<1>4. Advanced(table, table', cur)
  <2>1. ASSUME NEW i \in Idx, i + cur \in Idx
        PROVE  table'[i] = table[i + cur]
    BY <1>1, <2>1 DEF Shifted
  <2>2. ASSUME NEW i \in Idx, i + cur \notin Idx
        PROVE  table'[i] = NoEntry
    BY <1>1, <2>2 DEF Shifted
  <2> QED
    BY <2>1, <2>2, NothingKept DEF Advanced, Kept
<1>5. /\ phase \notin {"running", "involve", "crash"}
      /\ phase' # "involve" /\ phase' # "destroyed"
  BY <1>1
<1> QED
  BY <1>1, <1>2, <1>3, <1>4, <1>5, AdvancedOwned

LEMMA DestroyOwned ==
  ASSUME IInv, OInv, Destroy PROVE OInv'
<1> DEFINE n == MaxPos + 1
<1>1. /\ phase \in {"idle", "eof"} /\ phase' = "destroyed"
      /\ Destroyed(Idx)
      /\ table' = [i \in Idx |-> NoEntry]
      /\ UNCHANGED <<frames, lrstack, thunks>>
  BY DEF Destroy, actVars
<1>2. n \in Nat /\ \A i \in Idx : i < n /\ i + n \notin Idx
  BY RuntimeAssumption DEF Idx
<1>3. Idx = {i \in Idx : i < n}
  BY <1>2
<1>4. Advanced(table, table', n)
  <2>1. ASSUME NEW i \in Idx PROVE table'[i] = NoEntry
    BY <1>1
  <2> QED
    BY <1>2, <2>1, NothingKept DEF Advanced
<1>5. thunks' = <<>>
  BY <1>1 DEF OInv, Outer
<1>6. /\ phase \notin {"running", "involve", "crash"} /\ phase' # "involve"
      /\ Destroyed({i \in Idx : i < n})
  BY <1>1, <1>3
<1> HIDE DEF n
<1> QED
  BY <1>1, <1>2, <1>4, <1>5, <1>6, AdvancedOwned

-----------------------------------------------------------------------------
(* The invariant of ownership holds initially and every step keeps it.      *)

LEMMA InitOwned ==
  ASSUME Init PROVE OInv
<1>1. /\ phase = "idle" /\ table = [i \in Idx |-> NoEntry]
      /\ lrstack = <<>> /\ frames = <<>> /\ thunks = <<>>
      /\ chunks = <<>> /\ answers = <<>> /\ entries = <<>> /\ heads = <<>>
  BY DEF Init
<1>2. /\ Len(frames) = 0 /\ Len(lrstack) = 0 /\ Len(thunks) = 0
      /\ DOMAIN chunks = {} /\ DOMAIN answers = {} /\ DOMAIN entries = {}
      /\ DOMAIN heads = {}
  BY <1>1, EmptySeq
<1>3. /\ Live(chunks) = {} /\ Live(answers) = {} /\ Live(entries) = {} /\ Live(heads) = {}
  BY <1>2 DEF Live
<1>4. \A i \in Idx : Kept(table, i) = {} /\ table[i].heads = {} /\ table[i].head = NULL
  BY <1>1, NothingKept
<1>5. World(table, answers, entries, chunks, heads, frames, NULL)
  <2>1. Housed(table, answers, heads)
    BY <1>3, <1>4 DEF Housed
  <2>2. Owning(answers, chunks, entries) /\ Owned(answers, chunks, entries, frames, NULL)
    BY <1>3 DEF Owning, Owned
  <2>3. Building(answers, chunks, frames, NULL) /\ Using(frames, table, answers, chunks)
    BY <1>2 DEF Building, Using
  <2>4. Forward(table, answers, chunks, entries)
    BY <1>4 DEF Forward
  <2> QED
    BY <2>1, <2>2, <2>3, <2>4 DEF World
<1>6. StackSound
  BY <1>2 DEF StackSound, StackOK
<1>7. Outer
  BY <1>1, <1>2 DEF Outer
<1> QED
  BY <1>5, <1>6, <1>7 DEF OInv

LEMMA NextOwned ==
  ASSUME IInv, OInv, [Next]_vars PROVE OInv'
<1>1. CASE ParseBegin \/ Finish
  BY <1>1, QuietFinishOwned, CommitOwned DEF Finish
<1>2. CASE Statement
  BY <1>2, StatementOwned
<1>3. CASE Apply
  BY <1>3, ApplyBlockedOwned, ApplyReevaluateOwned, ApplyMemoizedOwned,
     ApplyRecursiveOwned, InvolveOwned, InvolvedOwned, ApplyFirstOwned DEF Apply
<1>4. CASE Return
  BY <1>4, ReturnReevaluatedOwned, ReturnPlainOwned, ReturnInvolvedOwned,
     ReturnNoSeedOwned, ReturnSeedOwned, GrowNextOwned, GrowEndOwned DEF Return
<1>5. CASE Destroy
  BY <1>5, DestroyOwned
<1>6. CASE Ended \/ UNCHANGED vars
  BY <1>6, StutterOwned DEF Ended
<1> QED
  BY <1>1, <1>2, <1>3, <1>4, <1>5, <1>6 DEF Next, Parsing

-----------------------------------------------------------------------------
(* What follows for every execution of the parser.                         *)

\* Ownership: whatever the grammar and the input, each answer, chunk, lr entry and
\* lr head that was not destroyed has one owner, and no pointer leads from an
\* object to one at a position that pcc_commit_buffer destroys before it.
THEOREM OwnershipHolds == Spec => []Inductive
<1>1. Init => Inductive
  BY InitInv, InitOwned DEF Inductive
<1>2. Inductive /\ [Next]_vars => Inductive'
  BY NextInv, NextOwned DEF Inductive
<1> QED
  BY <1>1, <1>2, PTL DEF Spec

\* The owner of a chunk was not destroyed before it, nor was the chunk.
LEMMA Alive ==
  ASSUME OInv
  PROVE  /\ \A c, i : c # NULL /\ ChunkFrom(c, i, table, answers) => c \in Live(chunks)
         /\ \A h, i : HeadFrom(h, i, table) => h \in Live(heads)
         /\ \A i \in Idx : Kept(table, i) \subseteq Live(answers)
<1>1. Housed(table, answers, heads) /\ Owning(answers, chunks, entries)
  BY DEF OInv, World
<1> QED
  BY <1>1 DEF ChunkFrom, HeadFrom, Housed, Owning, OwnsChunk

\* No pointer that the parser may still follow leads to a destroyed object, after
\* any number of commits: neither a memo nor a seed nor the head of a left
\* recursion, no thunk of a tree and nothing that pcc_apply_rule holds in locals.
THEOREM NothingDangles == Spec => []NoDangling
<1>1. ASSUME IInv, OInv PROVE NoDangling
  <2>1. /\ Housed(table, answers, heads) /\ Owning(answers, chunks, entries)
        /\ Owned(answers, chunks, entries, frames, NULL)
        /\ Building(answers, chunks, frames, NULL)
        /\ Forward(table, answers, chunks, entries) /\ Using(frames, table, answers, chunks)
    BY <1>1 DEF OInv, World
  <2>2. /\ DOMAIN frames = 1 .. Len(frames) /\ DOMAIN thunks = 1 .. Len(thunks)
        /\ DOMAIN lrstack = 1 .. Len(lrstack) /\ DOMAIN chunks = 1 .. Len(chunks)
    BY <1>1, LenProperties DEF IInv, TypeOK
  <2>3. ASSUME NEW c \in Live(chunks), NEW k \in DOMAIN chunks[c].thunks
        PROVE  /\ k \in 1 .. Len(chunks[c].thunks)
               /\ chunks[c].thunks[k].chunk # NULL
    <3>1. c \in 1 .. Len(chunks)
      BY <2>2, <2>3 DEF Live
    <3>2. chunks[c].thunks \in Seq(ThunkRec)
      BY <1>1, <3>1, OutsideNow, ElementOfSeq, ChunkFields
    <3>3. k \in 1 .. Len(chunks[c].thunks)
      BY <2>3, <3>2, LenProperties
    <3>4. chunks[c].thunks[k].chunk \in 1 .. Len(chunks)
      BY <1>1, <3>1, <3>3, OutsideNow DEF ChunksLinked, Pointing
    <3> QED
      BY <3>3, <3>4 DEF NULL
  <2>4. \A i \in Idx :
          /\ table[i].held \subseteq Live(answers)
          /\ {Memo(i, r) : r \in Rule} \ {NULL} \subseteq Live(answers)
          /\ (table[i].heads \cup {table[i].head}) \ {NULL} \subseteq Live(heads)
    <3>1. ASSUME NEW i \in Idx, table[i].head # NULL PROVE table[i].head \in Live(heads)
      BY <1>1, <2>1, <3>1, Alive DEF Forward
    <3>2. ASSUME NEW i \in Idx
          PROVE  /\ table[i].held \subseteq Live(answers)
                 /\ {Memo(i, r) : r \in Rule} \ {NULL} \subseteq Live(answers)
                 /\ table[i].heads \subseteq Live(heads)
      BY <2>1 DEF Housed, Kept, Memo
    <3> QED
      BY <3>1, <3>2
  <2>5. \A a \in Live(answers) :
          IF answers[a].type = "LR" THEN answers[a].lr \in Live(entries)
          ELSE answers[a].chunk \in Live(chunks) \cup {NULL}
    BY <2>1 DEF Owning
  <2>6. \A e \in Live(entries) : /\ entries[e].seed \in Live(chunks) \cup {NULL}
                                 /\ entries[e].head \in Live(heads) \cup {NULL}
    <3>1. ASSUME NEW e \in Live(entries)
          PROVE  /\ entries[e].seed \in Live(chunks) \cup {NULL}
                 /\ entries[e].head \in Live(heads) \cup {NULL}
      <4>1. PICK a \in Live(answers) : OwnsEntry(answers, a, e)
        BY <2>1 DEF Owned
      <4>2. PICK i \in Idx : a \in Kept(table, i)
        BY <2>1 DEF Housed
      <4>3. EntryForward(e, i, table, answers, entries)
        BY <2>1, <4>1, <4>2 DEF Forward, OwnsEntry
      <4> QED
        BY <1>1, <4>3, Alive DEF EntryForward
    <3> QED
      BY <3>1
  <2>7. \A c \in Live(chunks) : \A k \in DOMAIN chunks[c].thunks :
          chunks[c].thunks[k].chunk \in Live(chunks)
    <3>1. ASSUME NEW c \in Live(chunks), NEW i, ThunksFrom(chunks, c, i, table, answers),
                 NEW k \in DOMAIN chunks[c].thunks
          PROVE  chunks[c].thunks[k].chunk \in Live(chunks)
      BY <1>1, <2>3, <3>1, Alive DEF ThunksFrom
    <3>2. ASSUME NEW c \in Live(chunks) PROVE \E i : ThunksFrom(chunks, c, i, table, answers)
      <4>1. CASE \E a \in Live(answers) : OwnsChunk(answers, a, c)
        <5>1. PICK a \in Live(answers) : OwnsChunk(answers, a, c)
          BY <4>1
        <5>2. PICK i \in Idx : a \in Kept(table, i)
          BY <2>1 DEF Housed
        <5>3. c # NULL
          BY <2>2 DEF Live, NULL
        <5> QED
          BY <2>1, <5>1, <5>2, <5>3 DEF Forward, OwnsChunk
      <4>2. CASE \E k \in 1 .. Len(frames) : frames[k].chunk = c
        BY <2>1, <4>2 DEF Using
      <4> QED
        BY <2>1, <4>1, <4>2 DEF Owned
    <3> QED
      BY <3>1, <3>2
  <2>8. \A k \in DOMAIN thunks : thunks[k].chunk \in Live(chunks)
    <3>1. \A k \in 1 .. Len(thunks) : /\ ChunkFrom(thunks[k].chunk, 0, table, answers)
                                      /\ thunks[k].chunk \in 1 .. Len(chunks)
      BY <1>1, OutsideNow DEF OInv, Outer, Pointing
    <3>2. \A k \in 1 .. Len(thunks) : thunks[k].chunk # NULL
      BY <3>1 DEF NULL
    <3> QED
      BY <1>1, <2>2, <3>1, <3>2, Alive
  <2>9. \A k \in DOMAIN frames : /\ frames[k].chunk \in Live(chunks)
                                 /\ frames[k].ans \in Live(answers) \cup {NULL}
                                 /\ frames[k].head \in Live(heads) \cup {NULL}
    <3>1. ASSUME NEW k \in 1 .. Len(frames)
          PROVE  /\ frames[k].chunk \in Live(chunks)
                 /\ frames[k].ans \in Live(answers) \cup {NULL}
                 /\ frames[k].head \in Live(heads) \cup {NULL}
      <4>1. frames[k].chunk \in Live(chunks)
        BY <2>1 DEF Building, Unowned
      <4>2. Answering(frames[k], answers)
        BY <1>1 DEF IInv, Calls, CallsOK
      <4>3. frames[k].p \in Idx
        <5>1. /\ frames \in Seq(FrameRec) /\ Here \in Idx
              /\ CallsOK(frames, pos, bufn, Here, Len(chunks), answers)
          BY <1>1, Numbers DEF IInv, TypeOK, Calls, Idx
        <5> QED
          BY <5>1, CallPlaces
      <4>4. frames[k].ans \in Live(answers) \cup {NULL}
        BY <1>1, <2>1, <4>2, <4>3, Alive DEF Using, Answering
      <4>5. frames[k].head # NULL => frames[k].head \in Live(heads)
        BY <1>1, <2>1, Alive DEF Using
      <4> QED
        BY <4>1, <4>4, <4>5
    <3> QED
      BY <2>2, <3>1
  <2>10. \A k \in DOMAIN lrstack : lrstack[k] \in Live(entries)
    BY <1>1, <2>2 DEF OInv, StackSound
  <2> QED
    BY <2>4, <2>5, <2>6, <2>7, <2>8, <2>9, <2>10 DEF NoDangling
<1>2. Inductive => NoDangling
  BY <1>1 DEF Inductive
<1> QED
  BY <1>2, OwnershipHolds, PTL

\* Each chunk is built by one activation or owned by one answer, never by two, so
\* that pcc_lr_answer__destroy and the activation cannot both destroy it; and after
\* pcc_destroy no object is left that pcc_parse made.
THEOREM FreedOnce == Spec => []EachFreedOnce
<1>1. ASSUME IInv, OInv PROVE OneOwner
  <2>1. /\ Owning(answers, chunks, entries) /\ Owned(answers, chunks, entries, frames, NULL)
        /\ Building(answers, chunks, frames, NULL)
    BY <1>1 DEF OInv, World
  <2>2. DOMAIN frames = 1 .. Len(frames)
    BY <1>1, LenProperties DEF IInv, TypeOK
  <2>3. DOMAIN chunks = 1 .. Len(chunks)
    BY <1>1, LenProperties DEF IInv, TypeOK
  <2>4. ASSUME NEW c \in Live(chunks)
        PROVE  LET owners == {a \in Live(answers) :
                                answers[a].type = "CHUNK" /\ answers[a].chunk = c}
                   users  == {k \in DOMAIN frames : frames[k].chunk = c}
               IN Cardinality(owners) + Cardinality(users) = 1
    <3> DEFINE owners == {a \in Live(answers) :
                            answers[a].type = "CHUNK" /\ answers[a].chunk = c}
               users  == {k \in DOMAIN frames : frames[k].chunk = c}
    <3>1. c # NULL
      BY <2>3 DEF Live, NULL
    <3>2. CASE \E a \in Live(answers) : OwnsChunk(answers, a, c)
      <4>1. PICK a \in Live(answers) : OwnsChunk(answers, a, c)
        BY <3>2
      <4>2. owners = {a}
        BY <2>1, <3>1, <4>1 DEF Owning, OwnsChunk
      <4>3. users = {}
        BY <2>1, <2>2, <4>1 DEF Building, Unowned
      <4> HIDE DEF owners, users
      <4>4. Cardinality(owners) = 1 /\ Cardinality(users) = 0
        BY <4>2, <4>3, FS_Singleton, FS_EmptySet
      <4> QED
        BY <4>4 DEF owners, users
    <3>3. CASE \E k \in 1 .. Len(frames) : frames[k].chunk = c
      <4>1. PICK k \in 1 .. Len(frames) : frames[k].chunk = c
        BY <3>3
      <4>2. owners = {}
        BY <2>1, <4>1 DEF Building, Unowned, OwnsChunk
      <4>3. users = {k}
        BY <2>1, <2>2, <4>1 DEF Building
      <4> HIDE DEF owners, users
      <4>4. Cardinality(owners) = 0 /\ Cardinality(users) = 1
        BY <4>2, <4>3, FS_Singleton, FS_EmptySet
      <4> QED
        BY <4>4 DEF owners, users
    <3>4. \/ \E a \in Live(answers) : OwnsChunk(answers, a, c)
          \/ \E k \in 1 .. Len(frames) : frames[k].chunk = c
      BY <2>1 DEF Owned
    <3> QED
      BY <3>2, <3>3, <3>4
  <2> QED
    BY <2>4 DEF OneOwner
<1>2. ASSUME IInv, OInv PROVE NoLeak
  <2> SUFFICES ASSUME phase = "destroyed"
               PROVE  Live(chunks) \cup Live(answers) \cup Live(entries) \cup Live(heads) = {}
    BY DEF NoLeak
  <2>1. table = [i \in Idx |-> NoEntry] /\ Len(frames) = 0
    BY <1>2, NoRecursion DEF OInv, Outer
  <2>2. \A i \in Idx : Kept(table, i) = {} /\ table[i].heads = {}
    BY <2>1, NothingKept
  <2>3. /\ Housed(table, answers, heads)
        /\ Owned(answers, chunks, entries, frames, NULL)
    BY <1>2 DEF OInv, World
  <2>4. Live(answers) = {} /\ Live(heads) = {}
    BY <2>2, <2>3 DEF Housed
  <2>5. Live(chunks) = {} /\ Live(entries) = {}
    BY <2>1, <2>3, <2>4 DEF Owned
  <2> QED
    BY <2>4, <2>5
<1>3. Inductive => EachFreedOnce
  BY <1>1, <1>2 DEF EachFreedOnce, Inductive
<1> QED
  BY <1>3, OwnershipHolds, PTL

-----------------------------------------------------------------------------
(* What the parser remembers of the rules it is applying: lrstack mirrors   *)
(* the calls under way and their markers are in the memo table, and a       *)
(* memoized result stays what it is.                                        *)

\* The first applications in fs are memoized in the table t.
Marked(fs, t) ==
  \A k \in 1 .. Len(fs) :
    fs[k].mode = "first" => t[fs[k].p].memos[fs[k].rule] = fs[k].ans

\* The activations are those of the same rules at the same positions.
SameApplications(fs, gs) ==
  /\ Len(gs) = Len(fs)
  /\ \A k \in 1 .. Len(fs) : /\ gs[k].rule = fs[k].rule /\ gs[k].p = fs[k].p
                             /\ gs[k].mode = fs[k].mode /\ gs[k].ans = fs[k].ans

SameMemos(t, u) == \A i \in Idx : u[i].memos = t[i].memos

-----------------------------------------------------------------------------
(* Activations and their markers.                                           *)

\* Only the statement or the locals of the innermost activation change.
LEMMA PutApplication ==
  ASSUME NEW fs \in Seq(FrameRec), fs # <<>>, NEW f,
         NEW gs, gs = [fs EXCEPT ![Len(fs)] = f],
         f.rule = fs[Len(fs)].rule, f.p = fs[Len(fs)].p,
         f.mode = fs[Len(fs)].mode, f.ans = fs[Len(fs)].ans
  PROVE  SameApplications(fs, gs)
<1> DEFINE S == FrameRec \cup {f}
<1>1. Len(fs) \in 1 .. Len(fs)
  BY NotEmpty
<1>2. fs \in Seq(S) /\ f \in S
  BY SeqDef
<1> HIDE DEF S
<1>3. Len(gs) = Len(fs) /\ \A j \in 1 .. Len(fs) : gs[j] = IF j = Len(fs) THEN f ELSE fs[j]
  BY <1>1, <1>2, Replaced
<1> QED
  BY <1>1, <1>3 DEF SameApplications

\* An activation moves to another statement.
LEMMA MovedApplication ==
  ASSUME NEW fs \in Seq(FrameRec), fs # <<>>, NEW v, NEW gs, gs = [fs EXCEPT ![Len(fs)].pc = v]
  PROVE  SameApplications(fs, gs)
<1> DEFINE f == [fs[Len(fs)] EXCEPT !.pc = v]
<1>1. fs[Len(fs)] \in FrameRec
  BY NotEmpty
<1>2. /\ f.rule = fs[Len(fs)].rule /\ f.p = fs[Len(fs)].p
      /\ f.mode = fs[Len(fs)].mode /\ f.ans = fs[Len(fs)].ans
  BY <1>1 DEF FrameRec
<1>3. gs = [fs EXCEPT ![Len(fs)] = f]
  OBVIOUS
<1> HIDE DEF f
<1> QED
  BY <1>2, <1>3, PutApplication

LEMMA MarkedSame ==
  ASSUME NEW fs, NEW t, Marked(fs, t), \A k \in 1 .. Len(fs) : fs[k].p \in Idx,
         NEW gs, SameApplications(fs, gs), NEW u, SameMemos(t, u)
  PROVE  Marked(gs, u)
BY DEF Marked, SameApplications, SameMemos

\* The end of pcc_apply_rule: the caller goes on.
LEMMA DeliverMarked ==
  ASSUME NEW fs \in Seq(FrameRec), NEW t, Marked(fs, t),
         \A k \in 1 .. Len(fs) : fs[k].p \in Idx,
         NEW cs, NEW c, Deliver(fs, cs, c), SameMemos(t, table')
  PROVE  Marked(frames', table')
<1>1. SameApplications(fs, frames')
  <2>1. CASE fs = <<>>
    BY <2>1 DEF Deliver, SameApplications
  <2>2. CASE fs # <<>>
    <3>1. PICK v : frames' = [fs EXCEPT ![Len(fs)].pc = v]
      BY <2>2 DEF Deliver
    <3> QED
      BY <2>2, <3>1, MovedApplication
  <2> QED
    BY <2>1, <2>2
<1> QED
  BY <1>1, MarkedSame

\* An evaluation begins.
LEMMA EvaluateMarked ==
  ASSUME NEW fs \in Seq(FrameRec), NEW cs, NEW r, NEW p, NEW mode, NEW a, NEW h, NEW at,
         Evaluate(fs, cs, r, p, mode, a, h, at),
         Marked(fs, table'), mode = "first" => table'[p].memos[r] = a
  PROVE  Marked(frames', table')
<1>1. CASE frames' = fs
  BY <1>1
<1>2. CASE frames' # fs
  <2> DEFINE f == NewFrame(r, p, mode, a, h, Len(cs) + 1, at)
             S == FrameRec \cup {f}
  <2>1. frames' = Append(fs, f)
    BY <1>2 DEF Evaluate
  <2>2. f.rule = r /\ f.p = p /\ f.mode = mode /\ f.ans = a
    BY DEF NewFrame
  <2> HIDE DEF f
  <2>3. fs \in Seq(S) /\ f \in S
    BY SeqDef
  <2> HIDE DEF S
  <2>4. /\ Len(fs) \in Nat /\ Len(frames') = Len(fs) + 1 /\ frames'[Len(fs) + 1] = f
        /\ \A j \in 1 .. Len(fs) : frames'[j] = fs[j]
    BY <2>1, <2>3, Appended
  <2>5. \A k \in 1 .. Len(frames') : k \in 1 .. Len(fs) \/ k = Len(fs) + 1
    BY <2>4
  <2> QED
    BY <2>2, <2>4, <2>5 DEF Marked
<1> QED
  BY <1>1, <1>2

-----------------------------------------------------------------------------
(* Statements leave memos, answers and the stack of calls as they are.      *)

LEMMA StatementQuiet ==
  ASSUME IInv, Statement
  PROVE  /\ SameApplications(frames, frames') /\ table' = table /\ answers' = answers
<1>1. ASSUME NEW op, At(op) PROVE frames \in Seq(FrameRec) /\ frames # <<>> /\ Top \in FrameRec
  BY <1>1, Running DEF At, IInv, TypeOK
<1>2. ASSUME NEW op, At(op), NEW v, Jump(v) PROVE SameApplications(frames, frames')
  BY <1>1, <1>2, MovedApplication DEF Jump
<1>3. ASSUME NEW op, At(op), NEW f, SetTop(f), f.rule = Top.rule, f.p = Top.p,
             f.mode = Top.mode, f.ans = Top.ans
      PROVE  SameApplications(frames, frames')
  BY <1>1, <1>3, PutApplication DEF SetTop, Top
<1>4. CASE MatchChars \/ MatchCapture \/ MatchMarker
  <2>1. PICK op, cs : At(op) /\ Compare(cs)
    BY <1>4 DEF MatchChars, MatchCapture, MatchMarker, CompareMarker
  <2> QED
    BY <1>2, <2>1 DEF Compare, heapVars
<1>5. CASE MatchPosition \/ GotoStmt \/ BreakIfEmpty \/ BranchOnCount \/ Predicate
  <2>1. PICK op, v : Control(op, v)
    BY <1>5 DEF MatchPosition, GotoStmt, BreakIfEmpty, BranchOnCount, Predicate
  <2> QED
    BY <1>2, <2>1 DEF Control, heapVars
<1>6. CASE SavePosition \/ SaveThunkCount \/ CountZero \/ CountNext
  <2>1. PICK op : At(op)
    BY <1>6 DEF SavePosition, SaveThunkCount, CountZero, CountNext
  <2>2. table' = table /\ answers' = answers
    BY <1>6 DEF SavePosition, SaveThunkCount, CountZero, CountNext, SetTop, heapVars
  <2>3. CASE SavePosition
    <3> DEFINE f == [Top EXCEPT !.ploc[Stmt.slot] = cur, !.pc = @ + 1]
    <3>1. SetTop(f)
      BY <2>3 DEF SavePosition
    <3>2. f.rule = Top.rule /\ f.p = Top.p /\ f.mode = Top.mode /\ f.ans = Top.ans
      BY <1>1, <2>1 DEF FrameRec
    <3> HIDE DEF f
    <3> QED
      BY <1>3, <2>1, <2>2, <3>1, <3>2
  <2>4. CASE SaveThunkCount
    <3> DEFINE f == [Top EXCEPT !.nloc[Stmt.slot] = Len(chunks[Top.chunk].thunks), !.pc = @ + 1]
    <3>1. SetTop(f)
      BY <2>4 DEF SaveThunkCount
    <3>2. f.rule = Top.rule /\ f.p = Top.p /\ f.mode = Top.mode /\ f.ans = Top.ans
      BY <1>1, <2>1 DEF FrameRec
    <3> HIDE DEF f
    <3> QED
      BY <1>3, <2>1, <2>2, <3>1, <3>2
  <2>5. CASE CountZero \/ CountNext
    <3>1. PICK n : SetTop([Top EXCEPT !.iloc[Stmt.slot] = n, !.pc = @ + 1])
      <4>1. CASE CountZero
        BY <4>1 DEF CountZero
      <4>2. CASE CountNext
        <5>1. SetTop([Top EXCEPT !.iloc[Stmt.slot] = @ + 1, !.pc = @ + 1])
          BY <4>2 DEF CountNext
        <5>2. [Top EXCEPT !.iloc[Stmt.slot] = @ + 1, !.pc = @ + 1]
                = [Top EXCEPT !.iloc[Stmt.slot] = Top.iloc[Stmt.slot] + 1, !.pc = @ + 1]
          BY <1>1, <2>1 DEF FrameRec
        <5> QED
          BY <5>1, <5>2
      <4> QED
        BY <2>5, <4>1, <4>2
    <3> DEFINE f == [Top EXCEPT !.iloc[Stmt.slot] = n, !.pc = @ + 1]
    <3>2. SetTop(f)
      BY <3>1
    <3>3. f.rule = Top.rule /\ f.p = Top.p /\ f.mode = Top.mode /\ f.ans = Top.ans
      BY <1>1, <2>1 DEF FrameRec
    <3> HIDE DEF f
    <3> QED
      BY <1>3, <2>1, <2>2, <3>2, <3>3
  <2> QED
    BY <1>6, <2>3, <2>4, <2>5
<1>7. CASE RestorePosition \/ ErrorAction
  <2>1. PICK op : At(op) /\ Jump(Top.pc + 1)
    BY <1>7 DEF RestorePosition, ErrorAction, Fall
  <2>2. table' = table /\ answers' = answers
    BY <1>7 DEF RestorePosition, ErrorAction, heapVars
  <2> QED
    BY <1>2, <2>1, <2>2
<1>8. CASE RevertThunks \/ RecordCapture \/ ThunkAction
  <2>1. PICK op, k : SetChunkOf(op, k)
    BY <1>8 DEF RevertThunks, RecordCapture, ThunkAction
  <2> QED
    BY <1>2, <2>1 DEF SetChunkOf, Fall, lrVars
<1> QED
  BY <1>4, <1>5, <1>6, <1>7, <1>8 DEF Statement

-----------------------------------------------------------------------------
(* The memos of the table stay when anything else of its entries changes.   *)

LEMMA HeldMemos ==
  ASSUME IInv, NEW p \in Idx
  PROVE  SameMemos(table, Held(p)) /\ SameMemos(table, Unheaded(p))
<1>1. table \in [Idx -> TableRec]
  BY DEF IInv, TypeOK
<1>2. ASSUME NEW i \in Idx
      PROVE  Held(p)[i].memos = table[i].memos /\ Unheaded(p)[i].memos = table[i].memos
  BY <1>1 DEF TableRec, Held, Unheaded
<1> QED
  BY <1>2 DEF SameMemos

LEMMA SeedMemos ==
  ASSUME IInv, NEW p \in Idx, NEW h, NEW u, u = [Held(p) EXCEPT ![p].head = h]
  PROVE  SameMemos(table, u)
<1>1. table \in [Idx -> TableRec]
  BY DEF IInv, TypeOK
<1>2. ASSUME NEW i \in Idx PROVE u[i].memos = table[i].memos
  BY <1>1 DEF TableRec, Held
<1> QED
  BY <1>2 DEF SameMemos

\* A head is kept in the entry of position p.
LEMMA HeadMemos ==
  ASSUME IInv, NEW p \in Idx, NEW h, NEW u, u = [table EXCEPT ![p].heads = @ \cup {h}]
  PROVE  SameMemos(table, u)
<1>1. table \in [Idx -> TableRec]
  BY DEF IInv, TypeOK
<1>2. ASSUME NEW i \in Idx PROVE u[i].memos = table[i].memos
  BY <1>1 DEF TableRec
<1> QED
  BY <1>2 DEF SameMemos

-----------------------------------------------------------------------------
(* Every step keeps the markers of the calls under way.                     *)

\* The bookkeeping of the calls, inductive with the invariant of ownership.
RInv == Inductive /\ Marked(frames, table)

LEMMA AppliedAt ==
  ASSUME IInv
  PROVE  /\ frames \in Seq(FrameRec) /\ Here \in Idx
         /\ \A k \in 1 .. Len(frames) : /\ frames[k].p \in Idx /\ frames[k].rule \in Rule
                                        /\ Answering(frames[k], answers)
         /\ SameMemos(table, table)
<1>1. /\ frames \in Seq(FrameRec) /\ Here \in Idx
      /\ CallsOK(frames, pos, bufn, Here, Len(chunks), answers)
  BY Numbers DEF IInv, TypeOK, Calls, Idx
<1>2. \A k \in 1 .. Len(frames) : frames[k] \in FrameRec /\ frames[k].p \in Idx
  BY <1>1, CallPlaces
<1> QED
  BY <1>1, <1>2, FrameFields DEF CallsOK, SameMemos

LEMMA StatementMarked ==
  ASSUME RInv, Statement PROVE Marked(frames', table')
BY StatementQuiet, AppliedAt, MarkedSame DEF RInv, Inductive

LEMMA ApplyMarked ==
  ASSUME RInv, Apply PROVE Marked(frames', table')
<1>1. /\ IInv /\ Marked(frames, table) /\ SameMemos(table, table)
      /\ frames \in Seq(FrameRec) /\ Here \in Idx
      /\ \A k \in 1 .. Len(frames) : frames[k].p \in Idx
  BY AppliedAt DEF RInv, Inductive
<1>2. CASE ApplyBlocked \/ ApplyMemoized \/ Involved
  <2>1. PICK c : Deliver(frames, chunks, c)
    BY <1>2 DEF ApplyBlocked, ApplyMemoized, Involved
  <2>2. table' = table
    BY <1>2 DEF ApplyBlocked, ApplyMemoized, Involved, lrVars
  <2> QED
    BY <1>1, <2>1, <2>2, DeliverMarked
<1>3. CASE ApplyReevaluate
  <2> DEFINE mode == "eval"
  <2>1. /\ Evaluate(frames, chunks, Applied, Here, mode, NULL, HeadHere, cur)
        /\ table' = table /\ mode # "first"
    BY <1>3 DEF ApplyReevaluate
  <2> HIDE DEF mode
  <2> QED
    BY <1>1, <2>1, EvaluateMarked
<1>4. CASE ApplyRecursive
  <2>1. frames' = frames
    BY <1>4 DEF ApplyRecursive
  <2>2. SameMemos(table, table')
    <3>1. table' = table \/ table' = [table EXCEPT ![Here].heads = @ \cup {Len(heads) + 1}]
      BY <1>4 DEF ApplyRecursive
    <3> QED
      BY <1>1, <3>1, HeadMemos
  <2> QED
    BY <1>1, <2>1, <2>2 DEF Marked, SameMemos
<1>5. CASE Involve
  BY <1>1, <1>5 DEF Involve
<1>6. CASE ApplyFirst
  <2> DEFINE a == Len(answers) + 1
             mode == "first"
  <2>1. /\ MemoHere = NULL /\ table' = [table EXCEPT ![Here].memos[Applied] = a]
        /\ Evaluate(frames, chunks, Applied, Here, mode, a, NULL, cur)
    BY <1>6 DEF ApplyFirst
  <2>2. /\ Applied \in Rule /\ table \in [Idx -> TableRec]
    BY <1>1, <1>6, Applicant DEF ApplyFirst, IInv, TypeOK
  <2> HIDE DEF a, mode
  <2>3. table'[Here].memos[Applied] = a
    BY <1>1, <2>1, <2>2 DEF TableRec
  <2>4. ASSUME NEW k \in 1 .. Len(frames), frames[k].mode = "first"
        PROVE  table'[frames[k].p].memos[frames[k].rule] = frames[k].ans
    <3>1. table[frames[k].p].memos[frames[k].rule] = frames[k].ans
      BY <1>1, <2>4 DEF Marked
    <3>2. frames[k].ans # NULL
      BY <1>1, <2>4, AppliedAt DEF Answering, NULL
    <3>3. frames[k].p # Here \/ frames[k].rule # Applied
      BY <2>1, <3>1, <3>2 DEF MemoHere
    <3>4. frames[k].p \in Idx /\ frames[k].rule \in Rule
      BY <1>1, AppliedAt
    <3> QED
      BY <1>1, <2>1, <2>2, <3>1, <3>3, <3>4 DEF TableRec
  <2>5. Marked(frames, table')
    BY <2>4 DEF Marked
  <2> QED
    BY <1>1, <2>1, <2>3, <2>5, EvaluateMarked
<1> QED
  BY <1>2, <1>3, <1>4, <1>5, <1>6 DEF Apply

LEMMA ReturnMarked ==
  ASSUME RInv, Return PROVE Marked(frames', table')
<1>1. IInv /\ OInv /\ Marked(frames, table)
  BY DEF RInv, Inductive
<1>2. (At("ret") \/ At("fail")) /\ frames # <<>> /\ frames \in Seq(FrameRec)
  BY <1>1 DEF Return, ReturnReevaluated, ReturnPlain, ReturnInvolved, ReturnNoSeed, ReturnSeed,
              GrowNext, GrowEnd, Returning, At, IInv, TypeOK
<1>3. /\ Top.p \in Idx /\ Popped \in Seq(FrameRec)
      /\ \A k \in 1 .. Len(Popped) : Popped[k].p \in Idx
  BY <1>1, <1>2, HandedOver
<1>4. Marked(Popped, table)
  <2>1. /\ Len(Popped) = Len(frames) - 1 /\ Len(frames) \in Nat
        /\ \A k \in 1 .. Len(Popped) : Popped[k] = frames[k]
    BY <1>2, PopType, LenProperties DEF Popped
  <2> QED
    BY <1>1, <2>1 DEF Marked
<1>5. SameMemos(table, Held(Top.p)) /\ SameMemos(table, Unheaded(Top.p))
  BY <1>1, <1>3, HeldMemos
<1>6. CASE ReturnReevaluated \/ ReturnPlain \/ ReturnInvolved \/ ReturnNoSeed \/ GrowEnd
  <2>1. PICK cs, c : Deliver(Popped, cs, c)
    BY <1>6 DEF ReturnReevaluated, ReturnPlain, ReturnInvolved, ReturnNoSeed, GrowEnd
  <2>2. table' = Held(Top.p) \/ table' = Unheaded(Top.p)
    BY <1>6 DEF ReturnReevaluated, ReturnPlain, ReturnInvolved, ReturnNoSeed, GrowEnd
  <2> QED
    BY <1>3, <1>4, <1>5, <2>1, <2>2, DeliverMarked
<1>7. CASE ReturnSeed \/ GrowNext
  <2> DEFINE mode == "grow"
  <2>1. PICK a, h : Evaluate(Popped, AfterReturn, Top.rule, Top.p, mode, a, h, Top.p - pos)
    BY <1>7 DEF ReturnSeed, GrowNext, GrowTurn
  <2>2. SameMemos(table, table')
    <3>1. table' = Held(Top.p) \/ table' = [Held(Top.p) EXCEPT ![Top.p].head = OwnHead]
      BY <1>7 DEF ReturnSeed, GrowNext
    <3> QED
      BY <1>1, <1>3, <1>5, <3>1, SeedMemos
  <2>3. mode # "first"
    OBVIOUS
  <2> HIDE DEF mode
  <2>4. Marked(Popped, table')
    BY <1>3, <1>4, <2>2 DEF Marked, SameMemos
  <2> QED
    BY <1>3, <2>1, <2>3, <2>4, EvaluateMarked
<1> QED
  BY <1>6, <1>7 DEF Return

\* Outside of pcc_apply_rule there is no call that could have a marker.
LEMMA OutsideMarked ==
  ASSUME RInv, ParseBegin \/ Finish \/ Destroy PROVE Marked(frames', table')
<1>1. frames' = frames /\ phase \notin {"running", "involve", "crash"}
  BY DEF ParseBegin, Finish, DoAction, ActionsDone, SyntaxError, Commit, Destroy
<1>2. Len(frames') = 0
  BY <1>1, NoRecursion DEF RInv, Inductive
<1> QED
  BY <1>2 DEF Marked

LEMMA MarkedAlways == Spec => []RInv
<1>1. Init => RInv
  <2>1. ASSUME Init PROVE Inductive
    BY <2>1, InitInv, InitOwned DEF Inductive
  <2>2. ASSUME Init PROVE Marked(frames, table)
    <3>1. Len(frames) = 0
      BY <2>2, EmptySeq DEF Init
    <3> QED
      BY <3>1 DEF Marked
  <2> QED
    BY <2>1, <2>2 DEF RInv
<1>2. RInv /\ [Next]_vars => RInv'
  <2> SUFFICES ASSUME RInv, [Next]_vars PROVE RInv'
    OBVIOUS
  <2>1. Inductive'
    BY NextInv, NextOwned DEF RInv, Inductive
  <2>2. Marked(frames', table')
    <3>1. CASE Next
      <4>1. CASE UNCHANGED vars
        BY <4>1 DEF RInv, vars
      <4>2. ParseBegin \/ Statement \/ Apply \/ Return \/ Finish \/ Destroy \/ UNCHANGED vars
        BY <3>1 DEF Next, Parsing, Ended
      <4> QED
        BY <4>1, <4>2, StatementMarked, ApplyMarked, ReturnMarked, OutsideMarked
    <3>2. CASE UNCHANGED vars
      BY <3>2 DEF RInv, vars
    <3> QED
      BY <3>1, <3>2
  <2> QED
    BY <2>1, <2>2 DEF RInv
<1> QED
  BY <1>1, <1>2, PTL DEF Spec

\* lrstack holds the entries of the rules whose first application is under way, in
\* the order of their calls, and each of these rules is still memoized as a
\* left-recursion marker at its position: whatever pcc_apply_rule does in between,
\* the pop of a return removes what the push of the same call brought.
THEOREM StackMirrorsCalls == Spec => []MarkersOfCalls
<1>1. ASSUME RInv PROVE MarkersOfCalls
  <2>1. /\ DOMAIN frames = 1 .. Len(frames) /\ DOMAIN lrstack = 1 .. Len(lrstack)
    BY <1>1, LenProperties DEF RInv, Inductive, IInv, TypeOK
  <2>2. \A k \in FirstCalls : /\ Memo(frames[k].p, frames[k].rule) = frames[k].ans
                              /\ answers[frames[k].ans].type = "LR"
    BY <1>1, <2>1, AppliedAt DEF RInv, Inductive, Marked, FirstCalls, Memo, Answering
  <2>3. ASSUME phase # "crash" PROVE StackOK(lrstack, frames, answers)
    BY <1>1, <2>3 DEF RInv, Inductive, OInv, StackSound
  <2>4. ASSUME phase # "crash"
        PROVE  /\ \A k \in FirstCalls : \E n \in DOMAIN lrstack : lrstack[n] = EntryOf(k)
               /\ \A n \in DOMAIN lrstack : \E k \in FirstCalls : lrstack[n] = EntryOf(k)
               /\ \A n, m \in DOMAIN lrstack : \A j, k \in FirstCalls :
                    lrstack[n] = EntryOf(j) /\ lrstack[m] = EntryOf(k) => (n < m <=> j < k)
    <3>1. \A n \in DOMAIN lrstack, k \in DOMAIN frames :
            Stacked(lrstack, frames, answers, n, k) <=>
              k \in FirstCalls /\ lrstack[n] = EntryOf(k)
      BY DEF Stacked, FirstCalls, EntryOf
    <3>2. /\ \A n \in DOMAIN lrstack : \E k \in DOMAIN frames :
               Stacked(lrstack, frames, answers, n, k)
          /\ \A k \in DOMAIN frames : frames[k].mode = "first" =>
               \E n \in DOMAIN lrstack : Stacked(lrstack, frames, answers, n, k)
          /\ \A n, m \in DOMAIN lrstack : \A j, k \in DOMAIN frames :
               Stacked(lrstack, frames, answers, n, j) /\ Stacked(lrstack, frames, answers, m, k)
                 => (n < m <=> j < k)
      BY <2>1, <2>3, <2>4 DEF StackOK
    <3>3. \A k \in FirstCalls : k \in DOMAIN frames /\ frames[k].mode = "first"
      BY DEF FirstCalls
    <3> QED
      BY <3>1, <3>2, <3>3
  <2> QED
    BY <2>2, <2>4 DEF MarkersOfCalls
<1>2. RInv => MarkersOfCalls
  BY <1>1
<1> QED
  BY <1>2, MarkedAlways, PTL

-----------------------------------------------------------------------------
(* A memoized result stays what it is.                                      *)

\* No result changes but that of answer x.
Apart(x) == \A a \in 1 .. Len(answers) : a # x => answers'[a] = answers[a]

AnswersWith(b, y) == AnswerRec \cup {b, y}

\* In bs answer x has become b and answer y is new.
Become(bs, x, b, y) ==
  /\ \A a \in 1 .. Len(answers) : bs[a] = IF a = x THEN b ELSE answers[a]
  /\ Len(bs) = Len(answers) + 1 /\ Len(answers) \in Nat
  /\ bs \in Seq(AnswersWith(b, y))

\* An answer is added behind the others, one of which changes.
LEMMA OneChanged ==
  ASSUME IInv, NEW x \in 1 .. Len(answers), NEW b, NEW y, NEW bs,
         bs = Append([answers EXCEPT ![x] = b], y)
  PROVE  Become(bs, x, b, y)
<1>1. PICK S : S = AnswersWith(b, y)
  OBVIOUS
<1>2. answers \in Seq(S) /\ b \in S /\ y \in S
  BY <1>1, SeqDef DEF IInv, TypeOK, AnswersWith
<1>3. PICK ds : ds = [answers EXCEPT ![x] = b]
  OBVIOUS
<1>4. bs = Append(ds, y)
  BY <1>3
<1>5. /\ Len(answers) \in Nat /\ ds \in Seq(S) /\ Len(ds) = Len(answers)
      /\ \A a \in 1 .. Len(answers) : ds[a] = IF a = x THEN b ELSE answers[a]
  BY ONLY x \in 1 .. Len(answers), <1>2, <1>3, ExceptSeq, LenProperties
<1>6. bs \in Seq(S) /\ Len(bs) = Len(ds) + 1 /\ \A a \in 1 .. Len(ds) : bs[a] = ds[a]
  BY ONLY <1>2, <1>4, <1>5, AppendProperties
<1> QED
  BY <1>1, <1>5, <1>6 DEF Become

\* An answer is added behind the others.
LEMMA OneMore ==
  ASSUME IInv, NEW y, answers' = Append(answers, y)
  PROVE  \A a \in 1 .. Len(answers) : answers'[a] = answers[a]
<1> DEFINE S == AnswerRec \cup {y}
<1>1. answers \in Seq(S) /\ y \in S
  BY SeqDef DEF IInv, TypeOK
<1> HIDE DEF S
<1> QED
  BY <1>1, Appended

\* The answer of a first application takes the result; it was a marker.
LEMMA FirstApart ==
  ASSUME IInv, ReturnPlain \/ ReturnNoSeed \/ ReturnSeed \/ ReturnInvolved
  PROVE  Apart(Top.ans) /\ answers[Top.ans].type = "LR"
<1> DEFINE x == Top.ans
<1>1. (At("ret") \/ At("fail")) /\ Top.mode = "first"
  BY DEF ReturnPlain, ReturnNoSeed, ReturnSeed, ReturnInvolved, Returning
<1>2. x \in 1 .. Len(answers) /\ answers[x].type = "LR"
  BY <1>1, OwnAnswer, Running DEF At, Answering
<1> DEFINE ds == [answers EXCEPT ![x].pos = Reached]
<1>3. PICK b, y : answers' = Append([answers EXCEPT ![x] = b], y)
  <2>1. CASE ReturnInvolved
    BY <2>1 DEF ReturnInvolved
  <2>2. CASE ReturnPlain \/ ReturnNoSeed \/ ReturnSeed
    <3>1. PICK c : answers' = WithChunk(ds, x, c)
      BY <2>2 DEF ReturnPlain, ReturnNoSeed, ReturnSeed
    <3>2. PICK b : answers' = Append([ds EXCEPT ![x] = b], ds[x])
      BY <3>1 DEF WithChunk
    <3>3. [ds EXCEPT ![x] = b] = [answers EXCEPT ![x] = b]
      OBVIOUS
    <3> QED
      BY <3>2, <3>3
  <2> QED
    BY <2>1, <2>2
<1> HIDE DEF x
<1>4. Apart(x)
  BY <1>2, <1>3, OneChanged DEF Apart, Become
<1> QED
  BY <1>2, <1>4 DEF x

\* A growing loop takes a longer result.
LEMMA GrowApart ==
  ASSUME IInv, GrowNext
  PROVE  /\ Apart(Top.ans) /\ Top.ans \in Growing
         /\ answers'[Top.ans].pos > answers[Top.ans].pos
<1>1. /\ At("ret") \/ At("fail")
      /\ Top.mode = "grow" /\ Grew
      /\ answers' = [WithChunk(answers, Top.ans, Result) EXCEPT ![Top.ans].pos = Reached]
  BY DEF GrowNext, Returning
<1>2. PICK x \in 1 .. Len(answers) : x = Top.ans
  BY <1>1, OwnAnswer
<1>3. PICK y : y = answers[x] /\ y \in AnswerRec
  BY <1>1, <1>2, OwnAnswer
<1>4. PICK b : b = [y EXCEPT !.type = "CHUNK", !.lr = NULL, !.chunk = Result]
  OBVIOUS
<1>5. PICK bs : bs = Append([answers EXCEPT ![x] = b], y)
  OBVIOUS
<1>6. answers' = [bs EXCEPT ![x].pos = Reached]
  BY <1>1, <1>2, <1>3, <1>4, <1>5 DEF WithChunk
<1>7. /\ \A a \in 1 .. Len(answers) : bs[a] = IF a = x THEN b ELSE answers[a]
      /\ Len(bs) = Len(answers) + 1 /\ Len(answers) \in Nat
      /\ bs \in Seq(AnswersWith(b, y))
  <2>1. Become(bs, x, b, y)
    BY ONLY IInv, <1>5, OneChanged
  <2> QED
    BY <2>1 DEF Become
<1>8. PICK g : g = [b EXCEPT !.pos = Reached]
  OBVIOUS
<1>9. g.pos = Reached
  BY <1>3, <1>4, <1>8 DEF AnswerRec
<1>10. PICK S : S = AnswersWith(b, y) \cup {g}
  OBVIOUS
<1>11. bs \in Seq(S) /\ g \in S /\ x \in 1 .. Len(bs)
  BY <1>7, <1>10, SeqDef
<1>12. answers' = [bs EXCEPT ![x] = g]
  BY <1>6, <1>7, <1>8
<1>13. \A a \in 1 .. Len(bs) : answers'[a] = IF a = x THEN g ELSE bs[a]
  BY ONLY <1>11, <1>12, ExceptSeq
<1>14. Apart(x) /\ answers'[x] = g
  BY <1>7, <1>11, <1>13 DEF Apart
<1>15. x \in Growing
  <2>1. Len(frames) \in DOMAIN frames /\ Top = frames[Len(frames)]
    BY <1>1, NotEmpty, LenProperties DEF At, Top, IInv, TypeOK
  <2> QED
    BY <1>1, <1>2, <2>1 DEF Growing
<1> QED
  BY <1>1, <1>2, <1>9, <1>14, <1>15 DEF Grew

\* What pcc_commit_buffer and pcc_destroy leave is as it was.
LEMMA DestroyedStays ==
  ASSUME IInv, OInv, Commit \/ Destroy
  PROVE  \A a \in Live(answers) : answers'[a].live => answers'[a] = answers[a]
<1>1. PICK n \in Nat : Destroyed({i \in Idx : i < n})
  <2>1. CASE Commit
    BY <2>1, Numbers DEF Commit
  <2>2. CASE Destroy
    <3>1. MaxPos + 1 \in Nat /\ Idx = {i \in Idx : i < MaxPos + 1}
      BY RuntimeAssumption DEF Idx
    <3>2. Destroyed(Idx)
      BY <2>2 DEF Destroy
    <3> QED
      BY <3>1, <3>2
  <2> QED
    BY <2>1, <2>2
<1>2. \A a \in Live(answers') : answers'[a] = answers[a]
  BY <1>1, DestroyedRemains DEF Remaining
<1>3. DOMAIN answers' = DOMAIN answers
  BY <1>1, Zenon DEF Destroyed
<1> QED
  BY <1>2, <1>3 DEF Live

\* Once pcc_apply_rule has memoized a result, neither its end nor its chunk changes
\* until it is destroyed, but by the growing loop that works on it, which replaces
\* it by a longer one: whoever was given the result was given what it still is.
THEOREM MemosStay == Spec => MemoStable
<1> DEFINE Stays == \A a \in Live(answers) : ResultStays(a)
<1>1. ASSUME Inductive, Next PROVE Stays
  <2>1. /\ IInv /\ OInv
        /\ \A a \in Live(answers) : a \in 1 .. Len(answers)
    BY <1>1, LenProperties DEF Inductive, IInv, TypeOK, Live
  <2>2. ASSUME \A a \in 1 .. Len(answers) : answers'[a] = answers[a] PROVE Stays
    BY <2>1, <2>2 DEF ResultStays
  <2>3. CASE answers' = answers
    BY <2>2, <2>3
  <2>4. CASE Statement
    BY <2>1, <2>3, <2>4, StatementQuiet
  <2>5. CASE ParseBegin \/ DoAction \/ ActionsDone \/ SyntaxError \/ UNCHANGED vars
    BY <2>3, <2>5 DEF ParseBegin, DoAction, ActionsDone, SyntaxError, heapVars, vars
  <2>6. CASE ApplyBlocked \/ ApplyReevaluate \/ ApplyMemoized \/ ApplyRecursive \/ Involve \/ Involved
    BY <2>3, <2>6 DEF ApplyBlocked, ApplyReevaluate, ApplyMemoized, ApplyRecursive, Involve,
                      Involved, lrVars
  <2>7. CASE ApplyFirst \/ ReturnReevaluated
    <3>1. PICK y : answers' = Append(answers, y)
      BY <2>7 DEF ApplyFirst, ReturnReevaluated
    <3> QED
      BY <2>1, <2>2, <3>1, OneMore
  <2>8. CASE ReturnPlain \/ ReturnNoSeed \/ ReturnSeed \/ ReturnInvolved
    BY <2>1, <2>8, FirstApart DEF Apart, ResultStays
  <2>9. CASE GrowNext
    BY <2>1, <2>9, GrowApart DEF Apart, ResultStays
  <2>10. CASE GrowEnd
    BY <2>3, <2>10 DEF GrowEnd
  <2>11. CASE Commit \/ Destroy
    BY <2>1, <2>11, DestroyedStays DEF ResultStays
  <2> QED
    BY <1>1, <2>4, <2>5, <2>6, <2>7, <2>8, <2>9, <2>10, <2>11
       DEF Next, Parsing, Apply, Return, Finish, Ended
<1>2. Inductive /\ [Next]_vars => [Stays]_vars
  BY <1>1
<1> HIDE DEF Stays
<1>3. Spec => [][Stays]_vars
  BY <1>2, OwnershipHolds, PTL DEF Spec
<1> QED
  BY <1>3 DEF Stays, MemoStable
=============================================================================
