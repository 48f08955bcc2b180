------------------------- MODULE MarkerRecordProofs -------------------------
(***************************************************************************)
(* The marker variables for every grammar, input and bound: the entries of *)
(* the stack are in the order of their positions and hold the values each  *)
(* open choice has to return to, as long as no answer is used again, and   *)
(* no value set ahead of a failure survives it, whatever is used again.    *)
(***************************************************************************)
EXTENDS MCMarkerRecord, SequenceTheorems, WellFoundedInduction, TLAPS

-----------------------------------------------------------------------------
(* The inductive invariant.                                                 *)

FrameRec == Choice \cup Call

Typed == /\ base \in Pos /\ here \in Pos
         /\ curr \in EntryRec /\ prev \in Seq(EntryRec)
         /\ frames \in Seq(FrameRec) /\ memos \subseteq Memo
         /\ parsing \in BOOLEAN /\ recalled \in BOOLEAN

\* A rule that grows has an answer to go back to.
GrownFromAnswers ==
  \A k \in 1 .. Depth :
    frames[k].kind = "rule" /\ frames[k].growing =>
      \E a \in memos : a.rule = frames[k].rule /\ a.at = frames[k].pos

\* The values of an entry were set at its position or behind it.
SetBehind(e) == e.set.at <= e.pos
AllSetBehind == /\ SetBehind(curr)
                /\ \A n \in 1 .. Len(prev) : SetBehind(prev[n])
                /\ \A a \in memos : SetBehind(a.mvars)

\* The entries are in the order of their positions, the current one last.
Ordered == /\ curr.pos <= here
           /\ \A n \in 1 .. Len(prev) : prev[n].pos < curr.pos
           /\ \A m, n \in 1 .. Len(prev) : m < n => prev[m].pos < prev[n].pos

\* The choices and rules are in the order of the positions they began at.
Nested == /\ \A k \in 1 .. Depth : frames[k].pos <= here
          /\ \A j, k \in 1 .. Depth : j < k => frames[j].pos <= frames[k].pos

\* x is what the entries c and p hold for position q: the values of the last one that
\* is not ahead of it, or none.
Recorded(c, p, q, x) ==
  \/ c.pos <= q /\ x = c.set
  \/ /\ c.pos > q
     /\ \E n \in 1 .. Len(p) : /\ p[n].pos <= q /\ x = p[n].set
                               /\ \A m \in (n + 1) .. Len(p) : p[m].pos > q
  \/ c.pos > q /\ x = Unset.set /\ \A m \in 1 .. Len(p) : p[m].pos > q

\* The entries hold what each choice has to go back to.
Remembered ==
  \A k \in 1 .. Depth :
    frames[k].kind = "choice" /\ ~frames[k].own =>
      Recorded(curr, prev, frames[k].pos, frames[k].past)

Settled == Typed /\ GrownFromAnswers /\ AllSetBehind
Kept    == Ordered /\ Nested /\ Remembered
RecordInv == Settled /\ (~recalled => Kept /\ ShiftLeavesOne)

-----------------------------------------------------------------------------
(* The loops over the stack.                                                *)

\* A set of natural numbers has a least element.
LEMMA LeastOf ==
  ASSUME NEW S, S \subseteq Nat, S # {}
  PROVE  \E x \in S : \A y \in S : x <= y
<1>1. PICK x \in S : \A y \in S : <<y, x>> \notin OpToRel(<, Nat)
  BY NatLessThanWellFounded, WFMin
<1>2. ASSUME NEW y \in S
      PROVE  x <= y
  <2>1. x \in Nat /\ y \in Nat
    OBVIOUS
  <2>2. ~(y < x)
    BY <1>1, <2>1 DEF OpToRel
  <2> QED
    BY <2>1, <2>2
<1> QED
  BY <1>2

\* A position type.
LEMMA EntryFields ==
  ASSUME NEW e \in EntryRec
  PROVE  e.pos \in Int /\ e.set \in ValueRec /\ e.set.at \in Int
BY MarkerAssumption DEF EntryRec, ValueRec, Pos

\* What the loop of pcc_marker_variable_set_record__restore ends with.
LEMMA RemainingIs ==
  ASSUME Typed, NEW pos \in Int
  PROVE  /\ Remaining(pos) \in 0 .. Len(prev)
         /\ Remaining(pos) > 0 => prev[Remaining(pos)].pos <= pos
         /\ \A m \in (Remaining(pos) + 1) .. Len(prev) : prev[m].pos > pos
<1> DEFINE L == Len(prev)
           S == {x \in 0 .. L : x < L => prev[L - x].pos <= pos}
<1>1. L \in Nat /\ \A m \in 1 .. L : prev[m].pos \in Int
  BY EntryFields DEF Typed
<1>2. S \subseteq Nat /\ L \in S
  BY <1>1
<1>3. PICK x \in S : \A y \in S : x <= y
  BY <1>2, LeastOf
<1>4. L - x \in 0 .. L /\ (L - x > 0 => prev[L - x].pos <= pos)
  BY <1>1, <1>3
<1>5. ASSUME NEW m \in (L - x + 1) .. L
      PROVE  prev[m].pos > pos
  <2>1. m \in 1 .. L /\ L - m \in 0 .. L /\ L - m < x /\ L - (L - m) = m
    BY <1>1, <1>4
  <2>2. L - m \notin S
    BY <1>1, <1>3, <2>1
  <2> QED
    BY <1>1, <2>1, <2>2
<1>6. \E n \in 0 .. Len(prev) : /\ n > 0 => prev[n].pos <= pos
                                /\ \A m \in (n + 1) .. Len(prev) : prev[m].pos > pos
  BY <1>4, <1>5
<1> QED
  BY <1>6 DEF Remaining

\* What the loop of pcc_marker_variable_set_record__shift ends with.
LEMMA PassedIs ==
  ASSUME Typed, NEW pos \in Int
  PROVE  /\ Passed(pos) \in 0 .. Len(prev)
         /\ Passed(pos) < Len(prev) => prev[Passed(pos) + 1].pos > pos
         /\ \A m \in 1 .. Passed(pos) : prev[m].pos <= pos
<1> DEFINE L == Len(prev)
           S == {x \in 0 .. L : x < L => prev[x + 1].pos > pos}
<1>1. L \in Nat /\ \A m \in 1 .. L : prev[m].pos \in Int
  BY EntryFields DEF Typed
<1>2. S \subseteq Nat /\ L \in S
  BY <1>1
<1>3. PICK x \in S : \A y \in S : x <= y
  BY <1>2, LeastOf
<1>4. x \in 0 .. L /\ (x < L => prev[x + 1].pos > pos)
  BY <1>1, <1>3
<1>5. ASSUME NEW m \in 1 .. x
      PROVE  prev[m].pos <= pos
  <2>1. m \in 1 .. L /\ m - 1 \in 0 .. L /\ m - 1 < L /\ m - 1 < x /\ (m - 1) + 1 = m
    BY <1>1, <1>4
  <2>2. m - 1 \notin S
    BY <1>1, <1>3, <2>1
  <2> QED
    BY <1>1, <2>1, <2>2
<1>6. \E n \in 0 .. Len(prev) : /\ n < Len(prev) => prev[n + 1].pos > pos
                                /\ \A m \in 1 .. n : prev[m].pos <= pos
  BY <1>4, <1>5
<1> QED
  BY <1>6 DEF Passed

LEMMA UnsetFields == Unset \in EntryRec /\ Unset.pos = 0 /\ SetBehind(Unset)
BY MarkerAssumption DEF Unset, EntryRec, ValueRec, Pos, SetBehind

\* The entries c and p were cut back to the entry n of the ones before.
CutBack(c, p, n) == /\ c = prev[n] /\ Len(p) = n - 1
                    /\ \A m \in 1 .. n - 1 : p[m] = prev[m]

\* The three ways pcc_marker_variable_set_record__restore goes.
LEMMA RestoreCases ==
  ASSUME Typed, NEW pos \in Int, NEW c, NEW p, c = curr', p = prev', Restore(pos)
  PROVE  /\ p \in Seq(EntryRec)
         /\ \/ curr.pos <= pos /\ c = curr /\ p = prev
            \/ /\ curr.pos > pos /\ c = Unset /\ p = <<>>
               /\ \A m \in 1 .. Len(prev) : prev[m].pos > pos
            \/ /\ curr.pos > pos
               /\ \E n \in 1 .. Len(prev) :
                    /\ CutBack(c, p, n) /\ prev[n].pos <= pos
                    /\ \A m \in (n + 1) .. Len(prev) : prev[m].pos > pos
<1>1. prev \in Seq(EntryRec) /\ curr.pos \in Int
  BY EntryFields DEF Typed
<1>2. CASE ~Restores(pos)
  BY <1>1, <1>2 DEF Restore, Restores
<1>3. CASE Restores(pos) /\ Remaining(pos) = 0
  <2>1. \A m \in 1 .. Len(prev) : prev[m].pos > pos
    BY <1>3, RemainingIs
  <2>2. curr.pos > pos /\ c = Unset /\ p = <<>>
    BY <1>3 DEF Restore, Restores
  <2> QED
    BY <2>1, <2>2
<1>4. CASE Restores(pos) /\ Remaining(pos) # 0
  <2>1. PICK n \in 1 .. Len(prev) : n = Remaining(pos)
    BY <1>1, <1>4, RemainingIs
  <2>2. c = prev[n] /\ p = SubSeq(prev, 1, n - 1) /\ curr.pos > pos
    BY <1>4, <2>1 DEF Restore, Restores
  <2>3. p \in Seq(EntryRec) /\ CutBack(c, p, n)
    BY <1>1, <2>2 DEF CutBack
  <2>4. prev[n].pos <= pos /\ \A m \in (n + 1) .. Len(prev) : prev[m].pos > pos
    <3>1. n > 0
      OBVIOUS
    <3> QED
      BY <2>1, <3>1, RemainingIs
  <2> QED
    BY <2>2, <2>3, <2>4
<1> QED
  BY <1>2, <1>3, <1>4

\* What is recorded for the positions up to the restored one stays.
LEMMA RestoreRecorded ==
  ASSUME Typed, NEW pos \in Nat, NEW c, NEW p, c = curr', p = prev', Restore(pos),
         NEW q \in Nat, q <= pos, NEW x, Recorded(curr, prev, q, x)
  PROVE  Recorded(c, p, q, x)
<1>1. prev \in Seq(EntryRec) /\ curr.pos \in Int /\ \A m \in 1 .. Len(prev) : prev[m].pos \in Int
  BY EntryFields DEF Typed
<1>2. CASE c = curr /\ p = prev
  BY <1>2
<1>3. CASE /\ curr.pos > pos /\ c = Unset /\ p = <<>>
           /\ \A m \in 1 .. Len(prev) : prev[m].pos > pos
  <2>1. x = Unset.set
    BY <1>1, <1>3 DEF Recorded
  <2> QED
    BY <1>3, <2>1, UnsetFields DEF Recorded
<1>4. ASSUME NEW n \in 1 .. Len(prev), curr.pos > pos, CutBack(c, p, n), prev[n].pos <= pos,
             \A m \in (n + 1) .. Len(prev) : prev[m].pos > pos
      PROVE  Recorded(c, p, q, x)
  <2>1. /\ c = prev[n] /\ c.pos \in Int /\ Len(p) = n - 1 /\ n - 1 \in Nat
        /\ \A m \in 1 .. n - 1 : p[m] = prev[m] /\ m \in 1 .. Len(prev)
    BY <1>1, <1>4 DEF CutBack
  <2>2. ~(curr.pos <= q)
    BY <1>1, <1>4
  <2>3. CASE x = Unset.set /\ \A m \in 1 .. Len(prev) : prev[m].pos > q
    BY <1>1, <2>1, <2>3 DEF Recorded
  <2>4. ASSUME NEW k \in 1 .. Len(prev), prev[k].pos <= q, x = prev[k].set,
               \A m \in (k + 1) .. Len(prev) : prev[m].pos > q
        PROVE  Recorded(c, p, q, x)
    <3>1. k <= n
      <4>1. ASSUME k > n
            PROVE  FALSE
        BY <1>1, <1>4, <2>4, <4>1
      <4> QED
        BY <4>1
    <3>2. CASE k = n
      BY <2>1, <2>4, <3>2 DEF Recorded
    <3>3. CASE k < n
      <4>1. k \in 1 .. Len(p) /\ p[k].pos <= q /\ x = p[k].set
        BY <2>1, <2>4, <3>3
      <4>2. c.pos > q
        BY <2>1, <2>4, <3>3
      <4>3. \A m \in (k + 1) .. Len(p) : p[m].pos > q
        BY <2>1, <2>4, <3>3
      <4> QED
        BY <4>1, <4>2, <4>3 DEF Recorded
    <3> QED
      BY <3>1, <3>2, <3>3
  <2> QED
    BY <2>2, <2>3, <2>4 DEF Recorded
<1> QED
  BY <1>2, <1>3, <1>4, RestoreCases

\* The restored values are those recorded.
LEMMA RestoredIs ==
  ASSUME Typed, NEW pos \in Nat, NEW c, NEW p, c = curr', p = prev', Restore(pos),
         NEW x, Recorded(curr, prev, pos, x)
  PROVE  c.set = x
<1>1. Recorded(c, p, pos, x)
  BY RestoreRecorded
<1>2. c.pos <= pos
  BY RestoreCases, UnsetFields DEF CutBack
<1>3. c.pos \in Int
  BY RestoreCases, UnsetFields, EntryFields DEF CutBack, Typed
<1> QED
  BY <1>1, <1>2, <1>3 DEF Recorded

LEMMA RestoreSettled ==
  ASSUME Settled, NEW pos \in Nat, NEW c, NEW p, c = curr', p = prev', Restore(pos)
  PROVE  /\ c \in EntryRec /\ p \in Seq(EntryRec) /\ c.pos <= pos
         /\ SetBehind(c) /\ \A n \in 1 .. Len(p) : SetBehind(p[n])
<1>0. Typed /\ prev \in Seq(EntryRec) /\ curr \in EntryRec
  BY DEF Settled, Typed
<1>1. p \in Seq(EntryRec) /\ c.pos <= pos
  BY <1>0, RestoreCases, UnsetFields DEF CutBack
<1>2. c \in EntryRec /\ SetBehind(c)
  BY <1>0, RestoreCases, UnsetFields DEF CutBack, Settled, AllSetBehind
<1>3. \A n \in 1 .. Len(p) : SetBehind(p[n])
  BY <1>0, RestoreCases DEF CutBack, Settled, AllSetBehind
<1> QED
  BY <1>1, <1>2, <1>3

\* The entries stay in order.
LEMMA RestoreOrdered ==
  ASSUME Typed, Ordered, NEW pos \in Nat, NEW c, NEW p, c = curr', p = prev', Restore(pos)
  PROVE  /\ \A n \in 1 .. Len(p) : p[n].pos < c.pos
         /\ \A m, n \in 1 .. Len(p) : m < n => p[m].pos < p[n].pos
<1>1. prev \in Seq(EntryRec)
  BY DEF Typed
<1>2. CASE c = curr /\ p = prev
  BY <1>2 DEF Ordered
<1>3. CASE p = <<>>
  BY <1>3
<1>4. ASSUME NEW n \in 1 .. Len(prev), CutBack(c, p, n)
      PROVE  /\ \A m \in 1 .. Len(p) : p[m].pos < c.pos
             /\ \A l, m \in 1 .. Len(p) : l < m => p[l].pos < p[m].pos
  BY <1>1, <1>4 DEF CutBack, Ordered
<1> QED
  BY <1>2, <1>3, <1>4, RestoreCases

-----------------------------------------------------------------------------
(* The choices and rules.                                                   *)

LEMMA FrameFields ==
  ASSUME Typed, NEW k \in 1 .. Depth
  PROVE  /\ frames[k] \in FrameRec /\ frames[k].pos \in Pos
         /\ frames[k].kind = "rule" => frames[k] \in Call
         /\ frames[k].kind # "rule" => frames[k] \in Choice
BY DEF Typed, Depth, FrameRec, Choice, Call

LEMMA PosInt == \A n \in Pos : n \in Nat /\ n \in Int
BY MarkerAssumption DEF Pos

\* Those that are left when a choice or a rule is over.
LEMMA DownIs ==
  ASSUME Typed, NEW k \in 0 .. Depth
  PROVE  /\ Down(k) \in Seq(FrameRec) /\ Len(Down(k)) = k
         /\ \A j \in 1 .. k : j \in 1 .. Depth /\ Down(k)[j] = frames[j]
BY DEF Typed, Depth, Down

\* Each one that grows is among those of before, and its answer is not lost.
LEMMA GrownKept ==
  ASSUME GrownFromAnswers, memos \subseteq memos', NEW fs, fs = frames',
         \A k \in 1 .. Len(fs) :
           \/ fs[k].kind = "rule" => ~fs[k].growing
           \/ k \in 1 .. Depth /\ fs[k] = frames[k]
  PROVE  GrownFromAnswers'
BY DEF GrownFromAnswers, Depth

-----------------------------------------------------------------------------
(* What holds whatever answers are used again.                              *)

\* The entry a predicate makes current, and the one it saves.
LEMMA PredicateSets ==
  ASSUME Typed, NEW v \in Value, Predicate(v), NEW c, NEW p, NEW fs,
         c = curr', p = prev', fs = frames'
  PROVE  /\ c \in EntryRec /\ p \in Seq(EntryRec) /\ fs \in Seq(FrameRec)
         /\ c.set.at = here /\ c.pos = IF curr.pos < here THEN here ELSE curr.pos
         /\ curr.pos < here =>
              /\ Len(p) = Len(prev) + 1 /\ p[Len(prev) + 1] = curr
              /\ \A n \in 1 .. Len(prev) : p[n] = prev[n]
         /\ ~(curr.pos < here) => p = prev
         /\ Len(fs) = Depth
         /\ \A k \in 1 .. Depth :
              IF frames[k].kind = "choice" /\ frames[k].pos = here
              THEN fs[k] = [frames[k] EXCEPT !.own = TRUE] ELSE fs[k] = frames[k]
<1>1. c = [pos |-> IF Saves(here) THEN here ELSE curr.pos, set |-> [at |-> here, value |-> v]]
  BY DEF Predicate
<1>2. p = IF Saves(here) THEN Append(prev, curr) ELSE prev
  BY DEF Predicate
<1>3. fs = [k \in 1 .. Depth |->
              IF frames[k].kind = "choice" /\ frames[k].pos = here
              THEN [frames[k] EXCEPT !.own = TRUE] ELSE frames[k]]
  BY DEF Predicate
<1>4. curr \in EntryRec /\ prev \in Seq(EntryRec) /\ here \in Pos
  BY DEF Typed
<1>5. c \in EntryRec
  BY <1>1, <1>4 DEF EntryRec, ValueRec
<1>6. ASSUME NEW k \in 1 .. Depth
      PROVE  fs[k] \in FrameRec
  <2>1. CASE frames[k].kind = "choice" /\ frames[k].pos = here
    <3>1. frames[k] \in Choice /\ fs[k] = [frames[k] EXCEPT !.own = TRUE]
      BY <1>3, <2>1, FrameFields
    <3>2. fs[k] \in Choice
      BY <3>1 DEF Choice
    <3> QED
      BY <3>2 DEF FrameRec
  <2>2. CASE ~(frames[k].kind = "choice" /\ frames[k].pos = here)
    BY <1>3, <2>2, FrameFields
  <2> QED
    BY <2>1, <2>2
<1>7. Depth \in Nat
  BY DEF Typed, Depth
<1>8. fs \in Seq(FrameRec) /\ Len(fs) = Depth
  <2>1. DOMAIN fs = 1 .. Depth /\ fs = [k \in 1 .. Depth |-> fs[k]]
    BY <1>3
  <2>2. fs \in [1 .. Depth -> FrameRec]
    BY <1>6, <2>1
  <2> QED
    BY <1>7, <2>1, <2>2, SeqDef
<1>9. p \in Seq(EntryRec)
  BY <1>2, <1>4
<1>10. Saves(here) <=> curr.pos < here
  BY DEF Saves
<1>11. c.set.at = here /\ c.pos = IF curr.pos < here THEN here ELSE curr.pos
  BY <1>1, <1>10
<1>12. curr.pos < here =>
              /\ Len(p) = Len(prev) + 1 /\ p[Len(prev) + 1] = curr
              /\ \A n \in 1 .. Len(prev) : p[n] = prev[n]
  BY <1>2, <1>4, <1>10
<1> QED
  BY <1>2, <1>3, <1>5, <1>8, <1>9, <1>10, <1>11, <1>12

LEMMA SettledAdvance == Settled /\ Advance => Settled'
<1> SUFFICES ASSUME Settled, Advance PROVE Settled'
  OBVIOUS
<1>1. here' \in Pos
  BY MarkerAssumption DEF Settled, Typed, Advance, Pos
<1>2. UNCHANGED <<base, curr, prev, frames, memos, parsing, recalled>>
  BY DEF Advance
<1> QED
  BY <1>1, <1>2 DEF Settled, Typed, GrownFromAnswers, AllSetBehind, Depth

LEMMA SettledPredicate == ASSUME NEW v \in Value PROVE Settled /\ Predicate(v) => Settled'
<1> SUFFICES ASSUME Settled, Predicate(v) PROVE Settled'
  OBVIOUS
<1>1. PICK c, p, fs : c = curr' /\ p = prev' /\ fs = frames'
  OBVIOUS
<1>2. UNCHANGED <<base, here, memos, parsing, recalled>> /\ Typed
  BY DEF Predicate, Settled
<1>3. /\ c \in EntryRec /\ p \in Seq(EntryRec) /\ fs \in Seq(FrameRec)
      /\ c.set.at = here /\ c.pos = IF curr.pos < here THEN here ELSE curr.pos
      /\ Len(fs) = Depth
  BY <1>1, <1>2, PredicateSets
<1>4. Typed'
  BY <1>1, <1>2, <1>3 DEF Typed
<1>5. SetBehind(c)
  BY <1>2, <1>3, PosInt, EntryFields DEF SetBehind, Typed
<1>6. \A n \in 1 .. Len(p) : SetBehind(p[n])
  <2>1. SetBehind(curr) /\ \A n \in 1 .. Len(prev) : SetBehind(prev[n])
    BY DEF Settled, AllSetBehind
  <2>2. CASE curr.pos < here
    <3>1. /\ Len(p) = Len(prev) + 1 /\ p[Len(prev) + 1] = curr
          /\ \A n \in 1 .. Len(prev) : p[n] = prev[n]
      BY <1>1, <1>2, <2>2, PredicateSets
    <3> QED
      BY <1>2, <2>1, <3>1 DEF Typed
  <2>3. CASE ~(curr.pos < here)
    BY <1>1, <1>2, <2>1, <2>3, PredicateSets
  <2> QED
    BY <2>2, <2>3
<1>7. ASSUME NEW k \in 1 .. Depth
      PROVE  (fs[k].kind = "rule" => fs[k] = frames[k])
  <2>1. IF frames[k].kind = "choice" /\ frames[k].pos = here
        THEN fs[k] = [frames[k] EXCEPT !.own = TRUE] ELSE fs[k] = frames[k]
    BY <1>1, <1>2, PredicateSets
  <2> QED
    BY <1>2, <2>1, FrameFields DEF Choice
<1>8. GrownFromAnswers'
  BY <1>1, <1>2, <1>3, <1>7 DEF Settled, GrownFromAnswers, Depth
<1> QED
  BY <1>1, <1>2, <1>4, <1>5, <1>6, <1>8 DEF Settled, AllSetBehind

\* What matters of a step that changes only the choices, the position or the answers.
LEMMA SettledFrames ==
  ASSUME Settled, UNCHANGED <<curr, prev>>, base' \in Pos, here' \in Pos,
         parsing' \in BOOLEAN, recalled' \in BOOLEAN,
         NEW fs \in Seq(FrameRec), fs = frames',
         UNCHANGED memos,
         \A k \in 1 .. Len(fs) :
           \/ fs[k].kind = "rule" => ~fs[k].growing
           \/ k \in 1 .. Depth /\ fs[k] = frames[k]
  PROVE  Settled'
<1>1. GrownFromAnswers'
  BY GrownKept DEF Settled
<1>2. Typed' /\ AllSetBehind'
  BY DEF Settled, Typed, AllSetBehind
<1> QED
  BY <1>1, <1>2 DEF Settled

\* A choice or a rule begins.
LEMMA SettledPush ==
  ASSUME Settled, NEW f \in FrameRec, f.kind = "rule" => ~f.growing,
         frames' = Append(frames, f),
         UNCHANGED <<base, here, curr, prev, memos, parsing, recalled>>
  PROVE  Settled'
<1>1. Typed /\ here \in Pos /\ base \in Pos /\ Depth \in Nat
      /\ parsing \in BOOLEAN /\ recalled \in BOOLEAN
  BY DEF Settled, Typed, Depth
<1>2. PICK fs : fs = Append(frames, f)
  OBVIOUS
<1>3. /\ fs \in Seq(FrameRec) /\ Len(fs) = Depth + 1 /\ fs[Depth + 1] = f
      /\ \A j \in 1 .. Depth : fs[j] = frames[j]
  <2>1. frames \in Seq(FrameRec) /\ Depth = Len(frames)
    BY <1>1 DEF Typed, Depth
  <2> QED
    BY ONLY <1>2, <2>1, f \in FrameRec
<1>4. \A k \in 1 .. Len(fs) : \/ fs[k].kind = "rule" => ~fs[k].growing
                              \/ k \in 1 .. Depth /\ fs[k] = frames[k]
  BY <1>1, <1>3
<1> QED
  BY <1>1, <1>2, <1>3, <1>4, SettledFrames

LEMMA SettledChoose == Settled /\ Choose => Settled'
<1> SUFFICES ASSUME Settled, Choose PROVE Settled'
  OBVIOUS
<1>1. PICK f : f = [kind |-> "choice", pos |-> here, past |-> curr.set, own |-> FALSE]
  OBVIOUS
<1>2. here \in Pos /\ curr.set \in ValueRec
  BY EntryFields DEF Settled, Typed
<1>3. f \in FrameRec /\ f.kind = "choice"
  BY <1>1, <1>2 DEF FrameRec, Choice
<1>4. frames' = Append(frames, f) /\ UNCHANGED <<base, here, curr, prev, memos, parsing, recalled>>
  BY <1>1 DEF Choose
<1> QED
  BY <1>3, <1>4, SettledPush

LEMMA SettledApply == ASSUME NEW r \in Rule PROVE Settled /\ Apply(r) => Settled'
<1> SUFFICES ASSUME Settled, Apply(r) PROVE Settled'
  OBVIOUS
<1>1. PICK f : f = [kind |-> "rule", rule |-> r, pos |-> here, growing |-> FALSE]
  OBVIOUS
<1>2. here \in Pos
  BY DEF Settled, Typed
<1>3. f \in FrameRec /\ ~f.growing
  BY <1>1, <1>2 DEF FrameRec, Call
<1>4. frames' = Append(frames, f) /\ UNCHANGED <<base, here, curr, prev, memos, parsing, recalled>>
  BY <1>1 DEF Apply
<1> QED
  BY <1>3, <1>4, SettledPush

LEMMA SettledBegin == ASSUME NEW r \in Rule PROVE Settled /\ Begin(r) => Settled'
<1> SUFFICES ASSUME Settled, Begin(r) PROVE Settled'
  OBVIOUS
<1> DEFINE f == [kind |-> "rule", rule |-> r, pos |-> here, growing |-> FALSE]
<1>1. here \in Pos /\ base \in Pos /\ recalled \in BOOLEAN
  BY DEF Settled, Typed
<1>2. f \in FrameRec /\ ~f.growing
  BY <1>1 DEF FrameRec, Call
<1>3. /\ frames' = <<f>> /\ parsing' \in BOOLEAN
      /\ UNCHANGED <<base, here, curr, prev, memos, recalled>>
  BY DEF Begin
<1> HIDE DEF f
<1>4. PICK fs : fs = <<f>>
  OBVIOUS
<1>5. /\ fs \in Seq(FrameRec)
      /\ \A k \in 1 .. Len(fs) : fs[k].kind = "rule" => ~fs[k].growing
  BY <1>2, <1>4
<1> QED
  BY <1>1, <1>3, <1>4, <1>5, SettledFrames

\* Choices and rules are over.
LEMMA SettledDown ==
  ASSUME Settled, NEW k \in 0 .. Depth, frames' = Down(k), here' \in Pos, recalled' \in BOOLEAN,
         UNCHANGED <<base, curr, prev, memos, parsing>>
  PROVE  Settled'
<1>1. PICK fs : fs = Down(k)
  OBVIOUS
<1>2. Typed /\ base \in Pos /\ parsing \in BOOLEAN
  BY DEF Settled, Typed
<1>3. /\ fs \in Seq(FrameRec) /\ Len(fs) = k
      /\ \A j \in 1 .. k : j \in 1 .. Depth /\ fs[j] = frames[j]
  BY <1>1, <1>2, DownIs
<1> QED
  BY <1>1, <1>2, <1>3, SettledFrames

LEMMA DepthInside == Typed /\ frames # <<>> => /\ Depth \in 1 .. Depth /\ Depth - 1 \in 0 .. Depth
                                               /\ Top = frames[Depth]
BY DEF Typed, Depth, Top

LEMMA SettledLeave == Settled /\ Leave => Settled'
<1> SUFFICES ASSUME Settled, Leave PROVE Settled'
  OBVIOUS
<1>1. here' \in Pos /\ recalled' \in BOOLEAN /\ Depth - 1 \in 0 .. Depth
  BY DepthInside DEF Settled, Typed, Leave, Matching
<1> QED
  BY <1>1, SettledDown DEF Leave

LEMMA SettledBack == ASSUME NEW k \in 1 .. Depth PROVE Settled /\ Back(k) => Settled'
<1> SUFFICES ASSUME Settled, Back(k) PROVE Settled'
  OBVIOUS
<1>1. Typed /\ frames[k].pos \in Pos /\ frames[k].pos \in Nat /\ k \in 0 .. Depth
  <2>1. Typed
    BY DEF Settled
  <2>2. k \in 0 .. Depth
    BY <2>1 DEF Typed, Depth
  <2> QED
    BY <2>1, <2>2, FrameFields, PosInt
<1>2. /\ frames' = Down(k) /\ here' = frames[k].pos /\ Restore(frames[k].pos)
      /\ UNCHANGED <<base, memos, parsing, recalled>>
  BY DEF Back
<1>3. PICK c, p, fs : c = curr' /\ p = prev' /\ fs = Down(k)
  OBVIOUS
<1>4. /\ c \in EntryRec /\ p \in Seq(EntryRec)
      /\ SetBehind(c) /\ \A n \in 1 .. Len(p) : SetBehind(p[n])
  BY <1>1, <1>2, <1>3, RestoreSettled
<1>5. /\ fs \in Seq(FrameRec) /\ Len(fs) = k
      /\ \A j \in 1 .. k : j \in 1 .. Depth /\ fs[j] = frames[j]
  BY <1>1, <1>3, DownIs
<1>6. Typed'
  BY <1>1, <1>2, <1>3, <1>4, <1>5 DEF Typed
<1>7. AllSetBehind'
  BY <1>2, <1>3, <1>4 DEF Settled, AllSetBehind
<1>8. GrownFromAnswers'
  BY <1>2, <1>3, <1>5, GrownKept DEF Settled
<1> QED
  BY <1>6, <1>7, <1>8 DEF Settled

LEMMA SettledGrown == ASSUME NEW k \in 1 .. Depth PROVE Settled /\ Grown(k) => Settled'
<1> SUFFICES ASSUME Settled, Grown(k) PROVE Settled'
  OBVIOUS
<1>1. frames[k].kind = "rule" /\ frames[k].growing
  BY DEF Grown
<1>2. \E a \in memos : a.rule = frames[k].rule /\ a.at = frames[k].pos
  BY <1>1 DEF Settled, GrownFromAnswers
<1>3. (CHOOSE a \in memos : a.rule = frames[k].rule /\ a.at = frames[k].pos) \in memos
  BY <1>2
<1>4. here' \in Pos /\ recalled' \in BOOLEAN
  BY <1>3 DEF Grown, Settled, Typed, Memo
<1>5. k - 1 \in 0 .. Depth
  BY DEF Settled, Typed, Depth
<1> QED
  BY <1>4, <1>5, SettledDown DEF Grown

LEMMA SettledSyntaxError == Settled /\ SyntaxError => Settled'
<1> SUFFICES ASSUME Settled, SyntaxError PROVE Settled'
  OBVIOUS
<1>1. frames' = <<>> /\ UNCHANGED <<base, here, curr, prev, memos, parsing, recalled>>
  BY DEF SyntaxError
<1>2. /\ base' \in Pos /\ here' \in Pos /\ parsing' \in BOOLEAN /\ recalled' \in BOOLEAN
  BY <1>1 DEF Settled, Typed
<1>3. <<>> \in Seq(FrameRec) /\ Len(<<>>) = 0
  OBVIOUS
<1>4. Typed' /\ AllSetBehind'
  BY <1>1, <1>2, <1>3 DEF Settled, Typed, AllSetBehind
<1>5. GrownFromAnswers'
  BY <1>1, <1>3 DEF GrownFromAnswers, Depth
<1> QED
  BY <1>4, <1>5 DEF Settled

LEMMA SettledReuse == ASSUME NEW r \in Rule PROVE Settled /\ Reuse(r) => Settled'
<1> SUFFICES ASSUME Settled, Reuse(r) PROVE Settled'
  OBVIOUS
<1>1. PICK a \in memos : here' = a.end /\ curr' = a.mvars
  BY DEF Reuse, Made
<1>2. a.end \in Pos /\ a.mvars \in EntryRec /\ SetBehind(a.mvars)
  BY DEF Settled, Typed, Memo, AllSetBehind
<1>3. recalled' = TRUE /\ UNCHANGED <<base, prev, frames, memos, parsing>>
  BY DEF Reuse
<1> QED
  BY <1>1, <1>2, <1>3 DEF Settled, Typed, GrownFromAnswers, AllSetBehind, Depth

\* An answer is made of what a rule ends with.
LEMMA AnswerFields ==
  ASSUME Settled, frames # <<>>, Top.kind = "rule"
  PROVE  /\ Answer \in Memo /\ SetBehind(Answer.mvars)
         /\ Answer.rule = Top.rule /\ Answer.at = Top.pos
<1>1. Top \in Call
  BY DepthInside, FrameFields DEF Settled
<1> QED
  BY <1>1 DEF Settled, Typed, Answer, Memo, Call, AllSetBehind

LEMMA SettledReturn == Settled /\ Return => Settled'
<1> SUFFICES ASSUME Settled, Return PROVE Settled'
  OBVIOUS
<1>1. Typed /\ Depth - 1 \in 0 .. Depth /\ frames # <<>> /\ Top.kind = "rule"
  BY DepthInside DEF Settled, Return, Matching
<1>2. frames' = Down(Depth - 1) /\ UNCHANGED <<base, here, curr, prev, parsing, recalled>>
  BY DEF Return
<1>3. PICK fs : fs = Down(Depth - 1)
  OBVIOUS
<1>4. /\ fs \in Seq(FrameRec) /\ Len(fs) = Depth - 1
      /\ \A j \in 1 .. Depth - 1 : j \in 1 .. Depth /\ fs[j] = frames[j]
  BY <1>1, <1>3, DownIs
<1>5. memos \subseteq memos' /\ memos' \subseteq memos \cup {Answer}
  BY DEF Return
<1>6. Typed'
  BY <1>1, <1>2, <1>3, <1>4, <1>5, AnswerFields DEF Typed
<1>7. AllSetBehind'
  BY <1>1, <1>2, <1>5, AnswerFields DEF Settled, AllSetBehind
<1>8. GrownFromAnswers'
  BY <1>2, <1>3, <1>4, <1>5, GrownKept DEF Settled
<1> QED
  BY <1>6, <1>7, <1>8 DEF Settled

LEMMA SettledGrow == Settled /\ Grow => Settled'
<1> SUFFICES ASSUME Settled, Grow PROVE Settled'
  OBVIOUS
<1>1. Typed /\ Depth \in 1 .. Depth /\ Top = frames[Depth] /\ frames # <<>> /\ Top.kind = "rule"
  BY DepthInside DEF Settled, Grow, Matching
<1>2. /\ memos' = {a \in memos : a.rule # Top.rule \/ a.at # Top.pos} \cup {Answer}
      /\ here' = Top.pos /\ frames' = [frames EXCEPT ![Depth].growing = TRUE]
      /\ recalled' = TRUE /\ UNCHANGED <<base, curr, prev, parsing>>
  BY DEF Grow
<1>3. Top \in Call
  BY <1>1, FrameFields
<1>4. PICK f : f = [Top EXCEPT !.growing = TRUE]
  OBVIOUS
<1>5. f \in FrameRec /\ f.rule = Top.rule /\ f.pos = Top.pos /\ Top.pos \in Pos
  BY <1>3, <1>4 DEF FrameRec, Call
<1>6. PICK fs : fs = [frames EXCEPT ![Depth] = f]
  OBVIOUS
<1>7. frames' = fs
  BY <1>1, <1>2, <1>4, <1>6
<1>8. /\ fs \in Seq(FrameRec) /\ Len(fs) = Depth
      /\ \A k \in 1 .. Depth : fs[k] = IF k = Depth THEN f ELSE frames[k]
  BY <1>1, <1>5, <1>6 DEF Typed, Depth
<1>9. Typed'
  BY <1>1, <1>2, <1>5, <1>7, <1>8, AnswerFields DEF Typed
<1>10. AllSetBehind'
  BY <1>1, <1>2, AnswerFields DEF Settled, AllSetBehind
<1>11. ASSUME NEW k \in 1 .. Depth, fs[k].kind = "rule", fs[k].growing
       PROVE  \E a \in memos' : a.rule = fs[k].rule /\ a.at = fs[k].pos
  <2>1. CASE fs[k].rule = Top.rule /\ fs[k].pos = Top.pos
    BY <1>1, <1>2, <2>1, AnswerFields
  <2>2. CASE ~(fs[k].rule = Top.rule /\ fs[k].pos = Top.pos)
    <3>1. fs[k] = frames[k]
      BY <1>5, <1>8, <2>2
    <3>2. PICK a \in memos : a.rule = fs[k].rule /\ a.at = fs[k].pos
      BY <1>11, <3>1 DEF Settled, GrownFromAnswers
    <3>3. a \in memos'
      BY <1>2, <2>2, <3>2
    <3> QED
      BY <3>2, <3>3
  <2> QED
    BY <2>1, <2>2
<1>12. GrownFromAnswers'
  BY <1>7, <1>8, <1>11 DEF GrownFromAnswers, Depth
<1> QED
  BY <1>9, <1>10, <1>12 DEF Settled

LEMMA DroppedIs == Typed => /\ Dropped(here) \in 0 .. Len(prev)
                            /\ Len(prev) > 0 => Dropped(here) < Len(prev)
<1> SUFFICES ASSUME Typed PROVE /\ Dropped(here) \in 0 .. Len(prev)
                                /\ Len(prev) > 0 => Dropped(here) < Len(prev)
  OBVIOUS
<1>1. Passed(here) \in 0 .. Len(prev) /\ Len(prev) \in Nat
  BY PassedIs, PosInt DEF Typed
<1> QED
  BY <1>1 DEF Dropped

\* What pcc_marker_variable_set_record__shift leaves.
LEMMA ShiftIs ==
  ASSUME Typed, NEW p, p = prev', Shift(here)
  PROVE  /\ p \in Seq(EntryRec) /\ Len(p) = Len(prev) - Dropped(here)
         /\ \A n \in 1 .. Len(p) : n + Dropped(here) \in 1 .. Len(prev)
                                   /\ p[n] = prev[n + Dropped(here)]
<1>1. PICK d \in 0 .. Len(prev) : d = Dropped(here)
  BY DroppedIs
<1>2. p = SubSeq(prev, d + 1, Len(prev)) /\ prev \in Seq(EntryRec)
  BY <1>1 DEF Shift, Typed
<1>3. /\ p \in Seq(EntryRec) /\ Len(p) = Len(prev) - d
      /\ \A n \in 1 .. Len(p) : n + d \in 1 .. Len(prev) /\ p[n] = prev[n + d]
  BY <1>2
<1> QED
  BY <1>1, <1>3

LEMMA SettledCommit == Settled /\ Commit => Settled'
<1> SUFFICES ASSUME Settled, Commit PROVE Settled'
  OBVIOUS
<1>1. PICK p : p = prev'
  OBVIOUS
<1>2. Typed /\ Shift(here) /\ memos' \subseteq memos /\ UNCHANGED <<curr, here, frames, recalled>>
      /\ frames = <<>> /\ parsing' = FALSE
  BY DEF Settled, Commit, Shift
<1>3. base' \in Pos
  <2>1. base \in Int /\ here \in Int
    BY <1>2, PosInt DEF Typed
  <2>2. Committed = here
    BY <2>1 DEF Committed
  <2> QED
    BY <1>2, <2>2 DEF Commit, Typed
<1>4. p \in Seq(EntryRec) /\ \A n \in 1 .. Len(p) : \E m \in 1 .. Len(prev) : p[n] = prev[m]
  BY <1>1, <1>2, ShiftIs
<1>5. Typed'
  BY <1>1, <1>2, <1>3, <1>4 DEF Typed
<1>6. AllSetBehind'
  BY <1>1, <1>2, <1>4 DEF Settled, AllSetBehind
<1>7. GrownFromAnswers'
  BY <1>2 DEF GrownFromAnswers, Depth
<1> QED
  BY <1>5, <1>6, <1>7 DEF Settled

LEMMA SettledStep == Settled /\ [Next]_vars => Settled'
<1>1. Settled /\ UNCHANGED vars => Settled'
  BY DEF vars, Settled, Typed, GrownFromAnswers, AllSetBehind, Depth
<1>2. Settled /\ Over => Settled'
  BY <1>1 DEF Over
<1> QED
  BY <1>1, <1>2, SettledAdvance, SettledPredicate, SettledChoose, SettledLeave, SettledBack,
     SettledGrown, SettledSyntaxError, SettledBegin, SettledApply, SettledReuse, SettledReturn,
     SettledGrow, SettledCommit DEF Next

-----------------------------------------------------------------------------
(* What holds while no answer is used again.                                *)

LEMMA FramesBehind ==
  ASSUME Settled, Kept, NEW k \in 1 .. Depth
  PROVE  /\ here \in Int /\ frames[k].pos \in Int /\ frames[k].pos \in Nat
         /\ frames[k].pos <= here
<1>1. Typed /\ here \in Pos
  BY DEF Settled, Typed
<1>2. frames[k].pos \in Pos
  BY <1>1, FrameFields
<1> QED
  BY <1>1, <1>2, PosInt DEF Kept, Nested

\* No choice or rule begins, and the position does not go back.
LEMMA KeptDown ==
  ASSUME Settled, Kept, NEW k \in 0 .. Depth, frames' = Down(k), here' = here,
         UNCHANGED <<curr, prev>>
  PROVE  Kept'
<1>1. PICK fs : fs = Down(k)
  OBVIOUS
<1>2. /\ Len(fs) = k
      /\ \A j \in 1 .. k : j \in 1 .. Depth /\ fs[j] = frames[j]
  BY <1>1, DownIs DEF Settled
<1>3. Ordered'
  BY DEF Kept, Ordered
<1>4. Nested' /\ Remembered'
  BY <1>1, <1>2 DEF Kept, Nested, Remembered, Depth
<1> QED
  BY <1>3, <1>4 DEF Kept

LEMMA KeptAdvance == Settled /\ Kept /\ Advance => Kept'
<1> SUFFICES ASSUME Settled, Kept, Advance PROVE Kept'
  OBVIOUS
<1>1. PICK h : h = here'
  OBVIOUS
<1>2. Typed /\ h = here + 1 /\ here \in Int /\ curr.pos \in Int
      /\ UNCHANGED <<base, curr, prev, frames, memos, parsing, recalled>>
  BY <1>1, PosInt, EntryFields DEF Advance, Settled, Typed
<1>3. Ordered'
  <2>1. curr.pos <= h
    BY <1>2 DEF Kept, Ordered
  <2> QED
    BY <1>1, <1>2, <2>1 DEF Kept, Ordered
<1>4. \A k \in 1 .. Depth : frames[k].pos <= h
  BY <1>2, FramesBehind
<1>5. Nested' /\ Remembered'
  BY <1>1, <1>2, <1>4 DEF Kept, Nested, Remembered, Depth
<1> QED
  BY <1>3, <1>5 DEF Kept

\* A choice or a rule begins at the position.
LEMMA KeptPush ==
  ASSUME Settled, Kept, NEW f \in FrameRec, frames' = Append(frames, f), f.pos = here,
         f.kind = "choice" => f.past = curr.set,
         UNCHANGED <<base, here, curr, prev, memos, parsing, recalled>>
  PROVE  Kept'
<1>1. Typed /\ frames \in Seq(FrameRec) /\ Depth = Len(frames) /\ Depth \in Nat
  BY DEF Settled, Typed, Depth
<1>2. PICK fs : fs = Append(frames, f)
  OBVIOUS
<1>3. /\ Len(fs) = Depth + 1 /\ fs[Depth + 1] = f
      /\ \A j \in 1 .. Depth : fs[j] = frames[j]
  BY ONLY <1>1, <1>2, f \in FrameRec
<1>4. Ordered'
  BY DEF Kept, Ordered
<1>5. here \in Int /\ \A k \in 1 .. Depth : frames[k].pos \in Int /\ frames[k].pos <= here
  <2>1. here \in Int
    BY <1>1, PosInt DEF Typed
  <2> QED
    BY <2>1, FramesBehind
<1>6. \A k \in 1 .. Depth + 1 : fs[k].pos <= here
  BY <1>1, <1>3, <1>5
<1>7. \A j, k \in 1 .. Depth + 1 : j < k => fs[j].pos <= fs[k].pos
  BY <1>1, <1>3, <1>5 DEF Kept, Nested
<1>8. ASSUME NEW k \in 1 .. Depth + 1, fs[k].kind = "choice", ~fs[k].own
      PROVE  Recorded(curr, prev, fs[k].pos, fs[k].past)
  <2>1. CASE k \in 1 .. Depth
    BY <1>3, <1>8, <2>1 DEF Kept, Remembered
  <2>2. CASE k = Depth + 1
    BY <1>3, <1>8, <2>2 DEF Kept, Ordered, Recorded
  <2> QED
    BY <1>1, <2>1, <2>2
<1>9. Nested'
  BY <1>2, <1>3, <1>6, <1>7 DEF Nested, Depth
<1>10. Remembered'
  BY <1>2, <1>3, <1>8 DEF Remembered, Depth
<1> QED
  BY <1>4, <1>9, <1>10 DEF Kept

LEMMA KeptChoose == Settled /\ Kept /\ Choose => Kept'
<1> SUFFICES ASSUME Settled, Kept, Choose PROVE Kept'
  OBVIOUS
<1>1. PICK f : f = [kind |-> "choice", pos |-> here, past |-> curr.set, own |-> FALSE]
  OBVIOUS
<1>2. here \in Pos /\ curr.set \in ValueRec
  BY EntryFields DEF Settled, Typed
<1>3. f \in FrameRec /\ f.pos = here /\ f.past = curr.set
  BY <1>1, <1>2 DEF FrameRec, Choice
<1>4. frames' = Append(frames, f) /\ UNCHANGED <<base, here, curr, prev, memos, parsing, recalled>>
  BY <1>1 DEF Choose
<1> QED
  BY <1>3, <1>4, KeptPush

LEMMA KeptApply == ASSUME NEW r \in Rule PROVE Settled /\ Kept /\ Apply(r) => Kept'
<1> SUFFICES ASSUME Settled, Kept, Apply(r) PROVE Kept'
  OBVIOUS
<1>1. PICK f : f = [kind |-> "rule", rule |-> r, pos |-> here, growing |-> FALSE]
  OBVIOUS
<1>2. here \in Pos
  BY DEF Settled, Typed
<1>3. f \in FrameRec /\ f.kind = "rule" /\ f.pos = here
  BY <1>1, <1>2 DEF FrameRec, Call
<1>4. frames' = Append(frames, f) /\ UNCHANGED <<base, here, curr, prev, memos, parsing, recalled>>
  BY <1>1 DEF Apply
<1> QED
  BY <1>3, <1>4, KeptPush

LEMMA KeptBegin == ASSUME NEW r \in Rule PROVE Settled /\ Kept /\ Begin(r) => Kept'
<1> SUFFICES ASSUME Settled, Kept, Begin(r) PROVE Kept'
  OBVIOUS
<1>1. PICK f : f = [kind |-> "rule", rule |-> r, pos |-> here, growing |-> FALSE]
  OBVIOUS
<1>2. here \in Pos
  BY DEF Settled, Typed
<1>3. f \in FrameRec /\ f.kind = "rule" /\ f.pos = here
  BY <1>1, <1>2 DEF FrameRec, Call
<1>4. frames = <<>> /\ frames' = <<f>> /\ UNCHANGED <<base, here, curr, prev, memos, recalled>>
  BY <1>1 DEF Begin
<1>5. Ordered'
  BY <1>4 DEF Kept, Ordered
<1>6. here \in Int
  BY <1>2, PosInt
<1>7. PICK fs : fs = <<f>>
  OBVIOUS
<1>8. Len(fs) = 1 /\ fs[1] = f /\ 1 .. 1 = {1}
  BY <1>7
<1>9. Nested' /\ Remembered'
  BY <1>3, <1>4, <1>6, <1>7, <1>8 DEF Nested, Remembered, Depth
<1> QED
  BY <1>5, <1>9 DEF Kept

LEMMA KeptSyntaxError == Settled /\ Kept /\ SyntaxError => Kept'
<1> SUFFICES ASSUME Settled, Kept, SyntaxError PROVE Kept'
  OBVIOUS
<1>1. frames' = <<>> /\ UNCHANGED <<base, here, curr, prev, memos, parsing, recalled>>
  BY DEF SyntaxError
<1>2. Len(<<>>) = 0
  OBVIOUS
<1>3. Ordered' /\ Nested' /\ Remembered'
  BY <1>1, <1>2 DEF Kept, Ordered, Nested, Remembered, Depth
<1> QED
  BY <1>3 DEF Kept

\* A predicate records for the position and no other.
LEMMA KeptPredicate == ASSUME NEW v \in Value PROVE Settled /\ Kept /\ Predicate(v) => Kept'
<1> SUFFICES ASSUME Settled, Kept, Predicate(v) PROVE Kept'
  OBVIOUS
<1>0. PICK c, p, fs : c = curr' /\ p = prev' /\ fs = frames'
  OBVIOUS
<1>1. Typed /\ prev \in Seq(EntryRec) /\ curr.pos \in Int /\ here \in Int
      /\ \A n \in 1 .. Len(prev) : prev[n].pos \in Int
  BY EntryFields, PosInt DEF Settled, Typed
<1>2. here' = here
  BY DEF Predicate
<1>3. /\ c.pos = IF curr.pos < here THEN here ELSE curr.pos
      /\ curr.pos < here =>
           /\ Len(p) = Len(prev) + 1 /\ p[Len(prev) + 1] = curr
           /\ \A n \in 1 .. Len(prev) : p[n] = prev[n]
      /\ ~(curr.pos < here) => p = prev
  BY <1>0, <1>1, PredicateSets
<1>4. c.pos = here
  BY <1>1, <1>3 DEF Kept, Ordered
<1>5. Len(fs) = Depth
  BY <1>0, <1>1, PredicateSets
<1>6. ASSUME NEW k \in 1 .. Depth
      PROVE  /\ fs[k].pos = frames[k].pos
             /\ fs[k].kind = "choice" /\ ~fs[k].own =>
                  fs[k] = frames[k] /\ frames[k].pos < here
  <2>1. frames[k].pos \in Int /\ frames[k].pos <= here
    BY FramesBehind
  <2>2. CASE frames[k].kind = "choice" /\ frames[k].pos = here
    <3>1. fs[k] = [frames[k] EXCEPT !.own = TRUE]
      BY <1>0, <1>1, <2>2, PredicateSets
    <3>2. frames[k] \in Choice
      BY <1>1, <2>2, FrameFields
    <3> QED
      BY <3>1, <3>2 DEF Choice
  <2>3. CASE ~(frames[k].kind = "choice" /\ frames[k].pos = here)
    <3>1. fs[k] = frames[k]
      BY <1>0, <1>1, <2>3, PredicateSets
    <3> QED
      BY <1>1, <2>1, <2>3, <3>1
  <2> QED
    BY <2>2, <2>3
<1>7. Nested'
  BY <1>0, <1>2, <1>5, <1>6 DEF Kept, Nested, Depth
<1>8. Ordered'
  <2>1. CASE curr.pos < here
    <3>1. /\ Len(p) = Len(prev) + 1 /\ p[Len(prev) + 1] = curr
          /\ \A n \in 1 .. Len(prev) : p[n] = prev[n]
      BY <1>3, <2>1
    <3>2. \A n \in 1 .. Len(p) : p[n].pos < here
      BY <1>1, <2>1, <3>1 DEF Kept, Ordered
    <3>3. ASSUME NEW m \in 1 .. Len(p), NEW n \in 1 .. Len(p), m < n
          PROVE  p[m].pos < p[n].pos
      <4>1. Len(prev) \in Nat /\ m \in 1 .. Len(prev) /\ p[m] = prev[m]
        BY <1>1, <3>1, <3>3
      <4>2. CASE n \in 1 .. Len(prev)
        BY <3>1, <3>3, <4>1, <4>2 DEF Kept, Ordered
      <4>3. CASE n = Len(prev) + 1
        BY <3>1, <4>1, <4>3 DEF Kept, Ordered
      <4> QED
        BY <3>1, <4>1, <4>2, <4>3
    <3> QED
      BY <1>0, <1>1, <1>2, <1>4, <3>2, <3>3 DEF Ordered
  <2>2. CASE ~(curr.pos < here)
    <3>1. p = prev /\ c.pos = curr.pos
      BY <1>3, <2>2
    <3> QED
      BY <1>0, <1>2, <3>1 DEF Kept, Ordered
  <2> QED
    BY <2>1, <2>2
<1>9. ASSUME NEW q \in Int, q < here, NEW x, Recorded(curr, prev, q, x)
      PROVE  Recorded(c, p, q, x)
  <2>1. c.pos > q
    BY <1>1, <1>4, <1>9
  <2>2. CASE curr.pos < here
    <3>1. /\ Len(p) = Len(prev) + 1 /\ p[Len(prev) + 1] = curr /\ Len(prev) \in Nat
          /\ \A n \in 1 .. Len(prev) : p[n] = prev[n]
      BY <1>1, <1>3, <2>2
    <3>2. CASE curr.pos <= q /\ x = curr.set
      <4>1. Len(p) \in 1 .. Len(p) /\ p[Len(p)] = curr
        BY <3>1
      <4> QED
        BY <2>1, <3>1, <3>2, <4>1 DEF Recorded
    <3>3. ASSUME NEW n \in 1 .. Len(prev), curr.pos > q, prev[n].pos <= q, x = prev[n].set,
                 \A m \in (n + 1) .. Len(prev) : prev[m].pos > q
          PROVE  Recorded(c, p, q, x)
      <4>1. n \in 1 .. Len(p) /\ p[n] = prev[n]
        BY <3>1
      <4>2. \A m \in (n + 1) .. Len(p) : p[m].pos > q
        BY <3>1, <3>3
      <4> QED
        BY <2>1, <3>3, <4>1, <4>2 DEF Recorded
    <3>4. CASE curr.pos > q /\ x = Unset.set /\ \A m \in 1 .. Len(prev) : prev[m].pos > q
      <4>1. \A m \in 1 .. Len(p) : p[m].pos > q
        BY <3>1, <3>4
      <4> QED
        BY <2>1, <3>4, <4>1 DEF Recorded
    <3> QED
      BY <1>9, <3>2, <3>3, <3>4 DEF Recorded
  <2>3. CASE ~(curr.pos < here)
    <3>1. p = prev /\ c.pos = curr.pos
      BY <1>3, <2>3
    <3>2. ~(curr.pos <= q)
      BY <1>1, <2>1, <3>1
    <3> QED
      BY <1>9, <2>1, <3>1, <3>2 DEF Recorded
  <2> QED
    BY <2>2, <2>3
<1>10. ASSUME NEW k \in 1 .. Depth, fs[k].kind = "choice", ~fs[k].own
       PROVE  Recorded(c, p, fs[k].pos, fs[k].past)
  <2>1. fs[k] = frames[k] /\ frames[k].pos < here /\ frames[k].pos \in Int
    BY <1>6, <1>10, FramesBehind
  <2>2. Recorded(curr, prev, frames[k].pos, frames[k].past)
    BY <1>10, <2>1 DEF Kept, Remembered
  <2> QED
    BY <1>9, <2>1, <2>2
<1>11. Remembered'
  BY <1>0, <1>5, <1>10 DEF Remembered, Depth
<1> QED
  BY <1>7, <1>8, <1>11 DEF Kept

\* Going back to a choice loses nothing that is recorded for the ones around it.
LEMMA KeptBack == ASSUME NEW k \in 1 .. Depth PROVE Settled /\ Kept /\ Back(k) => Kept'
<1> SUFFICES ASSUME Settled, Kept, Back(k) PROVE Kept'
  OBVIOUS
<1>1. PICK c, p, fs, q : c = curr' /\ p = prev' /\ fs = Down(k) /\ q = frames[k].pos
  OBVIOUS
<1>2. Typed /\ q \in Nat /\ k \in 0 .. Depth /\ k \in Int
  <2>1. Typed
    BY DEF Settled
  <2>2. k \in 0 .. Depth
    BY <2>1 DEF Typed, Depth
  <2> QED
    BY <1>1, <2>1, <2>2, FramesBehind
<1>3. frames' = Down(k) /\ here' = q /\ Restore(q)
  BY <1>1 DEF Back
<1>4. /\ Len(fs) = k
      /\ \A j \in 1 .. k : j \in 1 .. Depth /\ fs[j] = frames[j]
  BY <1>1, <1>2, DownIs
<1>5. /\ \A n \in 1 .. Len(p) : p[n].pos < c.pos
      /\ \A m, n \in 1 .. Len(p) : m < n => p[m].pos < p[n].pos
  BY <1>1, <1>2, <1>3, RestoreOrdered DEF Kept
<1>6. c.pos <= q
  BY <1>1, <1>2, <1>3, RestoreSettled
<1>7. Ordered'
  BY <1>1, <1>3, <1>5, <1>6 DEF Ordered
<1>8. \A j \in 1 .. k : frames[j].pos <= q
  BY <1>1, <1>2, <1>4 DEF Kept, Nested
<1>9. Nested'
  BY <1>1, <1>3, <1>4, <1>8 DEF Kept, Nested, Depth
<1>10. ASSUME NEW j \in 1 .. k, fs[j].kind = "choice", ~fs[j].own
       PROVE  Recorded(c, p, fs[j].pos, fs[j].past)
  <2>1. j \in 1 .. Depth /\ fs[j] = frames[j] /\ frames[j].pos <= q /\ frames[j].pos \in Nat
    BY <1>4, <1>8, FramesBehind
  <2>2. Recorded(curr, prev, frames[j].pos, frames[j].past)
    BY <1>10, <2>1 DEF Kept, Remembered
  <2> QED
    BY <1>1, <1>2, <1>3, <2>1, <2>2, RestoreRecorded
<1>11. Remembered'
  BY <1>1, <1>3, <1>4, <1>10 DEF Remembered, Depth
<1> QED
  BY <1>7, <1>9, <1>11 DEF Kept

\* Nothing is being matched when the buffer is committed.
LEMMA KeptCommit == Settled /\ Kept /\ Commit => Kept'
<1> SUFFICES ASSUME Settled, Kept, Commit PROVE Kept'
  OBVIOUS
<1>1. PICK p : p = prev'
  OBVIOUS
<1>2. Typed /\ Shift(here) /\ UNCHANGED <<curr, here, frames>> /\ frames = <<>>
  BY DEF Settled, Commit, Shift
<1>3. PICK d : d = Dropped(here)
  OBVIOUS
<1>4. /\ Len(p) = Len(prev) - d /\ d \in Nat /\ Len(prev) \in Nat
      /\ \A n \in 1 .. Len(p) : n + d \in 1 .. Len(prev) /\ p[n] = prev[n + d]
  <2>1. d \in 0 .. Len(prev) /\ Len(prev) \in Nat
    BY <1>2, <1>3, DroppedIs DEF Typed
  <2>2. /\ Len(p) = Len(prev) - d
        /\ \A n \in 1 .. Len(p) : n + d \in 1 .. Len(prev) /\ p[n] = prev[n + d]
    BY <1>1, <1>2, <1>3, ShiftIs
  <2> QED
    BY <2>1, <2>2
<1>5. \A n \in 1 .. Len(p) : p[n].pos < curr.pos
  BY <1>4 DEF Kept, Ordered
<1>6. \A m, n \in 1 .. Len(p) : m < n => p[m].pos < p[n].pos
  BY <1>4 DEF Kept, Ordered
<1>7. Ordered'
  BY <1>1, <1>2, <1>5, <1>6 DEF Kept, Ordered
<1>8. Len(<<>>) = 0
  OBVIOUS
<1>9. Nested' /\ Remembered'
  BY <1>2, <1>8 DEF Nested, Remembered, Depth
<1> QED
  BY <1>7, <1>9 DEF Kept

LEMMA KeptStep == Settled /\ Kept /\ [Next]_vars /\ ~recalled' => Kept'
<1>1. Kept /\ UNCHANGED vars => Kept'
  BY DEF vars, Kept, Ordered, Nested, Remembered, Depth
<1>2. Kept /\ Over => Kept'
  BY <1>1 DEF Over
<1>3. Settled /\ Kept /\ Leave => Kept'
  BY DepthInside, KeptDown DEF Leave, Matching, Settled
<1>4. Settled /\ Kept /\ Return => Kept'
  BY DepthInside, KeptDown DEF Return, Matching, Settled
<1>5. ASSUME recalled' # TRUE
      PROVE  /\ ~Grow /\ (\A k \in 1 .. Depth : ~Grown(k)) /\ (\A r \in Rule : ~Reuse(r))
  BY <1>5 DEF Grow, Grown, Reuse
<1> QED
  BY <1>1, <1>2, <1>3, <1>4, <1>5, KeptAdvance, KeptPredicate, KeptChoose, KeptBack,
     KeptSyntaxError, KeptBegin, KeptApply, KeptCommit DEF Next

-----------------------------------------------------------------------------
(* The invariant and what follows from it.                                  *)

\* After pcc_marker_variable_set_record__shift.
LEMMA ShiftCommit == Settled /\ Kept /\ Commit => ShiftLeavesOne'
<1> SUFFICES ASSUME Settled, Kept, Commit PROVE ShiftLeavesOne'
  OBVIOUS
<1>1. PICK p, b, k, d : p = prev' /\ b = base' /\ k = Passed(here) /\ d = Dropped(here)
  OBVIOUS
<1>2. Typed /\ Shift(here) /\ here \in Int /\ base \in Int
      /\ base' = Committed
  BY PosInt DEF Settled, Typed, Commit
<1>3. b = here
  BY <1>1, <1>2 DEF Committed
<1>4. /\ k \in 0 .. Len(prev) /\ (k < Len(prev) => prev[k + 1].pos > here)
      /\ \A m \in 1 .. k : prev[m].pos <= here
  BY <1>1, <1>2, PassedIs
<1>5. d = IF k > 0 THEN k - 1 ELSE 0
  BY <1>1 DEF Dropped
<1>6. /\ Len(p) = Len(prev) - d
      /\ \A n \in 1 .. Len(p) : n + d \in 1 .. Len(prev) /\ p[n] = prev[n + d]
  BY <1>1, <1>2, ShiftIs
<1>7. Len(prev) \in Nat /\ curr.pos \in Int
      /\ \A n \in 1 .. Len(prev) : prev[n].pos \in Int /\ prev[n].pos < curr.pos
      /\ curr.pos <= here
  BY <1>2, EntryFields DEF Typed, Kept, Ordered
<1>8. k = Len(prev)
  <2>1. ASSUME k < Len(prev)
        PROVE  FALSE
    <3>1. k + 1 \in 1 .. Len(prev)
      BY <1>4, <1>7, <2>1
    <3> QED
      BY <1>2, <1>4, <1>7, <2>1, <3>1
  <2> QED
    BY <1>4, <1>7, <2>1
<1>9. CASE k > 0
  <2>1. Len(p) = 1 /\ p[1] = prev[k]
    BY <1>4, <1>5, <1>6, <1>7, <1>8, <1>9
  <2>2. p[1].pos <= b
    BY <1>3, <1>4, <1>9, <2>1
  <2> QED
    BY <1>1, <2>1, <2>2 DEF ShiftLeavesOne
<1>10. CASE k = 0
  <2>1. Len(p) = 0
    BY <1>5, <1>6, <1>8, <1>10
  <2> QED
    BY <1>1, <2>1 DEF ShiftLeavesOne
<1> QED
  BY <1>4, <1>9, <1>10

LEMMA ShiftStep == Settled /\ Kept /\ ShiftLeavesOne /\ [Next]_vars => ShiftLeavesOne'
<1> SUFFICES ASSUME Settled, Kept, ShiftLeavesOne, [Next]_vars PROVE ShiftLeavesOne'
  OBVIOUS
<1>1. CASE Commit
  BY <1>1, ShiftCommit
<1>2. CASE Over \/ UNCHANGED vars
  BY <1>2 DEF Over, vars, ShiftLeavesOne
<1>3. CASE parsing'
  BY <1>3 DEF ShiftLeavesOne
<1>4. ASSUME parsing, UNCHANGED parsing
      PROVE  parsing'
  BY <1>4
<1>5. Advance \/ Choose \/ Leave \/ SyntaxError \/ Return \/ Grow => parsing'
  BY <1>4 DEF Advance, Choose, Leave, SyntaxError, Return, Grow, Matching
<1>6. \A v \in Value : Predicate(v) => parsing'
  BY <1>4 DEF Predicate, Matching
<1>7. \A k \in 1 .. Depth : Back(k) \/ Grown(k) => parsing'
  BY <1>4 DEF Back, Grown, Matching
<1>8. \A r \in Rule : Begin(r) \/ Apply(r) \/ Reuse(r) => parsing'
  BY <1>4 DEF Begin, Apply, Reuse, Matching
<1> QED
  BY <1>1, <1>2, <1>3, <1>5, <1>6, <1>7, <1>8 DEF Next

LEMMA RecalledStep == Settled /\ [Next]_vars /\ ~recalled' => ~recalled
BY DEF Next, Advance, Predicate, Choose, Leave, Back, Grown, SyntaxError, Begin, Apply, Reuse,
       Return, Grow, Commit, Over, vars, Settled, Typed

\* The record of the markers is consistent in every state: its entries, choices and
\* answers are of their types, are set behind their positions, and while no answer is
\* used again they are in order and hold what each choice goes back to
\* (pcc_marker_variable_set_record__save, __restore and __shift).
THEOREM RecordInvariant == Spec => []RecordInv
<1>1. Init => RecordInv
  <2> SUFFICES ASSUME Init PROVE RecordInv
    OBVIOUS
  <2>1. 0 \in Pos /\ <<>> \in Seq(EntryRec) /\ <<>> \in Seq(FrameRec) /\ Len(<<>>) = 0
    BY MarkerAssumption DEF Pos
  <2>2. Typed
    BY <2>1, UnsetFields DEF Init, Typed
  <2>3. GrownFromAnswers /\ AllSetBehind
    BY <2>1, UnsetFields DEF Init, GrownFromAnswers, AllSetBehind, Depth
  <2>4. Ordered /\ Nested /\ Remembered /\ ShiftLeavesOne
    BY <2>1, UnsetFields DEF Init, Ordered, Nested, Remembered, ShiftLeavesOne, Depth
  <2> QED
    BY <2>2, <2>3, <2>4 DEF RecordInv, Settled, Kept
<1>2. RecordInv /\ [Next]_vars => RecordInv'
  <2> SUFFICES ASSUME RecordInv, [Next]_vars PROVE RecordInv'
    OBVIOUS
  <2>1. Settled'
    BY SettledStep DEF RecordInv
  <2>2. ASSUME ~recalled'
        PROVE  Kept' /\ ShiftLeavesOne'
    <3>1. Settled /\ Kept /\ ShiftLeavesOne
      BY <2>2, RecalledStep DEF RecordInv
    <3> QED
      BY <2>2, <3>1, KeptStep, ShiftStep
  <2> QED
    BY <2>1, <2>2 DEF RecordInv
<1> QED
  BY <1>1, <1>2, PTL DEF Spec

\* After a commit one entry at most is behind the buffer, whatever the grammar
\* (pcc_marker_variable_set_record__shift), unless an answer was used again.
THEOREM OneEntryBehind == Spec => []ShiftLeavesOne
<1>1. RecordInv => ShiftLeavesOne
  BY DEF RecordInv, ShiftLeavesOne
<1> QED
  BY <1>1, RecordInvariant, PTL

\* Where a match fails the markers become what they were when it began
\* (pcc_marker_variable_set_record__restore), unless an answer was used again or a
\* predicate ran at the position the match began at.
THEOREM MarkersRolledBack == Spec => RolledBack
<1>1. RecordInv => \A k \in 1 .. Depth :
                     Resumed(k) /\ ~frames[k].own /\ ~recalled => curr'.set = frames[k].past
  <2> SUFFICES ASSUME RecordInv, NEW k \in 1 .. Depth, Resumed(k), ~frames[k].own, ~recalled
               PROVE  curr'.set = frames[k].past
    OBVIOUS
  <2>1. Settled /\ Kept /\ Typed
    BY DEF RecordInv, Settled
  <2>2. frames[k].kind = "choice" /\ Restore(frames[k].pos)
    BY DEF Resumed, Back
  <2>3. Recorded(curr, prev, frames[k].pos, frames[k].past) /\ frames[k].pos \in Nat
    BY <2>1, <2>2, FramesBehind DEF Kept, Remembered
  <2>4. PICK c, p : c = curr' /\ p = prev'
    OBVIOUS
  <2>5. c.set = frames[k].past
    BY <2>1, <2>2, <2>3, <2>4, RestoredIs
  <2> QED
    BY <2>4, <2>5
<1> QED
  BY <1>1, RecordInvariant, PTL DEF RolledBack

\* No predicate that ran ahead of the position a match goes back to has an effect any
\* more, whichever answers were used again (pcc_marker_variable_set_record__restore).
THEOREM NothingSetAhead == Spec => NothingAhead
<1>1. RecordInv => \A k \in 1 .. Depth : Resumed(k) => curr'.set.at <= here'
  <2> SUFFICES ASSUME RecordInv, NEW k \in 1 .. Depth, Resumed(k)
               PROVE  curr'.set.at <= here'
    OBVIOUS
  <2>1. Settled /\ Typed
    BY DEF RecordInv, Settled
  <2>2. here' = frames[k].pos /\ Restore(frames[k].pos)
    BY DEF Resumed, Back
  <2>3. frames[k].pos \in Nat
    BY <2>1, FrameFields, PosInt
  <2>4. PICK c, p : c = curr' /\ p = prev'
    OBVIOUS
  <2>5. c \in EntryRec /\ SetBehind(c) /\ c.pos <= frames[k].pos
    BY <2>1, <2>2, <2>3, <2>4, RestoreSettled
  <2>6. c.set.at <= frames[k].pos
    BY <2>3, <2>5, EntryFields DEF SetBehind
  <2> QED
    BY <2>2, <2>4, <2>6
<1> QED
  BY <1>1, RecordInvariant, PTL DEF NothingAhead

=============================================================================
