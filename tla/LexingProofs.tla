---------------------------- MODULE LexingProofs ----------------------------
(***************************************************************************)
(* The places that packcc reports in a grammar are right, whatever file it *)
(* reads: the line for every file, and the column as far as it is.  And    *)
(* whatever literals it reads, all who decode their text agree.            *)
(***************************************************************************)
EXTENDS LexingSafety, Integers, FiniteSetTheorems, SequenceTheorems, WellFoundedInduction, TLAPS

-----------------------------------------------------------------------------
(* Numbers and functions.                                                   *)

\* A set of natural numbers has a least element.
LEMMA LeastOf ==
  ASSUME NEW S, S \subseteq Nat, S # {}
  PROVE  \E x \in S : \A y \in S : x <= y
<1>1. PICK x \in S : \A y \in S : <<y, x>> \notin OpToRel(<, Nat)
  BY NatLessThanWellFounded, WFMin
<1>2. ASSUME NEW y \in S
      PROVE  x <= y
  <2>1. x \in Nat /\ y \in Nat
    OBVIOUS
  <2>2. ~(y < x)
    BY <1>1, <2>1 DEF OpToRel
  <2> QED
    BY <2>1, <2>2
<1> QED
  BY <1>2

\* The least element is Min.
LEMMA MinOf ==
  ASSUME NEW S, S \subseteq Nat, S # {}
  PROVE  /\ Min(S) \in S
         /\ \A y \in S : Min(S) <= y
<1>1. \E x \in S : \A y \in S : x <= y
  BY LeastOf
<1> QED
  BY <1>1 DEF Min

\* A set that holds 0, and with a number the next one, holds all up to m.
LEMMA Upwards ==
  ASSUME NEW m \in Nat, NEW S,
         0 \in S, \A k \in 0 .. m : k # m /\ k \in S => k + 1 \in S
  PROVE  \A k \in 0 .. m : k \in S
<1> SUFFICES ASSUME NEW b \in (0 .. m) \ S
             PROVE  FALSE
  OBVIOUS
<1>1. PICK x \in (0 .. m) \ S : \A y \in (0 .. m) \ S : x <= y
  <2>1. (0 .. m) \ S \subseteq Nat /\ (0 .. m) \ S # {}
    OBVIOUS
  <2> QED
    BY <2>1, LeastOf
<1>2. x # 0 /\ x - 1 \in 0 .. m /\ x - 1 # m /\ (x - 1) + 1 = x /\ ~(x <= x - 1)
  BY <1>1
<1>3. x - 1 \in S
  BY <1>1, <1>2
<1> QED
  BY <1>1, <1>2, <1>3

\* A function is defined by its value at 0 and the step from each value to the next.
Iterate(f, m, x0, Step) == f = [k \in 0 .. m |-> IF k = 0 THEN x0 ELSE Step[k][f[k - 1]]]

LEMMA Iterates ==
  ASSUME NEW m \in Nat, NEW X, NEW x0 \in X, NEW Step \in [1 .. m -> [X -> X]]
  PROVE  \E f \in [0 .. m -> X] : Iterate(f, m, x0, Step)
<1> DEFINE Fits(f, n) == \A k \in 0 .. n : f[k] = IF k = 0 THEN x0 ELSE Step[k][f[k - 1]]
           S == {n \in 0 .. m : \E f \in [0 .. n -> X] : Fits(f, n)}
<1>1. 0 \in S
  <2> DEFINE f0 == [k \in 0 .. 0 |-> x0]
  <2>1. f0 \in [0 .. 0 -> X] /\ Fits(f0, 0) /\ 0 \in 0 .. m
    OBVIOUS
  <2> HIDE DEF f0, Fits
  <2> QED
    BY <2>1
<1>2. ASSUME NEW n \in 0 .. m, n # m, n \in S
      PROVE  n + 1 \in S
  <2>1. PICK f \in [0 .. n -> X] : Fits(f, n)
    BY <1>2
  <2> DEFINE g == [k \in 0 .. (n + 1) |-> IF k = n + 1 THEN Step[n + 1][f[n]] ELSE f[k]]
  <2>2. n \in Nat /\ n + 1 \in 1 .. m /\ n \in 0 .. n
    BY <1>2
  <2>3. Step[n + 1][f[n]] \in X
    BY <2>2
  <2>4. g \in [0 .. (n + 1) -> X]
    BY <2>2, <2>3
  <2>5. ASSUME NEW k \in 0 .. (n + 1)
        PROVE  g[k] = IF k = 0 THEN x0 ELSE Step[k][g[k - 1]]
    <3>1. CASE k = n + 1
      <4>1. k # 0 /\ k - 1 = n /\ n \in 0 .. (n + 1) /\ n # n + 1
        BY <3>1, <2>2
      <4> QED
        BY <4>1, <3>1
    <3>2. CASE k # n + 1
      <4>1. k \in 0 .. n /\ (k # 0 => k - 1 \in 0 .. n /\ k - 1 \in 0 .. (n + 1) /\ k - 1 # n + 1)
        BY <3>2, <2>2
      <4>2. g[k] = f[k] /\ (k # 0 => g[k - 1] = f[k - 1])
        BY <4>1, <3>2
      <4> QED
        BY <4>1, <4>2, <2>1
    <3> QED
      BY <3>1, <3>2
  <2>6. Fits(g, n + 1)
    BY <2>5
  <2> HIDE DEF g, Fits
  <2> QED
    BY <2>2, <2>4, <2>6
<1>3. m \in S
  <2> HIDE DEF S
  <2>1. \A k \in 0 .. m : k \in S
    BY <1>1, <1>2, Upwards
  <2> QED
    BY <2>1
<1>4. PICK f \in [0 .. m -> X] : Fits(f, m)
  BY <1>3
<1>5. Iterate(f, m, x0, Step)
  BY <1>4 DEF Iterate
<1> QED
  BY <1>5

-----------------------------------------------------------------------------
(* What holds of the input between two calls.                               *)

States ==
  [buf : Seq(Byte), bufpos : Nat, bufcur : Nat, linenum : Nat, linepos : Nat, charnum : Nat,
   errnum : Nat, ok : BOOLEAN, depth : Int, head : BOOLEAN]

\* The buffer holds the bytes of the file at its place.
Buffered(w) ==
  /\ file \in Seq(Byte)
  /\ w.bufcur <= Len(w.buf) /\ w.bufpos + Len(w.buf) <= Len(file)
  /\ \A k \in 1 .. Len(w.buf) : w.buf[k] = file[w.bufpos + k]

\* The line of a place in a buffer that begins at b, and the characters of the line
\* that are in front of the buffer.
OnLine(b, m) ==
  /\ m.linenum = Cardinality(LineEnds(b + m.bufcur))
  /\ m.linepos = LineStart(b + m.bufcur)
Counted(b, m) ==
  IF m.linepos >= b THEN m.charnum = 0 ELSE Readable => m.charnum >= Chars(m.linepos, b)
Placed(b, m) == OnLine(b, m) /\ Counted(b, m)

Sound == {w \in States : Buffered(w) /\ Placed(w.bufpos, w)}

\* The inputs that w may be made by matching.
Ahead(w) == {v \in Sound : v.bufpos = w.bufpos /\ Len(v.buf) >= Len(w.buf) /\ v.bufcur >= w.bufcur}

\* What a match_ function returns: if it fails, the place of reading stays.
Tried(w, v) == v \in Ahead(w) /\ (~ v.ok => v.bufcur = w.bufcur)

\* There is no line end at the place of reading.
NoEol(w) == w.bufpos + w.bufcur < Len(file) => file[w.bufpos + w.bufcur + 1] \notin {LF, CR}

\* The same place.
SamePlace(w, v) ==
  /\ v.buf = w.buf /\ v.bufpos = w.bufpos /\ v.bufcur = w.bufcur
  /\ v.linenum = w.linenum /\ v.linepos = w.linepos /\ v.charnum = w.charnum

LEMMA BufferType ==
  ASSUME NEW w \in Sound
  PROVE  /\ w \in States /\ file \in Seq(Byte) /\ Len(file) \in Nat
         /\ w.buf \in Seq(Byte) /\ Len(w.buf) \in Nat
         /\ w.bufpos \in Nat /\ w.bufcur \in Nat /\ w.ok \in BOOLEAN
         /\ Buffered(w) /\ Placed(w.bufpos, w)
BY LenProperties DEF Sound, States, Buffered

LEMMA AheadSelf ==
  ASSUME NEW w \in Sound
  PROVE  w \in Ahead(w)
BY BufferType DEF Ahead

LEMMA AheadOn ==
  ASSUME NEW w \in Sound, NEW v \in Ahead(w), NEW u \in Ahead(v)
  PROVE  v \in Sound /\ u \in Sound /\ u \in Ahead(w)
<1>1. v \in Sound /\ u \in Sound
  BY DEF Ahead
<1> QED
  BY <1>1, BufferType DEF Ahead

LEMMA AheadAtPlace ==
  ASSUME NEW w \in Sound, NEW v \in States, SamePlace(w, v)
  PROVE  v \in Ahead(w)
<1>1. Buffered(v)
  BY BufferType DEF Buffered, SamePlace
<1>2. Placed(v.bufpos, v)
  BY BufferType DEF Placed, OnLine, Counted, SamePlace
<1> QED
  BY <1>1, <1>2, BufferType DEF Ahead, Sound, SamePlace

\* What a function returns is no part of the place.
LEMMA Verdicts ==
  ASSUME NEW w \in Sound
  PROVE  /\ Yes(w) \in Ahead(w) /\ Yes(w).ok /\ Yes(w).bufcur = w.bufcur
         /\ No(w) \in Ahead(w) /\ ~ No(w).ok /\ No(w).bufcur = w.bufcur
         /\ Reported(w) \in Ahead(w) /\ ~ Reported(w).ok
<1>1. w \in States
  BY BufferType
<1>2. Yes(w) \in States /\ SamePlace(w, Yes(w)) /\ Yes(w).ok
  BY <1>1 DEF Yes, States, SamePlace
<1>3. No(w) \in States /\ SamePlace(w, No(w)) /\ ~ No(w).ok
  BY <1>1 DEF No, States, SamePlace
<1>4. Reported(w) \in States /\ SamePlace(w, Reported(w)) /\ ~ Reported(w).ok
  <2> DEFINE v == No(w)
  <2>1. v \in States /\ SamePlace(w, v) /\ ~ v.ok
    BY <1>3
  <2>2. Reported(w) = [v EXCEPT !.errnum = @ + 1]
    BY DEF Reported
  <2> HIDE DEF v
  <2> QED
    BY <2>1, <2>2 DEF States, SamePlace
<1> QED
  BY <1>2, <1>3, <1>4, AheadAtPlace DEF SamePlace

\* It may be anything.
LEMMA AnyVerdict ==
  ASSUME NEW w \in Sound, NEW b \in BOOLEAN
  PROVE  LET v == [w EXCEPT !.ok = b] IN v \in Ahead(w) /\ v.ok = b /\ v.bufcur = w.bufcur
<1>1. w \in States
  BY BufferType
<1> DEFINE v == [w EXCEPT !.ok = b]
<1>2. v \in States /\ SamePlace(w, v) /\ v.ok = b
  BY <1>1 DEF States, SamePlace
<1> HIDE DEF v
<1>3. v \in Ahead(w) /\ v.bufcur = w.bufcur
  BY <1>2, AheadAtPlace DEF SamePlace
<1> QED
  BY <1>2, <1>3 DEF v

-----------------------------------------------------------------------------
(* Lines.                                                                   *)

\* Where no line ends, the line goes on.
LEMMA LineGoesOn ==
  ASSUME NEW n \in Nat, NEW m \in Nat, \A k \in (n + 1) .. (n + m) : ~ EndsLine(k)
  PROVE  LineEnds(n + m) = LineEnds(n) /\ LineStart(n + m) = LineStart(n)
<1>1. LineEnds(n + m) = LineEnds(n)
  BY DEF LineEnds
<1> DEFINE Start(S) == IF S = {} THEN 0 ELSE CHOOSE k \in S : \A h \in S : h <= k
<1>2. LineStart(n + m) = Start(LineEnds(n + m)) /\ LineStart(n) = Start(LineEnds(n))
  BY DEF LineStart
<1> HIDE DEF Start
<1> QED
  BY <1>1, <1>2

\* Where one ends, the next begins.
LEMMA LineBegins ==
  ASSUME NEW n \in Nat, NEW m \in Nat, EndsLine(n + m + 1), \A k \in (n + 1) .. (n + m) : ~ EndsLine(k)
  PROVE  /\ Cardinality(LineEnds(n + m + 1)) = Cardinality(LineEnds(n)) + 1
         /\ LineStart(n + m + 1) = n + m + 1
<1>1. LineEnds(n + m + 1) = LineEnds(n) \cup {n + m + 1} /\ n + m + 1 \notin LineEnds(n)
  BY DEF LineEnds
<1>2. IsFiniteSet(LineEnds(n))
  <2>1. IsFiniteSet(1 .. n) /\ LineEnds(n) \subseteq 1 .. n
    BY FS_Interval DEF LineEnds
  <2> QED
    BY <2>1, FS_Subset
<1>3. Cardinality(LineEnds(n + m + 1)) = Cardinality(LineEnds(n)) + 1
  BY <1>1, <1>2, FS_AddElement
<1>4. \A h \in LineEnds(n + m + 1) : h <= n + m + 1
  BY DEF LineEnds
<1>5. LineEnds(n + m + 1) \subseteq Nat
  BY DEF LineEnds
<1> DEFINE ends == LineEnds(n + m + 1)
           last == CHOOSE k \in ends : \A h \in ends : h <= k
<1>6. n + m + 1 \in ends /\ ends # {}
  BY <1>1
<1> HIDE DEF ends
<1>7. last \in ends /\ \A h \in ends : h <= last
  BY <1>4, <1>6 DEF ends
<1>8. last = n + m + 1
  <2> HIDE DEF last
  <2> QED
    BY <1>4, <1>5, <1>6, <1>7 DEF ends
<1> QED
  BY <1>3, <1>6, <1>8 DEF LineStart, ends

LEMMA LineStartType ==
  ASSUME NEW n \in Nat
  PROVE  LineStart(n) \in 0 .. n /\ (LineStart(n) # 0 => LineStart(n) \in LineEnds(n))
<1>1. LineEnds(n) \subseteq 1 .. n
  BY DEF LineEnds
<1>2. CASE LineEnds(n) = {}
  BY <1>2 DEF LineStart
<1>3. CASE LineEnds(n) # {}
  <2> DEFINE S == {n - h : h \in LineEnds(n)}
  <2>1. S \subseteq Nat /\ S # {}
    BY <1>1, <1>3
  <2>2. PICK x \in S : \A y \in S : x <= y
    BY <2>1, LeastOf
  <2>3. PICK k \in LineEnds(n) : x = n - k
    BY <2>2
  <2>4. ASSUME NEW h \in LineEnds(n) PROVE h <= k
    <3>1. n - h \in S /\ n - k <= n - h
      BY <2>2, <2>3
    <3> QED
      BY <1>1, <3>1
  <2>5. LineStart(n) \in LineEnds(n)
    BY <1>3, <2>3, <2>4 DEF LineStart
  <2> QED
    BY <1>1, <2>5
<1> QED
  BY <1>2, <1>3

-----------------------------------------------------------------------------
(* The buffer is filled, and something is taken from it.                    *)

LEMMA RefilledBuffer ==
  ASSUME NEW w \in States, Buffered(w), NEW num \in Nat
  PROVE  LET r == Refilled(w, num) IN
         /\ r \in States /\ Buffered(r) /\ Len(r.buf) >= Len(w.buf)
         /\ r.bufcur = w.bufcur /\ r.bufpos = w.bufpos
         /\ r.linenum = w.linenum /\ r.linepos = w.linepos /\ r.charnum = w.charnum
         /\ Len(r.buf) >= w.bufcur + num \/ r.bufpos + Len(r.buf) = Len(file)
<1> DEFINE read == w.bufpos + Len(w.buf)
           missing == Minus(w.bufcur + num, Len(w.buf))
           left == Len(file) - read
           m == IF missing < left THEN missing ELSE left
           more == SubSeq(file, read + 1, read + m)
           r == Refilled(w, num)
<1>1. /\ w \in States /\ file \in Seq(Byte) /\ Len(file) \in Nat
      /\ w.buf \in Seq(Byte) /\ Len(w.buf) \in Nat /\ w.bufpos \in Nat /\ w.bufcur \in Nat
  BY LenProperties DEF States, Buffered
<1>2. read \in Nat /\ read <= Len(file) /\ left \in Nat /\ left = Len(file) - read
  BY <1>1 DEF Buffered
<1>3. missing \in Nat /\ Len(w.buf) + missing >= w.bufcur + num
  BY <1>1 DEF Minus
<1> HIDE DEF missing, left
<1>4. m \in Nat /\ read + m <= Len(file) /\ (m = missing \/ read + m = Len(file))
  BY <1>1, <1>2, <1>3
<1>5. r = [w EXCEPT !.buf = w.buf \o more]
  BY DEF Refilled, missing, left
<1> HIDE DEF m
<1>6. more \in Seq(Byte) /\ Len(more) = m /\ \A k \in 1 .. m : more[k] = file[read + k]
  <2>1. \A k \in (read + 1) .. (read + m) : file[k] \in Byte
    BY <1>1, <1>2, <1>4, ElementOfSeq
  <2>2. read + 1 \in Int /\ read + m \in Int
    BY <1>2, <1>4
  <2>3. /\ more \in Seq(Byte)
        /\ Len(more) = IF read + 1 <= read + m THEN (read + m) - (read + 1) + 1 ELSE 0
        /\ \A i \in 1 .. (read + m) - (read + 1) + 1 : more[i] = file[(read + 1) + i - 1]
    BY <2>1, <2>2, SubSeqProperties
  <2> HIDE DEF more, read
  <2>4. Len(more) = m
    BY <1>2, <1>4, <2>3
  <2>5. ASSUME NEW k \in 1 .. m PROVE more[k] = file[read + k]
    <3>1. k \in 1 .. (read + m) - (read + 1) + 1 /\ (read + 1) + k - 1 = read + k
      BY <1>2, <1>4
    <3> QED
      BY <2>3, <3>1
  <2> QED
    BY <2>3, <2>4, <2>5
<1> HIDE DEF more
<1> DEFINE buf == w.buf \o more
<1>7. /\ buf \in Seq(Byte) /\ Len(buf) = Len(w.buf) + m
      /\ \A k \in 1 .. Len(w.buf) : buf[k] = w.buf[k]
      /\ \A k \in 1 .. m : buf[Len(w.buf) + k] = more[k]
  <2>1. /\ buf \in Seq(Byte) /\ Len(buf) = Len(w.buf) + Len(more)
        /\ \A i \in 1 .. Len(w.buf) + Len(more) :
             buf[i] = IF i <= Len(w.buf) THEN w.buf[i] ELSE more[i - Len(w.buf)]
    BY <1>1, <1>6, ConcatProperties
  <2> HIDE DEF buf
  <2>2. ASSUME NEW k \in 1 .. m PROVE buf[Len(w.buf) + k] = more[k]
    <3>1. /\ Len(w.buf) + k \in 1 .. Len(w.buf) + Len(more) /\ ~ (Len(w.buf) + k <= Len(w.buf))
          /\ (Len(w.buf) + k) - Len(w.buf) = k
      BY <1>1, <1>4, <1>6
    <3> QED
      BY <2>1, <3>1
  <2>3. \A k \in 1 .. Len(w.buf) : buf[k] = w.buf[k]
    BY <1>1, <1>4, <1>6, <2>1
  <2> QED
    BY <1>6, <2>1, <2>2, <2>3
<1> HIDE DEF buf
<1>8. /\ r \in States /\ r.buf = buf /\ r.bufpos = w.bufpos /\ r.bufcur = w.bufcur
      /\ r.linenum = w.linenum /\ r.linepos = w.linepos /\ r.charnum = w.charnum
  <2>1. r = [w EXCEPT !.buf = buf]
    BY <1>5 DEF buf
  <2> HIDE DEF r
  <2> QED
    BY <1>1, <1>7, <2>1 DEF States
<1> HIDE DEF r
<1>9. Buffered(r)
  <2>1. r.bufcur <= Len(r.buf) /\ r.bufpos + Len(r.buf) <= Len(file)
    BY <1>1, <1>4, <1>7, <1>8 DEF Buffered, read
  <2>2. ASSUME NEW k \in 1 .. Len(r.buf) PROVE r.buf[k] = file[r.bufpos + k]
    <3>1. CASE k \in 1 .. Len(w.buf)
      BY <1>1, <1>7, <1>8, <3>1 DEF Buffered
    <3>2. CASE k \notin 1 .. Len(w.buf)
      <4> DEFINE j == k - Len(w.buf)
      <4>1. j \in 1 .. m /\ k = Len(w.buf) + j
        BY <1>1, <1>4, <1>7, <1>8, <3>2
      <4>2. read + j = r.bufpos + k
        BY <1>1, <1>8, <4>1 DEF read
      <4> HIDE DEF j
      <4> QED
        BY <1>6, <1>7, <1>8, <4>1, <4>2
    <3> QED
      BY <3>1, <3>2
  <2> QED
    BY <1>1, <2>1, <2>2 DEF Buffered
<1>10. Len(r.buf) >= w.bufcur + num \/ r.bufpos + Len(r.buf) = Len(file)
  <2>1. CASE m = missing
    BY <1>3, <1>7, <1>8, <2>1
  <2>2. CASE read + m = Len(file)
    BY <1>1, <1>4, <1>7, <1>8, <2>2 DEF read
  <2> QED
    BY <1>4, <2>1, <2>2
<1>11. Len(r.buf) >= Len(w.buf)
  BY <1>1, <1>4, <1>7, <1>8
<1> QED
  BY <1>8, <1>9, <1>10, <1>11 DEF r

LEMMA RefilledAhead ==
  ASSUME NEW w \in Sound, NEW num \in Nat
  PROVE  LET r == Refilled(w, num) IN
         r \in Ahead(w) /\ r.bufcur = w.bufcur /\ r.bufpos = w.bufpos
<1> DEFINE r == Refilled(w, num)
<1>1. /\ w \in States /\ Buffered(w) /\ Placed(w.bufpos, w)
      /\ w.bufcur \in Nat
  BY BufferType
<1>2. /\ r \in States /\ Buffered(r) /\ Len(r.buf) >= Len(w.buf)
      /\ r.bufcur = w.bufcur /\ r.bufpos = w.bufpos
      /\ r.linenum = w.linenum /\ r.linepos = w.linepos /\ r.charnum = w.charnum
  BY <1>1, RefilledBuffer
<1> HIDE DEF r
<1>3. Placed(r.bufpos, r)
  BY <1>1, <1>2 DEF Placed, OnLine, Counted
<1>4. r \in Ahead(w)
  BY <1>1, <1>2, <1>3 DEF Ahead, Sound
<1> QED
  BY <1>2, <1>4 DEF r

\* Bytes are taken that end no line.
LEMMA TakenAhead ==
  ASSUME NEW r \in Sound, NEW m \in Nat, r.bufcur + m <= Len(r.buf),
         \A k \in (r.bufcur + 1) .. (r.bufcur + m) : r.buf[k] \notin {LF, CR}
  PROVE  LET v == [Yes(r) EXCEPT !.bufcur = @ + m] IN
         v \in Ahead(r) /\ v.ok /\ v.bufcur = r.bufcur + m
<1> DEFINE v == [Yes(r) EXCEPT !.bufcur = @ + m]
           n == r.bufpos + r.bufcur
<1>1. /\ r \in States /\ r.bufpos \in Nat /\ r.bufcur \in Nat /\ Len(r.buf) \in Nat /\ Len(file) \in Nat
      /\ Buffered(r) /\ Placed(r.bufpos, r)
  BY BufferType
<1>2. /\ v \in States /\ v.buf = r.buf /\ v.bufpos = r.bufpos /\ v.bufcur = r.bufcur + m /\ v.ok
      /\ v.linenum = r.linenum /\ v.linepos = r.linepos /\ v.charnum = r.charnum
  <2> DEFINE c == r.bufcur + m
  <2>1. v = [r EXCEPT !.ok = TRUE, !.bufcur = c]
    BY <1>1 DEF Yes, States
  <2>2. c \in Nat
    BY <1>1
  <2> HIDE DEF v, c
  <2>3. /\ v \in States /\ v.buf = r.buf /\ v.bufpos = r.bufpos /\ v.bufcur = c /\ v.ok
        /\ v.linenum = r.linenum /\ v.linepos = r.linepos /\ v.charnum = r.charnum
    BY <1>1, <2>1, <2>2 DEF States
  <2> QED
    BY <2>3 DEF c
<1> HIDE DEF v
<1>3. ASSUME NEW k \in (n + 1) .. (n + m) PROVE ~ EndsLine(k)
  <2> DEFINE j == k - r.bufpos
  <2>1. j \in (r.bufcur + 1) .. (r.bufcur + m) /\ j \in 1 .. Len(r.buf) /\ k = r.bufpos + j
    BY <1>1
  <2> HIDE DEF j
  <2>2. file[k] = r.buf[j]
    BY <1>1, <2>1 DEF Buffered
  <2> QED
    BY <2>1, <2>2 DEF EndsLine
<1>4. n \in Nat /\ v.bufpos + v.bufcur = n + m
  BY <1>1, <1>2
<1>5. LineEnds(v.bufpos + v.bufcur) = LineEnds(n) /\ LineStart(v.bufpos + v.bufcur) = LineStart(n)
  BY <1>3, <1>4, LineGoesOn
<1>6. Placed(v.bufpos, v)
  BY <1>1, <1>2, <1>5 DEF Placed, OnLine, Counted
<1>7. Buffered(v)
  BY <1>1, <1>2 DEF Buffered
<1>8. v \in Sound
  BY <1>2, <1>6, <1>7 DEF Sound
<1>9. v \in Ahead(r)
  BY <1>1, <1>2, <1>8 DEF Ahead
<1> QED
  BY <1>2, <1>9 DEF v

LEMMA StringTried ==
  ASSUME NEW w \in Sound, NEW str \in Seq(Byte \ {LF, CR})
  PROVE  Tried(w, match_string(w, str))
<1> DEFINE m == Len(str)
           r == Refilled(w, m)
           v == match_string(w, str)
           end == Min({r.bufcur + m, Len(r.buf)})
           next == SubSeq(r.buf, r.bufcur + 1, end)
<1>1. m \in Nat /\ \A k \in 1 .. m : str[k] \notin {LF, CR}
  BY LenProperties, ElementOfSeq
<1>2. r \in Ahead(w) /\ r.bufcur = w.bufcur /\ r.bufpos = w.bufpos
  BY <1>1, RefilledAhead
<1>3. v = IF next = str THEN [Yes(r) EXCEPT !.bufcur = @ + m] ELSE No(r)
  BY DEF match_string
<1> HIDE DEF r
<1>4. r \in Sound
  BY <1>2 DEF Ahead
<1>5. /\ r.bufcur \in Nat /\ Len(r.buf) \in Nat /\ r.bufcur <= Len(r.buf) /\ r.buf \in Seq(Byte)
  BY <1>4, BufferType DEF Buffered
<1>6. CASE next = str
  <2>1. end \in Nat /\ end <= Len(r.buf) /\ r.bufcur <= end /\ end <= r.bufcur + m
    <3>1. {r.bufcur + m, Len(r.buf)} \subseteq Nat /\ {r.bufcur + m, Len(r.buf)} # {}
      BY <1>1, <1>5
    <3>2. end \in {r.bufcur + m, Len(r.buf)} /\ \A y \in {r.bufcur + m, Len(r.buf)} : end <= y
      BY <3>1, MinOf
    <3> HIDE DEF end
    <3> QED
      BY <1>1, <1>5, <3>2
  <2> HIDE DEF end
  <2>2. /\ Len(next) = IF r.bufcur + 1 <= end THEN end - (r.bufcur + 1) + 1 ELSE 0
        /\ \A i \in 1 .. end - (r.bufcur + 1) + 1 : next[i] = r.buf[(r.bufcur + 1) + i - 1]
    <3>1. r.bufcur + 1 \in Int /\ end \in Int /\ \A i \in (r.bufcur + 1) .. end : r.buf[i] \in Byte
      BY <1>5, <2>1, ElementOfSeq
    <3> QED
      BY <3>1, SubSeqProperties
  <2> HIDE DEF next
  <2>3. Len(next) = m
    BY <1>6
  <2>4. end = r.bufcur + m
    BY <1>1, <1>5, <2>1, <2>2, <2>3
  <2>5. ASSUME NEW k \in (r.bufcur + 1) .. (r.bufcur + m) PROVE r.buf[k] \notin {LF, CR}
    <3> DEFINE i == k - r.bufcur
    <3>1. k \in Int /\ i \in 1 .. m /\ (r.bufcur + 1) + i - 1 = k /\ end - (r.bufcur + 1) + 1 = m
      <4>1. m \in Nat /\ r.bufcur \in Nat
        BY <1>1, <1>5
      <4> HIDE DEF m
      <4> QED
        BY <2>4, <4>1
    <3> HIDE DEF i, m
    <3>2. next[i] = r.buf[k]
      BY <2>2, <3>1
    <3> QED
      BY <1>1, <1>6, <3>1, <3>2
  <2>6. v \in Ahead(r) /\ v.ok
    <3>1. r.bufcur + m <= Len(r.buf)
      BY <2>1, <2>4
    <3>2. v = [Yes(r) EXCEPT !.bufcur = @ + m]
      BY <1>3, <1>6
    <3> HIDE DEF m
    <3> QED
      BY <1>1, <1>4, <2>5, <3>1, <3>2, TakenAhead
  <2> HIDE DEF v
  <2>7. v \in Ahead(w)
    BY <1>2, <2>6, AheadOn
  <2> QED
    BY <2>6, <2>7 DEF Tried, v
<1>7. CASE next # str
  <2>1. v = No(r)
    BY <1>3, <1>7
  <2>2. v \in Ahead(r) /\ v.bufcur = r.bufcur
    BY <1>4, <2>1, Verdicts
  <2> HIDE DEF v
  <2>3. v \in Ahead(w)
    BY <1>2, <2>2, AheadOn
  <2> QED
    BY <1>2, <2>2, <2>3 DEF Tried, v
<1> QED
  BY <1>6, <1>7

-----------------------------------------------------------------------------
(* A character or a line end is matched.                                    *)

\* A character is taken if it is one of those that are asked for.
LEMMA CharacterTaken ==
  ASSUME NEW w \in States, Buffered(w), NEW chars
  PROVE  LET v == match_character(w, chars)
             n == w.bufpos + w.bufcur
         IN /\ v \in States /\ Buffered(v) /\ Len(v.buf) >= Len(w.buf) /\ v.bufpos = w.bufpos
            /\ v.linenum = w.linenum /\ v.linepos = w.linepos /\ v.charnum = w.charnum
            /\ IF n < Len(file) /\ file[n + 1] \in chars
               THEN v.ok /\ v.bufcur = w.bufcur + 1
               ELSE ~ v.ok /\ v.bufcur = w.bufcur
<1> DEFINE r == Refilled(w, 1)
           v == match_character(w, chars)
           n == w.bufpos + w.bufcur
<1>1. /\ r \in States /\ Buffered(r) /\ Len(r.buf) >= Len(w.buf)
      /\ r.bufcur = w.bufcur /\ r.bufpos = w.bufpos
      /\ r.linenum = w.linenum /\ r.linepos = w.linepos /\ r.charnum = w.charnum
      /\ Len(r.buf) >= w.bufcur + 1 \/ r.bufpos + Len(r.buf) = Len(file)
  BY RefilledBuffer
<1>2. v = IF Len(r.buf) > r.bufcur /\ r.buf[r.bufcur + 1] \in chars
          THEN [Yes(r) EXCEPT !.bufcur = @ + 1] ELSE No(r)
  BY DEF match_character
<1> HIDE DEF r
<1>3. r.bufpos \in Nat /\ r.bufcur \in Nat /\ Len(r.buf) \in Nat /\ Len(file) \in Nat
  BY <1>1, LenProperties DEF States, Buffered
<1>4. Len(r.buf) > r.bufcur <=> n < Len(file)
  BY <1>1, <1>3 DEF Buffered
<1>5. Len(r.buf) > r.bufcur => r.buf[r.bufcur + 1] = file[n + 1]
  <2> SUFFICES ASSUME Len(r.buf) > r.bufcur PROVE r.buf[r.bufcur + 1] = file[n + 1]
    OBVIOUS
  <2>1. r.bufcur + 1 \in 1 .. Len(r.buf)
    BY <1>3
  <2>2. r.bufpos + (r.bufcur + 1) = n + 1
    BY <1>1, <1>3
  <2> QED
    BY <1>1, <2>1, <2>2 DEF Buffered
<1>6. CASE n < Len(file) /\ file[n + 1] \in chars
  <2> DEFINE c == r.bufcur + 1
  <2>1. v = [r EXCEPT !.ok = TRUE, !.bufcur = c]
    BY <1>1, <1>2, <1>4, <1>5, <1>6 DEF Yes, States
  <2>2. c \in Nat /\ c <= Len(r.buf)
    BY <1>3, <1>4, <1>6
  <2> HIDE DEF v, c, n
  <2>3. /\ v \in States /\ v.buf = r.buf /\ v.bufpos = r.bufpos /\ v.bufcur = c /\ v.ok
        /\ v.linenum = r.linenum /\ v.linepos = r.linepos /\ v.charnum = r.charnum
    BY <1>1, <2>1, <2>2 DEF States
  <2>4. Buffered(v)
    BY <1>1, <2>2, <2>3 DEF Buffered
  <2>5. v.bufcur = w.bufcur + 1
    BY <1>1, <2>3 DEF c
  <2> QED
    BY <1>1, <1>6, <2>3, <2>4, <2>5 DEF v, n
<1>7. CASE ~ (n < Len(file) /\ file[n + 1] \in chars)
  <2>1. v = No(r)
    BY <1>2, <1>4, <1>5, <1>7
  <2> HIDE DEF v, n
  <2>2. /\ v \in States /\ v.buf = r.buf /\ v.bufpos = r.bufpos /\ v.bufcur = r.bufcur /\ ~ v.ok
        /\ v.linenum = r.linenum /\ v.linepos = r.linepos /\ v.charnum = r.charnum
    BY <1>1, <2>1 DEF States, No
  <2>3. Buffered(v)
    BY <1>1, <2>2 DEF Buffered
  <2> QED
    BY <1>1, <1>7, <2>2, <2>3 DEF v, n
<1> QED
  BY <1>6, <1>7

\* It goes on in the line if it ends none.
LEMMA CharacterTried ==
  ASSUME NEW w \in Sound, NEW chars, ~ EndsLine(w.bufpos + w.bufcur + 1) \/ (LF \notin chars /\ CR \notin chars)
  PROVE  Tried(w, match_character(w, chars))
<1> DEFINE v == match_character(w, chars)
           n == w.bufpos + w.bufcur
<1>1. /\ w \in States /\ Buffered(w) /\ Placed(w.bufpos, w) /\ w.bufpos \in Nat /\ w.bufcur \in Nat
      /\ Len(file) \in Nat
  BY BufferType
<1>2. /\ v \in States /\ Buffered(v) /\ Len(v.buf) >= Len(w.buf) /\ v.bufpos = w.bufpos
      /\ v.linenum = w.linenum /\ v.linepos = w.linepos /\ v.charnum = w.charnum
      /\ IF n < Len(file) /\ file[n + 1] \in chars
         THEN v.ok /\ v.bufcur = w.bufcur + 1
         ELSE ~ v.ok /\ v.bufcur = w.bufcur
  BY <1>1, CharacterTaken
<1> HIDE DEF v
<1>3. \/ v.bufcur = w.bufcur
      \/ v.bufcur = w.bufcur + 1 /\ v.ok /\ ~ EndsLine(n + 1)
  BY <1>2 DEF EndsLine
<1>4. LineEnds(v.bufpos + v.bufcur) = LineEnds(n) /\ LineStart(v.bufpos + v.bufcur) = LineStart(n)
  <2>1. CASE v.bufcur = w.bufcur
    BY <1>2, <2>1
  <2>2. CASE v.bufcur = w.bufcur + 1 /\ ~ EndsLine(n + 1)
    <3>1. n \in Nat /\ v.bufpos + v.bufcur = n + 1
      BY <1>1, <1>2, <2>2
    <3>2. \A k \in (n + 1) .. (n + 1) : ~ EndsLine(k)
      BY <2>2, <3>1
    <3> HIDE DEF n
    <3> QED
      BY <3>1, <3>2, LineGoesOn
  <2> QED
    BY <1>3, <2>1, <2>2
<1>5. Placed(v.bufpos, v)
  BY <1>1, <1>2, <1>4 DEF Placed, OnLine, Counted
<1>6. v \in Sound
  BY <1>2, <1>5 DEF Sound
<1>7. v.bufcur >= w.bufcur /\ (~ v.ok => v.bufcur = w.bufcur)
  BY <1>1, <1>3
<1> QED
  BY <1>2, <1>6, <1>7 DEF Tried, Ahead, v

LEMMA AnyTaken ==
  ASSUME NEW w \in Sound, NoEol(w)
  PROVE  TakeOne(w) \in Ahead(w)
<1>1. w.bufpos \in Nat /\ w.bufcur \in Nat /\ Len(file) \in Nat /\ w \in States /\ Buffered(w)
  BY BufferType
<1> DEFINE n == w.bufpos + w.bufcur
<1>2. CASE n < Len(file)
  <2>1. ~ EndsLine(n + 1)
    BY <1>2 DEF NoEol, EndsLine
  <2> QED
    BY <2>1, CharacterTried DEF TakeOne, Tried
<1>3. CASE ~ (n < Len(file))
  <2> DEFINE v == match_character(w, Byte)
  <2>1. /\ v \in States /\ Buffered(v) /\ Len(v.buf) >= Len(w.buf) /\ v.bufpos = w.bufpos
        /\ v.linenum = w.linenum /\ v.linepos = w.linepos /\ v.charnum = w.charnum
        /\ v.bufcur = w.bufcur
    BY <1>1, <1>3, CharacterTaken
  <2> HIDE DEF v
  <2>2. Placed(v.bufpos, v)
    BY <2>1, BufferType DEF Placed, OnLine, Counted
  <2>3. v \in Ahead(w)
    BY <1>1, <2>1, <2>2 DEF Ahead, Sound
  <2> QED
    BY <2>3 DEF v, TakeOne
<1> QED
  BY <1>2, <1>3

\* Behind a line end, the next line begins.
LEMMA NewLineSound ==
  ASSUME NEW r \in States, Buffered(r), NEW n \in Nat, r.bufpos + r.bufcur = n + 1,
         r.linenum = Cardinality(LineEnds(n)), EndsLine(n + 1)
  PROVE  LET v == NewLine(r) IN
         v \in Sound /\ v.ok /\ v.buf = r.buf /\ v.bufpos = r.bufpos /\ v.bufcur = r.bufcur
<1> DEFINE v == NewLine(r)
           l == r.linenum + 1
           p == r.bufpos + r.bufcur
<1>1. r.linenum \in Nat /\ r.bufpos \in Nat /\ r.bufcur \in Nat
  BY DEF States
<1>2. v = [r EXCEPT !.ok = TRUE, !.linenum = l, !.charnum = 0, !.linepos = p]
  BY DEF NewLine, Yes, States
<1>3. l \in Nat /\ p \in Nat /\ p = n + 1 /\ p >= r.bufpos
  BY <1>1
<1> HIDE DEF v, l, p
<1>4. /\ v \in States /\ v.buf = r.buf /\ v.bufpos = r.bufpos /\ v.bufcur = r.bufcur /\ v.ok
      /\ v.linenum = l /\ v.linepos = p /\ v.charnum = 0
  BY <1>2, <1>3 DEF States
<1>5. Cardinality(LineEnds(n + 1)) = Cardinality(LineEnds(n)) + 1 /\ LineStart(n + 1) = n + 1
  <2>1. n + 0 + 1 = n + 1 /\ EndsLine(n + 0 + 1) /\ \A k \in (n + 1) .. (n + 0) : ~ EndsLine(k)
    OBVIOUS
  <2>2. /\ Cardinality(LineEnds(n + 0 + 1)) = Cardinality(LineEnds(n)) + 1
        /\ LineStart(n + 0 + 1) = n + 0 + 1
    BY <2>1, LineBegins
  <2> QED
    BY <2>1, <2>2
<1>6. v.bufpos + v.bufcur = n + 1
  BY <1>4
<1>7. OnLine(v.bufpos, v)
  BY <1>3, <1>4, <1>5, <1>6 DEF OnLine, l
<1>8. Counted(v.bufpos, v)
  BY <1>3, <1>4 DEF Counted
<1>9. Buffered(v)
  BY <1>4 DEF Buffered
<1> QED
  BY <1>4, <1>7, <1>8, <1>9 DEF Sound, Placed, v

LEMMA StateType ==
  ASSUME NEW w \in States
  PROVE  Len(w.buf) \in Nat /\ w.bufpos \in Nat /\ w.bufcur \in Nat
BY LenProperties DEF States

\* LF, CR or both are a line end, and what does not begin with one of them is none.
LEMMA EolTried ==
  ASSUME NEW w \in Sound
  PROVE  LET v == match_eol(w) IN
         Tried(w, v) /\ IF v.ok THEN v.bufcur > w.bufcur ELSE NoEol(v)
<1> DEFINE a == match_character(w, {LF})
           b == match_character(a, {CR})
           c == match_character(b, {LF})
           v == match_eol(w)
           n == w.bufpos + w.bufcur
<1>1. v = IF a.ok THEN NewLine(a) ELSE IF b.ok THEN NewLine(c) ELSE b
  BY DEF match_eol, Either, AndThen
<1>2. /\ w \in States /\ Buffered(w) /\ Placed(w.bufpos, w) /\ w.bufpos \in Nat /\ w.bufcur \in Nat
      /\ Len(w.buf) \in Nat /\ Len(file) \in Nat
  BY BufferType
<1>3. /\ a \in States /\ Buffered(a) /\ Len(a.buf) >= Len(w.buf) /\ a.bufpos = w.bufpos
      /\ a.linenum = w.linenum /\ a.linepos = w.linepos /\ a.charnum = w.charnum
      /\ IF n < Len(file) /\ file[n + 1] \in {LF}
         THEN a.ok /\ a.bufcur = w.bufcur + 1
         ELSE ~ a.ok /\ a.bufcur = w.bufcur
  BY <1>2, CharacterTaken
<1> HIDE DEF a
<1>4. /\ b \in States /\ Buffered(b) /\ Len(b.buf) >= Len(a.buf) /\ b.bufpos = a.bufpos
      /\ b.linenum = a.linenum /\ b.linepos = a.linepos /\ b.charnum = a.charnum
      /\ IF a.bufpos + a.bufcur < Len(file) /\ file[a.bufpos + a.bufcur + 1] \in {CR}
         THEN b.ok /\ b.bufcur = a.bufcur + 1
         ELSE ~ b.ok /\ b.bufcur = a.bufcur
  BY <1>3, CharacterTaken
<1> HIDE DEF b
<1>5. /\ c \in States /\ Buffered(c) /\ Len(c.buf) >= Len(b.buf) /\ c.bufpos = b.bufpos
      /\ c.linenum = b.linenum /\ c.linepos = b.linepos /\ c.charnum = b.charnum
      /\ IF b.bufpos + b.bufcur < Len(file) /\ file[b.bufpos + b.bufcur + 1] \in {LF}
         THEN c.ok /\ c.bufcur = b.bufcur + 1
         ELSE ~ c.ok /\ c.bufcur = b.bufcur
  BY <1>4, CharacterTaken
<1> HIDE DEF c
<1>6. /\ n \in Nat /\ w.linenum = Cardinality(LineEnds(n)) /\ CR # LF
      /\ Len(a.buf) \in Nat /\ Len(b.buf) \in Nat /\ Len(c.buf) \in Nat
  <2>1. n \in Nat /\ w.linenum = Cardinality(LineEnds(n))
    BY <1>2 DEF Placed, OnLine
  <2> QED
    BY <1>3, <1>4, <1>5, <2>1, StateType DEF CR, LF
<1>7. CASE a.ok
  <2>1. n < Len(file) /\ file[n + 1] = LF /\ a.bufcur = w.bufcur + 1
    BY <1>3, <1>7
  <2>2. EndsLine(n + 1) /\ a.bufpos + a.bufcur = n + 1
    BY <1>2, <1>3, <2>1 DEF EndsLine
  <2> HIDE DEF n, v
  <2>3. v \in Sound /\ v.ok /\ v.buf = a.buf /\ v.bufpos = a.bufpos /\ v.bufcur = a.bufcur
    BY <1>1, <1>3, <1>6, <1>7, <2>2, NewLineSound
  <2>4. v \in Ahead(w)
    BY <1>2, <1>3, <2>1, <2>3 DEF Ahead
  <2>5. v.bufcur > w.bufcur
    BY <1>2, <2>1, <2>3
  <2> QED
    BY <2>3, <2>4, <2>5 DEF Tried, v
<1>8. CASE ~ a.ok
  <2>1. a.bufcur = w.bufcur /\ a.bufpos + a.bufcur = n /\ ~ (n < Len(file) /\ file[n + 1] = LF)
    BY <1>3, <1>8
  <2>2. CASE b.ok
    <3>1. n < Len(file) /\ file[n + 1] = CR /\ b.bufpos + b.bufcur = n + 1 /\ b.bufcur = w.bufcur + 1
      <4>1. a.bufpos + a.bufcur < Len(file) /\ file[a.bufpos + a.bufcur + 1] = CR /\ b.bufcur = a.bufcur + 1
        BY <1>4, <2>2
      <4>2. a.bufpos \in Nat /\ a.bufcur \in Nat /\ b.bufpos = a.bufpos
        BY <1>3, <1>4, StateType
      <4>3. b.bufpos + b.bufcur = n + 1 /\ b.bufcur = w.bufcur + 1
        BY <2>1, <4>1, <4>2
      <4> QED
        BY <2>1, <4>1, <4>3
    <3>2. v = NewLine(c)
      BY <1>1, <1>8, <2>2
    <3> HIDE DEF n, v
    <3>3. CASE n + 1 < Len(file) /\ file[n + 2] = LF
      <4>1. c.bufcur = b.bufcur + 1 /\ c.bufpos + c.bufcur = (n + 1) + 1
        <5>1. n + 2 = (n + 1) + 1 /\ b.bufpos \in Nat /\ b.bufcur \in Nat
          BY <1>4, <1>6, StateType
        <5>2. c.bufcur = b.bufcur + 1 /\ c.bufpos = b.bufpos
          BY <1>5, <3>1, <3>3, <5>1
        <5> QED
          BY <3>1, <5>1, <5>2
      <4>2. ~ EndsLine(n + 1) /\ EndsLine((n + 1) + 1)
        BY <1>2, <1>6, <3>1, <3>3 DEF EndsLine
      <4>3. LineEnds(n + 1) = LineEnds(n)
        <5>1. \A k \in (n + 1) .. (n + 1) : ~ EndsLine(k)
          BY <1>6, <4>2
        <5> QED
          BY <1>6, <5>1, LineGoesOn
      <4>4. c.linenum = Cardinality(LineEnds(n + 1))
        BY <1>3, <1>4, <1>5, <1>6, <4>3
      <4>5. v \in Sound /\ v.ok /\ v.buf = c.buf /\ v.bufpos = c.bufpos /\ v.bufcur = c.bufcur
        <5>1. n + 1 \in Nat
          BY <1>6
        <5> QED
          BY <1>5, <3>2, <4>1, <4>2, <4>4, <5>1, NewLineSound
      <4>6. v \in Ahead(w)
        <5>1. v.bufpos = w.bufpos /\ Len(v.buf) >= Len(w.buf)
          BY <1>2, <1>3, <1>4, <1>5, <1>6, <4>5
        <5>2. v.bufcur >= w.bufcur
          BY <1>2, <3>1, <4>1, <4>5
        <5> QED
          BY <4>5, <5>1, <5>2 DEF Ahead
      <4>7. v.bufcur > w.bufcur
        BY <1>2, <3>1, <4>1, <4>5
      <4> QED
        BY <4>5, <4>6, <4>7 DEF Tried, v
    <3>4. CASE ~ (n + 1 < Len(file) /\ file[n + 2] = LF)
      <4>1. c.bufcur = b.bufcur /\ c.bufpos + c.bufcur = n + 1
        BY <1>4, <1>5, <1>6, <3>1, <3>4
      <4>2. EndsLine(n + 1)
        BY <1>2, <1>6, <3>1, <3>4 DEF EndsLine
      <4>3. c.linenum = Cardinality(LineEnds(n))
        BY <1>3, <1>4, <1>5, <1>6
      <4>4. v \in Sound /\ v.ok /\ v.buf = c.buf /\ v.bufpos = c.bufpos /\ v.bufcur = c.bufcur
        BY <1>5, <1>6, <3>2, <4>1, <4>2, <4>3, NewLineSound
      <4>5. v \in Ahead(w)
        BY <1>2, <1>3, <1>4, <1>5, <1>6, <3>1, <4>1, <4>4 DEF Ahead
      <4>6. v.bufcur > w.bufcur
        BY <1>2, <3>1, <4>1, <4>4
      <4> QED
        BY <4>4, <4>5, <4>6 DEF Tried, v
    <3> QED
      BY <3>3, <3>4
  <2>3. CASE ~ b.ok
    <3>1. v = b
      BY <1>1, <1>8, <2>3
    <3>2. b.bufcur = w.bufcur /\ b.bufpos = w.bufpos
      BY <1>3, <1>4, <2>1, <2>3
    <3>3. NoEol(b)
      BY <1>3, <1>4, <2>1, <2>3, <3>2 DEF NoEol
    <3>4. Placed(b.bufpos, b)
      BY <1>2, <1>3, <1>4, <3>2 DEF Placed, OnLine, Counted
    <3>5. b \in Ahead(w)
      BY <1>2, <1>3, <1>4, <1>6, <3>2, <3>4 DEF Ahead, Sound
    <3> HIDE DEF v
    <3>6. Tried(w, v) /\ ~ v.ok /\ NoEol(v)
      BY <2>3, <3>1, <3>2, <3>3, <3>5 DEF Tried
    <3> QED
      BY <3>6 DEF v
  <2> QED
    BY <2>2, <2>3
<1> QED
  BY <1>7, <1>8

-----------------------------------------------------------------------------
(* Loops of calls.                                                          *)

\* The calls of a loop that goes on while they are successful, if each of them leads
\* from S to S; op has what they lead to.
Loops(f, n, op, b) ==
  f = [k \in 0 .. n |-> IF k = 0 THEN b ELSE IF f[k - 1].ok THEN op[f[k - 1]] ELSE f[k - 1]]

LEMMA LoopOf ==
  ASSUME NEW n \in Nat, NEW S, NEW op \in [S -> S], NEW b \in S
  PROVE  \E f \in [0 .. n -> S] : Loops(f, n, op, b)
<1> DEFINE T == [v \in S |-> IF v.ok THEN op[v] ELSE v]
           Step == [k \in 1 .. n |-> T]
<1>1. T \in [S -> S]
  OBVIOUS
<1>2. Step \in [1 .. n -> [S -> S]]
  BY <1>1
<1> HIDE DEF T
<1>3. \A k \in 1 .. n : Step[k] = T
  OBVIOUS
<1> HIDE DEF Step
<1>4. PICK f \in [0 .. n -> S] : Iterate(f, n, b, Step)
  BY <1>2, Iterates
<1>5. ASSUME NEW k \in 0 .. n
      PROVE  f[k] = IF k = 0 THEN b ELSE IF f[k - 1].ok THEN op[f[k - 1]] ELSE f[k - 1]
  <2>1. CASE k = 0
    BY <1>4, <2>1 DEF Iterate
  <2>2. CASE k # 0
    <3>1. k \in 1 .. n /\ k - 1 \in 0 .. n
      BY <2>2
    <3>2. f[k] = Step[k][f[k - 1]] /\ f[k - 1] \in S
      BY <1>4, <2>2, <3>1 DEF Iterate
    <3>3. f[k] = T[f[k - 1]]
      BY <1>3, <3>1, <3>2
    <3> QED
      BY <2>2, <3>2, <3>3 DEF T
  <2> QED
    BY <2>1, <2>2
<1>6. Loops(f, n, op, b)
  BY <1>5 DEF Loops
<1> QED
  BY <1>6

LEMMA LoopEnds ==
  ASSUME NEW n \in Nat, NEW S, NEW f,
         f[0] \in S, \A k \in 0 .. n : k # n /\ f[k] \in S => f[k + 1] \in S
  PROVE  f[n] \in S
<1> DEFINE K == {k \in 0 .. n : f[k] \in S}
<1>1. 0 \in K
  OBVIOUS
<1>2. \A k \in 0 .. n : k # n /\ k \in K => k + 1 \in K
  OBVIOUS
<1>3. \A k \in 0 .. n : k \in K
  <2> HIDE DEF K
  <2> QED
    BY <1>1, <1>2, Upwards
<1> QED
  BY <1>3

\* The loops of the match_ functions lead to where their calls lead.  The call is a
\* parameter of Steps, which a lemma cannot be used for: each loop has its own.
LEMMA SpaceLoop ==
  ASSUME NEW S, NEW w, Len(file) \in Nat, match_space(w) \in S, \A v \in S : match_space(v) \in S
  PROVE  Steps(w, match_space) \in S
<1> DEFINE N == Len(file) + 1
           op == [v \in S |-> match_space(v)]
           Fits(f) == f = [k \in 0 .. N |-> IF k = 0 THEN match_space(w)
                                            ELSE LET v == f[k - 1] IN IF v.ok THEN match_space(v) ELSE v]
           f == CHOOSE f : Fits(f)
<1>1. N \in Nat /\ op \in [S -> S] /\ Steps(w, match_space) = f[N]
  BY DEF Steps
<1>2. Fits(f)
  <2>1. PICK g \in [0 .. N -> S] : Loops(g, N, op, match_space(w))
    <3> HIDE DEF N, op
    <3> QED
      BY <1>1, LoopOf
  <2>2. ASSUME NEW k \in 0 .. N, k # 0 PROVE g[k - 1] \in S
    BY <1>1, <2>1, <2>2
  <2>3. Fits(g)
    BY <2>1, <2>2 DEF Loops
  <2> HIDE DEF Fits
  <2> QED
    BY <2>3
<1> HIDE DEF f
<1>3. f[0] \in S
  BY <1>1, <1>2
<1>4. ASSUME NEW k \in 0 .. N, k # N, f[k] \in S PROVE f[k + 1] \in S
  <2>1. k + 1 \in 0 .. N /\ k + 1 # 0 /\ (k + 1) - 1 = k
    BY <1>1, <1>4
  <2>2. f[k + 1] = IF f[k].ok THEN match_space(f[k]) ELSE f[k]
    BY <1>2, <2>1
  <2> QED
    BY <1>4, <2>2
<1> HIDE DEF N
<1> QED
  BY <1>1, <1>3, <1>4, LoopEnds

LEMMA InLineLoop ==
  ASSUME NEW S, NEW w, Len(file) \in Nat, InLine(w) \in S, \A v \in S : InLine(v) \in S
  PROVE  Steps(w, InLine) \in S
<1> DEFINE N == Len(file) + 1
           op == [v \in S |-> InLine(v)]
           Fits(f) == f = [k \in 0 .. N |-> IF k = 0 THEN InLine(w)
                                            ELSE LET v == f[k - 1] IN IF v.ok THEN InLine(v) ELSE v]
           f == CHOOSE f : Fits(f)
<1>1. N \in Nat /\ op \in [S -> S] /\ Steps(w, InLine) = f[N]
  BY DEF Steps
<1>2. Fits(f)
  <2>1. PICK g \in [0 .. N -> S] : Loops(g, N, op, InLine(w))
    <3> HIDE DEF N, op
    <3> QED
      BY <1>1, LoopOf
  <2>2. ASSUME NEW k \in 0 .. N, k # 0 PROVE g[k - 1] \in S
    BY <1>1, <2>1, <2>2
  <2>3. Fits(g)
    BY <2>1, <2>2 DEF Loops
  <2> HIDE DEF Fits
  <2> QED
    BY <2>3
<1> HIDE DEF f
<1>3. f[0] \in S
  BY <1>1, <1>2
<1>4. ASSUME NEW k \in 0 .. N, k # N, f[k] \in S PROVE f[k + 1] \in S
  <2>1. k + 1 \in 0 .. N /\ k + 1 # 0 /\ (k + 1) - 1 = k
    BY <1>1, <1>4
  <2>2. f[k + 1] = IF f[k].ok THEN InLine(f[k]) ELSE f[k]
    BY <1>2, <2>1
  <2> QED
    BY <1>4, <2>2
<1> HIDE DEF N
<1> QED
  BY <1>1, <1>3, <1>4, LoopEnds

LEMMA ContinuedLoop ==
  ASSUME NEW S, NEW w, Len(file) \in Nat, InContinuedLine(w) \in S, \A v \in S : InContinuedLine(v) \in S
  PROVE  Steps(w, InContinuedLine) \in S
<1> DEFINE N == Len(file) + 1
           op == [v \in S |-> InContinuedLine(v)]
           Fits(f) == f = [k \in 0 .. N |-> IF k = 0 THEN InContinuedLine(w)
                                            ELSE LET v == f[k - 1] IN IF v.ok THEN InContinuedLine(v) ELSE v]
           f == CHOOSE f : Fits(f)
<1>1. N \in Nat /\ op \in [S -> S] /\ Steps(w, InContinuedLine) = f[N]
  BY DEF Steps
<1>2. Fits(f)
  <2>1. PICK g \in [0 .. N -> S] : Loops(g, N, op, InContinuedLine(w))
    <3> HIDE DEF N, op
    <3> QED
      BY <1>1, LoopOf
  <2>2. ASSUME NEW k \in 0 .. N, k # 0 PROVE g[k - 1] \in S
    BY <1>1, <2>1, <2>2
  <2>3. Fits(g)
    BY <2>1, <2>2 DEF Loops
  <2> HIDE DEF Fits
  <2> QED
    BY <2>3
<1> HIDE DEF f
<1>3. f[0] \in S
  BY <1>1, <1>2
<1>4. ASSUME NEW k \in 0 .. N, k # N, f[k] \in S PROVE f[k + 1] \in S
  <2>1. k + 1 \in 0 .. N /\ k + 1 # 0 /\ (k + 1) - 1 = k
    BY <1>1, <1>4
  <2>2. f[k + 1] = IF f[k].ok THEN InContinuedLine(f[k]) ELSE f[k]
    BY <1>2, <2>1
  <2> QED
    BY <1>4, <2>2
<1> HIDE DEF N
<1> QED
  BY <1>1, <1>3, <1>4, LoopEnds

LEMMA BlockLoop ==
  ASSUME NEW S, NEW w, Len(file) \in Nat, InBlock(w) \in S, \A v \in S : InBlock(v) \in S
  PROVE  Steps(w, InBlock) \in S
<1> DEFINE N == Len(file) + 1
           op == [v \in S |-> InBlock(v)]
           Fits(f) == f = [k \in 0 .. N |-> IF k = 0 THEN InBlock(w)
                                            ELSE LET v == f[k - 1] IN IF v.ok THEN InBlock(v) ELSE v]
           f == CHOOSE f : Fits(f)
<1>1. N \in Nat /\ op \in [S -> S] /\ Steps(w, InBlock) = f[N]
  BY DEF Steps
<1>2. Fits(f)
  <2>1. PICK g \in [0 .. N -> S] : Loops(g, N, op, InBlock(w))
    <3> HIDE DEF N, op
    <3> QED
      BY <1>1, LoopOf
  <2>2. ASSUME NEW k \in 0 .. N, k # 0 PROVE g[k - 1] \in S
    BY <1>1, <2>1, <2>2
  <2>3. Fits(g)
    BY <2>1, <2>2 DEF Loops
  <2> HIDE DEF Fits
  <2> QED
    BY <2>3
<1> HIDE DEF f
<1>3. f[0] \in S
  BY <1>1, <1>2
<1>4. ASSUME NEW k \in 0 .. N, k # N, f[k] \in S PROVE f[k + 1] \in S
  <2>1. k + 1 \in 0 .. N /\ k + 1 # 0 /\ (k + 1) - 1 = k
    BY <1>1, <1>4
  <2>2. f[k + 1] = IF f[k].ok THEN InBlock(f[k]) ELSE f[k]
    BY <1>2, <2>1
  <2> QED
    BY <1>4, <2>2
<1> HIDE DEF N
<1> QED
  BY <1>1, <1>3, <1>4, LoopEnds

LEMMA SpacesLoop ==
  ASSUME NEW S, NEW w, Len(file) \in Nat, SpaceOrLine(w) \in S, \A v \in S : SpaceOrLine(v) \in S
  PROVE  Steps(w, SpaceOrLine) \in S
<1> DEFINE N == Len(file) + 1
           op == [v \in S |-> SpaceOrLine(v)]
           Fits(f) == f = [k \in 0 .. N |-> IF k = 0 THEN SpaceOrLine(w)
                                            ELSE LET v == f[k - 1] IN IF v.ok THEN SpaceOrLine(v) ELSE v]
           f == CHOOSE f : Fits(f)
<1>1. N \in Nat /\ op \in [S -> S] /\ Steps(w, SpaceOrLine) = f[N]
  BY DEF Steps
<1>2. Fits(f)
  <2>1. PICK g \in [0 .. N -> S] : Loops(g, N, op, SpaceOrLine(w))
    <3> HIDE DEF N, op
    <3> QED
      BY <1>1, LoopOf
  <2>2. ASSUME NEW k \in 0 .. N, k # 0 PROVE g[k - 1] \in S
    BY <1>1, <2>1, <2>2
  <2>3. Fits(g)
    BY <2>1, <2>2 DEF Loops
  <2> HIDE DEF Fits
  <2> QED
    BY <2>3
<1> HIDE DEF f
<1>3. f[0] \in S
  BY <1>1, <1>2
<1>4. ASSUME NEW k \in 0 .. N, k # N, f[k] \in S PROVE f[k + 1] \in S
  <2>1. k + 1 \in 0 .. N /\ k + 1 # 0 /\ (k + 1) - 1 = k
    BY <1>1, <1>4
  <2>2. f[k + 1] = IF f[k].ok THEN SpaceOrLine(f[k]) ELSE f[k]
    BY <1>2, <2>1
  <2> QED
    BY <1>4, <2>2
<1> HIDE DEF N
<1> QED
  BY <1>1, <1>3, <1>4, LoopEnds

QuotationSteps(w, right) == Steps(w, LAMBDA v : InQuotation(v, right))

LEMMA QuotationLoop ==
  ASSUME NEW S, NEW w, NEW right, Len(file) \in Nat, InQuotation(w, right) \in S, \A v \in S : InQuotation(v, right) \in S
  PROVE  QuotationSteps(w, right) \in S
<1> DEFINE N == Len(file) + 1
           op == [v \in S |-> InQuotation(v, right)]
           Fits(f) == f = [k \in 0 .. N |-> IF k = 0 THEN InQuotation(w, right)
                                            ELSE LET v == f[k - 1] IN IF v.ok THEN InQuotation(v, right) ELSE v]
           f == CHOOSE f : Fits(f)
<1>1. N \in Nat /\ op \in [S -> S] /\ QuotationSteps(w, right) = f[N]
  BY DEF QuotationSteps, Steps
<1>2. Fits(f)
  <2>1. PICK g \in [0 .. N -> S] : Loops(g, N, op, InQuotation(w, right))
    <3> HIDE DEF N, op
    <3> QED
      BY <1>1, LoopOf
  <2>2. ASSUME NEW k \in 0 .. N, k # 0 PROVE g[k - 1] \in S
    BY <1>1, <2>1, <2>2
  <2>3. Fits(g)
    BY <2>1, <2>2 DEF Loops
  <2> HIDE DEF Fits
  <2> QED
    BY <2>3
<1> HIDE DEF f
<1>3. f[0] \in S
  BY <1>1, <1>2
<1>4. ASSUME NEW k \in 0 .. N, k # N, f[k] \in S PROVE f[k + 1] \in S
  <2>1. k + 1 \in 0 .. N /\ k + 1 # 0 /\ (k + 1) - 1 = k
    BY <1>1, <1>4
  <2>2. f[k + 1] = IF f[k].ok THEN InQuotation(f[k], right) ELSE f[k]
    BY <1>2, <2>1
  <2> QED
    BY <1>4, <2>2
<1> HIDE DEF N
<1> QED
  BY <1>1, <1>3, <1>4, LoopEnds

LEMMA DigitLoop ==
  ASSUME NEW S, NEW w, Len(file) \in Nat, match_digit(w) \in S, \A v \in S : match_digit(v) \in S
  PROVE  Steps(w, match_digit) \in S
<1> DEFINE N == Len(file) + 1
           op == [v \in S |-> match_digit(v)]
           Fits(f) == f = [k \in 0 .. N |-> IF k = 0 THEN match_digit(w)
                                            ELSE LET v == f[k - 1] IN IF v.ok THEN match_digit(v) ELSE v]
           f == CHOOSE f : Fits(f)
<1>1. N \in Nat /\ op \in [S -> S] /\ Steps(w, match_digit) = f[N]
  BY DEF Steps
<1>2. Fits(f)
  <2>1. PICK g \in [0 .. N -> S] : Loops(g, N, op, match_digit(w))
    <3> HIDE DEF N, op
    <3> QED
      BY <1>1, LoopOf
  <2>2. ASSUME NEW k \in 0 .. N, k # 0 PROVE g[k - 1] \in S
    BY <1>1, <2>1, <2>2
  <2>3. Fits(g)
    BY <2>1, <2>2 DEF Loops
  <2> HIDE DEF Fits
  <2> QED
    BY <2>3
<1> HIDE DEF f
<1>3. f[0] \in S
  BY <1>1, <1>2
<1>4. ASSUME NEW k \in 0 .. N, k # N, f[k] \in S PROVE f[k + 1] \in S
  <2>1. k + 1 \in 0 .. N /\ k + 1 # 0 /\ (k + 1) - 1 = k
    BY <1>1, <1>4
  <2>2. f[k + 1] = IF f[k].ok THEN match_digit(f[k]) ELSE f[k]
    BY <1>2, <2>1
  <2> QED
    BY <1>4, <2>2
<1> HIDE DEF N
<1> QED
  BY <1>1, <1>3, <1>4, LoopEnds

CharacterSteps(w, chars) == Steps(w, LAMBDA v : match_character(v, chars))

LEMMA CharactersLoop ==
  ASSUME NEW S, NEW w, NEW chars, Len(file) \in Nat, match_character(w, chars) \in S, \A v \in S : match_character(v, chars) \in S
  PROVE  CharacterSteps(w, chars) \in S
<1> DEFINE N == Len(file) + 1
           op == [v \in S |-> match_character(v, chars)]
           Fits(f) == f = [k \in 0 .. N |-> IF k = 0 THEN match_character(w, chars)
                                            ELSE LET v == f[k - 1] IN IF v.ok THEN match_character(v, chars) ELSE v]
           f == CHOOSE f : Fits(f)
<1>1. N \in Nat /\ op \in [S -> S] /\ CharacterSteps(w, chars) = f[N]
  BY DEF CharacterSteps, Steps
<1>2. Fits(f)
  <2>1. PICK g \in [0 .. N -> S] : Loops(g, N, op, match_character(w, chars))
    <3> HIDE DEF N, op
    <3> QED
      BY <1>1, LoopOf
  <2>2. ASSUME NEW k \in 0 .. N, k # 0 PROVE g[k - 1] \in S
    BY <1>1, <2>1, <2>2
  <2>3. Fits(g)
    BY <2>1, <2>2 DEF Loops
  <2> HIDE DEF Fits
  <2> QED
    BY <2>3
<1> HIDE DEF f
<1>3. f[0] \in S
  BY <1>1, <1>2
<1>4. ASSUME NEW k \in 0 .. N, k # N, f[k] \in S PROVE f[k + 1] \in S
  <2>1. k + 1 \in 0 .. N /\ k + 1 # 0 /\ (k + 1) - 1 = k
    BY <1>1, <1>4
  <2>2. f[k + 1] = IF f[k].ok THEN match_character(f[k], chars) ELSE f[k]
    BY <1>2, <2>1
  <2> QED
    BY <1>4, <2>2
<1> HIDE DEF N
<1> QED
  BY <1>1, <1>3, <1>4, LoopEnds

LEMMA DirectiveLoop ==
  ASSUME NEW S, NEW w, Len(file) \in Nat, InDirective(w) \in S, \A v \in S : InDirective(v) \in S
  PROVE  Steps(w, InDirective) \in S
<1> DEFINE N == Len(file) + 1
           op == [v \in S |-> InDirective(v)]
           Fits(f) == f = [k \in 0 .. N |-> IF k = 0 THEN InDirective(w)
                                            ELSE LET v == f[k - 1] IN IF v.ok THEN InDirective(v) ELSE v]
           f == CHOOSE f : Fits(f)
<1>1. N \in Nat /\ op \in [S -> S] /\ Steps(w, InDirective) = f[N]
  BY DEF Steps
<1>2. Fits(f)
  <2>1. PICK g \in [0 .. N -> S] : Loops(g, N, op, InDirective(w))
    <3> HIDE DEF N, op
    <3> QED
      BY <1>1, LoopOf
  <2>2. ASSUME NEW k \in 0 .. N, k # 0 PROVE g[k - 1] \in S
    BY <1>1, <2>1, <2>2
  <2>3. Fits(g)
    BY <2>1, <2>2 DEF Loops
  <2> HIDE DEF Fits
  <2> QED
    BY <2>3
<1> HIDE DEF f
<1>3. f[0] \in S
  BY <1>1, <1>2
<1>4. ASSUME NEW k \in 0 .. N, k # N, f[k] \in S PROVE f[k + 1] \in S
  <2>1. k + 1 \in 0 .. N /\ k + 1 # 0 /\ (k + 1) - 1 = k
    BY <1>1, <1>4
  <2>2. f[k + 1] = IF f[k].ok THEN InDirective(f[k]) ELSE f[k]
    BY <1>2, <2>1
  <2> QED
    BY <1>4, <2>2
<1> HIDE DEF N
<1> QED
  BY <1>1, <1>3, <1>4, LoopEnds

LEMMA CodeLoop ==
  ASSUME NEW S, NEW w, Len(file) \in Nat, InCodeBlock(w) \in S, \A v \in S : InCodeBlock(v) \in S
  PROVE  Steps(w, InCodeBlock) \in S
<1> DEFINE N == Len(file) + 1
           op == [v \in S |-> InCodeBlock(v)]
           Fits(f) == f = [k \in 0 .. N |-> IF k = 0 THEN InCodeBlock(w)
                                            ELSE LET v == f[k - 1] IN IF v.ok THEN InCodeBlock(v) ELSE v]
           f == CHOOSE f : Fits(f)
<1>1. N \in Nat /\ op \in [S -> S] /\ Steps(w, InCodeBlock) = f[N]
  BY DEF Steps
<1>2. Fits(f)
  <2>1. PICK g \in [0 .. N -> S] : Loops(g, N, op, InCodeBlock(w))
    <3> HIDE DEF N, op
    <3> QED
      BY <1>1, LoopOf
  <2>2. ASSUME NEW k \in 0 .. N, k # 0 PROVE g[k - 1] \in S
    BY <1>1, <2>1, <2>2
  <2>3. Fits(g)
    BY <2>1, <2>2 DEF Loops
  <2> HIDE DEF Fits
  <2> QED
    BY <2>3
<1> HIDE DEF f
<1>3. f[0] \in S
  BY <1>1, <1>2
<1>4. ASSUME NEW k \in 0 .. N, k # N, f[k] \in S PROVE f[k + 1] \in S
  <2>1. k + 1 \in 0 .. N /\ k + 1 # 0 /\ (k + 1) - 1 = k
    BY <1>1, <1>4
  <2>2. f[k + 1] = IF f[k].ok THEN InCodeBlock(f[k]) ELSE f[k]
    BY <1>2, <2>1
  <2> QED
    BY <1>4, <2>2
<1> HIDE DEF N
<1> QED
  BY <1>1, <1>3, <1>4, LoopEnds

-----------------------------------------------------------------------------
(* One call after another.                                                  *)

\* What comes behind what was matched is ahead of where the match began, and what
\* is tried after a failure is tried at the same place.
LEMMA OneByOne ==
  ASSUME NEW w \in Sound, NEW v \in Ahead(w)
  PROVE  /\ v \in Sound
         /\ \A u \in Ahead(v) : u \in Ahead(w)
         /\ v.bufcur = w.bufcur => \A u : Tried(v, u) => Tried(w, u)
         /\ v.bufcur = w.bufcur /\ NoEol(w) => NoEol(v)
<1>1. v \in Sound /\ v.bufpos = w.bufpos
  BY DEF Ahead
<1>2. \A u \in Ahead(v) : u \in Ahead(w)
  BY AheadOn
<1>3. v.bufcur = w.bufcur => \A u : Tried(v, u) => Tried(w, u)
  BY <1>2 DEF Tried
<1>4. v.bufcur = w.bufcur /\ NoEol(w) => NoEol(v)
  BY <1>1 DEF NoEol
<1> QED
  BY <1>1, <1>2, <1>3, <1>4

LEMMA EofTried ==
  ASSUME NEW w \in Sound
  PROVE  match_eof(w) \in Ahead(w) /\ match_eof(w).bufcur = w.bufcur
<1> DEFINE r == Refilled(w, 1)
           b == Len(r.buf) = r.bufcur
<1>1. r \in Ahead(w) /\ r.bufcur = w.bufcur
  BY RefilledAhead
<1>2. match_eof(w) = [r EXCEPT !.ok = b] /\ b \in BOOLEAN
  BY DEF match_eof
<1> HIDE DEF r, b
<1>3. r \in Sound
  BY <1>1 DEF Ahead
<1>4. match_eof(w) \in Ahead(r) /\ match_eof(w).bufcur = r.bufcur
  BY <1>2, <1>3, AnyVerdict
<1> QED
  BY <1>1, <1>4, OneByOne

\* A loop that has taken nothing has failed.
LEMMA SomeTried ==
  ASSUME NEW w \in Sound, NEW r \in Ahead(w)
  PROVE  LET v == [r EXCEPT !.ok = r.bufcur > w.bufcur] IN
         /\ Tried(w, v) /\ v.bufcur = r.bufcur
         /\ ~ v.ok => ~ r.bufcur > w.bufcur
<1> DEFINE b == r.bufcur > w.bufcur
           v == [r EXCEPT !.ok = b]
<1>1. r \in Sound /\ b \in BOOLEAN /\ r.bufcur >= w.bufcur /\ r.bufcur \in Nat /\ w.bufcur \in Nat
  BY BufferType DEF Ahead
<1>2. ~ b => r.bufcur = w.bufcur
  BY <1>1
<1>3. v \in Ahead(r) /\ v.ok = b /\ v.bufcur = r.bufcur
  <2> HIDE DEF b
  <2> QED
    BY <1>1, AnyVerdict
<1> HIDE DEF v
<1>4. v \in Ahead(w)
  BY <1>3, OneByOne
<1>5. Tried(w, v) /\ v.bufcur = r.bufcur /\ (~ v.ok => ~ r.bufcur > w.bufcur)
  BY <1>2, <1>3, <1>4 DEF Tried
<1> QED
  BY <1>5 DEF v

-----------------------------------------------------------------------------
(* Spaces, comments and quotations.                                         *)

LEMMA SpaceTried ==
  ASSUME NEW w \in Sound
  PROVE  Tried(w, match_space(w))
BY CharacterTried DEF match_space, BLANK, LF, CR

LEMMA SpaceTaken ==
  ASSUME NEW w \in Sound
  PROVE  Tried(w, match_space(w)) /\ (match_space(w).ok => match_space(w).bufcur > w.bufcur)
<1> DEFINE v == match_space(w)
<1>1. w \in States /\ Buffered(w) /\ w.bufcur \in Nat
  BY BufferType
<1>2. IF w.bufpos + w.bufcur < Len(file) /\ file[w.bufpos + w.bufcur + 1] \in BLANK
      THEN v.ok /\ v.bufcur = w.bufcur + 1
      ELSE ~ v.ok /\ v.bufcur = w.bufcur
  BY <1>1, CharacterTaken DEF match_space
<1> HIDE DEF v
<1>3. v.ok => v.bufcur > w.bufcur
  BY <1>1, <1>2
<1> QED
  BY <1>3, SpaceTried DEF v

LEMMA SpacesInLineTried ==
  ASSUME NEW w \in Sound
  PROVE  Tried(w, match_spaces_in_line(w))
<1> DEFINE S == Ahead(w)
           r == Steps(w, match_space)
<1>1. match_space(w) \in S
  BY SpaceTried DEF Tried
<1>2. ASSUME NEW v \in S PROVE match_space(v) \in S
  <2>1. v \in Sound /\ \A u \in Ahead(v) : u \in Ahead(w)
    BY OneByOne
  <2> QED
    BY <2>1, SpaceTried DEF Tried
<1>3. r \in S
  <2> HIDE DEF S
  <2> QED
    BY <1>1, <1>2, BufferType, SpaceLoop
<1>4. match_spaces_in_line(w) = [r EXCEPT !.ok = r.bufcur > w.bufcur]
  BY DEF match_spaces_in_line, Some
<1> HIDE DEF r
<1> QED
  BY <1>3, <1>4, SomeTried

LEMMA InLineAhead ==
  ASSUME NEW w \in Sound
  PROVE  InLine(w) \in Ahead(w)
<1> DEFINE e == match_eol(w)
<1>1. InLine(w) = IF e.ok THEN No(e) ELSE TakeOne(e)
  BY DEF InLine, Either
<1>2. Tried(w, e) /\ (~ e.ok => NoEol(e))
  BY EolTried
<1> HIDE DEF e
<1>3. e \in Sound /\ \A u \in Ahead(e) : u \in Ahead(w)
  BY <1>2, OneByOne DEF Tried
<1> QED
  BY <1>1, <1>2, <1>3, Verdicts, AnyTaken

LEMMA CommentTried ==
  ASSUME NEW w \in Sound
  PROVE  Tried(w, match_comment(w))
<1> DEFINE h == match_string(w, <<HASH>>)
           S == Ahead(w)
           r == Steps(h, InLine)
<1>1. match_comment(w) = IF h.ok THEN Yes(r) ELSE h
  BY DEF match_comment, match_section_line, AndThen
<1>2. Tried(w, h)
  <2>1. <<HASH>> \in Seq(Byte \ {LF, CR})
    BY DEF HASH, Byte, LF, CR
  <2> QED
    BY <2>1, StringTried
<1> HIDE DEF h
<1>3. h \in Ahead(w) /\ h \in Sound
  BY <1>2, OneByOne DEF Tried
<1>4. ASSUME NEW v \in S PROVE InLine(v) \in S
  <2>1. v \in Sound /\ \A u \in Ahead(v) : u \in Ahead(w)
    BY OneByOne
  <2> QED
    BY <2>1, InLineAhead
<1>5. r \in S
  <2>1. InLine(h) \in S
    BY <1>3, <1>4
  <2> HIDE DEF S
  <2> QED
    BY <1>3, <1>4, <2>1, BufferType, InLineLoop
<1> HIDE DEF r
<1>6. Yes(r) \in Ahead(w) /\ Yes(r).ok
  BY <1>5, OneByOne, Verdicts
<1> QED
  BY <1>1, <1>2, <1>6 DEF Tried

LEMMA InContinuedLineAhead ==
  ASSUME NEW w \in Sound
  PROVE  InContinuedLine(w) \in Ahead(w)
<1> DEFINE e == match_eol(w)
           b == e.buf[w.bufcur] = BACKSLASH
<1>1. InContinuedLine(w) = IF e.ok THEN [e EXCEPT !.ok = b] ELSE TakeOne(e)
  BY DEF InContinuedLine, Either
<1>2. Tried(w, e) /\ (~ e.ok => NoEol(e)) /\ b \in BOOLEAN
  BY EolTried
<1> HIDE DEF e, b
<1>3. e \in Sound /\ \A u \in Ahead(e) : u \in Ahead(w)
  BY <1>2, OneByOne DEF Tried
<1> QED
  BY <1>1, <1>2, <1>3, AnyVerdict, AnyTaken

LEMMA CommentCxxTried ==
  ASSUME NEW w \in Sound
  PROVE  Tried(w, match_comment_cxx(w))
<1> DEFINE h == match_string(w, <<SLASH, SLASH>>)
           S == Ahead(w)
           r == Steps(h, InContinuedLine)
<1>1. match_comment_cxx(w) = IF h.ok THEN Yes(r) ELSE h
  BY DEF match_comment_cxx, AndThen
<1>2. Tried(w, h)
  <2>1. <<SLASH, SLASH>> \in Seq(Byte \ {LF, CR})
    BY DEF SLASH, Byte, LF, CR
  <2> QED
    BY <2>1, StringTried
<1> HIDE DEF h
<1>3. h \in Ahead(w) /\ h \in Sound
  BY <1>2, OneByOne DEF Tried
<1>4. ASSUME NEW v \in S PROVE InContinuedLine(v) \in S
  <2>1. v \in Sound /\ \A u \in Ahead(v) : u \in Ahead(w)
    BY OneByOne
  <2> QED
    BY <2>1, InContinuedLineAhead
<1>5. r \in S
  <2>1. InContinuedLine(h) \in S
    BY <1>3, <1>4
  <2> HIDE DEF S
  <2> QED
    BY <1>3, <1>4, <2>1, BufferType, ContinuedLoop
<1> HIDE DEF r
<1>6. Yes(r) \in Ahead(w) /\ Yes(r).ok
  BY <1>5, OneByOne, Verdicts
<1> QED
  BY <1>1, <1>2, <1>6 DEF Tried

LEMMA InBlockAhead ==
  ASSUME NEW w \in Sound
  PROVE  InBlock(w) \in Ahead(w)
<1> DEFINE s == match_string(w, <<STAR, SLASH>>)
           f == match_eof(s)
           e == match_eol(f)
<1>1. InBlock(w) = IF s.ok THEN No(s) ELSE IF f.ok THEN Reported(f)
                   ELSE IF e.ok THEN e ELSE TakeOne(e)
  BY DEF InBlock, Either, OrElse
<1>2. s \in Ahead(w)
  <2>1. <<STAR, SLASH>> \in Seq(Byte \ {LF, CR})
    BY DEF STAR, SLASH, Byte, LF, CR
  <2> QED
    BY <2>1, StringTried DEF Tried
<1> HIDE DEF s
<1>3. s \in Sound /\ \A u \in Ahead(s) : u \in Ahead(w)
  BY <1>2, OneByOne
<1>4. f \in Ahead(s)
  BY <1>3, EofTried
<1> HIDE DEF f
<1>5. f \in Sound /\ \A u \in Ahead(f) : u \in Ahead(w)
  BY <1>3, <1>4, OneByOne
<1>6. e \in Ahead(f) /\ (~ e.ok => NoEol(e))
  BY <1>5, EolTried DEF Tried
<1> HIDE DEF e
<1>7. e \in Sound /\ e \in Ahead(w) /\ \A u \in Ahead(e) : u \in Ahead(w)
  BY <1>5, <1>6, OneByOne
<1> QED
  BY <1>1, <1>3, <1>5, <1>6, <1>7, Verdicts, AnyTaken

LEMMA CommentCTried ==
  ASSUME NEW w \in Sound
  PROVE  Tried(w, match_comment_c(w))
<1> DEFINE h == match_string(w, <<SLASH, STAR>>)
           S == Ahead(w)
           r == Steps(h, InBlock)
<1>1. match_comment_c(w) = IF h.ok THEN Yes(r) ELSE h
  BY DEF match_comment_c, AndThen
<1>2. Tried(w, h)
  <2>1. <<SLASH, STAR>> \in Seq(Byte \ {LF, CR})
    BY DEF SLASH, STAR, Byte, LF, CR
  <2> QED
    BY <2>1, StringTried
<1> HIDE DEF h
<1>3. h \in Ahead(w) /\ h \in Sound
  BY <1>2, OneByOne DEF Tried
<1>4. ASSUME NEW v \in S PROVE InBlock(v) \in S
  <2>1. v \in Sound /\ \A u \in Ahead(v) : u \in Ahead(w)
    BY OneByOne
  <2> QED
    BY <2>1, InBlockAhead
<1>5. r \in S
  <2>1. InBlock(h) \in S
    BY <1>3, <1>4
  <2> HIDE DEF S
  <2> QED
    BY <1>3, <1>4, <2>1, BufferType, BlockLoop
<1> HIDE DEF r
<1>6. Yes(r) \in Ahead(w) /\ Yes(r).ok
  BY <1>5, OneByOne, Verdicts
<1> QED
  BY <1>1, <1>2, <1>6 DEF Tried

\* If it fails, no line ends there.
LEMMA SpaceOrLineTried ==
  ASSUME NEW w \in Sound
  PROVE  LET v == SpaceOrLine(w) IN Tried(w, v) /\ (v.bufcur = w.bufcur => NoEol(v))
<1> DEFINE s == match_space(w)
           e == match_eol(s)
           c == match_comment(e)
           v == SpaceOrLine(w)
<1>1. v = IF s.ok THEN s ELSE IF e.ok THEN e ELSE c
  BY DEF SpaceOrLine, OrElse
<1>2. Tried(w, s) /\ (s.ok => s.bufcur > w.bufcur)
  BY SpaceTaken
<1> HIDE DEF s
<1>3. s \in Sound /\ \A u \in Ahead(s) : u \in Ahead(w)
  BY <1>2, OneByOne DEF Tried
<1>4. Tried(s, e) /\ IF e.ok THEN e.bufcur > s.bufcur ELSE NoEol(e)
  BY <1>3, EolTried
<1> HIDE DEF e
<1>5. e \in Sound /\ (~ s.ok => Tried(w, e))
  BY <1>2, <1>3, <1>4, OneByOne DEF Tried
<1>6. Tried(e, c)
  BY <1>5, CommentTried
<1> HIDE DEF c, v
<1>7. CASE s.ok
  <2>1. v = s /\ w.bufcur \in Nat /\ s.bufcur \in Nat
    BY <1>1, <1>3, <1>7, BufferType
  <2> QED
    BY <1>2, <1>7, <2>1 DEF v
<1>8. CASE ~ s.ok /\ e.ok
  <2>1. v = e /\ s.bufcur = w.bufcur /\ w.bufcur \in Nat /\ e.bufcur \in Nat
    BY <1>1, <1>2, <1>5, <1>8, BufferType DEF Tried
  <2>2. ~ v.bufcur = w.bufcur
    BY <1>4, <1>8, <2>1
  <2> QED
    BY <1>5, <1>8, <2>1, <2>2 DEF v
<1>9. CASE ~ s.ok /\ ~ e.ok
  <2>1. v = c /\ s.bufcur = w.bufcur /\ e.bufcur = s.bufcur
    BY <1>1, <1>2, <1>4, <1>9 DEF Tried
  <2>2. Tried(w, c)
    BY <1>5, <1>6, <1>9, <2>1, OneByOne DEF Tried
  <2>3. c.bufcur = e.bufcur => NoEol(c)
    BY <1>4, <1>5, <1>6, <1>9, OneByOne DEF Tried
  <2>4. ~ c.ok => c.bufcur = e.bufcur
    BY <1>6 DEF Tried
  <2> QED
    BY <2>1, <2>2, <2>3, <2>4 DEF v
<1> QED
  BY <1>7, <1>8, <1>9

LEMMA SpacesTried ==
  ASSUME NEW w \in Sound
  PROVE  LET v == match_spaces(w) IN Tried(w, v) /\ (v.ok \/ NoEol(v))
<1> DEFINE S == {v \in Ahead(w) : v.bufcur = w.bufcur => NoEol(v)}
           r == Steps(w, SpaceOrLine)
           v == match_spaces(w)
<1>1. SpaceOrLine(w) \in S
  BY SpaceOrLineTried DEF Tried
<1>2. ASSUME NEW u \in S PROVE SpaceOrLine(u) \in S
  <2> DEFINE x == SpaceOrLine(u)
  <2>1. u \in Sound /\ u \in Ahead(w) /\ \A y \in Ahead(u) : y \in Ahead(w)
    BY OneByOne
  <2>2. x \in Ahead(u) /\ (x.bufcur = u.bufcur => NoEol(x))
    BY <2>1, SpaceOrLineTried DEF Tried
  <2> HIDE DEF x
  <2>3. x.bufcur = w.bufcur => x.bufcur = u.bufcur
    <3>1. x.bufcur >= u.bufcur /\ u.bufcur >= w.bufcur /\ x \in Sound
      BY <2>1, <2>2 DEF Ahead
    <3>2. x.bufcur \in Nat /\ u.bufcur \in Nat /\ w.bufcur \in Nat
      BY <2>1, <3>1, BufferType
    <3> QED
      BY <3>1, <3>2
  <2>4. x \in S
    BY <2>1, <2>2, <2>3
  <2> QED
    BY <2>4 DEF x
<1>3. r \in S
  <2> HIDE DEF S
  <2> QED
    BY <1>1, <1>2, BufferType, SpacesLoop
<1>4. v = [r EXCEPT !.ok = r.bufcur > w.bufcur]
  BY DEF match_spaces, Some
<1> HIDE DEF r, v
<1>5. r \in Ahead(w) /\ (r.bufcur = w.bufcur => NoEol(r)) /\ r.bufpos = w.bufpos
  BY <1>3 DEF Ahead
<1>6. Tried(w, v) /\ v.bufcur = r.bufcur
  BY <1>4, <1>5, SomeTried
<1>7. ~ v.ok => NoEol(v)
  <2>1. v.bufpos = w.bufpos
    BY <1>6 DEF Tried, Ahead
  <2> QED
    BY <1>5, <1>6, <2>1 DEF Tried, NoEol
<1> QED
  BY <1>6, <1>7 DEF v

LEMMA InQuotationAhead ==
  ASSUME NEW w \in Sound, NEW right \in Byte \ {LF, CR}
  PROVE  InQuotation(w, right) \in Ahead(w)
<1> DEFINE r == match_character(w, {right})
           f == match_eof(r)
           b == Escaping(f)
           e == match_eol(b)
           t == TakeOne(e)
<1>1. InQuotation(w, right) = IF r.ok THEN No(r) ELSE IF f.ok THEN Reported(f)
                              ELSE IF e.ok THEN Reported(e) ELSE Yes(t)
  BY DEF InQuotation, Either
<1>2. r \in Ahead(w)
  BY CharacterTried DEF Tried
<1> HIDE DEF r
<1>3. r \in Sound /\ \A u \in Ahead(r) : u \in Ahead(w)
  BY <1>2, OneByOne
<1>4. f \in Ahead(r)
  BY <1>3, EofTried
<1> HIDE DEF f
<1>5. f \in Sound /\ \A u \in Ahead(f) : u \in Ahead(w)
  BY <1>3, <1>4, OneByOne
<1>6. b \in Ahead(f)
  BY <1>5, CharacterTried DEF Tried, Escaping, BACKSLASH, LF, CR
<1> HIDE DEF b
<1>7. b \in Sound /\ \A u \in Ahead(b) : u \in Ahead(w)
  BY <1>5, <1>6, OneByOne
<1>8. e \in Ahead(b) /\ (~ e.ok => NoEol(e))
  BY <1>7, EolTried DEF Tried
<1> HIDE DEF e
<1>9. e \in Sound /\ \A u \in Ahead(e) : u \in Ahead(w)
  BY <1>7, <1>8, OneByOne
<1>10. ~ e.ok => t \in Ahead(w)
  BY <1>8, <1>9, AnyTaken
<1> HIDE DEF t
<1>11. ~ e.ok => Yes(t) \in Ahead(w)
  BY <1>10, OneByOne, Verdicts
<1> QED
  BY <1>1, <1>3, <1>5, <1>9, <1>11, Verdicts

LEMMA MatchedQuotationTried ==
  ASSUME NEW w \in Sound, NEW left \in Byte \ {LF, CR}, NEW right \in Byte \ {LF, CR}
  PROVE  Tried(w, match_quotation(w, left, right))
<1> DEFINE h == match_character(w, {left})
           S == Ahead(w)
           r == QuotationSteps(h, right)
<1>1. match_quotation(w, left, right) = IF h.ok THEN Yes(r) ELSE h
  BY DEF match_quotation, AndThen, QuotationSteps, Steps
<1>2. Tried(w, h)
  BY CharacterTried
<1> HIDE DEF h
<1>3. h \in Ahead(w) /\ h \in Sound
  BY <1>2, OneByOne DEF Tried
<1>4. ASSUME NEW v \in S PROVE InQuotation(v, right) \in S
  <2>1. v \in Sound /\ \A u \in Ahead(v) : u \in Ahead(w)
    BY OneByOne
  <2> QED
    BY <2>1, InQuotationAhead
<1>5. r \in S
  <2>1. InQuotation(h, right) \in S
    BY <1>3, <1>4
  <2> HIDE DEF S
  <2> QED
    BY <1>3, <1>4, <2>1, BufferType, QuotationLoop
<1> HIDE DEF r
<1>6. Yes(r) \in Ahead(w) /\ Yes(r).ok
  BY <1>5, OneByOne, Verdicts
<1> QED
  BY <1>1, <1>2, <1>6 DEF Tried

LEMMA QuotationTried ==
  ASSUME NEW w \in Sound
  PROVE  Tried(w, Quotation(w)) /\ Tried(w, match_character_class(w))
<1>1. {SINGLE, DOUBLE, LEFT, RIGHT} \subseteq Byte \ {LF, CR}
  BY DEF SINGLE, DOUBLE, LEFT, RIGHT, Byte, LF, CR
<1>2. \A v \in Sound : /\ Tried(v, match_quotation_single(v)) /\ Tried(v, match_quotation_double(v))
                       /\ Tried(v, match_character_class(v))
  BY <1>1, MatchedQuotationTried DEF match_quotation_single, match_quotation_double, match_character_class
<1> DEFINE s == match_quotation_single(w)
<1>3. Quotation(w) = IF s.ok THEN s ELSE match_quotation_double(s)
  BY DEF Quotation, OrElse
<1>4. Tried(w, s)
  BY <1>2
<1> HIDE DEF s
<1>5. s \in Sound /\ (~ s.ok => \A u : Tried(s, u) => Tried(w, u))
  BY <1>4, OneByOne DEF Tried
<1> QED
  BY <1>2, <1>3, <1>4, <1>5

-----------------------------------------------------------------------------
(* Names, numbers and versions.                                             *)

LEMMA NumberTried ==
  ASSUME NEW w \in Sound
  PROVE  Tried(w, match_number(w))
<1> DEFINE S == Ahead(w)
           r == Steps(w, match_digit)
<1>1. \A v \in Sound : Tried(v, match_digit(v))
  BY CharacterTried DEF match_digit, Digit, LF, CR
<1>2. ASSUME NEW v \in S PROVE match_digit(v) \in S
  <2>1. v \in Sound /\ \A u \in Ahead(v) : u \in Ahead(w)
    BY OneByOne
  <2> QED
    BY <1>1, <2>1 DEF Tried
<1>3. r \in S
  <2>1. match_digit(w) \in S
    BY <1>1 DEF Tried
  <2> HIDE DEF S
  <2> QED
    BY <1>2, <2>1, BufferType, DigitLoop
<1>4. match_number(w) = [r EXCEPT !.ok = r.bufcur > w.bufcur]
  BY DEF match_number, Some
<1> HIDE DEF r
<1> QED
  BY <1>3, <1>4, SomeTried

LEMMA NumberAtAhead ==
  ASSUME NEW w \in Sound
  PROVE  NumberAt(w) \in Ahead(w)
<1> DEFINE n == match_number(w)
           b == ~ (n.bufcur - w.bufcur > 1 /\ n.buf[w.bufcur + 1] = 48)
<1>1. NumberAt(w) = IF n.ok THEN [n EXCEPT !.ok = b] ELSE n
  BY DEF NumberAt, AndThen
<1>2. n \in Ahead(w) /\ b \in BOOLEAN
  BY NumberTried DEF Tried
<1> HIDE DEF n, b
<1>3. n \in Sound /\ \A u \in Ahead(n) : u \in Ahead(w)
  BY <1>2, OneByOne
<1> QED
  BY <1>1, <1>2, <1>3, AnyVerdict

LEMMA DotAndNumberAhead ==
  ASSUME NEW w \in Sound
  PROVE  DotAndNumber(w) \in Ahead(w)
<1> DEFINE d == match_character(w, {DOT})
<1>1. DotAndNumber(w) = IF d.ok THEN NumberAt(d) ELSE d
  BY DEF DotAndNumber, AndThen
<1>2. d \in Ahead(w)
  BY CharacterTried DEF Tried, DOT, LF, CR
<1> HIDE DEF d
<1> QED
  BY <1>1, <1>2, NumberAtAhead, OneByOne

LEMMA VersionAhead ==
  ASSUME NEW w \in Sound
  PROVE  match_version(w) \in Ahead(w)
<1> DEFINE a == NumberAt(w)
           b == IF a.ok THEN DotAndNumber(a) ELSE a
<1>1. match_version(w) = IF b.ok THEN DotAndNumber(b) ELSE b
  BY DEF match_version, AndThen
<1>2. a \in Ahead(w)
  BY NumberAtAhead
<1> HIDE DEF a
<1>3. b \in Ahead(w)
  BY <1>2, DotAndNumberAhead, OneByOne
<1> HIDE DEF b
<1> QED
  BY <1>1, <1>3, DotAndNumberAhead, OneByOne

LEMMA IdentifierTried ==
  ASSUME NEW w \in Sound
  PROVE  Tried(w, match_identifier(w))
<1> DEFINE h == match_character(w, Alpha)
           S == Ahead(w)
           r == CharacterSteps(h, Alpha \cup Digit)
<1>1. match_identifier(w) = IF h.ok THEN Yes(r) ELSE h
  BY DEF match_identifier, AndThen, CharacterSteps, Steps
<1>2. LF \notin Alpha \cup Digit /\ CR \notin Alpha \cup Digit
  BY DEF Alpha, Digit, LF, CR
<1>3. Tried(w, h)
  BY <1>2, CharacterTried
<1> HIDE DEF h
<1>4. h \in Ahead(w) /\ h \in Sound
  BY <1>3, OneByOne DEF Tried
<1>5. ASSUME NEW v \in S PROVE match_character(v, Alpha \cup Digit) \in S
  <2>1. v \in Sound /\ \A u \in Ahead(v) : u \in Ahead(w)
    BY OneByOne
  <2> QED
    BY <1>2, <2>1, CharacterTried DEF Tried
<1>6. r \in S
  <2>1. match_character(h, Alpha \cup Digit) \in S
    BY <1>4, <1>5
  <2> HIDE DEF S
  <2> QED
    BY <1>4, <1>5, <2>1, BufferType, CharactersLoop
<1> HIDE DEF r
<1>7. Yes(r) \in Ahead(w) /\ Yes(r).ok
  BY <1>6, OneByOne, Verdicts
<1> QED
  BY <1>1, <1>3, <1>7 DEF Tried

-----------------------------------------------------------------------------
(* Code blocks.                                                             *)

LEMMA InDirectiveAhead ==
  ASSUME NEW w \in Sound
  PROVE  InDirective(w) \in Ahead(w)
<1> DEFINE f == match_eof(w)
           e == match_eol(f)
           x == match_comment_cxx(e)
           c == match_comment_c(x)
           q == Quotation(c)
           b == w.bufcur = 0 \/ e.buf[w.bufcur] = BACKSLASH
<1>1. InDirective(w) = IF f.ok THEN No(f) ELSE IF e.ok THEN [e EXCEPT !.ok = b]
                       ELSE IF x.ok THEN No(x)
                       ELSE LET y == IF c.ok THEN c ELSE q IN IF y.ok THEN y ELSE TakeOne(y)
  BY DEF InDirective, Either, OrElse
<1>2. f \in Ahead(w) /\ f \in Sound /\ b \in BOOLEAN
  BY EofTried, OneByOne
<1> HIDE DEF f, b
<1>3. /\ e \in Ahead(f) /\ e \in Sound /\ e \in Ahead(w) /\ (~ e.ok => NoEol(e))
      /\ \A u \in Ahead(e) : u \in Ahead(w)
  BY <1>2, EolTried, OneByOne DEF Tried
<1> HIDE DEF e
<1>4. Tried(e, x) /\ x \in Sound /\ x \in Ahead(w) /\ \A u \in Ahead(x) : u \in Ahead(w)
  BY <1>3, CommentCxxTried, OneByOne DEF Tried
<1>5. ~ e.ok /\ ~ x.ok => NoEol(x)
  BY <1>3, <1>4, OneByOne DEF Tried
<1> HIDE DEF x
<1>6. Tried(x, c) /\ c \in Sound /\ c \in Ahead(w) /\ \A u \in Ahead(c) : u \in Ahead(w)
  BY <1>4, CommentCTried, OneByOne DEF Tried
<1>7. ~ c.ok /\ NoEol(x) => NoEol(c)
  BY <1>4, <1>6, OneByOne DEF Tried
<1> HIDE DEF c
<1>8. Tried(c, q) /\ q \in Sound /\ q \in Ahead(w) /\ \A u \in Ahead(q) : u \in Ahead(w)
  BY <1>6, QuotationTried, OneByOne DEF Tried
<1>9. ~ q.ok /\ NoEol(c) => NoEol(q)
  BY <1>6, <1>8, OneByOne DEF Tried
<1> HIDE DEF q
<1>10. f.ok => No(f) \in Ahead(w)
  BY <1>2, Verdicts, OneByOne
<1>11. [e EXCEPT !.ok = b] \in Ahead(w)
  BY <1>2, <1>3, AnyVerdict
<1>12. No(x) \in Ahead(w)
  BY <1>4, Verdicts
<1>13. ~ e.ok /\ ~ x.ok /\ ~ c.ok /\ ~ q.ok => TakeOne(q) \in Ahead(w)
  BY <1>5, <1>7, <1>8, <1>9, AnyTaken
<1> QED
  BY <1>1, <1>6, <1>8, <1>10, <1>11, <1>12, <1>13

LEMMA DirectiveTried ==
  ASSUME NEW w \in Sound
  PROVE  Tried(w, match_directive_c(w))
<1> DEFINE h == match_character(w, {HASH})
           S == Ahead(w)
           r == Steps(h, InDirective)
<1>1. match_directive_c(w) = IF h.ok THEN Yes(r) ELSE h
  BY DEF match_directive_c, AndThen
<1>2. Tried(w, h)
  BY CharacterTried DEF HASH, LF, CR
<1> HIDE DEF h
<1>3. h \in Ahead(w) /\ h \in Sound
  BY <1>2, OneByOne DEF Tried
<1>4. ASSUME NEW v \in S PROVE InDirective(v) \in S
  <2>1. v \in Sound /\ \A u \in Ahead(v) : u \in Ahead(w)
    BY OneByOne
  <2> QED
    BY <2>1, InDirectiveAhead
<1>5. r \in S
  <2>1. InDirective(h) \in S
    BY <1>3, <1>4
  <2> HIDE DEF S
  <2> QED
    BY <1>3, <1>4, <2>1, BufferType, DirectiveLoop
<1> HIDE DEF r
<1>6. Yes(r) \in Ahead(w) /\ Yes(r).ok
  BY <1>5, OneByOne, Verdicts
<1> QED
  BY <1>1, <1>2, <1>6 DEF Tried

LEMMA CodeType ==
  ASSUME NEW w \in Sound
  PROVE  w.depth \in Int /\ w.head \in BOOLEAN /\ w.errnum \in Nat /\ w.ok \in BOOLEAN
BY BufferType DEF States

\* What is counted in a code block is no part of the place.
LEMMA HeadedAhead ==
  ASSUME NEW w \in Sound, NEW h \in BOOLEAN
  PROVE  Headed(w, h) \in Ahead(w) /\ Headed(w, h).bufcur = w.bufcur
<1>1. w \in States
  BY BufferType
<1>2. Headed(w, h) \in States /\ SamePlace(w, Headed(w, h))
  BY <1>1 DEF States, SamePlace, Headed
<1> QED
  BY <1>2, AheadAtPlace DEF SamePlace

LEMMA DepthAhead ==
  ASSUME NEW w \in Sound, NEW d \in Int, NEW b \in BOOLEAN
  PROVE  [w EXCEPT !.depth = d] \in Ahead(w) /\ [w EXCEPT !.depth = d, !.ok = b] \in Ahead(w)
<1>1. w \in States
  BY BufferType
<1> DEFINE v == [w EXCEPT !.depth = d]
           u == [w EXCEPT !.depth = d, !.ok = b]
<1>2. v \in States /\ SamePlace(w, v) /\ u \in States /\ SamePlace(w, u)
  BY <1>1 DEF States, SamePlace
<1> HIDE DEF v, u
<1>3. v \in Ahead(w) /\ u \in Ahead(w)
  BY <1>2, AheadAtPlace
<1> QED
  BY <1>3 DEF v, u

Counting(w, d, h) == [w EXCEPT !.depth = d, !.head = h]
Ended(w, b, d, h) == [w EXCEPT !.ok = b, !.depth = d, !.head = h]

LEMMA CountingAhead ==
  ASSUME NEW w \in Sound, NEW d \in Int, NEW h \in BOOLEAN
  PROVE  Counting(w, d, h) \in Ahead(w)
<1>1. w \in States
  BY BufferType
<1>2. Counting(w, d, h) \in States /\ SamePlace(w, Counting(w, d, h))
  BY <1>1 DEF States, SamePlace, Counting
<1> QED
  BY <1>2, AheadAtPlace

LEMMA EndedAhead ==
  ASSUME NEW w \in Sound, NEW b \in BOOLEAN, NEW d \in Int, NEW h \in BOOLEAN
  PROVE  Ended(w, b, d, h) \in Ahead(w) /\ Ended(w, b, d, h).ok = b
<1>1. w \in States
  BY BufferType
<1>2. /\ Ended(w, b, d, h) \in States /\ SamePlace(w, Ended(w, b, d, h))
      /\ Ended(w, b, d, h).ok = b
  BY <1>1 DEF States, SamePlace, Ended
<1> QED
  BY <1>2, AheadAtPlace

LEMMA InCodeAhead ==
  ASSUME NEW w \in Sound, NoEol(w)
  PROVE  InCode(w) \in Ahead(w)
<1> DEFINE q == Quotation(w)
           o == match_character(q, {OPEN})
           c == match_character(o, {CLOSE})
           up == o.depth + 1
           down == c.depth - 1
           b == c.depth > 1
<1>1. InCode(w) = IF q.ok THEN q ELSE IF o.ok THEN [o EXCEPT !.depth = up]
                  ELSE IF c.ok THEN [c EXCEPT !.depth = down, !.ok = b] ELSE TakeOne(c)
  <2>1. [o EXCEPT !.depth = @ + 1] = [o EXCEPT !.depth = up]
    OBVIOUS
  <2>2. [c EXCEPT !.depth = @ - 1, !.ok = b] = [c EXCEPT !.depth = down, !.ok = b]
    OBVIOUS
  <2>3. InCode(w) = IF q.ok THEN q ELSE IF o.ok THEN [o EXCEPT !.depth = @ + 1]
                    ELSE IF c.ok THEN [c EXCEPT !.depth = @ - 1, !.ok = b] ELSE TakeOne(c)
    BY DEF InCode, Either, OrElse
  <2> HIDE DEF q, o, c
  <2> QED
    BY <2>1, <2>2, <2>3
<1>2. Tried(w, q) /\ q \in Sound /\ q \in Ahead(w) /\ \A u \in Ahead(q) : u \in Ahead(w)
  BY QuotationTried, OneByOne DEF Tried
<1>3. ~ q.ok => NoEol(q)
  BY <1>2, OneByOne DEF Tried
<1> HIDE DEF q
<1>4. Tried(q, o) /\ o \in Sound /\ o \in Ahead(w) /\ \A u \in Ahead(o) : u \in Ahead(w)
  BY <1>2, CharacterTried, OneByOne DEF Tried, OPEN, LF, CR
<1>5. ~ o.ok /\ NoEol(q) => NoEol(o)
  BY <1>2, <1>4, OneByOne DEF Tried
<1>6. up \in Int
  BY <1>4, CodeType
<1> HIDE DEF o, up
<1>7. Tried(o, c) /\ c \in Sound /\ c \in Ahead(w) /\ \A u \in Ahead(c) : u \in Ahead(w)
  BY <1>4, CharacterTried, OneByOne DEF Tried, CLOSE, LF, CR
<1>8. ~ c.ok /\ NoEol(o) => NoEol(c)
  BY <1>4, <1>7, OneByOne DEF Tried
<1>9. down \in Int /\ b \in BOOLEAN
  BY <1>7, CodeType
<1> HIDE DEF c, down, b
<1>10. [o EXCEPT !.depth = up] \in Ahead(w)
  BY <1>4, <1>6, DepthAhead
<1>11. [c EXCEPT !.depth = down, !.ok = b] \in Ahead(w)
  BY <1>7, <1>9, DepthAhead
<1>12. ~ q.ok /\ ~ o.ok /\ ~ c.ok => TakeOne(c) \in Ahead(w)
  BY <1>3, <1>5, <1>7, <1>8, AnyTaken
<1> QED
  BY <1>1, <1>2, <1>10, <1>11, <1>12

LEMMA InCodeBlockAhead ==
  ASSUME NEW w \in Sound
  PROVE  InCodeBlock(w) \in Ahead(w)
<1> DEFINE f == match_eof(w)
           d == match_directive_c(f)
           n == IF d.head THEN d.errnum ELSE d.errnum + 1
           x == match_comment_cxx(d)
           e == IF x.ok THEN x ELSE match_eol(x)
           s == match_spaces_in_line(e)
           c == IF s.ok THEN s ELSE match_comment_c(s)
           y == Headed(c, FALSE)
<1>1. InCodeBlock(w) = IF f.ok THEN Reported(f)
                       ELSE IF d.ok THEN Headed([d EXCEPT !.errnum = n], TRUE)
                       ELSE IF e.ok THEN Headed(e, TRUE)
                       ELSE IF c.ok THEN c ELSE InCode(y)
  <2>1. [d EXCEPT !.errnum = IF d.head THEN @ ELSE @ + 1] = [d EXCEPT !.errnum = n]
    OBVIOUS
  <2>2. InCodeBlock(w) = IF f.ok THEN Reported(f)
                         ELSE IF d.ok THEN Headed([d EXCEPT !.errnum = IF d.head THEN @ ELSE @ + 1], TRUE)
                         ELSE IF e.ok THEN Headed(e, TRUE)
                         ELSE IF c.ok THEN c ELSE InCode(y)
    BY DEF InCodeBlock, Either, OrElse
  <2> HIDE DEF f, d, x, e, s, c, y
  <2> QED
    BY <2>1, <2>2
<1>2. f \in Sound /\ f \in Ahead(w) /\ \A u \in Ahead(f) : u \in Ahead(w)
  BY EofTried, OneByOne
<1> HIDE DEF f
<1>3. d \in Ahead(f) /\ d \in Sound /\ d \in Ahead(w) /\ \A u \in Ahead(d) : u \in Ahead(w)
  BY <1>2, DirectiveTried, OneByOne DEF Tried
<1>4. Headed([d EXCEPT !.errnum = n], TRUE) \in Ahead(w)
  <2>1. n \in Nat /\ d \in States
    BY <1>3, CodeType, BufferType
  <2> HIDE DEF d, n
  <2> DEFINE z == [d EXCEPT !.errnum = n]
  <2>2. z \in States /\ SamePlace(d, z)
    BY <2>1 DEF States, SamePlace
  <2> HIDE DEF z
  <2>3. z \in Ahead(d)
    BY <1>3, <2>2, AheadAtPlace
  <2>4. z \in Sound /\ z \in Ahead(w) /\ \A u \in Ahead(z) : u \in Ahead(w)
    BY <1>3, <2>3, OneByOne
  <2> QED
    BY <2>4, HeadedAhead DEF z
<1> HIDE DEF d, n
<1>5. Tried(d, x) /\ x \in Sound /\ x \in Ahead(w) /\ \A u \in Ahead(x) : u \in Ahead(w)
  BY <1>3, CommentCxxTried, OneByOne DEF Tried
<1> HIDE DEF x
<1>6. e \in Sound /\ e \in Ahead(w) /\ (~ e.ok => NoEol(e)) /\ \A u \in Ahead(e) : u \in Ahead(w)
  <2>1. /\ match_eol(x) \in Ahead(x) /\ match_eol(x) \in Sound
        /\ ~ match_eol(x).ok => NoEol(match_eol(x))
    BY <1>5, EolTried, OneByOne DEF Tried
  <2>2. match_eol(x) \in Ahead(w)
    BY <1>5, <2>1
  <2>3. e \in Ahead(w) /\ (~ e.ok => NoEol(e))
    BY <1>5, <2>1, <2>2
  <2> HIDE DEF e
  <2> QED
    BY <2>3, OneByOne
<1> HIDE DEF e
<1>7. Tried(e, s) /\ s \in Sound /\ s \in Ahead(w) /\ \A u \in Ahead(s) : u \in Ahead(w)
  BY <1>6, SpacesInLineTried, OneByOne DEF Tried
<1>8. ~ s.ok /\ NoEol(e) => NoEol(s)
  BY <1>6, <1>7, OneByOne DEF Tried
<1> HIDE DEF s
<1>9. c \in Sound /\ c \in Ahead(w) /\ \A u \in Ahead(c) : u \in Ahead(w)
  <2>1. match_comment_c(s) \in Ahead(w)
    BY <1>7, CommentCTried DEF Tried
  <2>2. c \in Ahead(w)
    BY <1>7, <2>1
  <2> HIDE DEF c
  <2> QED
    BY <2>2, OneByOne
<1>10. ~ c.ok /\ NoEol(e) => NoEol(c)
  BY <1>7, <1>8, CommentCTried, OneByOne DEF Tried
<1> HIDE DEF c
<1>11. y \in Ahead(c) /\ y.bufcur = c.bufcur
  BY <1>9, HeadedAhead
<1> HIDE DEF y
<1>12. ~ e.ok /\ ~ c.ok => InCode(y) \in Ahead(w)
  <2>1. y \in Sound /\ y \in Ahead(w) /\ (NoEol(c) => NoEol(y)) /\ \A u \in Ahead(y) : u \in Ahead(w)
    BY <1>9, <1>11, OneByOne
  <2> QED
    BY <1>6, <1>10, <2>1, InCodeAhead
<1>13. Reported(f) \in Ahead(w) /\ Headed(e, TRUE) \in Ahead(w)
  BY <1>2, <1>6, Verdicts, HeadedAhead
<1> QED
  BY <1>1, <1>4, <1>9, <1>12, <1>13

LEMMA CodeBlockTried ==
  ASSUME NEW w \in Sound
  PROVE  Tried(w, match_code_block(w))
<1> DEFINE h == match_character(w, {OPEN})
           g == [h EXCEPT !.depth = 1, !.head = TRUE]
           S == Ahead(w)
           r == Steps(g, InCodeBlock)
           v == [r EXCEPT !.ok = TRUE, !.depth = 0, !.head = FALSE]
<1>1. match_code_block(w) = IF h.ok THEN v ELSE h
  BY DEF match_code_block, AndThen
<1>2. Tried(w, h)
  BY CharacterTried DEF OPEN, LF, CR
<1> HIDE DEF h
<1>3. h \in Ahead(w) /\ h \in Sound
  BY <1>2, OneByOne DEF Tried
<1> HIDE DEF h
<1>4. g \in Ahead(h)
  <2>1. PICK yes \in BOOLEAN : yes = TRUE
    OBVIOUS
  <2>2. g = Counting(h, 1, yes)
    BY <2>1 DEF Counting
  <2> HIDE DEF g
  <2>3. g \in Ahead(h)
    BY <1>3, <2>2, CountingAhead
  <2> QED
    BY <2>3 DEF g
<1> HIDE DEF g
<1>5. g \in Ahead(w) /\ g \in Sound
  BY <1>3, <1>4, OneByOne
<1>6. ASSUME NEW u \in S PROVE InCodeBlock(u) \in S
  <2>1. u \in Sound /\ \A z \in Ahead(u) : z \in Ahead(w)
    BY OneByOne
  <2> QED
    BY <2>1, InCodeBlockAhead
<1>7. r \in S
  <2>1. InCodeBlock(g) \in S
    BY <1>5, <1>6
  <2> HIDE DEF S
  <2> QED
    BY <1>5, <1>6, <2>1, BufferType, CodeLoop
<1> HIDE DEF r
<1>8. r \in Sound /\ \A z \in Ahead(r) : z \in Ahead(w)
  BY <1>7, OneByOne
<1>9. v \in Ahead(r) /\ v.ok
  <2>1. PICK yes \in BOOLEAN : yes = TRUE
    OBVIOUS
  <2>2. PICK no \in BOOLEAN : no = FALSE
    OBVIOUS
  <2>3. v = Ended(r, yes, 0, no)
    BY <2>1, <2>2 DEF Ended
  <2> HIDE DEF v
  <2>4. v \in Ahead(r) /\ v.ok = yes
    BY <1>8, <2>3, EndedAhead
  <2> QED
    BY <2>1, <2>4
<1> HIDE DEF v
<1> QED
  BY <1>1, <1>2, <1>8, <1>9 DEF Tried

-----------------------------------------------------------------------------
(* Characters of a file.                                                    *)

LEMMA CharsFinite ==
  ASSUME NEW m \in Nat, NEW n \in Nat
  PROVE  /\ IsFiniteSet({k \in (m + 1) .. n : ascii \/ ~ Continues(file[k])})
         /\ Chars(m, n) \in Nat
<1> DEFINE S == {k \in (m + 1) .. n : ascii \/ ~ Continues(file[k])}
<1>1. IsFiniteSet((m + 1) .. n) /\ S \subseteq (m + 1) .. n
  BY FS_Interval
<1>2. IsFiniteSet(S)
  BY <1>1, FS_Subset
<1>3. Cardinality(S) \in Nat
  BY <1>2, FS_CardinalityType
<1> QED
  BY <1>2, <1>3 DEF Chars

\* Those up to c are those up to b and those from there on.
LEMMA CharsUnion ==
  ASSUME NEW a \in Nat, NEW b \in Nat, NEW c \in Nat, a <= b, b <= c
  PROVE  Chars(a, c) = Chars(a, b) + Chars(b, c)
<1> DEFINE T(m, n) == {k \in (m + 1) .. n : ascii \/ ~ Continues(file[k])}
           S == T(a, b)
           U == T(b, c)
<1>1. IsFiniteSet(S) /\ IsFiniteSet(U) /\ Cardinality(S) \in Nat /\ Cardinality(U) \in Nat
  BY CharsFinite DEF Chars
<1>2. T(a, c) = S \cup U
  OBVIOUS
<1>3. S \cap U = {}
  OBVIOUS
<1>4. Chars(a, c) = Cardinality(S \cup U) /\ Chars(a, b) = Cardinality(S) /\ Chars(b, c) = Cardinality(U)
  BY <1>2 DEF Chars
<1> HIDE DEF S, U
<1>5. Cardinality(S \cup U) = Cardinality(S) + Cardinality(U) - Cardinality(S \cap U)
  BY <1>1, FS_Union
<1>6. Cardinality(S \cap U) = 0
  BY <1>3, FS_EmptySet
<1> QED
  BY <1>1, <1>4, <1>5, <1>6

\* One byte more.
LEMMA CharsOne ==
  ASSUME NEW n \in Nat
  PROVE  /\ Chars(n, n) = 0
         /\ Chars(n, n + 1) = IF ascii \/ ~ Continues(file[n + 1]) THEN 1 ELSE 0
<1>1. {k \in (n + 1) .. n : ascii \/ ~ Continues(file[k])} = {}
  OBVIOUS
<1>2. {k \in (n + 1) .. (n + 1) : ascii \/ ~ Continues(file[k])} =
        IF ascii \/ ~ Continues(file[n + 1]) THEN {n + 1} ELSE {}
  OBVIOUS
<1>3. Cardinality({}) = 0 /\ Cardinality({n + 1}) = 1
  BY FS_EmptySet, FS_Singleton
<1> QED
  BY <1>1, <1>2, <1>3 DEF Chars

\* With -a, each byte is a character.
LEMMA AsciiChars ==
  ASSUME NEW m \in Nat, NEW n \in Nat, m <= n, ascii
  PROVE  Chars(m, n) = n - m
<1>1. {k \in (m + 1) .. n : ascii \/ ~ Continues(file[k])} = (m + 1) .. n
  OBVIOUS
<1>2. Cardinality((m + 1) .. n) = IF m + 1 > n THEN 0 ELSE n - (m + 1) + 1
  BY FS_Interval
<1>3. Chars(m, n) = Cardinality((m + 1) .. n)
  BY <1>1 DEF Chars
<1> QED
  BY <1>2, <1>3

LEMMA LengthType ==
  ASSUME NEW c \in Byte
  PROVE  Length(c) \in 0 .. 6 /\ (Length(c) > 0 <=> ~ Continues(c) /\ c \notin 254 .. 255)
         /\ (Length(c) > 0 => ~ Continues(c))
BY DEF Length, Byte, Continues

-----------------------------------------------------------------------------
(* What is_valid_utf8_string says of a text.                                *)

ValidSteps(f, str, m) ==
  f = [i \in 0 .. m |-> IF i = 0 THEN [ok |-> TRUE, k |-> 1, n |-> 0, u |-> 0]
                        ELSE ValidByte(f[i - 1], str[i])]

LEMMA ValidStepsExist ==
  ASSUME NEW str, NEW m \in Nat
  PROVE  \E f : ValidSteps(f, str, m)
<1> DEFINE S == {n \in 0 .. m : \E f : ValidSteps(f, str, n)}
<1>1. 0 \in S
  <2> DEFINE f0 == [i \in 0 .. 0 |-> [ok |-> TRUE, k |-> 1, n |-> 0, u |-> 0]]
  <2>1. ValidSteps(f0, str, 0) /\ 0 \in 0 .. m
    BY DEF ValidSteps
  <2> HIDE DEF f0
  <2> QED
    BY <2>1
<1>2. ASSUME NEW n \in 0 .. m, n # m, n \in S
      PROVE  n + 1 \in S
  <2>1. PICK f : ValidSteps(f, str, n)
    BY <1>2
  <2> DEFINE g == [i \in 0 .. (n + 1) |-> IF i = n + 1 THEN ValidByte(f[n], str[n + 1]) ELSE f[i]]
             x(i) == IF i = 0 THEN [ok |-> TRUE, k |-> 1, n |-> 0, u |-> 0]
                     ELSE ValidByte(g[i - 1], str[i])
  <2>2. ASSUME NEW i \in 0 .. (n + 1)
        PROVE  g[i] = x(i)
    <3>1. CASE i = n + 1
      <4>1. i # 0 /\ i - 1 = n /\ n \in 0 .. (n + 1) /\ n # n + 1
        BY <3>1
      <4>2. g[i] = ValidByte(f[n], str[n + 1]) /\ g[i - 1] = f[n]
        BY <3>1, <4>1
      <4> HIDE DEF g
      <4> QED
        BY <3>1, <4>1, <4>2
    <3>2. CASE i # n + 1
      <4>1. i \in 0 .. n /\ (i # 0 => i - 1 \in 0 .. n /\ i - 1 \in 0 .. (n + 1) /\ i - 1 # n + 1)
        BY <3>2
      <4>2. g[i] = f[i] /\ (i # 0 => g[i - 1] = f[i - 1])
        BY <4>1, <3>2
      <4>3. f[i] = IF i = 0 THEN [ok |-> TRUE, k |-> 1, n |-> 0, u |-> 0] ELSE ValidByte(f[i - 1], str[i])
        BY <2>1, <4>1 DEF ValidSteps
      <4> HIDE DEF g
      <4> QED
        BY <4>2, <4>3
    <3> QED
      BY <3>1, <3>2
  <2>3. g = [i \in 0 .. (n + 1) |-> x(i)]
    <3> HIDE DEF x
    <3> QED
      BY <2>2
  <2>4. ValidSteps(g, str, n + 1)
    <3> HIDE DEF g
    <3> QED
      BY <2>3 DEF ValidSteps
  <2> HIDE DEF g
  <2> QED
    BY <1>2, <2>4
<1>3. m \in S
  <2> HIDE DEF S
  <2>1. \A k \in 0 .. m : k \in S
    BY <1>1, <1>2, Upwards
  <2> QED
    BY <2>1
<1> QED
  BY <1>3

\* A byte that begins a character is followed by the rest of it, and that by a byte
\* that begins another one.
Begins(k) == k \in 1 .. Len(file) => ~ Continues(file[k])
Whole == /\ Begins(1)
         /\ \A k \in 1 .. Len(file) :
              ~ Continues(file[k]) =>
                /\ Length(file[k]) > 0
                /\ \A j \in 1 .. (Length(file[k]) - 1) : k + j <= Len(file) => Continues(file[k + j])
                /\ Begins(k + Length(file[k]))

LEMMA ValidFirst ==
  ASSUME NEW x, NEW c, x.ok, x.k = 1
  PROVE  ValidByte(x, c) = [ok |-> Length(c) > 0, k |-> Length(c), n |-> Length(c), u |-> Payload(c)]
BY DEF ValidByte

LEMMA ValidNext ==
  ASSUME NEW x, NEW c, x.ok, x.k # 1
  PROVE  ValidByte(x, c) = [ok |-> Continues(c) /\ (x.k = 2 => Extended(x.u, c) >= Least(x.n)),
                             k |-> x.k - 1, n |-> x.n, u |-> Extended(x.u, c)]
BY Zenon DEF ValidByte

LEMMA NextContinues ==
  ASSUME NEW x, NEW c, x.ok, x.k # 1, ValidByte(x, c).ok
  PROVE  Continues(c) /\ ValidByte(x, c).k = x.k - 1
<1> DEFINE t == Continues(c) /\ (x.k = 2 => Extended(x.u, c) >= Least(x.n))
           u == Extended(x.u, c)
           v == ValidByte(x, c)
           j == x.k - 1
<1>1. v = [ok |-> t, k |-> j, n |-> x.n, u |-> u]
  BY ValidNext
<1> HIDE DEF t, u, v, j
<1>2. v.ok = t /\ v.k = j
  BY <1>1
<1>3. v.ok
  BY DEF v
<1>4. t
  BY <1>2, <1>3
<1> QED
  BY <1>2, <1>4 DEF t, v, j

LEMMA FirstBegins ==
  ASSUME NEW x, NEW c, x.ok, x.k = 1, ValidByte(x, c).ok
  PROVE  Length(c) > 0 /\ ValidByte(x, c).k = Length(c)
<1> DEFINE t == Length(c) > 0
           v == ValidByte(x, c)
           j == Length(c)
<1>1. v = [ok |-> t, k |-> j, n |-> j, u |-> Payload(c)]
  BY ValidFirst
<1> HIDE DEF t, v, j
<1>2. v.ok = t /\ v.k = j
  BY <1>1
<1>3. v.ok
  BY DEF v
<1>4. t
  BY <1>2, <1>3
<1> QED
  BY <1>2, <1>4 DEF t, v, j

LEMMA ValidIsWhole ==
  ASSUME file \in Seq(Byte), is_valid_utf8_string(file)
  PROVE  Whole
<1> DEFINE m == Len(file)
           w == CHOOSE f : ValidSteps(f, file, m)
<1>1. m \in Nat /\ \A i \in 1 .. m : file[i] \in Byte
  BY LenProperties, ElementOfSeq
<1>2. w[m].ok /\ w[m].k = 1
  BY DEF is_valid_utf8_string, ValidSteps
<1>3. ValidSteps(w, file, m)
  <2> HIDE DEF m
  <2> QED
    BY <1>1, ValidStepsExist
<1> HIDE DEF w, m
<1>4. w[0].ok /\ w[0].k = 1
  BY <1>1, <1>3 DEF ValidSteps
<1>5. ASSUME NEW i \in 1 .. m PROVE w[i] = ValidByte(w[i - 1], file[i])
  <2>1. i \in 0 .. m /\ i # 0
    BY <1>1
  <2> QED
    BY <1>3, <2>1 DEF ValidSteps
<1>6. ASSUME NEW i \in 0 .. m PROVE w[i].ok
  <2> DEFINE S == {j \in 0 .. m : w[m - j].ok}
  <2>1. 0 \in S
    BY <1>1, <1>2
  <2>2. ASSUME NEW j \in 0 .. m, j # m, j \in S
        PROVE  j + 1 \in S
    <3>1. m - j \in 1 .. m /\ (m - j) - 1 = m - (j + 1) /\ j + 1 \in 0 .. m
      BY <1>1, <2>2
    <3>2. w[m - j] = ValidByte(w[m - (j + 1)], file[m - j])
      BY <1>5, <3>1
    <3>3. ~ w[m - (j + 1)].ok => w[m - j] = w[m - (j + 1)]
      BY <3>2 DEF ValidByte
    <3> QED
      BY <2>2, <3>1, <3>3
  <2>3. \A j \in 0 .. m : j \in S
    <3> HIDE DEF S
    <3> QED
      BY <1>1, <2>1, <2>2, Upwards
  <2>4. m - i \in 0 .. m /\ m - (m - i) = i
    BY <1>1
  <2> QED
    BY <2>3, <2>4
<1>7. ASSUME NEW i \in 1 .. m
      PROVE  IF w[i - 1].k = 1 THEN Length(file[i]) > 0 /\ w[i].k = Length(file[i])
             ELSE Continues(file[i]) /\ w[i].k = w[i - 1].k - 1
  <2>1. w[i] = ValidByte(w[i - 1], file[i]) /\ w[i].ok /\ w[i - 1].ok
    BY <1>1, <1>5, <1>6
  <2>2. CASE w[i - 1].k = 1
    BY <2>1, <2>2, FirstBegins
  <2>3. CASE w[i - 1].k # 1
    BY <2>1, <2>3, NextContinues
  <2> QED
    BY <2>2, <2>3
<1>8. ASSUME NEW i \in 1 .. m, ~ Continues(file[i])
      PROVE  w[i - 1].k = 1 /\ Length(file[i]) \in 1 .. 6 /\ w[i].k = Length(file[i])
  BY <1>1, <1>7, <1>8, LengthType
<1>9. Begins(1)
  <2>1. ASSUME 1 \in 1 .. m PROVE ~ Continues(file[1])
    BY <1>1, <1>4, <1>7, <2>1, LengthType
  <2> QED
    BY <2>1 DEF Begins, m
<1>10. ASSUME NEW i \in 1 .. m, ~ Continues(file[i])
       PROVE  /\ Length(file[i]) > 0
              /\ \A j \in 1 .. (Length(file[i]) - 1) : i + j <= m => Continues(file[i + j])
              /\ Begins(i + Length(file[i]))
  <2> DEFINE n == Length(file[i])
             S == {j \in 0 .. (n - 1) : i + j <= m => w[i + j].k = n - j}
  <2>1. n \in 1 .. 6 /\ w[i].k = n
    BY <1>8, <1>10
  <2> HIDE DEF n
  <2>2. 0 \in S
    BY <2>1
  <2>3. ASSUME NEW j \in 0 .. (n - 1), j # n - 1, j \in S
        PROVE  j + 1 \in S
    <3> SUFFICES ASSUME i + (j + 1) <= m PROVE w[i + (j + 1)].k = n - (j + 1)
      BY <2>1, <2>3
    <3>1. i + (j + 1) \in 1 .. m /\ (i + (j + 1)) - 1 = i + j /\ i + j <= m
      BY <1>1
    <3>2. w[i + j].k = n - j /\ n - j # 1 /\ (n - j) - 1 = n - (j + 1)
      BY <2>1, <2>3, <3>1
    <3> QED
      BY <1>7, <3>1, <3>2
  <2>4. \A j \in 0 .. (n - 1) : j \in S
    <3> HIDE DEF S
    <3>1. n - 1 \in Nat
      BY <2>1
    <3> QED
      BY <2>2, <2>3, <3>1, Upwards
  <2>5. ASSUME NEW j \in 1 .. (n - 1), i + j <= m PROVE Continues(file[i + j])
    <3>1. i + j \in 1 .. m /\ (i + j) - 1 = i + (j - 1) /\ j - 1 \in 0 .. (n - 1) /\ i + (j - 1) <= m
      BY <1>1, <2>1, <2>5
    <3>2. w[i + (j - 1)].k = n - (j - 1)
      BY <2>4, <3>1
    <3>3. n - (j - 1) # 1
      BY <2>1, <2>5
    <3> QED
      BY <1>7, <3>1, <3>2, <3>3
  <2>6. Begins(i + n)
    <3> SUFFICES ASSUME i + n \in 1 .. m PROVE ~ Continues(file[i + n])
      BY DEF Begins, m
    <3>1. (i + n) - 1 = i + (n - 1) /\ n - 1 \in 0 .. (n - 1) /\ i + (n - 1) <= m
      BY <1>1, <2>1
    <3>2. w[i + (n - 1)].k = 1
      BY <2>1, <2>4, <3>1
    <3> QED
      BY <1>1, <1>7, <3>1, <3>2, LengthType
  <2> QED
    BY <2>1, <2>5, <2>6 DEF n
<1> QED
  BY <1>9, <1>10 DEF Whole, m

-----------------------------------------------------------------------------
(* What count_characters counts.                                            *)

Counts == [n : Nat, rest : Nat, ended : BOOLEAN]

LEMMA CountByteType ==
  ASSUME NEW x \in Counts, NEW c \in Byte
  PROVE  CountByte(x, c) \in Counts
<1>1. /\ x.n \in Nat /\ x.rest \in Nat /\ x.ended \in BOOLEAN /\ Length(c) \in Nat
  BY LengthType DEF Counts
<1>2. CASE x.ended
  BY <1>2 DEF CountByte
<1>3. CASE ~ x.ended /\ x.rest > 0
  <2> DEFINE r == x.rest - 1
  <2>1. CountByte(x, c) = [x EXCEPT !.rest = r] /\ r \in Nat
    BY <1>1, <1>3 DEF CountByte
  <2> HIDE DEF r
  <2> QED
    BY <2>1 DEF Counts
<1>4. CASE ~ x.ended /\ x.rest = 0 /\ c = 0
  <2>1. PICK yes \in BOOLEAN : yes = TRUE
    OBVIOUS
  <2>2. CountByte(x, c) = [x EXCEPT !.ended = yes]
    BY <1>1, <1>4, <2>1 DEF CountByte
  <2> QED
    BY <2>2 DEF Counts
<1>5. CASE ~ x.ended /\ x.rest = 0 /\ c # 0
  <2> DEFINE r == IF Length(c) = 0 THEN 0 ELSE Length(c) - 1
             n == x.n + 1
  <2>1. CountByte(x, c) = [x EXCEPT !.n = n, !.rest = r] /\ r \in Nat /\ n \in Nat
    BY <1>1, <1>5 DEF CountByte
  <2> HIDE DEF r, n
  <2> QED
    BY <2>1 DEF Counts
<1> QED
  BY <1>1, <1>2, <1>3, <1>4, <1>5

\* The states of count_characters, one after each byte.
LEMMA CountSteps ==
  ASSUME NEW s \in Seq(Byte)
  PROVE  \E w \in [0 .. Len(s) -> Counts] :
           /\ count_characters(s) = w[Len(s)].n
           /\ w[0].n = 0 /\ w[0].rest = 0 /\ ~ w[0].ended
           /\ \A i \in 1 .. Len(s) : w[i] = CountByte(w[i - 1], s[i])
<1> DEFINE m == Len(s)
           x0 == [n |-> 0, rest |-> 0, ended |-> FALSE]
           Fits(f) == f = [i \in 0 .. m |-> IF i = 0 THEN x0 ELSE CountByte(f[i - 1], s[i])]
           w == CHOOSE f : Fits(f)
           Step == [i \in 1 .. m |-> [x \in Counts |-> CountByte(x, s[i])]]
<1>1. m \in Nat /\ \A i \in 1 .. m : s[i] \in Byte
  BY LenProperties, ElementOfSeq
<1>2. x0 \in Counts /\ x0.n = 0 /\ x0.rest = 0 /\ ~ x0.ended
  BY DEF Counts
<1>3. count_characters(s) = w[m].n
  BY DEF count_characters
<1> HIDE DEF m, x0
<1>4. Step \in [1 .. m -> [Counts -> Counts]]
  BY <1>1, CountByteType
<1>5. \A i \in 1 .. m, x \in Counts : Step[i][x] = CountByte(x, s[i])
  OBVIOUS
<1> HIDE DEF Step
<1>6. PICK f \in [0 .. m -> Counts] : Iterate(f, m, x0, Step)
  BY <1>1, <1>2, <1>4, Iterates
<1>7. ASSUME NEW i \in 0 .. m, i # 0 PROVE Step[i][f[i - 1]] = CountByte(f[i - 1], s[i])
  <2>1. i \in 1 .. m /\ i - 1 \in 0 .. m
    BY <1>1, <1>7
  <2> QED
    BY <1>5, <1>6, <2>1
<1>8. Fits(f)
  BY <1>6, <1>7 DEF Iterate
<1>9. Fits(w)
  <2> HIDE DEF Fits
  <2> QED
    BY <1>8
<1> HIDE DEF w
<1>10. \A i \in 1 .. m : i # 0 /\ i - 1 \in 0 .. m /\ i \in 0 .. m
  BY <1>1
<1>11. w[0] = x0 /\ \A i \in 1 .. m : w[i] = CountByte(w[i - 1], s[i])
  BY <1>1, <1>9, <1>10
<1>12. \A i \in 0 .. m : w[i] \in Counts
  <2> DEFINE S == {i \in 0 .. m : w[i] \in Counts}
  <2>1. 0 \in S
    BY <1>1, <1>2, <1>11
  <2>2. ASSUME NEW i \in 0 .. m, i # m, i \in S PROVE i + 1 \in S
    <3>1. i + 1 \in 1 .. m /\ (i + 1) - 1 = i
      BY <1>1, <2>2
    <3>2. w[i + 1] = CountByte(w[i], s[i + 1]) /\ s[i + 1] \in Byte
      BY <1>1, <1>11, <3>1
    <3> QED
      BY <1>10, <2>2, <3>1, <3>2, CountByteType
  <2>3. \A i \in 0 .. m : i \in S
    <3> HIDE DEF S
    <3> QED
      BY <1>1, <2>1, <2>2, Upwards
  <2> QED
    BY <2>3
<1>13. w \in [0 .. m -> Counts]
  <2>1. w = [i \in 0 .. m |-> IF i = 0 THEN x0 ELSE CountByte(w[i - 1], s[i])]
    BY <1>9
  <2>2. DOMAIN w = 0 .. m /\ w = [i \in 0 .. m |-> w[i]]
    BY <2>1
  <2> HIDE DEF Fits
  <2> QED
    BY <1>12, <2>2
<1> QED
  BY <1>2, <1>3, <1>11, <1>13 DEF m

\* The characters of a part of a whole file are counted; where the part begins in the
\* middle of one, some more.
LEMMA CountOfPart ==
  ASSUME file \in Seq(Byte), ~ ascii, Whole, \A k \in DOMAIN file : file[k] # 0,
         NEW a \in Nat, NEW b \in Nat, a <= b, b <= Len(file),
         NEW s \in Seq(Byte), Len(s) = b - a, \A i \in 1 .. (b - a) : s[i] = file[a + i]
  PROVE  /\ count_characters(s) \in Nat
         /\ count_characters(s) >= Chars(a, b)
         /\ Begins(a + 1) => count_characters(s) = Chars(a, b)
<1> DEFINE m == b - a
<1>1. m \in Nat /\ Len(file) \in Nat /\ \A i \in 1 .. Len(file) : file[i] \in Byte /\ file[i] # 0
  BY LenProperties, ElementOfSeq
<1>2. PICK w \in [0 .. m -> Counts] :
           /\ count_characters(s) = w[m].n
           /\ w[0].n = 0 /\ w[0].rest = 0 /\ ~ w[0].ended
           /\ \A i \in 1 .. m : w[i] = CountByte(w[i - 1], s[i])
  <2>1. Len(s) = m
    OBVIOUS
  <2> HIDE DEF m
  <2>2. \E w \in [0 .. Len(s) -> Counts] :
           /\ count_characters(s) = w[Len(s)].n
           /\ w[0].n = 0 /\ w[0].rest = 0 /\ ~ w[0].ended
           /\ \A i \in 1 .. Len(s) : w[i] = CountByte(w[i - 1], s[i])
    BY CountSteps
  <2> QED
    BY Zenon, <2>1, <2>2
<1> DEFINE Right(i) ==
      /\ ~ w[i].ended
      /\ w[i].n >= Chars(a, a + i)
      /\ \A j \in 1 .. w[i].rest : a + i + j <= Len(file) => Continues(file[a + i + j])
      /\ Begins(a + 1) => w[i].n = Chars(a, a + i) /\ Begins(a + i + w[i].rest + 1)
<1>3. ASSUME NEW i \in 0 .. m PROVE w[i].n \in Nat /\ w[i].rest \in Nat /\ w[i] \in Counts /\ Chars(a, a + i) \in Nat
  <2>1. w[i] \in Counts
    BY <1>2
  <2>2. a \in Nat /\ a + i \in Nat
    BY <1>1
  <2> QED
    BY <2>1, <2>2, CharsFinite DEF Counts
<1>4. Right(0)
  <2>1. w[0].n = 0 /\ w[0].rest = 0 /\ ~ w[0].ended /\ a + 0 = a /\ a + 0 + 0 + 1 = a + 1
    BY <1>2
  <2>2. Chars(a, a) = 0
    BY CharsOne
  <2> QED
    BY <2>1, <2>2
<1>5. ASSUME NEW i \in 0 .. m, i # m, Right(i)
      PROVE  Right(i + 1)
  <2> DEFINE p == a + i + 1
             c == file[p]
             x == w[i]
             y == w[i + 1]
  <2>1. i + 1 \in 1 .. m /\ i + 1 \in 0 .. m /\ (i + 1) - 1 = i /\ p \in 1 .. Len(file) /\ a + (i + 1) = p
    BY <1>1, <1>5
  <2>2. c \in Byte /\ c # 0 /\ s[i + 1] = c /\ y = CountByte(x, c)
    <3>1. s[i + 1] = file[a + (i + 1)] /\ w[i + 1] = CountByte(w[(i + 1) - 1], s[i + 1])
      BY <1>2, <2>1
    <3> QED
      BY <1>1, <2>1, <3>1
  <2>3. /\ x \in Counts /\ x.n \in Nat /\ x.rest \in Nat /\ y.n \in Nat /\ y.rest \in Nat
        /\ Chars(a, a + i) \in Nat
    BY <1>3, <2>1
  <2>4. Chars(a, p) = Chars(a, a + i) + IF Continues(c) THEN 0 ELSE 1
    <3> DEFINE q == a + i
    <3>1. q \in Nat /\ q + 1 = p /\ a <= q /\ q <= p /\ p \in Nat
      BY <1>1, <2>1
    <3> HIDE DEF p, q
    <3>2. Chars(a, p) = Chars(a, q) + Chars(q, p)
      BY <3>1, CharsUnion
    <3>3. Chars(q, p) = IF Continues(c) THEN 0 ELSE 1
      BY <3>1, CharsOne
    <3> QED
      BY <3>2, <3>3 DEF q
  <2>5. /\ ~ x.ended /\ x.n >= Chars(a, a + i)
        /\ \A j \in 1 .. x.rest : a + i + j <= Len(file) => Continues(file[a + i + j])
        /\ Begins(a + 1) => x.n = Chars(a, a + i) /\ Begins(a + i + x.rest + 1)
    BY <1>5
  <2>6. /\ ~ Continues(c) => /\ Length(c) > 0
                             /\ \A j \in 1 .. (Length(c) - 1) : p + j <= Len(file) => Continues(file[p + j])
                             /\ Begins(p + Length(c))
        /\ Length(c) \in 0 .. 6 /\ (Length(c) > 0 => ~ Continues(c))
    BY <2>1, <2>2, LengthType DEF Whole
  <2>7. CASE x.rest > 0
    <3>1. ~ y.ended /\ y.n = x.n /\ y.rest = x.rest - 1
      <4> DEFINE r == x.rest - 1
      <4>1. y = [x EXCEPT !.rest = r]
        BY <2>2, <2>3, <2>5, <2>7 DEF CountByte, Counts
      <4> HIDE DEF r, x, y
      <4>2. ~ y.ended /\ y.n = x.n /\ y.rest = r
        BY <2>3, <2>5, <4>1 DEF Counts
      <4> QED
        BY <4>2 DEF r
    <3>2. Continues(c)
      <4>1. 1 \in 1 .. x.rest /\ a + i + 1 <= Len(file)
        BY <2>1, <2>3, <2>7
      <4> QED
        BY <2>5, <4>1
    <3>3. Chars(a, p) = Chars(a, a + i)
      BY <2>3, <2>4, <3>2
    <3>4. ASSUME NEW j \in 1 .. y.rest, p + j <= Len(file) PROVE Continues(file[p + j])
      <4>1. j + 1 \in 1 .. x.rest /\ p + j = a + i + (j + 1)
        BY <1>1, <2>3, <3>1
      <4> QED
        BY <2>5, <3>4, <4>1
    <3>5. p + y.rest + 1 = a + i + x.rest + 1
      BY <1>1, <2>3, <3>1
    <3> HIDE DEF p, x, y
    <3>6. /\ ~ y.ended /\ y.n >= Chars(a, p)
          /\ \A j \in 1 .. y.rest : p + j <= Len(file) => Continues(file[p + j])
          /\ Begins(a + 1) => y.n = Chars(a, p) /\ Begins(p + y.rest + 1)
      BY <2>5, <3>1, <3>3, <3>4, <3>5
    <3> QED
      BY <2>1, <3>6 DEF y
  <2>8. CASE x.rest = 0
    <3>1. ~ y.ended /\ y.n = x.n + 1 /\ y.rest = IF Length(c) = 0 THEN 0 ELSE Length(c) - 1
      <4> DEFINE r == IF Length(c) = 0 THEN 0 ELSE Length(c) - 1
                 n == x.n + 1
      <4>1. y = [x EXCEPT !.n = n, !.rest = r]
        BY <2>2, <2>3, <2>5, <2>8 DEF CountByte, Counts
      <4> HIDE DEF r, n, x, y
      <4>2. ~ y.ended /\ y.n = n /\ y.rest = r
        BY <2>3, <2>5, <4>1 DEF Counts
      <4> QED
        BY <4>2 DEF r, n
    <3>2. ASSUME NEW j \in 1 .. y.rest, p + j <= Len(file) PROVE Continues(file[p + j])
      <4>1. Length(c) > 0 /\ j \in 1 .. (Length(c) - 1)
        BY <2>6, <3>1, <3>2
      <4> QED
        BY <2>6, <3>2, <4>1
    <3>3. y.n >= Chars(a, p)
      BY <2>3, <2>4, <2>5, <3>1
    <3>4. ASSUME Begins(a + 1) PROVE y.n = Chars(a, p) /\ Begins(p + y.rest + 1)
      <4>1. Begins(p) /\ x.n = Chars(a, a + i)
        <5>1. a + i + x.rest + 1 = p
          BY <1>1, <2>8
        <5> QED
          BY <2>5, <3>4, <5>1
      <4>2. ~ Continues(c)
        BY <2>1, <4>1 DEF Begins
      <4>3. Length(c) > 0 /\ Begins(p + Length(c)) /\ Length(c) \in 0 .. 6
        BY <2>6, <4>2
      <4>4. p + y.rest + 1 = p + Length(c)
        BY <1>1, <2>1, <3>1, <4>3
      <4> QED
        BY <2>3, <2>4, <3>1, <4>1, <4>2, <4>3, <4>4
    <3> HIDE DEF p, x, y
    <3>5. /\ ~ y.ended /\ y.n >= Chars(a, p)
          /\ \A j \in 1 .. y.rest : p + j <= Len(file) => Continues(file[p + j])
          /\ Begins(a + 1) => y.n = Chars(a, p) /\ Begins(p + y.rest + 1)
      BY <3>1, <3>2, <3>3, <3>4
    <3> QED
      BY <2>1, <3>5 DEF y
  <2>9. x.rest > 0 \/ x.rest = 0
    BY <2>3
  <2> QED
    BY <2>7, <2>8, <2>9
<1>6. Right(m)
  <2> DEFINE S == {i \in 0 .. m : Right(i)}
  <2>1. 0 \in S
    BY <1>1, <1>4
  <2>2. ASSUME NEW i \in 0 .. m, i # m, i \in S PROVE i + 1 \in S
    <3>1. i + 1 \in 0 .. m
      BY <1>1, <2>2
    <3> HIDE DEF Right
    <3> QED
      BY <1>5, <2>2, <3>1
  <2>3. \A i \in 0 .. m : i \in S
    <3> HIDE DEF S
    <3> QED
      BY <1>1, <2>1, <2>2, Upwards
  <2> HIDE DEF Right
  <2> QED
    BY <1>1, <2>3
<1>7. a + m = b /\ m \in 0 .. m
  BY <1>1
<1> QED
  BY <1>2, <1>3, <1>6, <1>7

-----------------------------------------------------------------------------
(* Columns, and the buffer behind a rule.                                   *)

LEMMA CountType ==
  ASSUME NEW s \in Seq(Byte)
  PROVE  count_characters(s) \in Nat
<1>1. PICK w \in [0 .. Len(s) -> Counts] : count_characters(s) = w[Len(s)].n
  BY CountSteps
<1>2. Len(s) \in 0 .. Len(s)
  BY LenProperties
<1> QED
  BY <1>1, <1>2 DEF Counts

LEMMA ReadableIsWhole ==
  ASSUME file \in Seq(Byte), Readable, ~ ascii
  PROVE  Whole /\ \A k \in DOMAIN file : file[k] # 0
BY ValidIsWhole DEF Readable

\* A part of the buffer.
LEMMA PartOfBuffer ==
  ASSUME NEW w \in Sound, NEW from \in Nat, from <= w.bufcur
  PROVE  LET s == SubSeq(w.buf, from + 1, w.bufcur) IN
         /\ s \in Seq(Byte) /\ Len(s) = w.bufcur - from
         /\ \A i \in 1 .. (w.bufcur - from) : s[i] = file[w.bufpos + from + i]
<1> DEFINE s == SubSeq(w.buf, from + 1, w.bufcur)
<1>1. /\ w.buf \in Seq(Byte) /\ Len(w.buf) \in Nat /\ w.bufpos \in Nat /\ w.bufcur \in Nat /\ w.bufcur <= Len(w.buf)
      /\ \A k \in 1 .. Len(w.buf) : w.buf[k] = file[w.bufpos + k]
  BY BufferType DEF Buffered
<1>2. from + 1 \in Int /\ w.bufcur \in Int /\ \A i \in (from + 1) .. w.bufcur : w.buf[i] \in Byte
  BY <1>1, ElementOfSeq
<1>3. /\ s \in Seq(Byte)
      /\ Len(s) = IF from + 1 <= w.bufcur THEN w.bufcur - (from + 1) + 1 ELSE 0
      /\ \A i \in 1 .. w.bufcur - (from + 1) + 1 : s[i] = w.buf[(from + 1) + i - 1]
  BY <1>2, SubSeqProperties
<1> HIDE DEF s
<1>4. Len(s) = w.bufcur - from
  BY <1>1, <1>3
<1>5. ASSUME NEW i \in 1 .. (w.bufcur - from) PROVE s[i] = file[w.bufpos + from + i]
  <2>1. i \in 1 .. w.bufcur - (from + 1) + 1 /\ (from + 1) + i - 1 = from + i /\ from + i \in 1 .. Len(w.buf)
    BY <1>1
  <2>2. w.bufpos + (from + i) = w.bufpos + from + i
    BY <1>1
  <2> QED
    BY <1>1, <1>3, <2>1, <2>2
<1> QED
  BY <1>3, <1>4, <1>5 DEF s

LEMMA CountOfBuffer ==
  ASSUME NEW w \in Sound, NEW from \in Nat, from <= w.bufcur, Readable
  PROVE  LET c == IF ascii THEN w.bufcur - from ELSE count_characters(SubSeq(w.buf, from + 1, w.bufcur))
         IN /\ c >= Chars(w.bufpos + from, w.bufpos + w.bufcur)
            /\ ascii \/ Begins(w.bufpos + from + 1) => c = Chars(w.bufpos + from, w.bufpos + w.bufcur)
<1> DEFINE s == SubSeq(w.buf, from + 1, w.bufcur)
           a == w.bufpos + from
           b == w.bufpos + w.bufcur
<1>1. /\ w.bufpos \in Nat /\ w.bufcur \in Nat /\ a \in Nat /\ b \in Nat /\ a <= b /\ b <= Len(file)
      /\ b - a = w.bufcur - from /\ file \in Seq(Byte)
  BY BufferType DEF Buffered
<1>2. CASE ascii
  <2>1. Chars(a, b) = b - a
    <3> HIDE DEF a, b
    <3> QED
      BY <1>1, <1>2, AsciiChars
  <2>2. w.bufcur - from >= Chars(a, b) /\ w.bufcur - from = Chars(a, b)
    <3> HIDE DEF a, b
    <3> QED
      BY <1>1, <2>1
  <2> QED
    BY <1>2, <2>2
<1>3. CASE ~ ascii
  <2>1. s \in Seq(Byte) /\ Len(s) = b - a /\ \A i \in 1 .. (b - a) : s[i] = file[a + i]
    BY <1>1, PartOfBuffer
  <2>2. Whole /\ \A k \in DOMAIN file : file[k] # 0
    BY <1>1, <1>3, ReadableIsWhole
  <2> HIDE DEF a, b, s
  <2>3. count_characters(s) >= Chars(a, b) /\ (Begins(a + 1) => count_characters(s) = Chars(a, b))
    BY <1>1, <1>3, <2>1, <2>2, CountOfPart
  <2> QED
    BY <1>3, <2>3 DEF a, b, s
<1> QED
  BY <1>2, <1>3

\* A line begins with a character.
LEMMA LineStartBegins ==
  ASSUME file \in Seq(Byte), Whole, NEW n \in Nat, n <= Len(file)
  PROVE  Begins(LineStart(n) + 1)
<1> DEFINE p == LineStart(n)
<1>1. p \in 0 .. n /\ (p # 0 => p \in LineEnds(n))
  BY LineStartType
<1> HIDE DEF p
<1>2. CASE p = 0
  BY <1>2 DEF Whole, p
<1>3. CASE p # 0
  <2>1. p \in 1 .. Len(file) /\ file[p] \in {LF, CR}
    <3>1. Len(file) \in Nat
      BY LenProperties
    <3> QED
      BY <1>1, <1>3, <3>1 DEF LineEnds, EndsLine
  <2>2. ~ Continues(file[p]) /\ Length(file[p]) = 1
    <3>1. file[p] = 10 \/ file[p] = 13
      BY <2>1 DEF LF, CR
    <3>2. Length(10) = 1 /\ Length(13) = 1 /\ ~ Continues(10) /\ ~ Continues(13)
      BY DEF Length, Continues
    <3> QED
      BY <3>1, <3>2
  <2> QED
    BY <2>1, <2>2 DEF Whole, p
<1> QED
  BY <1>2, <1>3

LEMMA ColumnRight ==
  ASSUME NEW w \in Sound, Readable
  PROVE  IF w.linepos >= w.bufpos THEN column_number(w) = ColumnAt(w.bufpos + w.bufcur)
         ELSE column_number(w) >= ColumnAt(w.bufpos + w.bufcur)
<1> DEFINE n == w.bufpos + w.bufcur
           from == Minus(w.linepos, w.bufpos)
           c == IF ascii THEN w.bufcur - from ELSE count_characters(SubSeq(w.buf, from + 1, w.bufcur))
<1>1. /\ w.bufpos \in Nat /\ w.bufcur \in Nat /\ w.linepos = LineStart(n) /\ Counted(w.bufpos, w)
      /\ n \in Nat /\ n <= Len(file) /\ file \in Seq(Byte) /\ w.charnum \in Nat /\ Len(file) \in Nat
  BY BufferType DEF Buffered, Placed, OnLine, States
<1>2. w.linepos \in 0 .. n
  BY <1>1, LineStartType
<1>3. from = IF w.linepos > w.bufpos THEN w.linepos - w.bufpos ELSE 0
  BY DEF Minus
<1>4. from \in Nat /\ from <= w.bufcur
  BY <1>1, <1>2, <1>3
<1>5. column_number(w) = w.charnum + c /\ ColumnAt(n) = Chars(w.linepos, n)
  BY <1>1 DEF column_number, ColumnAt
<1> HIDE DEF from
<1>6. /\ c >= Chars(w.bufpos + from, n)
      /\ ascii \/ Begins(w.bufpos + from + 1) => c = Chars(w.bufpos + from, n)
  BY <1>4, CountOfBuffer
<1>7. c \in Int
  <2>1. CASE ascii
    BY <1>1, <1>4, <2>1
  <2>2. CASE ~ ascii
    <3>1. SubSeq(w.buf, from + 1, w.bufcur) \in Seq(Byte)
      BY <1>4, PartOfBuffer
    <3>2. count_characters(SubSeq(w.buf, from + 1, w.bufcur)) \in Nat
      BY <3>1, CountType
    <3> QED
      BY <2>2, <3>2
  <2> QED
    BY <2>1, <2>2
<1> HIDE DEF c
<1>8. CASE w.linepos >= w.bufpos
  <2>1. w.bufpos + from = w.linepos /\ w.charnum = 0
    BY <1>1, <1>2, <1>3, <1>8 DEF Counted
  <2>2. ascii \/ Begins(w.linepos + 1)
    BY <1>1, ReadableIsWhole, LineStartBegins
  <2>3. c = Chars(w.linepos, n)
    BY <1>6, <2>1, <2>2
  <2> HIDE DEF n
  <2> QED
    BY <1>5, <1>7, <1>8, <2>1, <2>3 DEF n
<1>9. CASE ~ w.linepos >= w.bufpos
  <2>1. from = 0 /\ w.bufpos + 0 = w.bufpos /\ w.linepos <= w.bufpos /\ w.bufpos <= n
    BY <1>1, <1>2, <1>3, <1>9
  <2>2. w.charnum >= Chars(w.linepos, w.bufpos) /\ c >= Chars(w.bufpos, n)
    BY <1>1, <1>6, <1>9, <2>1 DEF Counted
  <2> HIDE DEF n
  <2>3. Chars(w.linepos, n) = Chars(w.linepos, w.bufpos) + Chars(w.bufpos, n)
    BY <1>1, <1>2, <2>1, CharsUnion
  <2>4. Chars(w.linepos, w.bufpos) \in Nat /\ Chars(w.bufpos, n) \in Nat
    <3>1. w.linepos \in Nat /\ w.bufpos \in Nat /\ n \in Nat
      BY <1>1, <1>2
    <3> QED
      BY <3>1, CharsFinite
  <2>5. column_number(w) >= ColumnAt(n)
    BY <1>1, <1>5, <1>7, <2>2, <2>3, <2>4
  <2> QED
    BY <1>9, <2>5 DEF n
<1> QED
  BY <1>8, <1>9

\* When the buffer is flushed, the place in the file stays.
LEMMA CommitSound ==
  ASSUME NEW w \in Sound
  PROVE  input_state__commit_buffer(w) \in Sound
<1> DEFINE n == w.bufpos + w.bufcur
           c == IF ascii THEN w.bufcur ELSE count_characters(SubSeq(w.buf, 1, w.bufcur))
           chars == IF w.linepos < n THEN w.charnum + c ELSE w.charnum
           rest == SubSeq(w.buf, w.bufcur + 1, Len(w.buf))
           v == input_state__commit_buffer(w)
<1>1. /\ w \in States /\ file \in Seq(Byte) /\ w.buf \in Seq(Byte) /\ Len(w.buf) \in Nat /\ Len(file) \in Nat
      /\ w.bufpos \in Nat /\ w.bufcur \in Nat /\ w.bufcur <= Len(w.buf) /\ w.bufpos + Len(w.buf) <= Len(file)
      /\ \A k \in 1 .. Len(w.buf) : w.buf[k] = file[w.bufpos + k]
      /\ w.linenum = Cardinality(LineEnds(n)) /\ w.linepos = LineStart(n) /\ Counted(w.bufpos, w)
      /\ n \in Nat /\ n <= Len(file)
  BY BufferType DEF Buffered, Placed, OnLine
<1>2. w.linepos \in 0 .. n /\ w.charnum \in Nat
  BY <1>1, LineStartType DEF States
<1>3. c \in Nat /\ (Readable => c >= Chars(w.bufpos, n))
  <2>1. 0 \in Nat /\ 0 <= w.bufcur /\ 0 + 1 = 1 /\ w.bufcur - 0 = w.bufcur /\ w.bufpos + 0 = w.bufpos
    BY <1>1
  <2>2. ~ ascii => count_characters(SubSeq(w.buf, 0 + 1, w.bufcur)) \in Nat
    BY <2>1, PartOfBuffer, CountType
  <2>3. Readable => (IF ascii THEN w.bufcur - 0 ELSE count_characters(SubSeq(w.buf, 0 + 1, w.bufcur)))
                      >= Chars(w.bufpos + 0, w.bufpos + w.bufcur)
    BY <2>1, CountOfBuffer
  <2> QED
    BY <1>1, <2>1, <2>2, <2>3
<1>4. /\ rest \in Seq(Byte) /\ Len(rest) = Len(w.buf) - w.bufcur
      /\ \A i \in 1 .. Len(rest) : rest[i] = file[n + i]
  <2>1. w.bufcur + 1 \in Int /\ Len(w.buf) \in Int /\ \A i \in (w.bufcur + 1) .. Len(w.buf) : w.buf[i] \in Byte
    BY <1>1, ElementOfSeq
  <2>2. /\ rest \in Seq(Byte)
        /\ Len(rest) = IF w.bufcur + 1 <= Len(w.buf) THEN Len(w.buf) - (w.bufcur + 1) + 1 ELSE 0
        /\ \A i \in 1 .. Len(w.buf) - (w.bufcur + 1) + 1 : rest[i] = w.buf[(w.bufcur + 1) + i - 1]
    BY <2>1, SubSeqProperties
  <2> HIDE DEF rest
  <2>3. Len(rest) = Len(w.buf) - w.bufcur
    BY <1>1, <2>2
  <2>4. ASSUME NEW i \in 1 .. Len(rest) PROVE rest[i] = file[n + i]
    <3>1. /\ i \in 1 .. Len(w.buf) - (w.bufcur + 1) + 1 /\ (w.bufcur + 1) + i - 1 = w.bufcur + i
          /\ w.bufcur + i \in 1 .. Len(w.buf)
      BY <1>1, <2>3
    <3>2. w.bufpos + (w.bufcur + i) = n + i
      BY <1>1
    <3> HIDE DEF n
    <3> QED
      BY <1>1, <2>2, <3>1, <3>2
  <2> QED
    BY <2>2, <2>3, <2>4
<1>5. chars \in Nat
  BY <1>2, <1>3
<1>6. v = [w EXCEPT !.charnum = chars, !.buf = rest, !.bufpos = n, !.bufcur = 0]
  <2>1. (IF ascii THEN w.charnum + w.bufcur ELSE w.charnum + count_characters(SubSeq(w.buf, 1, w.bufcur))) = w.charnum + c
    OBVIOUS
  <2> QED
    BY <1>1, <2>1 DEF input_state__commit_buffer, States
<1> HIDE DEF rest, n, chars, v
<1>7. /\ v \in States /\ v.buf = rest /\ v.bufpos = n /\ v.bufcur = 0 /\ v.charnum = chars
      /\ v.linenum = w.linenum /\ v.linepos = w.linepos
  BY <1>1, <1>4, <1>5, <1>6 DEF States
<1>8. Buffered(v)
  <2>1. Len(rest) \in Nat /\ n + Len(rest) <= Len(file)
    BY <1>1, <1>4 DEF n
  <2> QED
    BY <1>1, <1>4, <1>7, <2>1 DEF Buffered
<1>9. OnLine(v.bufpos, v)
  <2>1. n + 0 = n
    BY <1>1
  <2> QED
    BY <1>1, <1>7, <2>1 DEF OnLine
<1>10. Counted(v.bufpos, v)
  <2>1. CASE w.linepos >= n
    <3>1. w.linepos >= w.bufpos /\ chars = w.charnum
      BY <1>1, <1>2, <2>1 DEF n, chars
    <3>2. chars = 0
      BY <1>1, <3>1 DEF Counted
    <3> QED
      BY <1>7, <2>1, <3>2 DEF Counted
  <2>2. CASE ~ w.linepos >= n
    <3>1. chars = w.charnum + c
      BY <1>1, <1>2, <2>2 DEF chars
    <3>2. ASSUME Readable PROVE chars >= Chars(w.linepos, n)
      <4>1. c >= Chars(w.bufpos, n)
        BY <1>3, <3>2
      <4>2. CASE w.linepos >= w.bufpos
        <5>1. Chars(w.bufpos, n) = Chars(w.bufpos, w.linepos) + Chars(w.linepos, n)
          BY <1>1, <1>2, <4>2, CharsUnion
        <5>2. Chars(w.bufpos, w.linepos) \in Nat /\ Chars(w.linepos, n) \in Nat
          <6>1. w.linepos \in Nat /\ w.bufpos \in Nat /\ n \in Nat
            BY <1>1, <1>2
          <6> QED
            BY <6>1, CharsFinite
        <5> HIDE DEF c
        <5> QED
          BY <1>2, <1>3, <3>1, <4>1, <5>1, <5>2
      <4>3. CASE ~ w.linepos >= w.bufpos
        <5>1. w.linepos <= w.bufpos /\ w.bufpos <= n /\ w.linepos \in Nat
          BY <1>1, <1>2, <4>3 DEF n
        <5>2. Chars(w.linepos, n) = Chars(w.linepos, w.bufpos) + Chars(w.bufpos, n)
          BY <1>1, <5>1, CharsUnion
        <5>3. Chars(w.linepos, w.bufpos) \in Nat /\ Chars(w.bufpos, n) \in Nat
          BY <1>1, <5>1, CharsFinite
        <5>4. w.charnum >= Chars(w.linepos, w.bufpos)
          BY <1>1, <3>2, <4>3 DEF Counted
        <5> HIDE DEF c
        <5> QED
          BY <1>2, <1>3, <3>1, <4>1, <5>2, <5>3, <5>4
      <4> QED
        BY <4>2, <4>3
    <3> QED
      BY <1>7, <2>2, <3>2 DEF Counted
  <2> QED
    BY <2>1, <2>2
<1>11. v \in Sound
  BY <1>7, <1>8, <1>9, <1>10 DEF Sound, Placed
<1> QED
  BY <1>11 DEF v

-----------------------------------------------------------------------------
(* The places that are noted.                                               *)

Noted == [bufcur : Nat, linenum : Nat, charnum : Nat, linepos : Nat]

\* The places m in the buffers that begin at b.
Places == {p \in Nat \X Noted : Placed(p[1], p[2])}

\* What holds between two calls of the functions that parse a grammar.
LexInv ==
  /\ input \in Sound
  /\ marks \in Seq(Noted)
  /\ \A k \in 1 .. Len(marks) :
       marks[k].bufcur <= Len(input.buf) /\ <<input.bufpos, marks[k]>> \in Places

\* It is about the file and the option -a, which stay.
LEMMA FileStays ==
  ASSUME file' = file, ascii' = ascii
  PROVE  Sound' = Sound /\ Places' = Places
<1>1. ASSUME NEW n PROVE LineEnds(n)' = LineEnds(n)
  BY DEF LineEnds, EndsLine
<1>2. ASSUME NEW n PROVE LineStart(n)' = LineStart(n)
  <2> DEFINE Start(S) == IF S = {} THEN 0 ELSE CHOOSE k \in S : \A h \in S : h <= k
  <2>1. LineStart(n)' = Start(LineEnds(n)') /\ LineStart(n) = Start(LineEnds(n))
    BY DEF LineStart
  <2> HIDE DEF Start
  <2> QED
    BY <1>1, <2>1
<1>3. ASSUME NEW m, NEW n PROVE Chars(m, n)' = Chars(m, n)
  BY DEF Chars
<1>4. Readable' <=> Readable
  BY DEF Readable
<1>5. ASSUME NEW b, NEW m PROVE Placed(b, m)' <=> Placed(b, m)
  BY <1>1, <1>2, <1>3, <1>4 DEF Placed, OnLine, Counted
<1>6. ASSUME NEW w PROVE Buffered(w)' <=> Buffered(w)
  BY DEF Buffered
<1>7. Sound' = Sound
  BY <1>5, <1>6 DEF Sound, States
<1>8. Places' = Places
  BY <1>5 DEF Places, Noted
<1> QED
  BY <1>7, <1>8

\* A match keeps the places that are noted in the buffer.
LEMMA MatchKeeps ==
  ASSUME LexInv, file' = file, ascii' = ascii, input' \in Ahead(input),
         marks' \in Seq(Noted), Len(marks') <= Len(marks), \A k \in 1 .. Len(marks') : marks'[k] = marks[k]
  PROVE  LexInv'
<1>1. input' \in Sound /\ input'.bufpos = input.bufpos /\ Len(input'.buf) >= Len(input.buf)
  BY DEF Ahead
<1>2. input \in Sound /\ Len(input.buf) \in Nat /\ Len(input'.buf) \in Nat
  BY <1>1, BufferType DEF LexInv
<1>3. Sound' = Sound /\ Places' = Places
  BY FileStays
<1>4. ASSUME NEW k \in 1 .. Len(marks')
      PROVE  marks'[k].bufcur <= Len(input'.buf) /\ <<input'.bufpos, marks'[k]>> \in Places
  <2>1. k \in 1 .. Len(marks) /\ marks'[k] = marks[k]
    <3>1. Len(marks) \in Nat /\ Len(marks') \in Nat
      BY LenProperties DEF LexInv
    <3> QED
      BY <3>1
  <2>2. marks[k].bufcur <= Len(input.buf) /\ <<input.bufpos, marks[k]>> \in Places /\ marks[k].bufcur \in Nat
    <3>1. marks[k] \in Noted
      BY <2>1, ElementOfSeq DEF LexInv
    <3> QED
      BY <2>1, <3>1 DEF LexInv, Noted
  <2> QED
    BY <1>1, <1>2, <2>1, <2>2
<1> QED
  BY <1>1, <1>3, <1>4 DEF LexInv

LEMMA StaysAhead ==
  ASSUME LexInv, file' = file, ascii' = ascii, input' \in Ahead(input), marks' = marks
  PROVE  LexInv'
<1>1. marks' \in Seq(Noted) /\ Len(marks') <= Len(marks) /\ \A k \in 1 .. Len(marks') : marks'[k] = marks[k]
  BY LenProperties DEF LexInv
<1> QED
  BY <1>1, MatchKeeps

\* The last place is left out.
LEMMA FrontKeeps ==
  ASSUME marks \in Seq(Noted), marks # <<>>, marks' = Front(marks)
  PROVE  /\ marks' \in Seq(Noted) /\ Len(marks') <= Len(marks)
         /\ \A k \in 1 .. Len(marks') : marks'[k] = marks[k]
         /\ Len(marks) \in 1 .. Len(marks) /\ Last(marks) = marks[Len(marks)]
<1>1. Len(marks) \in Nat /\ Len(marks) # 0 /\ \A i \in 1 .. Len(marks) : marks[i] \in Noted
  BY LenProperties, ElementOfSeq, EmptySeq
<1> DEFINE n == Len(marks) - 1
<1>2. n \in Nat /\ 1 \in Int /\ n \in Int /\ \A i \in 1 .. n : marks[i] \in Noted
  BY <1>1
<1>3. marks' = SubSeq(marks, 1, n)
  BY DEF Front
<1>4. Last(marks) = marks[Len(marks)]
  BY DEF Last
<1>5. n <= Len(marks) /\ Len(marks) \in 1 .. Len(marks)
  BY <1>1
<1> HIDE DEF n
<1>6. /\ SubSeq(marks, 1, n) \in Seq(Noted)
      /\ Len(SubSeq(marks, 1, n)) = IF 1 <= n THEN n - 1 + 1 ELSE 0
      /\ \A i \in 1 .. n - 1 + 1 : SubSeq(marks, 1, n)[i] = marks[1 + i - 1]
  BY <1>2, SubSeqProperties
<1>7. Len(marks') = n
  BY <1>2, <1>3, <1>6
<1>8. ASSUME NEW k \in 1 .. n PROVE marks'[k] = marks[k]
  <2>1. k \in 1 .. n - 1 + 1 /\ 1 + k - 1 = k
    BY <1>2
  <2> QED
    BY <1>3, <1>6, <2>1
<1> QED
  BY <1>3, <1>4, <1>5, <1>6, <1>7, <1>8

-----------------------------------------------------------------------------
(* The actions.                                                             *)

LEMMA InitSound == Init => LexInv
<1> SUFFICES ASSUME Init PROVE LexInv
  OBVIOUS
<1> DEFINE w == InputInit
<1>1. /\ w.buf = <<>> /\ w.bufpos = 0 /\ w.bufcur = 0 /\ w.linenum = 0 /\ w.linepos = 0 /\ w.charnum = 0
  BY DEF InputInit
<1>2. w \in States
  <2>1. <<>> \in Seq(Byte) /\ 0 \in Nat /\ 0 \in Int /\ FALSE \in BOOLEAN
    OBVIOUS
  <2> QED
    BY <2>1 DEF InputInit, States
<1>3. input = w /\ marks = <<>> /\ file \in Seq(Byte) /\ Len(file) \in Nat
  BY LexingAssumption, LenProperties DEF Init
<1> HIDE DEF w
<1>4. LineEnds(0) = {} /\ LineStart(0) = 0
  BY DEF LineEnds, LineStart
<1>5. Cardinality(LineEnds(0)) = 0
  BY <1>4, FS_EmptySet
<1>6. Buffered(w)
  BY <1>1, <1>3 DEF Buffered
<1>7. Placed(w.bufpos, w)
  BY <1>1, <1>4, <1>5 DEF Placed, OnLine, Counted
<1>8. w \in Sound
  BY <1>2, <1>6, <1>7 DEF Sound
<1> QED
  BY <1>3, <1>8 DEF LexInv

LEMMA MatchSound ==
  ASSUME LexInv, MatchSpaces \/ MatchIdentifier \/ MatchVersion \/ MatchArrow \/ MatchCharacter
  PROVE  LexInv'
<1>1. input \in Sound
  BY DEF LexInv
<1>2. input' \in Ahead(input)
  <2>1. CASE MatchSpaces
    BY <1>1, <2>1, SpacesTried DEF MatchSpaces, Match, Tried
  <2>2. CASE MatchIdentifier
    BY <1>1, <2>2, IdentifierTried DEF MatchIdentifier, Match, Tried
  <2>3. CASE MatchVersion
    BY <1>1, <2>3, VersionAhead DEF MatchVersion, Match
  <2>4. CASE MatchArrow
    <3>1. <<60, 45>> \in Seq(Byte \ {LF, CR})
      BY DEF Byte, LF, CR
    <3> QED
      BY <1>1, <2>4, <3>1, StringTried DEF MatchArrow, Match, Tried
  <2>5. CASE MatchCharacter
    <3>1. PICK c \in Marks : Match(match_character(input, {c}))
      BY <2>5 DEF MatchCharacter
    <3>2. LF \notin {c} /\ CR \notin {c}
      BY LexingAssumption
    <3> QED
      BY <1>1, <3>1, <3>2, CharacterTried DEF Match, Tried
  <2> QED
    BY <2>1, <2>2, <2>3, <2>4, <2>5
<1>3. file' = file /\ ascii' = ascii /\ marks' = marks
  BY DEF MatchSpaces, MatchIdentifier, MatchVersion, MatchArrow, MatchCharacter, Match
<1> QED
  BY <1>2, <1>3, StaysAhead

LEMMA NoteSound ==
  ASSUME LexInv, Note
  PROVE  LexInv'
<1>1. /\ input \in Sound /\ input \in States /\ marks \in Seq(Noted) /\ Buffered(input) /\ Placed(input.bufpos, input)
      /\ input.bufpos \in Nat /\ input.bufcur \in Nat /\ Len(marks) \in Nat
  BY BufferType, LenProperties DEF LexInv
<1>2. file' = file /\ ascii' = ascii /\ input' = input /\ marks' = Append(marks, Place)
  BY DEF Note
<1>3. Place \in Noted /\ Place.bufcur = input.bufcur
  BY <1>1 DEF Place, Noted, States
<1>4. Placed(input.bufpos, Place)
  BY <1>1 DEF Placed, OnLine, Counted, Place
<1>5. Sound' = Sound /\ Places' = Places
  BY <1>2, FileStays
<1>6. /\ marks' \in Seq(Noted) /\ Len(marks') = Len(marks) + 1
      /\ \A k \in 1 .. Len(marks) : marks'[k] = marks[k]
      /\ marks'[Len(marks) + 1] = Place
  BY <1>1, <1>2, <1>3, AppendProperties
<1>7. ASSUME NEW k \in 1 .. Len(marks')
      PROVE  marks'[k].bufcur <= Len(input.buf) /\ <<input.bufpos, marks'[k]>> \in Places
  <2>1. CASE k \in 1 .. Len(marks)
    BY <1>6, <2>1 DEF LexInv
  <2>2. CASE k = Len(marks) + 1
    <3>1. marks'[k] = Place /\ Place.bufcur <= Len(input.buf)
      BY <1>1, <1>3, <1>6, <2>2 DEF Buffered
    <3>2. <<input.bufpos, Place>> \in Places
      BY <1>1, <1>3, <1>4 DEF Places
    <3> QED
      BY <3>1, <3>2
  <2> QED
    BY <1>1, <1>6, <2>1, <2>2
<1> QED
  BY <1>1, <1>2, <1>5, <1>6, <1>7 DEF LexInv

LEMMA ReleaseSound ==
  ASSUME LexInv, Release
  PROVE  LexInv'
<1>1. input \in Sound /\ marks \in Seq(Noted)
  BY DEF LexInv
<1>2. file' = file /\ ascii' = ascii /\ input' = input /\ marks' = Front(marks) /\ marks # <<>>
  BY DEF Release
<1>3. input' \in Ahead(input)
  BY <1>1, <1>2, AheadSelf
<1> QED
  BY <1>1, <1>2, <1>3, FrontKeeps, MatchKeeps

LEMMA UnwindSound ==
  ASSUME LexInv, Unwind
  PROVE  LexInv'
<1> DEFINE m == Last(marks)
           v == GoBack(input, m)
<1>1. /\ input \in Sound /\ input \in States /\ marks \in Seq(Noted) /\ Buffered(input) /\ input.bufpos \in Nat
      /\ Len(input.buf) \in Nat
  BY BufferType DEF LexInv
<1>2. file' = file /\ ascii' = ascii /\ input' = No(v) /\ marks' = Front(marks) /\ marks # <<>>
  BY DEF Unwind
<1>3. /\ marks' \in Seq(Noted) /\ Len(marks') <= Len(marks)
      /\ \A k \in 1 .. Len(marks') : marks'[k] = marks[k]
      /\ Len(marks) \in 1 .. Len(marks) /\ m = marks[Len(marks)]
  BY <1>1, <1>2, FrontKeeps
<1> HIDE DEF m
<1>4. m \in Noted /\ m.bufcur <= Len(input.buf) /\ Placed(input.bufpos, m)
  BY <1>1, <1>3, ElementOfSeq DEF LexInv, Places
<1>5. /\ v \in States /\ v.buf = input.buf /\ v.bufpos = input.bufpos /\ v.bufcur = m.bufcur
      /\ v.linenum = m.linenum /\ v.linepos = m.linepos /\ v.charnum = m.charnum
  BY <1>1, <1>4 DEF States, Noted, GoBack
<1> HIDE DEF v
<1>6. Buffered(v)
  BY <1>1, <1>4, <1>5 DEF Buffered
<1>7. Placed(v.bufpos, v)
  BY <1>4, <1>5 DEF Placed, OnLine, Counted
<1>8. v \in Sound
  BY <1>5, <1>6, <1>7 DEF Sound
<1>9. input' \in Sound /\ input'.bufpos = input.bufpos /\ Len(input'.buf) >= Len(input.buf)
  <2>1. No(v) \in Ahead(v)
    BY <1>8, Verdicts
  <2>2. Len(v.buf) = Len(input.buf) /\ input' \in Ahead(v)
    BY <1>2, <1>5, <2>1
  <2> QED
    BY <1>5, <2>2 DEF Ahead
<1>10. Sound' = Sound /\ Places' = Places
  BY <1>2, FileStays
<1>11. ASSUME NEW k \in 1 .. Len(marks')
       PROVE  marks'[k].bufcur <= Len(input'.buf) /\ <<input'.bufpos, marks'[k]>> \in Places
  <2>1. k \in 1 .. Len(marks) /\ marks'[k] = marks[k]
    <3>1. Len(marks) \in Nat /\ Len(marks') \in Nat
      BY <1>1, <1>3, LenProperties
    <3> QED
      BY <1>3, <3>1
  <2>2. marks[k].bufcur <= Len(input.buf) /\ <<input.bufpos, marks[k]>> \in Places /\ marks[k].bufcur \in Nat
    <3>1. marks[k] \in Noted
      BY <1>1, <2>1, ElementOfSeq
    <3> QED
      BY <2>1, <3>1 DEF LexInv, Noted
  <2>3. Len(input'.buf) \in Nat
    BY <1>9, BufferType
  <2> QED
    BY <1>1, <1>9, <2>1, <2>2, <2>3
<1> QED
  BY <1>3, <1>9, <1>10, <1>11 DEF LexInv

LEMMA SkipSound ==
  ASSUME LexInv, Skip
  PROVE  LexInv'
<1> DEFINE i == match_identifier(input)
           s == IF i.ok THEN i ELSE match_spaces(i)
           t == IF s.ok THEN s ELSE TakeOne(s)
<1>1. file' = file /\ ascii' = ascii /\ marks' = marks /\ input' = No(t)
  BY DEF Skip, Match, OrElse
<1>2. input \in Sound
  BY DEF LexInv
<1>3. i \in Ahead(input) /\ i \in Sound /\ \A u \in Ahead(i) : u \in Ahead(input)
  BY <1>2, IdentifierTried, OneByOne DEF Tried
<1> HIDE DEF i
<1>4. s \in Ahead(input) /\ (~ s.ok => NoEol(s))
  BY <1>3, SpacesTried DEF Tried
<1> HIDE DEF s
<1>5. s \in Sound /\ \A u \in Ahead(s) : u \in Ahead(input)
  BY <1>2, <1>4, OneByOne
<1>6. t \in Ahead(input)
  BY <1>4, <1>5, AnyTaken
<1> HIDE DEF t
<1>7. t \in Sound /\ \A u \in Ahead(t) : u \in Ahead(input)
  BY <1>2, <1>6, OneByOne
<1>8. input' \in Ahead(input)
  BY <1>1, <1>7, Verdicts
<1> QED
  BY <1>1, <1>8, StaysAhead

LEMMA CommitKeeps ==
  ASSUME LexInv, Commit
  PROVE  LexInv'
<1>1. /\ file' = file /\ ascii' = ascii /\ marks' = <<>>
      /\ input' = input_state__commit_buffer(input)
  BY DEF Commit, Match
<1>2. input' \in Sound
  BY <1>1, CommitSound DEF LexInv
<1>3. Sound' = Sound
  BY <1>1, FileStays
<1>4. marks' \in Seq(Noted) /\ Len(marks') = 0
  BY <1>1
<1> QED
  BY <1>2, <1>3, <1>4 DEF LexInv

LEMMA SpacesBehind ==
  ASSUME LexInv, NEW w \in Ahead(input), NEW e \in Nat
  PROVE  Yes([match_spaces(w) EXCEPT !.errnum = e]) \in Ahead(input)
<1> DEFINE s == match_spaces(w)
           v == [s EXCEPT !.errnum = e]
<1>1. input \in Sound /\ w \in Sound /\ \A u \in Ahead(w) : u \in Ahead(input)
  BY OneByOne DEF LexInv
<1>2. s \in Ahead(w)
  BY <1>1, SpacesTried DEF Tried
<1> HIDE DEF s
<1>3. s \in Sound /\ s \in States /\ s \in Ahead(input)
  BY <1>1, <1>2, OneByOne, BufferType
<1>4. v \in States /\ SamePlace(s, v)
  BY <1>3 DEF States, SamePlace
<1> HIDE DEF v
<1>5. v \in Ahead(s)
  BY <1>3, <1>4, AheadAtPlace
<1>6. v \in Ahead(input) /\ v \in Sound
  BY <1>1, <1>3, <1>5, OneByOne
<1>7. Yes(v) \in Ahead(input)
  BY <1>1, <1>6, Verdicts, OneByOne
<1> QED
  BY <1>7 DEF v, s

\* The errors are counted.
LEMMA ReadAhead ==
  ASSUME LexInv, NEW kind, NEW w \in Ahead(input), NEW value, NEW errors \in Nat, Read(kind, w, value, errors)
  PROVE  file' = file /\ ascii' = ascii /\ marks' = marks /\ input' \in Ahead(input)
<1> DEFINE e == input.errnum + errors
<1>1. e \in Nat
  <2>1. input.errnum \in Nat
    BY CodeType DEF LexInv
  <2> QED
    BY <2>1
<1>2. file' = file /\ ascii' = ascii /\ marks' = marks /\ input' = Yes([match_spaces(w) EXCEPT !.errnum = e])
  BY DEF Read
<1> HIDE DEF e
<1> QED
  BY <1>1, <1>2, SpacesBehind

LEMMA LiteralAhead ==
  ASSUME LexInv, NEW kind, NEW w \in Ahead(input), NEW b, ReadLiteral(kind, w, b)
  PROVE  file' = file /\ ascii' = ascii /\ marks' = marks /\ input' \in Ahead(input)
<1>1. w.errnum \in Nat /\ input.errnum \in Nat
  <2>1. w \in Sound /\ input \in Sound
    BY OneByOne DEF LexInv
  <2> QED
    BY <2>1, CodeType
<1>2. CASE w.errnum > input.errnum
  <2> DEFINE e == w.errnum - input.errnum
  <2>1. e \in Nat /\ Read(kind, w, NoValue, e)
    BY <1>1, <1>2 DEF ReadLiteral
  <2> HIDE DEF e
  <2> QED
    BY <2>1, ReadAhead
<1>3. CASE ~ w.errnum > input.errnum
  <2>1. PICK raw, value : ReadValue(kind, w, raw, value)
    BY <1>3 DEF ReadLiteral
  <2> DEFINE S == {f \in {"missing", "escape", "encoding"} :
                     CASE f = "missing"  -> kind = "CHARCLASS" /\ raw = <<>>
                       [] f = "escape"   -> ~ value.ok
                       [] f = "encoding" -> ~ ascii /\ ~ is_valid_utf8_string(SubSeq(value.p, 1, value.n))}
             e == Cardinality(S)
  <2>2. Read(kind, w, value, e)
    BY <2>1 DEF ReadValue
  <2>3. S \subseteq {"missing", "escape", "encoding"}
    OBVIOUS
  <2> HIDE DEF S
  <2>4. IsFiniteSet({"missing", "escape", "encoding"})
    <3>1. IsFiniteSet({"missing"}) /\ IsFiniteSet({"missing"} \cup {"escape"})
      BY FS_Singleton, FS_AddElement
    <3>2. IsFiniteSet({"missing"} \cup {"escape"} \cup {"encoding"})
      BY <3>1, FS_AddElement
    <3>3. {"missing"} \cup {"escape"} \cup {"encoding"} = {"missing", "escape", "encoding"}
      OBVIOUS
    <3> QED
      BY <3>2, <3>3
  <2>5. e \in Nat
    BY <2>3, <2>4, FS_Subset, FS_CardinalityType
  <2> HIDE DEF e
  <2> QED
    BY <2>2, <2>5, ReadAhead
<1> QED
  BY <1>2, <1>3

LEMMA ReadSound ==
  ASSUME LexInv, ReadClass \/ ReadString \/ ReadDot \/ ReadCode
  PROVE  LexInv'
<1>1. input \in Sound
  BY DEF LexInv
<1>2. file' = file /\ ascii' = ascii /\ marks' = marks /\ input' \in Ahead(input)
  <2>1. CASE ReadClass
    <3>1. PICK b \in Behinds : ReadLiteral("CHARCLASS", match_character_class(input), b)
      BY <2>1 DEF ReadClass
    <3>2. match_character_class(input) \in Ahead(input)
      BY <1>1, QuotationTried DEF Tried
    <3> QED
      BY <3>1, <3>2, LiteralAhead
  <2>2. CASE ReadString
    <3>1. PICK b \in Behinds : ReadLiteral("STRING", Quotation(input), b)
      BY <2>2 DEF ReadString
    <3>2. Quotation(input) \in Ahead(input)
      BY <1>1, QuotationTried DEF Tried
    <3> QED
      BY <3>1, <3>2, LiteralAhead
  <2>3. CASE ReadDot
    <3>1. match_character(input, {DOT}) \in Ahead(input)
      BY <1>1, CharacterTried DEF Tried, DOT, LF, CR
    <3> QED
      BY <2>3, <3>1, ReadAhead DEF ReadDot
  <2>4. CASE ReadCode
    <3> DEFINE w == match_code_block(input)
               e == w.errnum - input.errnum
               s == [match_spaces(w) EXCEPT !.errnum = input.errnum + e]
    <3>1. w \in Ahead(input)
      BY <1>1, CodeBlockTried DEF Tried
    <3>2. file' = file /\ ascii' = ascii /\ marks' = marks /\ input' = Yes(s)
      BY <2>4 DEF ReadCode, Read
    <3> HIDE DEF w
    <3>3. w.errnum \in Nat /\ input.errnum \in Nat
      <4>1. w \in Sound
        BY <1>1, <3>1, OneByOne
      <4> QED
        BY <1>1, <4>1, CodeType
    <3>4. input.errnum + e = w.errnum
      BY <3>3
    <3>5. input' = Yes([match_spaces(w) EXCEPT !.errnum = w.errnum])
      BY <3>2, <3>4
    <3> QED
      BY <3>1, <3>2, <3>3, <3>5, SpacesBehind
  <2> QED
    BY <2>1, <2>2, <2>3, <2>4
<1> QED
  BY <1>2, StaysAhead

LEMMA StepSound == LexInv /\ [Next]_lexVars => LexInv'
<1> SUFFICES ASSUME LexInv, [Next]_lexVars PROVE LexInv'
  OBVIOUS
<1>1. CASE file' = file /\ ascii' = ascii /\ input' = input /\ marks' = marks
  <2>1. input' \in Ahead(input)
    BY <1>1, AheadSelf DEF LexInv
  <2> QED
    BY <1>1, <2>1, StaysAhead
<1>2. CASE Parse
  <2>1. CASE MatchSpaces \/ MatchIdentifier \/ MatchVersion \/ MatchArrow \/ MatchCharacter
    BY <2>1, MatchSound
  <2>2. CASE Note
    BY <2>2, NoteSound
  <2>3. CASE Release
    BY <2>3, ReleaseSound
  <2>4. CASE Unwind
    BY <2>4, UnwindSound
  <2>5. CASE Skip
    BY <2>5, SkipSound
  <2>6. CASE Commit
    BY <2>6, CommitKeeps
  <2>7. CASE ReadClass \/ ReadString \/ ReadDot \/ ReadCode
    BY <2>7, ReadSound
  <2>8. CASE Generate
    BY <1>1, <2>8 DEF Generate
  <2> QED
    BY <1>2, <2>1, <2>2, <2>3, <2>4, <2>5, <2>6, <2>7, <2>8 DEF Parse
<1>3. CASE WriteCode
  BY <1>1, <1>3 DEF WriteCode
<1>4. CASE UNCHANGED lexVars
  BY <1>1, <1>4 DEF lexVars
<1> QED
  BY <1>2, <1>3, <1>4 DEF Next

LEMMA BufferIsPart ==
  ASSUME NEW w \in Sound
  PROVE  w.buf = SubSeq(file, w.bufpos + 1, w.bufpos + Len(w.buf))
<1> DEFINE a == w.bufpos + 1
           b == w.bufpos + Len(w.buf)
           s == SubSeq(file, a, b)
<1>1. /\ file \in Seq(Byte) /\ Len(file) \in Nat /\ w.buf \in Seq(Byte) /\ Len(w.buf) \in Nat /\ w.bufpos \in Nat
      /\ b <= Len(file) /\ \A k \in 1 .. Len(w.buf) : w.buf[k] = file[w.bufpos + k]
  BY BufferType DEF Buffered
<1>2. a \in Int /\ b \in Int /\ \A i \in a .. b : file[i] \in Byte
  BY <1>1, ElementOfSeq
<1>3. b - a + 1 = Len(w.buf) /\ (a <= b <=> Len(w.buf) >= 1)
  BY <1>1
<1>4. \A i \in 1 .. Len(w.buf) : a + i - 1 = w.bufpos + i
  BY <1>1
<1> HIDE DEF a, b
<1>5. /\ s \in Seq(Byte)
      /\ Len(s) = IF a <= b THEN b - a + 1 ELSE 0
      /\ \A i \in 1 .. b - a + 1 : s[i] = file[a + i - 1]
  BY <1>2, SubSeqProperties
<1> HIDE DEF s
<1>6. Len(s) = Len(w.buf)
  BY <1>1, <1>3, <1>5
<1>7. \A i \in 1 .. Len(w.buf) : s[i] = w.buf[i]
  BY <1>1, <1>3, <1>4, <1>5
<1>8. s = w.buf
  BY <1>1, <1>5, <1>6, <1>7, SeqEqual
<1> QED
  BY <1>8 DEF s, a, b

\* Whatever is looked ahead at, given back, skipped and flushed (match_eol,
\* input_state__refill_buffer, input_state__commit_buffer and the places that the parse
\* functions go back to), the buffer holds the bytes of the file at its place and lines are
\* counted right; the column is never too small, and right for a line that began in the buffer.
THEOREM PositionsAreRight == Spec => []PositionsRight
<1>1. LexInv => PositionsRight
  <2> SUFFICES ASSUME LexInv PROVE PositionsRight
    OBVIOUS
  <2>1. input \in Sound
    BY DEF LexInv
  <2>2. /\ input.bufcur <= Len(input.buf)
        /\ input.linenum = Cardinality(LineEnds(Pos)) /\ input.linepos = LineStart(Pos)
    BY <2>1, BufferType DEF Buffered, Placed, OnLine, Pos
  <2>3. input.buf = SubSeq(file, input.bufpos + 1, input.bufpos + Len(input.buf))
    BY <2>1, BufferIsPart
  <2>4. Readable => IF input.linepos >= input.bufpos THEN column_number(input) = TrueColumn
                    ELSE column_number(input) >= TrueColumn
    BY <2>1, ColumnRight DEF TrueColumn, Pos
  <2> QED
    BY <2>2, <2>3, <2>4 DEF PositionsRight
<1> QED
  BY <1>1, InitSound, StepSound, PTL DEF Spec

-----------------------------------------------------------------------------
(* The characters that a parser sees in a text are those of the checker.    *)

LEMMA PayloadType ==
  ASSUME NEW c \in Byte, Length(c) > 0
  PROVE  Payload(c) \in Nat
BY DEF Payload, Length, Byte

LEMMA ExtendedType ==
  ASSUME NEW u \in Nat, NEW c \in Byte
  PROVE  Extended(u, c) \in Nat
BY DEF Extended, Byte

\* The codes of the first bytes of a character, of which m are there.
LEMMA CodeSteps ==
  ASSUME NEW s \in Seq(Byte), NEW m \in 1 .. Len(s), Length(s[1]) > 0
  PROVE  \E u \in [0 .. (m - 1) -> Nat] :
           /\ CodeIn(s, m) = u[m - 1]
           /\ u[0] = Payload(s[1])
           /\ \A k \in 1 .. (m - 1) : u[k] = Extended(u[k - 1], s[k + 1])
<1> DEFINE l == m - 1
           x0 == Payload(s[1])
           Fits(f) == f = [k \in 0 .. l |-> IF k = 0 THEN x0 ELSE Extended(f[k - 1], s[k + 1])]
           u == CHOOSE f : Fits(f)
           Step == [k \in 1 .. l |-> [x \in Nat |-> Extended(x, s[k + 1])]]
<1>1. /\ Len(s) \in Nat /\ l \in Nat /\ \A i \in 1 .. Len(s) : s[i] \in Byte
      /\ \A k \in 1 .. l : k + 1 \in 1 .. Len(s)
  BY LenProperties, ElementOfSeq
<1>2. x0 \in Nat
  <2>1. s[1] \in Byte
    BY <1>1
  <2> QED
    BY <2>1, PayloadType
<1>3. CodeIn(s, m) = u[l]
  BY DEF CodeIn
<1> HIDE DEF l, x0
<1>4. Step \in [1 .. l -> [Nat -> Nat]]
  BY <1>1, ExtendedType
<1>5. \A k \in 1 .. l, x \in Nat : Step[k][x] = Extended(x, s[k + 1])
  OBVIOUS
<1> HIDE DEF Step
<1>6. PICK f \in [0 .. l -> Nat] : Iterate(f, l, x0, Step)
  BY <1>1, <1>2, <1>4, Iterates
<1>7. ASSUME NEW k \in 0 .. l, k # 0 PROVE Step[k][f[k - 1]] = Extended(f[k - 1], s[k + 1])
  <2>1. k \in 1 .. l /\ k - 1 \in 0 .. l
    BY <1>1, <1>7
  <2> QED
    BY <1>5, <1>6, <2>1
<1>8. Fits(f)
  BY <1>6, <1>7 DEF Iterate
<1>9. Fits(u)
  <2> HIDE DEF Fits
  <2> QED
    BY <1>8
<1> HIDE DEF u
<1>10. \A k \in 1 .. l : k # 0 /\ k - 1 \in 0 .. l /\ k \in 0 .. l
  BY <1>1
<1>11. u[0] = x0 /\ \A k \in 1 .. l : u[k] = Extended(u[k - 1], s[k + 1])
  BY <1>1, <1>9, <1>10
<1>12. \A k \in 0 .. l : u[k] \in Nat
  <2> DEFINE S == {k \in 0 .. l : u[k] \in Nat}
  <2>1. 0 \in S
    BY <1>1, <1>2, <1>11
  <2>2. ASSUME NEW k \in 0 .. l, k # l, k \in S PROVE k + 1 \in S
    <3>1. k + 1 \in 1 .. l /\ (k + 1) - 1 = k
      BY <1>1, <2>2
    <3> HIDE DEF S
    <3>3. (k + 1) + 1 \in 1 .. Len(s)
      BY <1>1, <3>1
    <3>2. u[k + 1] = Extended(u[k], s[(k + 1) + 1]) /\ s[(k + 1) + 1] \in Byte
      BY <1>1, <1>11, <3>1, <3>3
    <3> QED
      BY <1>10, <2>2, <3>1, <3>2, ExtendedType DEF S
  <2>3. \A k \in 0 .. l : k \in S
    <3> HIDE DEF S
    <3> QED
      BY <1>1, <2>1, <2>2, Upwards
  <2> QED
    BY <2>3
<1>13. u \in [0 .. l -> Nat]
  <2>1. u = [k \in 0 .. l |-> IF k = 0 THEN x0 ELSE Extended(u[k - 1], s[k + 1])]
    BY <1>9
  <2>2. DOMAIN u = 0 .. l /\ u = [k \in 0 .. l |-> u[k]]
    BY <2>1
  <2> HIDE DEF Fits
  <2> QED
    BY <1>12, <2>2
<1> QED
  BY <1>3, <1>11, <1>13 DEF l, x0

\* What the checker says after each byte of s.
Checked(f, s) ==
  /\ f[0].ok /\ f[0].k = 1
  /\ \A i \in 1 .. Len(s) : f[i] = ValidByte(f[i - 1], s[i])
  /\ is_valid_utf8_string(s) <=> f[Len(s)].ok /\ f[Len(s)].k = 1

LEMMA CheckSteps ==
  ASSUME NEW s \in Seq(Byte)
  PROVE  \E f : Checked(f, s)
<1> DEFINE m == Len(s)
           w == CHOOSE f : ValidSteps(f, s, m)
<1>1. m \in Nat
  BY LenProperties
<1>2. is_valid_utf8_string(s) <=> w[m].ok /\ w[m].k = 1
  BY DEF is_valid_utf8_string, ValidSteps
<1>3. ValidSteps(w, s, m)
  <2> HIDE DEF m
  <2> QED
    BY <1>1, ValidStepsExist
<1> HIDE DEF w
<1>4. w[0].ok /\ w[0].k = 1
  <2>1. w[0] = [ok |-> TRUE, k |-> 1, n |-> 0, u |-> 0]
    <3> HIDE DEF m
    <3> QED
      BY <1>1, <1>3 DEF ValidSteps
  <2> QED
    BY <2>1
<1>5. ASSUME NEW i \in 1 .. m PROVE w[i] = ValidByte(w[i - 1], s[i])
  <2>1. i \in 0 .. m /\ i # 0
    BY <1>1
  <2> HIDE DEF m
  <2> QED
    BY <1>3, <2>1 DEF ValidSteps
<1>6. Checked(w, s)
  BY <1>2, <1>4, <1>5 DEF Checked
<1> QED
  BY <1>6

\* What is not valid stays so.
LEMMA ValidBefore ==
  ASSUME NEW s \in Seq(Byte), NEW f, Checked(f, s), NEW i \in 0 .. Len(s), NEW j \in i .. Len(s), f[j].ok
  PROVE  f[i].ok
<1> DEFINE d == j - i
           S == {k \in 0 .. d : f[j - k].ok}
<1>1. Len(s) \in Nat /\ d \in Nat /\ j - 0 = j /\ j - d = i
  BY LenProperties
<1>2. 0 \in S
  BY <1>1
<1>3. ASSUME NEW k \in 0 .. d, k # d, k \in S PROVE k + 1 \in S
  <2> DEFINE h == j - k
  <2>1. h \in 1 .. Len(s) /\ j - (k + 1) = h - 1 /\ k + 1 \in 0 .. d
    BY <1>1, <1>3
  <2>2. f[h].ok
    BY <1>3
  <2> HIDE DEF h
  <2>3. f[h] = ValidByte(f[h - 1], s[h])
    BY <2>1 DEF Checked
  <2>4. ~ f[h - 1].ok => ValidByte(f[h - 1], s[h]) = f[h - 1]
    BY DEF ValidByte
  <2>5. f[h - 1].ok
    BY <2>2, <2>3, <2>4
  <2> QED
    BY <2>1, <2>5
<1>4. \A k \in 0 .. d : k \in S
  <2> HIDE DEF S, d
  <2> QED
    BY <1>1, <1>2, <1>3, Upwards
<1>5. d \in S
  <2> HIDE DEF S, d
  <2> QED
    BY <1>1, <1>4
<1> QED
  BY <1>1, <1>5

LEMMA FirstParts ==
  ASSUME NEW x, NEW c, x.ok, x.k = 1
  PROVE  /\ ValidByte(x, c).ok <=> Length(c) > 0
         /\ ValidByte(x, c).k = Length(c) /\ ValidByte(x, c).n = Length(c) /\ ValidByte(x, c).u = Payload(c)
<1> DEFINE t == Length(c) > 0
           v == ValidByte(x, c)
           j == Length(c)
           p == Payload(c)
<1>1. v = [ok |-> t, k |-> j, n |-> j, u |-> p]
  BY ValidFirst
<1> HIDE DEF t, v, j, p
<1>2. v.ok = t /\ v.k = j /\ v.n = j /\ v.u = p
  BY <1>1
<1> QED
  BY Zenon, <1>2 DEF t, v, j, p

LEMMA NextParts ==
  ASSUME NEW x, NEW c, x.ok, x.k # 1
  PROVE  /\ ValidByte(x, c).ok <=> Continues(c) /\ (x.k = 2 => Extended(x.u, c) >= Least(x.n))
         /\ ValidByte(x, c).k = x.k - 1 /\ ValidByte(x, c).n = x.n /\ ValidByte(x, c).u = Extended(x.u, c)
<1> DEFINE t == Continues(c) /\ (x.k = 2 => Extended(x.u, c) >= Least(x.n))
           u == Extended(x.u, c)
           v == ValidByte(x, c)
           j == x.k - 1
           n == x.n
<1>1. v = [ok |-> t, k |-> j, n |-> n, u |-> u]
  BY ValidNext
<1> HIDE DEF t, u, v, j, n
<1>2. v.ok = t /\ v.k = j /\ v.n = n /\ v.u = u
  BY <1>1
<1> QED
  BY Zenon, <1>2 DEF t, u, v, j, n

\* The rest r of a text s from a place on.
Behind(s, i, r) == /\ r \in Seq(Byte) /\ Len(r) = Len(s) - i
                   /\ \A j \in 1 .. Len(r) : r[j] = s[i + j]

\* The codes of the first m bytes of a character.
Codes(r, m, u) == /\ u \in [0 .. (m - 1) -> Nat] /\ u[0] = Payload(r[1])
                  /\ \A k \in 1 .. (m - 1) : u[k] = Extended(u[k - 1], r[k + 1])

LEMMA CodesExist ==
  ASSUME NEW r \in Seq(Byte), NEW m \in 1 .. Len(r), Length(r[1]) > 0
  PROVE  \E u : Codes(r, m, u) /\ CodeIn(r, m) = u[m - 1]
<1>1. PICK u \in [0 .. (m - 1) -> Nat] :
           /\ CodeIn(r, m) = u[m - 1]
           /\ u[0] = Payload(r[1])
           /\ \A k \in 1 .. (m - 1) : u[k] = Extended(u[k - 1], r[k + 1])
  BY CodeSteps
<1> QED
  BY <1>1 DEF Codes

\* What is checked of the first j bytes of a character of n.
WithinCharacter(x, r, n, u, j) ==
  /\ x.k = n - j + 1 /\ x.n = n /\ x.u = u[j - 1]
  /\ \A h \in 2 .. j : Continues(r[h])
  /\ j = n => u[j - 1] >= Least(n)

LEMMA CheckedBehind ==
  ASSUME NEW s \in Seq(Byte), NEW f, Checked(f, s), NEW i \in 0 .. (Len(s) - 1), NEW r, Behind(s, i, r)
  PROVE  /\ Len(s) \in Nat /\ Len(r) \in Nat /\ Len(r) = Len(s) - i
         /\ \A j \in 1 .. Len(r) : f[i + j] = ValidByte(f[i + j - 1], r[j]) /\ r[j] \in Byte
<1>1. Len(s) \in Nat /\ Len(r) \in Nat /\ Len(r) = Len(s) - i /\ r \in Seq(Byte)
  BY LenProperties DEF Behind
<1>2. ASSUME NEW j \in 1 .. Len(r) PROVE f[i + j] = ValidByte(f[i + j - 1], r[j]) /\ r[j] \in Byte
  <2> DEFINE h == i + j
  <2>1. h \in 1 .. Len(s) /\ r[j] = s[h] /\ r[j] \in Byte
    BY <1>1, ElementOfSeq DEF Behind
  <2> HIDE DEF h
  <2>2. f[h] = ValidByte(f[h - 1], s[h])
    BY <2>1 DEF Checked
  <2> QED
    BY <2>1, <2>2 DEF h
<1> QED
  BY <1>1, <1>2

LEMMA CheckedWithin ==
  ASSUME NEW s \in Seq(Byte), NEW f, Checked(f, s), NEW i \in 0 .. (Len(s) - 1), NEW r, Behind(s, i, r),
         f[i].ok, f[i].k = 1, NEW n \in Nat, n = Length(r[1]), n > 0,
         NEW m \in 1 .. n, m <= Len(r), NEW u, Codes(r, m, u)
  PROVE  \A j \in 1 .. m : f[i + j].ok => WithinCharacter(f[i + j], r, n, u, j)
<1>1. /\ Len(s) \in Nat /\ Len(r) \in Nat /\ m \in Nat
      /\ \A j \in 1 .. Len(r) : f[i + j] = ValidByte(f[i + j - 1], r[j])
  BY CheckedBehind
<1> DEFINE l == m - 1
           S == {k \in 0 .. l : f[i + (k + 1)].ok => WithinCharacter(f[i + (k + 1)], r, n, u, k + 1)}
<1>2. 0 \in S
  <2> DEFINE x == f[i]
             c == r[1]
  <2>1. f[i + 1] = ValidByte(x, c)
    <3>1. 1 \in 1 .. Len(r) /\ i + 1 - 1 = i
      BY <1>1
    <3> QED
      BY <1>1, <3>1
  <2>2. f[i + 1].k = n /\ f[i + 1].n = n /\ f[i + 1].u = u[0]
    <3>1. x.ok /\ x.k = 1 /\ Length(c) = n /\ u[0] = Payload(c)
      BY DEF Codes
    <3> HIDE DEF x, c
    <3> QED
      BY <2>1, <3>1, FirstParts
  <2> HIDE DEF x, c
  <2>3. u[0] \in Nat
    <3>1. 0 \in 0 .. (m - 1)
      BY <1>1
    <3> QED
      BY <3>1 DEF Codes
  <2>4. 1 = n => u[0] >= Least(n)
    BY <2>3 DEF Least
  <2>5. n - 1 + 1 = n /\ 1 - 1 = 0 /\ 0 + 1 = 1 /\ 0 \in 0 .. l /\ \A h \in 2 .. 1 : Continues(r[h])
    BY <1>1
  <2>6. WithinCharacter(f[i + 1], r, n, u, 1)
    BY <2>2, <2>4, <2>5 DEF WithinCharacter
  <2> HIDE DEF l
  <2> QED
    BY <2>5, <2>6
<1>3. ASSUME NEW k \in 0 .. l, k # l, k \in S PROVE k + 1 \in S
  <2> DEFINE j == k + 1
             x == f[i + j]
             c == r[j + 1]
             y == f[i + (j + 1)]
  <2>1. /\ j \in 1 .. (m - 1) /\ j + 1 \in 1 .. Len(r) /\ i + (j + 1) - 1 = i + j /\ j \in 0 .. l
        /\ j + 1 \in 1 .. m /\ j < n /\ j \in Nat
    BY <1>1, <1>3
  <2>6. /\ n - j + 1 # 1 /\ (n - j + 1 = 2 <=> j + 1 = n) /\ n - j + 1 - 1 = n - (j + 1) + 1
    <3> HIDE DEF j
    <3> QED
      BY <2>1
  <2>7. j \in Nat
    BY <2>1
  <2>2. x.ok => WithinCharacter(x, r, n, u, j)
    BY <1>3
  <2>3. y = ValidByte(x, c)
    BY <1>1, <2>1
  <2>4. u[j] = Extended(u[j - 1], c) /\ j + 1 - 1 = j
    BY <2>1 DEF Codes
  <2>5. ASSUME y.ok PROVE WithinCharacter(y, r, n, u, j + 1)
    <3>1. x.ok
      <4>1. ~ x.ok => ValidByte(x, c) = x
        BY DEF ValidByte
      <4> HIDE DEF x, y, c
      <4> QED
        BY <2>3, <2>5, <4>1
    <3>2. x.k = n - j + 1 /\ x.n = n /\ x.u = u[j - 1] /\ \A h \in 2 .. j : Continues(r[h])
      BY <2>2, <3>1 DEF WithinCharacter
    <3>3. x.k # 1 /\ (x.k = 2 <=> j + 1 = n) /\ x.k - 1 = n - (j + 1) + 1
      <4>1. x.k = n - j + 1
        BY <3>2
      <4> HIDE DEF x, j
      <4> QED
        BY <4>1, <2>6, <2>7
    <3> HIDE DEF x, y, c, j
    <3>4. /\ y.ok => Continues(c) /\ (x.k = 2 => Extended(x.u, c) >= Least(x.n))
          /\ y.k = x.k - 1 /\ y.n = x.n /\ y.u = Extended(x.u, c)
      BY <2>3, <3>1, <3>3, NextParts
    <3>5. y.k = n - (j + 1) + 1 /\ y.n = n /\ y.u = u[j] /\ Continues(c)
      BY <2>4, <2>5, <3>2, <3>3, <3>4
    <3>6. j + 1 = n => u[j] >= Least(n)
      BY <2>4, <2>5, <3>2, <3>3, <3>4
    <3>7. \A h \in 2 .. (j + 1) : Continues(r[h])
      <4>1. \A h \in 2 .. (j + 1) : h \in 2 .. j \/ h = j + 1
        BY <2>1
      <4> QED
        BY <3>2, <3>5, <4>1 DEF c
    <3>8. u[j + 1 - 1] = u[j]
      BY <2>4
    <3> QED
      BY <2>7, <3>5, <3>6, <3>7, <3>8 DEF WithinCharacter
  <2> QED
    BY <2>1, <2>5
<1>4. \A k \in 0 .. l : k \in S
  <2>1. l \in Nat
    BY <1>1
  <2> HIDE DEF S, l
  <2> QED
    BY <2>1, <1>2, <1>3, Upwards
<1>5. ASSUME NEW j \in 1 .. m PROVE f[i + j].ok => WithinCharacter(f[i + j], r, n, u, j)
  <2>1. j - 1 \in 0 .. l /\ (j - 1) + 1 = j
    BY <1>1
  <2> HIDE DEF l
  <2> QED
    BY <1>4, <2>1
<1> QED
  BY <1>5

LEMMA CheckedToEnd ==
  ASSUME NEW s \in Seq(Byte), NEW f, Checked(f, s), NEW i \in 0 .. (Len(s) - 1), NEW r, Behind(s, i, r),
         f[i].ok, f[i].k = 1, NEW n \in Nat, n = Length(r[1]), n > 0,
         n <= Len(r), NEW u, Codes(r, n, u), \A h \in 2 .. n : Continues(r[h]), u[n - 1] >= Least(n)
  PROVE  f[i + n].ok /\ f[i + n].k = 1
<1>1. /\ Len(s) \in Nat /\ Len(r) \in Nat /\ Len(r) = Len(s) - i
      /\ \A j \in 1 .. Len(r) : f[i + j] = ValidByte(f[i + j - 1], r[j]) /\ r[j] \in Byte
  BY CheckedBehind
<1>2. \A j \in 1 .. n : f[i + j].ok => WithinCharacter(f[i + j], r, n, u, j)
  <2>1. n \in 1 .. n
    OBVIOUS
  <2> QED
    BY <2>1, CheckedWithin
<1> DEFINE l == n - 1
           S == {k \in 0 .. l : f[i + (k + 1)].ok}
<1>3. 0 \in S
  <2> DEFINE x == f[i]
             c == r[1]
  <2>1. f[i + 1] = ValidByte(x, c)
    <3>1. 1 \in 1 .. Len(r) /\ i + 1 - 1 = i
      BY <1>1
    <3> QED
      BY <1>1, <3>1
  <2>2. f[i + 1].ok
    <3>1. x.ok /\ x.k = 1 /\ Length(c) > 0
      OBVIOUS
    <3> HIDE DEF x, c
    <3> QED
      BY <2>1, <3>1, FirstParts
  <2>3. 0 + 1 = 1 /\ 0 \in 0 .. l
    OBVIOUS
  <2> HIDE DEF l
  <2> QED
    BY <2>2, <2>3
<1>4. ASSUME NEW k \in 0 .. l, k # l, k \in S PROVE k + 1 \in S
  <2> DEFINE j == k + 1
             x == f[i + j]
             c == r[j + 1]
             y == f[i + (j + 1)]
  <2>1. /\ j \in 1 .. (n - 1) /\ j + 1 \in 1 .. Len(r) /\ i + (j + 1) - 1 = i + j /\ j \in 0 .. l
        /\ j + 1 \in 2 .. n /\ j < n /\ j \in 1 .. n
    BY <1>1, <1>4
  <2>2. n - j + 1 # 1 /\ (n - j + 1 = 2 => j = n - 1) /\ j \in Nat
    BY <2>1
  <2>3. x.ok
    BY <1>4
  <2>4. WithinCharacter(x, r, n, u, j)
    BY <1>2, <2>1, <2>3
  <2>5. y = ValidByte(x, c) /\ Continues(c)
    BY <1>1, <2>1
  <2>6. u[j] = Extended(u[j - 1], c)
    BY <2>1 DEF Codes
  <2>7. x.k = n - j + 1 /\ x.n = n /\ x.u = u[j - 1]
    BY <2>4 DEF WithinCharacter
  <2> HIDE DEF x, y, c, j
  <2>8. x.k # 1 /\ (x.k = 2 => Extended(x.u, c) >= Least(x.n))
    BY <2>2, <2>6, <2>7
  <2>9. y.ok
    BY <2>3, <2>5, <2>8, NextParts
  <2> QED
    BY <2>1, <2>9 DEF y, j
<1>5. \A k \in 0 .. l : k \in S
  <2>1. l \in Nat
    OBVIOUS
  <2> HIDE DEF S, l
  <2> QED
    BY <2>1, <1>3, <1>4, Upwards
<1>6. l \in 0 .. l /\ l + 1 = n /\ n \in 1 .. n /\ n - n + 1 = 1
  <2>1. ASSUME NEW k \in Nat, k > 0 PROVE k - 1 \in 0 .. (k - 1) /\ k - 1 + 1 = k /\ k \in 1 .. k /\ k - k + 1 = 1
    BY <2>1
  <2> QED
    BY Zenon, <2>1
<1>7. f[i + n].ok
  <2> HIDE DEF l
  <2> QED
    BY <1>5, <1>6
<1>8. f[i + n].k = n - n + 1
  BY <1>2, <1>6, <1>7 DEF WithinCharacter
<1> QED
  BY <1>6, <1>7, <1>8

\* When there is a character at the beginning of r.
Legal(r, n) ==
  n > 0 /\ n <= Len(r) /\ (\A h \in 2 .. n : Continues(r[h])) /\ CodeIn(r, n) >= Least(n)

LEMMA SinglePayload ==
  ASSUME NEW c \in Byte, Length(c) = 1
  PROVE  Payload(c) \in 0 .. 127
<1>1. c \in 0 .. 127
  BY DEF Length, Byte
<1> HIDE DEF Byte
<1>2. Payload(c) = c
  BY <1>1 DEF Payload
<1> QED
  BY <1>1, <1>2

LEMMA DecodedParts ==
  ASSUME NEW r \in Seq(Byte), Len(r) > 0, NEW n, n = Length(r[1])
  PROVE  /\ Legal(r, n) => Decoded(r) = [n |-> n, u |-> CodeIn(r, n)] /\ Decoded(r) # Invalid
         /\ ~ Legal(r, n) => Decoded(r) = Invalid
<1>1. n \in Nat /\ Len(r) \in Nat /\ r[1] \in Byte
  <2>1. Len(r) \in Nat /\ 1 \in 1 .. Len(r)
    BY LenProperties
  <2>2. r[1] \in Byte
    BY <2>1, ElementOfSeq
  <2> QED
    BY <2>1, <2>2, LengthType
<1>2. ASSUME Legal(r, n) PROVE [n |-> n, u |-> CodeIn(r, n)] # Invalid
  <2>1. CASE n # 1
    BY <2>1 DEF Invalid
  <2>2. CASE n = 1
    <3>1. n \in 1 .. Len(r) /\ 1 - 1 = 0
      BY <1>1, <2>2
    <3>2. CodeIn(r, n) = Payload(r[1])
      <4>1. PICK u : Codes(r, n, u) /\ CodeIn(r, n) = u[n - 1]
        BY <1>2, <3>1, CodesExist DEF Legal
      <4> QED
        BY <2>2, <3>1, <4>1 DEF Codes
    <3>3. Payload(r[1]) \in 0 .. 127
      BY <1>1, <2>2, SinglePayload
    <3>4. CodeIn(r, n) # REPLACEMENT
      <4>1. ASSUME NEW c \in 0 .. 127 PROVE c # REPLACEMENT
        BY SMT DEF REPLACEMENT
      <4> QED
        BY <3>2, <3>3, <4>1
    <3> QED
      BY <3>4 DEF Invalid
  <2> QED
    BY <2>1, <2>2
<1>3. Legal(r, n) => Decoded(r) = [n |-> n, u |-> CodeIn(r, n)]
  BY DEF Decoded, Legal
<1>4. ~ Legal(r, n) => Decoded(r) = Invalid
  BY DEF Decoded, Legal
<1> QED
  BY <1>2, <1>3, <1>4

\* Where a decoder sees a character, the checker stands behind it then; where it sees
\* none, the checker rejects the text.
LEMMA CheckedAsSeen ==
  ASSUME NEW s \in Seq(Byte), NEW f, Checked(f, s), NEW i \in 0 .. (Len(s) - 1), NEW r, Behind(s, i, r),
         f[i].ok, f[i].k = 1, NEW n \in Nat, n = Length(r[1])
  PROVE  /\ Legal(r, n) => f[i + n].ok /\ f[i + n].k = 1
         /\ ~ Legal(r, n) => ~ (f[Len(s)].ok /\ f[Len(s)].k = 1)
<1>1. /\ Len(s) \in Nat /\ Len(r) \in Nat /\ Len(r) = Len(s) - i /\ r \in Seq(Byte) /\ 1 \in 1 .. Len(r)
      /\ \A j \in 1 .. Len(r) : f[i + j] = ValidByte(f[i + j - 1], r[j])
  <2>1. /\ Len(s) \in Nat /\ Len(r) \in Nat /\ Len(r) = Len(s) - i
        /\ \A j \in 1 .. Len(r) : f[i + j] = ValidByte(f[i + j - 1], r[j]) /\ r[j] \in Byte
    BY CheckedBehind
  <2>2. r \in Seq(Byte)
    BY DEF Behind
  <2>3. 1 \in 1 .. Len(r)
    BY <2>1
  <2> QED
    BY <2>1, <2>2, <2>3
<1>2. ASSUME Legal(r, n) PROVE f[i + n].ok /\ f[i + n].k = 1
  <2>1. n \in 1 .. Len(r)
    BY <1>1, <1>2 DEF Legal
  <2>2. PICK u : Codes(r, n, u) /\ CodeIn(r, n) = u[n - 1]
    BY <1>1, <1>2, <2>1, CodesExist DEF Legal
  <2> QED
    BY <1>2, <2>2, CheckedToEnd DEF Legal
<1>3. ASSUME n = 0, f[Len(s)].ok PROVE FALSE
  <2>1. f[i + 1] = ValidByte(f[i], r[1])
    <3>1. i + 1 - 1 = i
      OBVIOUS
    <3> QED
      BY <1>1, <3>1
  <2>2. ~ f[i + 1].ok
    <3> DEFINE x == f[i]
               c == r[1]
    <3>1. x.ok /\ x.k = 1 /\ Length(c) = 0 /\ f[i + 1] = ValidByte(x, c)
      BY <1>3, <2>1
    <3> HIDE DEF x, c
    <3>2. ValidByte(x, c).ok <=> Length(c) > 0
      BY <3>1, FirstParts
    <3> QED
      BY <3>1, <3>2
  <2>3. i + 1 \in 0 .. Len(s) /\ Len(s) \in (i + 1) .. Len(s)
    BY <1>1
  <2> QED
    BY <1>3, <2>2, <2>3, ValidBefore
<1>4. ASSUME n > 0, ~ Legal(r, n), f[Len(s)].ok, f[Len(s)].k = 1 PROVE FALSE
  <2> DEFINE m == IF n <= Len(r) THEN n ELSE Len(r)
  <2>1. m \in 1 .. n /\ m \in 1 .. Len(r) /\ m <= Len(r) /\ i + m \in 0 .. Len(s) /\ Len(s) \in (i + m) .. Len(s)
    BY <1>1, <1>4
  <2>2. m # n => i + m = Len(s) /\ n - m + 1 # 1
    BY <1>1
  <2> HIDE DEF m
  <2>3. PICK u : Codes(r, m, u) /\ CodeIn(r, m) = u[m - 1]
    BY <1>1, <1>4, <2>1, CodesExist
  <2>4. f[i + m].ok
    BY <1>4, <2>1, ValidBefore
  <2>5. WithinCharacter(f[i + m], r, n, u, m)
    <3>1. m \in 1 .. m
      BY <2>1
    <3>2. \A j \in 1 .. m : f[i + j].ok => WithinCharacter(f[i + j], r, n, u, j)
      BY <1>4, <2>1, <2>3, CheckedWithin
    <3> QED
      BY <2>4, <3>1, <3>2
  <2>6. m = n
    BY <1>4, <2>2, <2>5 DEF WithinCharacter
  <2>7. (\A h \in 2 .. n : Continues(r[h])) /\ CodeIn(r, n) >= Least(n)
    BY <2>3, <2>5, <2>6 DEF WithinCharacter
  <2> QED
    BY <1>4, <2>1, <2>6, <2>7 DEF Legal
<1> QED
  BY <1>2, <1>3, <1>4

-----------------------------------------------------------------------------
(* What is decoded is what escape sequences are encoded to.                 *)

LEMMA EncodedAsOne ==
  ASSUME NEW u \in Nat, u < 128
  PROVE  Encoded(u) = <<u>>
BY SMT DEF Encoded

LEMMA EncodedAsTwo ==
  ASSUME NEW u \in Nat, u >= 128, u <= 2047
  PROVE  Encoded(u) = <<192 + (u \div 64), 128 + ((u \div 1) % 64)>>
BY SMT DEF Encoded

LEMMA EncodedAsThree ==
  ASSUME NEW u \in Nat, u >= 2048, u <= 65535
  PROVE  Encoded(u) = <<224 + (u \div 4096), 128 + ((u \div 64) % 64), 128 + ((u \div 1) % 64)>>
BY SMT DEF Encoded

LEMMA EncodedAsFour ==
  ASSUME NEW u \in Nat, u > 65535
  PROVE  Encoded(u) = <<240 + (u \div 262144), 128 + ((u \div 4096) % 64), 128 + ((u \div 64) % 64), 128 + ((u \div 1) % 64)>>
BY SMT DEF Encoded

LEMMA EncodedTwo ==
  ASSUME NEW p \in 0 .. 31, NEW b \in 0 .. 63, p * 64 + b >= Least(2)
  PROVE  Encoded(p * 64 + b) = <<192 + p, 128 + b>>
<1> DEFINE u == p * 64 + b
<1>1. u \in Nat /\ u >= 128 /\ u <= 2047
  BY SMT DEF Least
<1>2. u \div 64 = p /\ (u \div 1) % 64 = b
  BY SMT
<1> HIDE DEF u
<1>3. Encoded(u) = <<192 + (u \div 64), 128 + ((u \div 1) % 64)>>
  BY SMT, <1>1, EncodedAsTwo
<1>4. Encoded(u) = <<192 + p, 128 + b>>
  BY SMT, <1>2, <1>3
<1> QED
  BY SMT, <1>4 DEF u

LEMMA EncodedThree ==
  ASSUME NEW p \in 0 .. 15, NEW a \in 0 .. 63, NEW b \in 0 .. 63, (p * 64 + a) * 64 + b >= Least(3)
  PROVE  Encoded((p * 64 + a) * 64 + b) = <<224 + p, 128 + a, 128 + b>>
<1> DEFINE u == (p * 64 + a) * 64 + b
<1>1. u \in Nat /\ u >= 2048 /\ u <= 65535
  BY SMT DEF Least
<1>2. u \div 4096 = p
  BY SMT
<1>3. u \div 64 = p * 64 + a /\ (u \div 1) % 64 = b
  BY SMT
<1>4. (p * 64 + a) % 64 = a
  BY SMT
<1> HIDE DEF u
<1>5. Encoded(u) = <<224 + (u \div 4096), 128 + ((u \div 64) % 64), 128 + ((u \div 1) % 64)>>
  BY SMT, <1>1, EncodedAsThree
<1>6. Encoded(u) = <<224 + p, 128 + a, 128 + b>>
  BY SMT, <1>2, <1>3, <1>4, <1>5
<1> QED
  BY SMT, <1>6 DEF u

Joined(p, a, b, c) == ((p * 64 + a) * 64 + b) * 64 + c

LEMMA EncodedFour ==
  ASSUME NEW p \in 0 .. 7, NEW a \in 0 .. 63, NEW b \in 0 .. 63, NEW c \in 0 .. 63, Joined(p, a, b, c) >= Least(4)
  PROVE  Encoded(Joined(p, a, b, c)) = <<240 + p, 128 + a, 128 + b, 128 + c>>
<1> DEFINE u == ((p * 64 + a) * 64 + b) * 64 + c
<1>8. u = Joined(p, a, b, c)
  BY DEF Joined
<1>1. u \in Nat /\ u > 65535
  BY SMT DEF Least, Joined
<1>2. u \div 4096 = p * 64 + a
  BY SMT
<1>3. u \div 64 = (p * 64 + a) * 64 + b /\ (u \div 1) % 64 = c
  BY SMT
<1>7. u \div 262144 = p
  BY SMT
<1>4. (p * 64 + a) % 64 = a /\ ((p * 64 + a) * 64 + b) % 64 = b
  BY SMT
<1> HIDE DEF u
<1>5. Encoded(u) = <<240 + (u \div 262144), 128 + ((u \div 4096) % 64), 128 + ((u \div 64) % 64), 128 + ((u \div 1) % 64)>>
  BY SMT, <1>1, EncodedAsFour
<1>6. Encoded(u) = <<240 + p, 128 + a, 128 + b, 128 + c>>
  BY SMT, <1>2, <1>3, <1>4, <1>5, <1>7
<1> QED
  BY <1>6, <1>8

LEMMA ExtendedBy ==
  ASSUME NEW u \in Nat, NEW d \in 128 .. 191
  PROVE  Extended(u, d) = u * 64 + (d - 128) /\ d - 128 \in 0 .. 63
<1>1. d % 64 = d - 128
  OBVIOUS
<1> QED
  BY <1>1 DEF Extended

\* What the first byte of a character says.
LEMMA FirstByte ==
  ASSUME NEW c \in Byte
  PROVE  /\ Length(c) = 1 => c \in 0 .. 127 /\ Payload(c) = c
         /\ Length(c) = 2 => c - 192 \in 0 .. 31 /\ Payload(c) = c - 192
         /\ Length(c) = 3 => c - 224 \in 0 .. 15 /\ Payload(c) = c - 224
         /\ Length(c) = 4 => c - 240 \in 0 .. 7 /\ Payload(c) = c - 240
<1>1. /\ Length(c) = 1 => c \in 0 .. 127
      /\ Length(c) = 2 => c \in 192 .. 223
      /\ Length(c) = 3 => c \in 224 .. 239
      /\ Length(c) = 4 => c \in 240 .. 247
  BY DEF Length, Byte
<1>2. ASSUME NEW d \in 0 .. 127 PROVE Payload(d) = d
  BY DEF Payload
<1>3. ASSUME NEW d \in 192 .. 223 PROVE Payload(d) = d - 192
  BY DEF Payload, Length
<1>4. ASSUME NEW d \in 224 .. 239 PROVE Payload(d) = d - 224
  BY DEF Payload, Length
<1>5. ASSUME NEW d \in 240 .. 247 PROVE Payload(d) = d - 240
  BY DEF Payload, Length
<1>6. /\ \A d \in 192 .. 223 : d - 192 \in 0 .. 31
      /\ \A d \in 224 .. 239 : d - 224 \in 0 .. 15
      /\ \A d \in 240 .. 247 : d - 240 \in 0 .. 7
  OBVIOUS
<1> QED
  BY SMT, <1>1, <1>2, <1>3, <1>4, <1>5, <1>6

LEMMA TwoAgain ==
  ASSUME NEW c \in Byte, Length(c) = 2, NEW d \in 128 .. 191,
         Extended(Payload(c), d) >= Least(2)
  PROVE  Encoded(Extended(Payload(c), d)) = <<c, d>>
<1> DEFINE p == c - 192
           a == d - 128
<1>1. p \in 0 .. 31 /\ Payload(c) = p /\ 192 + p = c
  <2>1. p \in 0 .. 31 /\ Payload(c) = p
    BY FirstByte
  <2>2. c \in Nat
    BY DEF Byte
  <2> QED
    BY <2>1, <2>2
<1>2. a \in 0 .. 63 /\ 128 + a = d
  OBVIOUS
<1>3. \A y \in Nat : Extended(y, d) = y * 64 + a
  <2>1. \A y \in Nat : Extended(y, d) = y * 64 + a
    BY ExtendedBy
  <2> QED
    BY <2>1
<1> HIDE DEF p, a
<1>4. p * 64 + a \in Nat /\ Extended(Payload(c), d) = p * 64 + a
  <2>1. p \in Nat /\ Payload(c) = p
    BY <1>1
  <2>2. Extended(p, d) = p * 64 + a
    BY <1>3, <2>1
  <2>3. p * 64 + a \in Nat
    BY <2>1, <1>2
  <2> QED
    BY <2>1, <2>2, <2>3
<1>5. p * 64 + a >= Least(2)
  BY <1>4
<1>6. Encoded(p * 64 + a) = <<192 + p, 128 + a>>
  BY Zenon, <1>1, <1>2, <1>5, EncodedTwo
<1> QED
  BY SMT, <1>1, <1>2, <1>4, <1>6

LEMMA ThreeAgain ==
  ASSUME NEW c \in Byte, Length(c) = 3, NEW d \in 128 .. 191, NEW e \in 128 .. 191,
         Extended(Extended(Payload(c), d), e) >= Least(3)
  PROVE  Encoded(Extended(Extended(Payload(c), d), e)) = <<c, d, e>>
<1> DEFINE p == c - 224
           a == d - 128
           b == e - 128
<1>1. p \in 0 .. 15 /\ Payload(c) = p /\ 224 + p = c
  <2>1. p \in 0 .. 15 /\ Payload(c) = p
    BY FirstByte
  <2>2. c \in Nat
    BY DEF Byte
  <2> QED
    BY <2>1, <2>2
<1>2. a \in 0 .. 63 /\ 128 + a = d /\ b \in 0 .. 63 /\ 128 + b = e
  OBVIOUS
<1>3. \A y \in Nat : Extended(y, d) = y * 64 + a /\ Extended(y, e) = y * 64 + b
  <2>1. \A y \in Nat : Extended(y, d) = y * 64 + a
    BY ExtendedBy
  <2>2. \A y \in Nat : Extended(y, e) = y * 64 + b
    BY ExtendedBy
  <2> QED
    BY <2>1, <2>2
<1> HIDE DEF p, a, b
<1>4. p * 64 + a \in Nat /\ Extended(Payload(c), d) = p * 64 + a
  <2>1. p \in Nat /\ Payload(c) = p
    BY <1>1
  <2>2. Extended(p, d) = p * 64 + a
    BY <1>3, <2>1
  <2>3. p * 64 + a \in Nat
    BY <2>1, <1>2
  <2> QED
    BY <2>1, <2>2, <2>3
<1>5. (p * 64 + a) * 64 + b \in Nat /\ Extended(Extended(Payload(c), d), e) = (p * 64 + a) * 64 + b
  <2>1. (p * 64 + a) \in Nat /\ Extended(Payload(c), d) = (p * 64 + a)
    BY <1>4
  <2>2. Extended((p * 64 + a), e) = (p * 64 + a) * 64 + b
    BY <1>3, <2>1
  <2>3. (p * 64 + a) * 64 + b \in Nat
    BY <2>1, <1>2
  <2> QED
    BY <2>1, <2>2, <2>3
<1>6. (p * 64 + a) * 64 + b >= Least(3)
  BY SMT, <1>5
<1>7. Encoded((p * 64 + a) * 64 + b) = <<224 + p, 128 + a, 128 + b>>
  <2>1. p \in 0 .. 15
    BY <1>1
  <2>2. a \in 0 .. 63
    BY <1>2
  <2>3. b \in 0 .. 63
    BY <1>2
  <2> QED
    BY Zenon, <2>1, <2>2, <2>3, <1>6, EncodedThree
<1> QED
  BY SMT, <1>1, <1>2, <1>5, <1>7

LEMMA FourAgain ==
  ASSUME NEW c \in Byte, Length(c) = 4, NEW d \in 128 .. 191, NEW e \in 128 .. 191, NEW f \in 128 .. 191,
         Extended(Extended(Extended(Payload(c), d), e), f) >= Least(4)
  PROVE  Encoded(Extended(Extended(Extended(Payload(c), d), e), f)) = <<c, d, e, f>>
<1> DEFINE p == c - 240
           a == d - 128
           b == e - 128
           x == f - 128
<1>1. p \in 0 .. 7 /\ Payload(c) = p /\ 240 + p = c
  <2>1. p \in 0 .. 7 /\ Payload(c) = p
    BY FirstByte
  <2>2. c \in Nat
    BY DEF Byte
  <2> QED
    BY <2>1, <2>2
<1>2. a \in 0 .. 63 /\ 128 + a = d /\ b \in 0 .. 63 /\ 128 + b = e /\ x \in 0 .. 63 /\ 128 + x = f
  OBVIOUS
<1>3. \A y \in Nat : Extended(y, d) = y * 64 + a /\ Extended(y, e) = y * 64 + b /\ Extended(y, f) = y * 64 + x
  <2>1. \A y \in Nat : Extended(y, d) = y * 64 + a
    BY ExtendedBy
  <2>2. \A y \in Nat : Extended(y, e) = y * 64 + b
    BY ExtendedBy
  <2>3. \A y \in Nat : Extended(y, f) = y * 64 + x
    BY ExtendedBy
  <2> QED
    BY <2>1, <2>2, <2>3
<1> HIDE DEF p, a, b, x
<1>4. p * 64 + a \in Nat /\ Extended(Payload(c), d) = p * 64 + a
  <2>1. p \in Nat /\ Payload(c) = p
    BY <1>1
  <2>2. Extended(p, d) = p * 64 + a
    BY <1>3, <2>1
  <2>3. p * 64 + a \in Nat
    BY <2>1, <1>2
  <2> QED
    BY <2>1, <2>2, <2>3
<1>5. (p * 64 + a) * 64 + b \in Nat /\ Extended(Extended(Payload(c), d), e) = (p * 64 + a) * 64 + b
  <2>1. (p * 64 + a) \in Nat /\ Extended(Payload(c), d) = (p * 64 + a)
    BY <1>4
  <2>2. Extended((p * 64 + a), e) = (p * 64 + a) * 64 + b
    BY <1>3, <2>1
  <2>3. (p * 64 + a) * 64 + b \in Nat
    BY <2>1, <1>2
  <2> QED
    BY <2>1, <2>2, <2>3
<1>6. ((p * 64 + a) * 64 + b) * 64 + x \in Nat /\ Extended(Extended(Extended(Payload(c), d), e), f) = ((p * 64 + a) * 64 + b) * 64 + x
  <2>1. ((p * 64 + a) * 64 + b) \in Nat /\ Extended(Extended(Payload(c), d), e) = ((p * 64 + a) * 64 + b)
    BY <1>5
  <2>2. Extended(((p * 64 + a) * 64 + b), f) = ((p * 64 + a) * 64 + b) * 64 + x
    BY <1>3, <2>1
  <2>3. ((p * 64 + a) * 64 + b) * 64 + x \in Nat
    BY <2>1, <1>2
  <2> QED
    BY <2>1, <2>2, <2>3
<1>7. Joined(p, a, b, x) >= Least(4) /\ Joined(p, a, b, x) = Extended(Extended(Extended(Payload(c), d), e), f)
  <2>1. Joined(p, a, b, x) = Extended(Extended(Extended(Payload(c), d), e), f)
    BY <1>6 DEF Joined
  <2> QED
    BY <2>1
<1>8. Encoded(Joined(p, a, b, x)) = <<240 + p, 128 + a, 128 + b, 128 + x>>
  <2> DEFINE Right(k, l, m, n) ==
               Joined(k, l, m, n) >= Least(4) =>
                 Encoded(Joined(k, l, m, n)) = <<240 + k, 128 + l, 128 + m, 128 + n>>
  <2>1. \A k \in 0 .. 7 : \A l \in 0 .. 63 : \A m \in 0 .. 63 : \A n \in 0 .. 63 : Right(k, l, m, n)
    BY EncodedFour
  <2> HIDE DEF Right
  <2>2. \A l \in 0 .. 63 : \A m \in 0 .. 63 : \A n \in 0 .. 63 : Right(p, l, m, n)
    BY Zenon, <1>1, <2>1
  <2>3. \A m \in 0 .. 63 : \A n \in 0 .. 63 : Right(p, a, m, n)
    BY Zenon, <1>2, <2>2
  <2>4. \A n \in 0 .. 63 : Right(p, a, b, n)
    BY Zenon, <1>2, <2>3
  <2>5. Right(p, a, b, x)
    BY Zenon, <1>2, <2>4
  <2> QED
    BY Zenon, <1>7, <2>5 DEF Right
<1> QED
  BY SMT, <1>1, <1>2, <1>7, <1>8

LEMMA FirstBytes ==
  ASSUME NEW r \in Seq(Byte), NEW n \in 1 .. Len(r), NEW t \in Seq(Byte), Len(t) = n,
         \A k \in 1 .. n : t[k] = r[k]
  PROVE  SubSeq(r, 1, n) = t
<1>1. Len(r) \in Nat /\ n \in Int /\ 1 \in Int /\ \A i \in 1 .. n : r[i] \in Byte
  BY LenProperties, ElementOfSeq
<1> DEFINE p == SubSeq(r, 1, n)
<1>2. /\ p \in Seq(Byte)
      /\ Len(p) = IF 1 <= n THEN n - 1 + 1 ELSE 0
      /\ \A i \in 1 .. n - 1 + 1 : p[i] = r[1 + i - 1]
  BY <1>1, SubSeqProperties
<1> HIDE DEF p
<1>3. Len(p) = n /\ \A i \in 1 .. n : p[i] = t[i]
  <2>1. n - 1 + 1 = n /\ 1 <= n /\ \A i \in 1 .. n : 1 + i - 1 = i
    BY <1>1
  <2> QED
    BY <1>2, <2>1
<1>4. p = t
  BY <1>2, <1>3, SeqEqual
<1> QED
  BY <1>4 DEF p

LEMMA EncodedAgain ==
  ASSUME NEW r \in Seq(Byte), Len(r) > 0, NEW n, n = Length(r[1]), Legal(r, n), CodeIn(r, n) < UNICODE
  PROVE  Encoded(CodeIn(r, n)) = SubSeq(r, 1, n)
<1> DEFINE u == CodeIn(r, n)
<1>1. Len(r) \in Nat /\ n \in Nat /\ n \in 1 .. Len(r) /\ n <= 6 /\ \A k \in 1 .. Len(r) : r[k] \in Byte
  <2>1. Len(r) \in Nat /\ \A k \in 1 .. Len(r) : r[k] \in Byte
    BY LenProperties, ElementOfSeq
  <2>2. n \in 0 .. 6
    <3>1. 1 \in 1 .. Len(r)
      BY <2>1
    <3>2. r[1] \in Byte
      BY <2>1, <3>1
    <3> QED
      BY <3>2, LengthType
  <2>3. n > 0 /\ n <= Len(r)
    BY DEF Legal
  <2> QED
    BY <2>1, <2>2, <2>3
<1>2. PICK v : Codes(r, n, v) /\ u = v[n - 1]
  BY <1>1, CodesExist
<1>3. u >= Least(n) /\ \A k \in 2 .. n : r[k] \in 128 .. 191
  BY DEF Legal, Continues
<1>4. v[0] = Payload(r[1]) /\ \A k \in 1 .. (n - 1) : v[k] = Extended(v[k - 1], r[k + 1])
  BY <1>2 DEF Codes
<1>5. r[1] \in Byte /\ \A k \in 0 .. (n - 1) : v[k] \in Nat
  BY <1>1, <1>2 DEF Codes
<1> DEFINE c == r[1]
<1> HIDE DEF u, c
<1>6. CASE n = 1
  <2>1. c \in Byte /\ Length(c) = 1 /\ u = Payload(c)
    BY <1>2, <1>4, <1>5, <1>6 DEF c
  <2>2. u = c /\ c \in Nat /\ c < 128
    <3>1. c \in 0 .. 127 /\ Payload(c) = c
      BY <2>1, FirstByte
    <3> QED
      BY <2>1, <3>1
  <2>3. Encoded(u) = <<c>>
    BY SMT, <2>2, EncodedAsOne
  <2> DEFINE t == <<c>>
  <2>4. t \in Seq(Byte) /\ Len(t) = 1 /\ t[1] = c
    BY <2>1
  <2>5. \A k \in 1 .. 1 : t[k] = r[k]
    BY <2>4 DEF c
  <2> HIDE DEF t
  <2> QED
    BY <1>1, <1>6, <2>3, <2>4, <2>5, FirstBytes DEF u, t
<1>7. CASE n = 2
  <2>1. r[2] \in 128 .. 191
    BY <1>3, <1>7
  <2>2. v[1] = Extended(v[0], r[2]) /\ u = v[1] /\ v[0] = Payload(c) /\ c \in Byte /\ Length(c) = 2
    BY <1>2, <1>4, <1>5, <1>7 DEF c
  <2>3. u = Extended(Payload(c), r[2])
    BY <2>2
  <2>4. u >= Least(2)
    BY <1>3, <1>7
  <2> DEFINE t == <<c, r[2]>>
  <2>5. Encoded(u) = t
    BY Zenon, <2>1, <2>2, <2>3, <2>4, TwoAgain DEF t
  <2>6. r[1] \in Byte /\ r[2] \in Byte
    BY <1>1, <1>7
  <2>7. t \in Seq(Byte) /\ Len(t) = 2 /\ \A k \in 1 .. 2 : t[k] = r[k]
    BY <2>6 DEF c
  <2> HIDE DEF t
  <2> QED
    BY <1>1, <1>7, <2>5, <2>7, FirstBytes DEF u
<1>8. CASE n = 3
  <2>1. r[2] \in 128 .. 191 /\ r[3] \in 128 .. 191
    BY <1>3, <1>8
  <2>2. v[1] = Extended(v[0], r[2]) /\ v[2] = Extended(v[1], r[3]) /\ u = v[2] /\ v[0] = Payload(c) /\ c \in Byte /\ Length(c) = 3
    BY <1>2, <1>4, <1>5, <1>8 DEF c
  <2>3. u = Extended(Extended(Payload(c), r[2]), r[3])
    BY <2>2
  <2>4. u >= Least(3)
    BY <1>3, <1>8
  <2> DEFINE t == <<c, r[2], r[3]>>
  <2>5. Encoded(u) = t
    BY Zenon, <2>1, <2>2, <2>3, <2>4, ThreeAgain DEF t
  <2>6. r[1] \in Byte /\ r[2] \in Byte /\ r[3] \in Byte
    BY <1>1, <1>8
  <2>7. t \in Seq(Byte) /\ Len(t) = 3 /\ \A k \in 1 .. 3 : t[k] = r[k]
    BY <2>6 DEF c
  <2> HIDE DEF t
  <2> QED
    BY <1>1, <1>8, <2>5, <2>7, FirstBytes DEF u
<1>9. CASE n = 4
  <2>1. r[2] \in 128 .. 191 /\ r[3] \in 128 .. 191 /\ r[4] \in 128 .. 191
    BY <1>3, <1>9
  <2>2. v[1] = Extended(v[0], r[2]) /\ v[2] = Extended(v[1], r[3]) /\ v[3] = Extended(v[2], r[4])
        /\ u = v[3] /\ v[0] = Payload(c) /\ c \in Byte /\ Length(c) = 4
    BY <1>2, <1>4, <1>5, <1>9 DEF c
  <2>3. u = Extended(Extended(Extended(Payload(c), r[2]), r[3]), r[4])
    BY <2>2
  <2>4. u >= Least(4)
    BY <1>3, <1>9
  <2> DEFINE t == <<c, r[2], r[3], r[4]>>
  <2>5. Encoded(u) = t
    <3> DEFINE Same(k, l, m, d) ==
                 Extended(Extended(Extended(Payload(k), l), m), d) >= Least(4)
                 => Encoded(Extended(Extended(Extended(Payload(k), l), m), d)) = <<k, l, m, d>>
    <3>1. \A k \in Byte : Length(k) = 4 => \A l \in 128 .. 191 : \A m \in 128 .. 191 : \A d \in 128 .. 191 : Same(k, l, m, d)
      BY FourAgain
    <3> HIDE DEF Same
    <3>2. \A l \in 128 .. 191 : \A m \in 128 .. 191 : \A d \in 128 .. 191 : Same(c, l, m, d)
      BY Zenon, <2>2, <3>1
    <3>3. \A m \in 128 .. 191 : \A d \in 128 .. 191 : Same(c, r[2], m, d)
      BY Zenon, <2>1, <3>2
    <3>4. \A d \in 128 .. 191 : Same(c, r[2], r[3], d)
      BY Zenon, <2>1, <3>3
    <3>5. Same(c, r[2], r[3], r[4])
      BY Zenon, <2>1, <3>4
    <3> QED
      BY Zenon, <2>3, <2>4, <3>5 DEF Same, t
  <2>6. r[1] \in Byte /\ r[2] \in Byte /\ r[3] \in Byte /\ r[4] \in Byte
    BY <1>1, <1>9
  <2>7. t \in Seq(Byte) /\ Len(t) = 4 /\ \A k \in 1 .. 4 : t[k] = r[k]
    BY <2>6 DEF c
  <2> HIDE DEF t
  <2> QED
    BY <1>1, <1>9, <2>5, <2>7, FirstBytes DEF u
<1>10. CASE n \in 5 .. 6
  <2>1. u \in Nat
    <3>1. n - 1 \in 0 .. (n - 1)
      BY <1>1
    <3> QED
      BY <1>2, <3>1 DEF Codes
  <2>2. u >= UNICODE
    BY SMT, <1>3, <1>10, <2>1 DEF Least, UNICODE
  <2>3. u < UNICODE
    BY DEF u
  <2>4. UNICODE \in Nat
    BY SMT DEF UNICODE
  <2> QED
    BY <2>1, <2>2, <2>3, <2>4
<1> QED
  <2>1. n = 1 \/ n = 2 \/ n = 3 \/ n = 4 \/ n \in 5 .. 6
    BY <1>1
  <2> QED
    BY <2>1, <1>6, <1>7, <1>8, <1>9, <1>10

-----------------------------------------------------------------------------
(* All who decode a text see the same characters.                           *)

LEMMA RestBehind ==
  ASSUME NEW s \in Seq(Byte), NEW i \in 0 .. Len(s)
  PROVE  Behind(s, i, SubSeq(s, i + 1, Len(s)))
<1>1. Len(s) \in Nat /\ i \in Nat /\ i <= Len(s)
  BY LenProperties
<1> DEFINE a == i + 1
           b == Len(s)
           p == SubSeq(s, a, b)
<1>2. a \in Int /\ b \in Int /\ \A k \in a .. b : s[k] \in Byte
  BY <1>1, ElementOfSeq
<1>3. (a <= b => b - a + 1 = b - i) /\ (~ a <= b => b - i = 0) /\ \A j \in 1 .. (b - i) : a + j - 1 = i + j /\ j \in 1 .. b - a + 1
  BY <1>1
<1> HIDE DEF a, b
<1>4. /\ p \in Seq(Byte)
      /\ Len(p) = IF a <= b THEN b - a + 1 ELSE 0
      /\ \A j \in 1 .. b - a + 1 : p[j] = s[a + j - 1]
  BY <1>2, SubSeqProperties
<1> HIDE DEF p
<1>5. Len(p) = b - i
  BY <1>3, <1>4
<1>6. \A j \in 1 .. Len(p) : p[j] = s[i + j]
  BY <1>3, <1>4, <1>5
<1>7. Behind(s, i, p)
  BY <1>4, <1>5, <1>6 DEF Behind, b
<1> QED
  BY <1>7 DEF p, a, b

\* The first bytes behind a place, as a part of the text.
LEMMA PartBehind ==
  ASSUME NEW s \in Seq(Byte), NEW i \in 0 .. Len(s), NEW r, Behind(s, i, r), NEW n \in 1 .. Len(r)
  PROVE  SubSeq(r, 1, n) = SubSeq(s, i + 1, i + n)
<1>1. Len(s) \in Nat /\ Len(r) \in Nat /\ Len(r) = Len(s) - i /\ r \in Seq(Byte) /\ \A j \in 1 .. Len(r) : r[j] = s[i + j]
  BY LenProperties DEF Behind
<1> DEFINE a == i + 1
           b == i + n
           p == SubSeq(s, a, b)
<1>2. a \in Int /\ b \in Int /\ \A k \in a .. b : s[k] \in Byte
  BY <1>1, ElementOfSeq
<1>3. a <= b /\ b - a + 1 = n /\ \A j \in 1 .. n : a + j - 1 = i + j
  BY <1>1
<1> HIDE DEF a, b
<1>4. /\ p \in Seq(Byte)
      /\ Len(p) = IF a <= b THEN b - a + 1 ELSE 0
      /\ \A j \in 1 .. b - a + 1 : p[j] = s[a + j - 1]
  BY <1>2, SubSeqProperties
<1> HIDE DEF p
<1>5. Len(p) = n /\ \A j \in 1 .. n : p[j] = r[j]
  <2>1. Len(p) = n /\ \A j \in 1 .. n : p[j] = s[a + j - 1]
    BY <1>3, <1>4
  <2>2. \A j \in 1 .. n : j \in 1 .. Len(r)
    BY <1>1
  <2> QED
    BY <1>1, <1>3, <2>1, <2>2
<1>6. SubSeq(r, 1, n) = p
  BY <1>1, <1>4, <1>5, FirstBytes
<1> QED
  BY <1>6 DEF p, a, b

LEMMA CountFirstParts ==
  ASSUME NEW x \in Counts, ~ x.ended, x.rest = 0, NEW c \in Byte, c # 0, Length(c) > 0
  PROVE  /\ CountByte(x, c).n = x.n + 1 /\ CountByte(x, c).rest = Length(c) - 1
         /\ ~ CountByte(x, c).ended
<1>1. /\ x.n \in Nat /\ x.rest \in Nat /\ x.ended \in BOOLEAN /\ Length(c) \in Nat
  BY LengthType DEF Counts
<1> DEFINE r == Length(c) - 1
           n == x.n + 1
           e == IF Length(c) = 0 THEN 0 ELSE Length(c) - 1
<1>2. CountByte(x, c) = [x EXCEPT !.n = n, !.rest = e]
  BY <1>1 DEF CountByte
<1>3. e = r
  BY <1>1
<1> HIDE DEF r, n, e
<1>4. CountByte(x, c).n = n /\ CountByte(x, c).rest = r /\ CountByte(x, c).ended = x.ended
  BY <1>2, <1>3 DEF Counts
<1> QED
  BY <1>4 DEF r, n

LEMMA CountNextParts ==
  ASSUME NEW x \in Counts, ~ x.ended, x.rest > 0, NEW c \in Byte
  PROVE  /\ CountByte(x, c).n = x.n /\ CountByte(x, c).rest = x.rest - 1
         /\ ~ CountByte(x, c).ended
<1>1. /\ x.n \in Nat /\ x.rest \in Nat /\ x.ended \in BOOLEAN
  BY DEF Counts
<1> DEFINE r == x.rest - 1
<1>2. CountByte(x, c) = [x EXCEPT !.rest = r]
  BY <1>1 DEF CountByte
<1> HIDE DEF r
<1>3. CountByte(x, c).n = x.n /\ CountByte(x, c).rest = r /\ CountByte(x, c).ended = x.ended
  BY <1>2 DEF Counts
<1> QED
  BY <1>3 DEF r

\* What count_characters has counted behind k bytes of a character of n.
CountedSoFar(x, n, k, t) == x.rest = n - k /\ ~ x.ended /\ x.n = t

\* count_characters goes over a character in one step.
LEMMA CountedThrough ==
  ASSUME NEW s \in Seq(Byte), NEW w \in [0 .. Len(s) -> Counts],
         \A i \in 1 .. Len(s) : w[i] = CountByte(w[i - 1], s[i]),
         NEW i \in 0 .. (Len(s) - 1), w[i].rest = 0, ~ w[i].ended, s[i + 1] # 0,
         NEW n \in Nat, n = Length(s[i + 1]), n > 0, i + n <= Len(s)
  PROVE  w[i + n].rest = 0 /\ ~ w[i + n].ended /\ w[i + n].n = w[i].n + 1
<1>1. /\ Len(s) \in Nat /\ i \in Nat /\ i + 1 \in 1 .. Len(s) /\ i + 1 - 1 = i /\ i \in 0 .. Len(s)
      /\ \A k \in 1 .. Len(s) : s[k] \in Byte
  BY LenProperties, ElementOfSeq
<1>2. \A k \in 0 .. Len(s) : w[k] \in Counts
  OBVIOUS
<1> DEFINE l == n - 1
           t == w[i].n + 1
           S == {k \in 0 .. l : CountedSoFar(w[i + (k + 1)], n, k + 1, t)}
<1>3. 0 \in S
  <2>1. w[i + 1] = CountByte(w[i], s[i + 1]) /\ w[i] \in Counts /\ s[i + 1] \in Byte
    BY <1>1, <1>2
  <2>2. w[i + 1].n = t /\ w[i + 1].rest = n - 1 /\ ~ w[i + 1].ended
    BY <2>1, CountFirstParts
  <2> HIDE DEF t
  <2>3. 0 + 1 = 1 /\ 0 \in 0 .. l
    OBVIOUS
  <2>4. CountedSoFar(w[i + (0 + 1)], n, 0 + 1, t)
    BY <2>2, <2>3 DEF CountedSoFar
  <2> QED
    BY <2>3, <2>4
<1>4. ASSUME NEW k \in 0 .. l, k # l, k \in S PROVE k + 1 \in S
  <2> DEFINE j == k + 1
             h == i + (j + 1)
             x == w[i + j]
  <2>1. /\ h \in 1 .. Len(s) /\ h - 1 = i + j /\ j \in 0 .. l /\ i + j \in 0 .. Len(s)
        /\ n - j > 0 /\ n - j - 1 = n - (j + 1)
    BY <1>1, <1>4
  <2>2. x.rest = n - j /\ ~ x.ended /\ x.n = t
    BY <1>4 DEF CountedSoFar
  <2>3. w[h] = CountByte(x, s[h]) /\ x \in Counts /\ s[h] \in Byte
    BY <1>1, <1>2, <2>1
  <2>4. x.rest > 0
    BY <2>1, <2>2
  <2> HIDE DEF x, h, j, t
  <2>5. w[h].n = t /\ w[h].rest = n - j - 1 /\ ~ w[h].ended
    BY <2>2, <2>3, <2>4, CountNextParts
  <2>6. CountedSoFar(w[h], n, j + 1, t)
    BY <2>1, <2>5 DEF CountedSoFar
  <2>7. j \in S
    BY <2>1, <2>6 DEF h
  <2> QED
    BY <2>7 DEF j
<1>5. \A k \in 0 .. l : k \in S
  <2>1. l \in Nat
    OBVIOUS
  <2> HIDE DEF S, l
  <2> QED
    BY <2>1, <1>3, <1>4, Upwards
<1>6. l \in 0 .. l /\ l + 1 = n /\ n - n = 0
  <2>1. ASSUME NEW k \in Nat, k > 0 PROVE k - 1 \in 0 .. (k - 1) /\ k - 1 + 1 = k /\ k - k = 0
    BY <2>1
  <2> QED
    BY Zenon, <2>1
<1>7. CountedSoFar(w[i + (l + 1)], n, l + 1, t)
  <2> HIDE DEF l, t
  <2> QED
    BY <1>5, <1>6
<1> HIDE DEF l
<1> QED
  BY <1>6, <1>7 DEF CountedSoFar

\* What a parser has seen of a text.
Sightings == [at : Nat, n : Nat, u : Nat]
Views(s) == [at : 0 .. Len(s), chars : Seq(Sightings)]

LEMMA FirstLength ==
  ASSUME NEW r \in Seq(Byte), Len(r) > 0
  PROVE  r # <<>> /\ r[1] \in Byte /\ Length(r[1]) \in Nat
<1>1. Len(r) \in Nat /\ 1 \in 1 .. Len(r) /\ r # <<>>
  BY LenProperties
<1>2. r[1] \in Byte
  BY <1>1, ElementOfSeq
<1> QED
  BY <1>1, <1>2, LengthType

LEMMA GetChar ==
  ASSUME NEW r \in Seq(Byte), NEW n, n = Length(r[1])
  PROVE  /\ Len(r) = 0 => pcc_get_char_as_utf32(r).n = 0
         /\ Len(r) > 0 /\ ~ Legal(r, n) => pcc_get_char_as_utf32(r).n = 0
         /\ Len(r) > 0 /\ Legal(r, n) => /\ pcc_get_char_as_utf32(r).n = n
                                         /\ pcc_get_char_as_utf32(r).u = CodeIn(r, n)
<1>1. Len(r) = 0 => r = <<>>
  BY EmptySeq
<1>2. Len(r) > 0 => r # <<>>
  BY FirstLength
<1>3. CASE Len(r) = 0
  BY <1>1, <1>3 DEF pcc_get_char_as_utf32
<1>4. CASE Len(r) > 0 /\ ~ Legal(r, n)
  <2>1. Decoded(r) = Invalid
    BY <1>4, DecodedParts
  <2> QED
    BY <1>4, <2>1 DEF pcc_get_char_as_utf32
<1>5. CASE Len(r) > 0 /\ Legal(r, n)
  <2> DEFINE u == CodeIn(r, n)
  <2>1. Decoded(r) = [n |-> n, u |-> u] /\ Decoded(r) # Invalid
    BY <1>5, DecodedParts
  <2> HIDE DEF u
  <2>2. pcc_get_char_as_utf32(r) = [n |-> n, u |-> u]
    BY <1>2, <1>5, <2>1 DEF pcc_get_char_as_utf32
  <2>3. pcc_get_char_as_utf32(r).n = n /\ pcc_get_char_as_utf32(r).u = u
    BY <2>2
  <2> QED
    BY <1>5, <2>3 DEF u
<1>6. Len(r) \in Nat
  BY LenProperties
<1> QED
  BY <1>3, <1>4, <1>5, <1>6

\* The rest of a text behind what has been seen, the next character and the step over it.
Left(w, s) == SubSeq(s, w.at + 1, Len(s))
NextLength(w, s) == Length(Left(w, s)[1])
IsNext(w, s) == w.at < Len(s) /\ Legal(Left(w, s), NextLength(w, s))
NextSighting(w, s) == [at |-> w.at, n |-> NextLength(w, s), u |-> CodeIn(Left(w, s), NextLength(w, s))]

LEMMA LeftBehind ==
  ASSUME NEW s \in Seq(Byte), NEW w \in Views(s)
  PROVE  /\ w.at \in Nat /\ w.at \in 0 .. Len(s) /\ Len(s) \in Nat /\ w.chars \in Seq(Sightings)
         /\ Left(w, s) \in Seq(Byte) /\ Len(Left(w, s)) \in Nat /\ Len(Left(w, s)) = Len(s) - w.at
         /\ Behind(s, w.at, Left(w, s))
         /\ w.at < Len(s) => NextLength(w, s) \in Nat
<1>1. w.at \in Nat /\ w.at \in 0 .. Len(s) /\ Len(s) \in Nat /\ w.chars \in Seq(Sightings)
  BY LenProperties DEF Views
<1>2. Behind(s, w.at, Left(w, s))
  BY <1>1, RestBehind DEF Left
<1>3. Left(w, s) \in Seq(Byte) /\ Len(Left(w, s)) = Len(s) - w.at
  BY <1>2 DEF Behind
<1>4. Len(Left(w, s)) \in Nat
  BY <1>3, LenProperties
<1>5. w.at < Len(s) => NextLength(w, s) \in Nat
  BY <1>1, <1>3, <1>4, FirstLength DEF NextLength
<1> QED
  BY <1>1, <1>2, <1>3, <1>4, <1>5

LEMMA NextSeen ==
  ASSUME NEW s \in Seq(Byte), NEW w \in Views(s)
  PROVE  /\ ~ IsNext(w, s) => SeeNext(w, s) = w
         /\ IsNext(w, s) => /\ NextSighting(w, s) \in Sightings /\ NextLength(w, s) > 0 /\ w.at + NextLength(w, s) \in 0 .. Len(s)
                            /\ SeeNext(w, s) = [at |-> w.at + NextLength(w, s), chars |-> Append(w.chars, NextSighting(w, s))]
<1> DEFINE r == Left(w, s)
           n == NextLength(w, s)
           c == pcc_get_char_as_utf32(r)
           i == w.at
<1>1. /\ i \in Nat /\ i \in 0 .. Len(s) /\ Len(s) \in Nat /\ w.chars \in Seq(Sightings)
      /\ r \in Seq(Byte) /\ Len(r) \in Nat /\ Len(r) = Len(s) - i /\ (i < Len(s) => n \in Nat)
  BY LeftBehind
<1>2. SeeNext(w, s) = IF c.n = 0 THEN w
                      ELSE [at |-> i + c.n, chars |-> Append(w.chars, [at |-> i, n |-> c.n, u |-> c.u])]
  BY DEF SeeNext, Left
<1>3. n = Length(r[1])
  BY DEF NextLength
<1>4. CASE ~ IsNext(w, s)
  <2>1. Len(r) = 0 \/ (Len(r) > 0 /\ ~ Legal(r, n))
    BY <1>1, <1>4 DEF IsNext
  <2> HIDE DEF r, n
  <2>2. c.n = 0
    BY <1>1, <1>3, <2>1, GetChar
  <2> HIDE DEF c
  <2> QED
    BY <1>2, <1>4, <2>2
<1>5. CASE IsNext(w, s)
  <2>1. Len(r) > 0 /\ Legal(r, n) /\ i < Len(s)
    BY <1>1, <1>5 DEF IsNext
  <2>2. n > 0 /\ n <= Len(r) /\ n \in Nat
    BY <1>1, <2>1 DEF Legal
  <2> DEFINE u == CodeIn(r, n)
  <2>3. u \in Nat
    <3> HIDE DEF r, n
    <3>1. n \in 1 .. Len(r) /\ Length(r[1]) > 0
      BY <1>1, <1>3, <2>2
    <3>2. PICK x : Codes(r, n, x) /\ CodeIn(r, n) = x[n - 1]
      BY <1>1, <3>1, CodesExist
    <3>3. n - 1 \in 0 .. (n - 1)
      BY <2>2
    <3> QED
      BY <3>2, <3>3 DEF Codes
  <2>4. c.n = n /\ c.u = u
    <3> HIDE DEF r, n
    <3> QED
      BY <1>1, <1>3, <2>1, GetChar
  <2>5. NextSighting(w, s) = [at |-> i, n |-> n, u |-> u]
    BY DEF NextSighting
  <2>6. i + n \in 0 .. Len(s)
    BY <1>1, <2>2
  <2> HIDE DEF r, n, c, u
  <2>7. c.n # 0
    BY <2>2, <2>4
  <2>8. SeeNext(w, s) = [at |-> i + n, chars |-> Append(w.chars, NextSighting(w, s))]
    BY <1>2, <2>4, <2>5, <2>7
  <2>9. NextSighting(w, s) \in Sightings
    BY <1>1, <2>2, <2>3, <2>5 DEF Sightings
  <2> QED
    BY <1>5, <2>2, <2>6, <2>8, <2>9 DEF n
<1> QED
  BY <1>4, <1>5

LEMMA SeeNextType ==
  ASSUME NEW s \in Seq(Byte), NEW w \in Views(s)
  PROVE  SeeNext(w, s) \in Views(s)
<1>1. CASE ~ IsNext(w, s)
  BY <1>1, NextSeen
<1>2. CASE IsNext(w, s)
  <2> DEFINE a == w.at + NextLength(w, s)
             q == Append(w.chars, NextSighting(w, s))
  <2>1. SeeNext(w, s) = [at |-> a, chars |-> q] /\ a \in 0 .. Len(s) /\ NextSighting(w, s) \in Sightings
    BY <1>2, NextSeen
  <2>2. w.chars \in Seq(Sightings)
    BY LeftBehind
  <2>3. q \in Seq(Sightings)
    BY <2>1, <2>2, AppendProperties
  <2> HIDE DEF a, q
  <2> QED
    BY <2>1, <2>3 DEF Views
<1> QED
  BY <1>1, <1>2

LEMMA SeenSteps ==
  ASSUME NEW s \in Seq(Byte)
  PROVE  \E w \in [0 .. Len(s) -> Views(s)] :
           /\ Seen(s) = w[Len(s)]
           /\ w[0] = [at |-> 0, chars |-> <<>>]
           /\ \A k \in 1 .. Len(s) : w[k] = SeeNext(w[k - 1], s)
<1> DEFINE m == Len(s)
           x0 == [at |-> 0, chars |-> <<>>]
           Fits(f) == f = [k \in 0 .. m |-> IF k = 0 THEN x0 ELSE SeeNext(f[k - 1], s)]
           w == CHOOSE f : Fits(f)
           Step == [k \in 1 .. m |-> [x \in Views(s) |-> SeeNext(x, s)]]
<1>1. m \in Nat
  BY LenProperties
<1>2. x0 \in Views(s)
  <2> DEFINE e == <<>>
  <2>1. e \in Seq(Sightings) /\ 0 \in 0 .. m
    BY <1>1
  <2> HIDE DEF e
  <2>2. [at |-> 0, chars |-> e] \in Views(s)
    BY <2>1 DEF Views
  <2> QED
    BY <2>2 DEF e
<1>3. Seen(s) = w[m]
  BY DEF Seen
<1> HIDE DEF m, x0
<1>4. Step \in [1 .. m -> [Views(s) -> Views(s)]]
  BY <1>1, SeeNextType
<1>5. \A k \in 1 .. m, x \in Views(s) : Step[k][x] = SeeNext(x, s)
  OBVIOUS
<1> HIDE DEF Step
<1>6. PICK f \in [0 .. m -> Views(s)] : Iterate(f, m, x0, Step)
  BY <1>1, <1>2, <1>4, Iterates
<1>7. ASSUME NEW k \in 0 .. m, k # 0 PROVE Step[k][f[k - 1]] = SeeNext(f[k - 1], s)
  <2>1. k \in 1 .. m /\ k - 1 \in 0 .. m
    BY <1>1, <1>7
  <2> QED
    BY <1>5, <1>6, <2>1
<1>8. Fits(f)
  BY <1>6, <1>7 DEF Iterate
<1>9. Fits(w)
  <2> HIDE DEF Fits
  <2> QED
    BY <1>8
<1> HIDE DEF w
<1>10. \A k \in 1 .. m : k # 0 /\ k - 1 \in 0 .. m /\ k \in 0 .. m
  BY <1>1
<1>11. w[0] = x0 /\ \A k \in 1 .. m : w[k] = SeeNext(w[k - 1], s)
  BY <1>1, <1>9, <1>10
<1>12. \A k \in 0 .. m : w[k] \in Views(s)
  <2> DEFINE S == {k \in 0 .. m : w[k] \in Views(s)}
  <2>1. 0 \in S
    BY <1>1, <1>2, <1>11
  <2>2. ASSUME NEW k \in 0 .. m, k # m, k \in S PROVE k + 1 \in S
    <3>1. k + 1 \in 1 .. m /\ (k + 1) - 1 = k
      BY <1>1, <2>2
    <3>2. w[k + 1] = SeeNext(w[k], s)
      BY <1>11, <3>1
    <3> QED
      BY <1>10, <2>2, <3>1, <3>2, SeeNextType
  <2>3. \A k \in 0 .. m : k \in S
    <3> HIDE DEF S
    <3> QED
      BY <1>1, <2>1, <2>2, Upwards
  <2> QED
    BY <2>3
<1>13. w \in [0 .. m -> Views(s)]
  <2>1. w = [k \in 0 .. m |-> IF k = 0 THEN x0 ELSE SeeNext(w[k - 1], s)]
    BY <1>9
  <2>2. DOMAIN w = 0 .. m /\ w = [k \in 0 .. m |-> w[k]]
    BY <2>1
  <2> HIDE DEF Fits
  <2> QED
    BY <1>12, <2>2
<1> QED
  BY <1>3, <1>11, <1>13 DEF m, x0

\* A character that a parser sees is what its code is encoded to.
Again(s, c) == c.u < UNICODE => Encoded(c.u) = SubSeq(s, c.at + 1, c.at + c.n)

\* The checker, whose states are f, is between characters where the parser is, and
\* count_characters, whose states are t, has counted those that the parser has seen.
InStep(s, f, t, w) ==
  /\ w \in Views(s)
  /\ f[w.at].ok /\ f[w.at].k = 1
  /\ (\A k \in DOMAIN s : s[k] # 0) => t[w.at].rest = 0 /\ ~ t[w.at].ended /\ t[w.at].n = Len(w.chars)
  /\ \A k \in 1 .. Len(w.chars) : Again(s, w.chars[k])

LEMMA NextAgain ==
  ASSUME NEW s \in Seq(Byte), NEW w \in Views(s), IsNext(w, s)
  PROVE  Again(s, NextSighting(w, s))
<1> DEFINE r == Left(w, s)
           n == NextLength(w, s)
           u == CodeIn(r, n)
           c == NextSighting(w, s)
<1>1. /\ w.at \in 0 .. Len(s) /\ r \in Seq(Byte) /\ Len(r) \in Nat /\ Len(r) = Len(s) - w.at
      /\ Behind(s, w.at, r) /\ w.at \in Nat /\ Len(s) \in Nat /\ (w.at < Len(s) => n \in Nat)
  BY LeftBehind
<1>2. Len(r) > 0 /\ Legal(r, n) /\ n = Length(r[1]) /\ n \in Nat
  BY <1>1 DEF IsNext, NextLength
<1> HIDE DEF r, n
<1>3. n \in 1 .. Len(r)
  BY <1>1, <1>2 DEF Legal
<1>4. u < UNICODE => Encoded(u) = SubSeq(r, 1, n)
  BY <1>1, <1>2, EncodedAgain
<1>5. SubSeq(r, 1, n) = SubSeq(s, w.at + 1, w.at + n)
  BY <1>1, <1>3, PartBehind
<1>6. c.at = w.at /\ c.n = n /\ c.u = u
  BY DEF NextSighting, r, n
<1> HIDE DEF u, c
<1>7. Again(s, c)
  BY <1>4, <1>5, <1>6 DEF Again
<1> QED
  BY <1>7 DEF c

LEMMA StaysInStep ==
  ASSUME NEW s \in Seq(Byte), NEW f, Checked(f, s), NEW t \in [0 .. Len(s) -> Counts],
         \A k \in 1 .. Len(s) : t[k] = CountByte(t[k - 1], s[k]), NEW w, InStep(s, f, t, w), IsNext(w, s)
  PROVE  InStep(s, f, t, SeeNext(w, s)) /\ SeeNext(w, s).at > w.at
<1> DEFINE i == w.at
           n == NextLength(w, s)
           c == NextSighting(w, s)
           x == SeeNext(w, s)
           q == Append(w.chars, c)
           r == Left(w, s)
           j == i + n
<1>0. w \in Views(s)
  BY DEF InStep
<1>1. /\ i \in Nat /\ i \in 0 .. Len(s) /\ Len(s) \in Nat /\ w.chars \in Seq(Sightings)
      /\ r \in Seq(Byte) /\ Len(r) \in Nat /\ Len(r) = Len(s) - i /\ Behind(s, i, r)
  BY <1>0, LeftBehind
<1>2. x \in Views(s)
  BY <1>0, SeeNextType
<1>3. c \in Sightings /\ n > 0 /\ j \in 0 .. Len(s) /\ x = [at |-> j, chars |-> q]
  BY <1>0, NextSeen
<1>4. i < Len(s) /\ Legal(r, n) /\ n = Length(r[1]) /\ n \in Nat
  BY <1>0, LeftBehind DEF IsNext, NextLength
<1>5. Len(w.chars) \in Nat /\ Len(q) = Len(w.chars) + 1 /\ \A k \in 1 .. Len(w.chars) : q[k] = w.chars[k]
  BY <1>1, <1>3, AppendProperties, LenProperties
<1>6. q[Len(w.chars) + 1] = c
  BY <1>1, <1>3, AppendProperties
<1>7. Again(s, c)
  BY <1>0, NextAgain
<1> HIDE DEF q, c, r
<1>8. x.at = j /\ x.chars = q /\ j > i
  BY <1>1, <1>3, <1>4
<1> HIDE DEF x, n
<1>9. f[j].ok /\ f[j].k = 1
  <2>1. i \in 0 .. (Len(s) - 1) /\ f[i].ok /\ f[i].k = 1
    BY <1>1, <1>4 DEF InStep
  <2> QED
    BY <1>1, <1>4, <2>1, CheckedAsSeen
<1>10. ASSUME \A k \in DOMAIN s : s[k] # 0
       PROVE  t[j].rest = 0 /\ ~ t[j].ended /\ t[j].n = Len(q)
  <2>1. i \in 0 .. (Len(s) - 1) /\ t[i].rest = 0 /\ ~ t[i].ended /\ t[i].n = Len(w.chars)
    BY <1>1, <1>4, <1>10 DEF InStep
  <2>2. i + 1 \in DOMAIN s /\ 1 \in 1 .. Len(r)
    BY <1>1, <1>4, LenProperties
  <2>3. s[i + 1] # 0 /\ r[1] = s[i + 1]
    BY <1>1, <1>10, <2>2 DEF Behind
  <2>4. j <= Len(s)
    BY <1>1, <1>3
  <2>5. t[i + n].rest = 0 /\ ~ t[i + n].ended /\ t[i + n].n = t[i].n + 1
    BY <1>3, <1>4, <2>1, <2>3, <2>4, CountedThrough
  <2> QED
    BY <1>5, <2>1, <2>5
<1> HIDE DEF i, j
<1>11. \A k \in 1 .. Len(q) : Again(s, q[k])
  <2>1. ASSUME NEW k \in 1 .. Len(q) PROVE Again(s, q[k])
    <3>1. k \in 1 .. Len(w.chars) \/ k = Len(w.chars) + 1
      BY <1>5
    <3>2. CASE k \in 1 .. Len(w.chars)
      BY <1>5, <3>2 DEF InStep
    <3>3. CASE k = Len(w.chars) + 1
      BY <1>6, <1>7, <3>3
    <3> QED
      BY <3>1, <3>2, <3>3
  <2> QED
    BY <2>1
<1>12. InStep(s, f, t, x)
  BY <1>2, <1>8, <1>9, <1>10, <1>11 DEF InStep
<1> QED
  BY <1>8, <1>12 DEF x, i

LEMMA AgreedOfAll ==
  ASSUME NEW s \in Seq(Byte)
  PROVE  Agreed(s)
<1> DEFINE m == Len(s)
<1>1. m \in Nat /\ DOMAIN s = 1 .. m
  BY LenProperties
<1>2. PICK f : Checked(f, s)
  BY CheckSteps
<1>3. PICK t \in [0 .. Len(s) -> Counts] :
        /\ count_characters(s) = t[Len(s)].n
        /\ t[0].n = 0 /\ t[0].rest = 0 /\ ~ t[0].ended
        /\ \A i \in 1 .. Len(s) : t[i] = CountByte(t[i - 1], s[i])
  BY CountSteps
<1>4. PICK w \in [0 .. Len(s) -> Views(s)] :
        /\ Seen(s) = w[Len(s)]
        /\ w[0] = [at |-> 0, chars |-> <<>>]
        /\ \A k \in 1 .. Len(s) : w[k] = SeeNext(w[k - 1], s)
  BY SeenSteps
<1> DEFINE AtEnd(k) == w[k].at >= k \/ ~ IsNext(w[k], s)
           S == {k \in 0 .. m : InStep(s, f, t, w[k]) /\ AtEnd(k)}
<1>5. 0 \in S
  <2> DEFINE x == w[0]
  <2>1. x \in Views(s)
    BY <1>1
  <2>2. x.at = 0 /\ x.chars = <<>> /\ Len(x.chars) = 0
    BY <1>4
  <2>3. f[0].ok /\ f[0].k = 1
    BY <1>2 DEF Checked
  <2> HIDE DEF x
  <2>4. InStep(s, f, t, x)
    BY <1>3, <2>1, <2>2, <2>3 DEF InStep
  <2>5. AtEnd(0)
    BY <2>2 DEF x
  <2> HIDE DEF AtEnd
  <2> QED
    BY <1>1, <2>4, <2>5 DEF x
<1>6. ASSUME NEW k \in 0 .. m, k # m, k \in S PROVE k + 1 \in S
  <2> DEFINE x == w[k]
             y == w[k + 1]
  <2>1. k + 1 \in 1 .. m /\ k + 1 - 1 = k /\ k \in Nat /\ k + 1 \in 0 .. m
    <3>1. m \in Nat /\ k \in 0 .. m /\ k # m
      BY <1>1, <1>6
    <3> HIDE DEF m, S
    <3> QED
      BY <3>1
  <2>2. y = SeeNext(x, s)
    BY <1>4, <2>1
  <2>3. InStep(s, f, t, x) /\ AtEnd(k)
    BY <1>6
  <2>4. x \in Views(s)
    BY <2>3 DEF InStep
  <2>5. CASE ~ IsNext(x, s)
    <3>1. y = x
      BY <2>2, <2>4, <2>5, NextSeen
    <3> HIDE DEF AtEnd
    <3>2. InStep(s, f, t, y)
      BY <2>3, <3>1
    <3>3. AtEnd(k + 1)
      BY <2>5, <3>1 DEF AtEnd
    <3> QED
      BY <2>1, <3>2, <3>3
  <2>6. CASE IsNext(x, s)
    <3>1. x.at >= k /\ x.at \in Nat
      BY <2>3, <2>4, <2>6, LeftBehind
    <3> HIDE DEF AtEnd
    <3>2. InStep(s, f, t, y) /\ y.at > x.at
      BY <1>2, <1>3, <2>2, <2>3, <2>6, StaysInStep
    <3>3. y.at \in Nat
      BY <3>2, LeftBehind DEF InStep
    <3> HIDE DEF x
    <3>4. y.at >= k + 1
      BY <2>1, <3>1, <3>2, <3>3
    <3>5. AtEnd(k + 1)
      BY <3>4 DEF AtEnd
    <3> QED
      BY <2>1, <3>2, <3>5
  <2> QED
    BY <2>5, <2>6
<1>7. \A k \in 0 .. m : k \in S
  <2> HIDE DEF S, m
  <2> QED
    BY <1>1, <1>5, <1>6, Upwards
<1> DEFINE seen == w[m]
<1>8. InStep(s, f, t, seen) /\ AtEnd(m)
  <2>1. m \in S
    BY <1>1, <1>7
  <2> QED
    BY <2>1
<1>9. seen \in Views(s) /\ seen.at \in 0 .. m /\ seen.at \in Nat /\ seen.chars \in Seq(Sightings)
  BY <1>8, LeftBehind DEF InStep
<1>10. seen.at = m \/ (seen.at < m /\ ~ IsNext(seen, s))
  BY <1>1, <1>8, <1>9
<1>11. Seen(s) = seen
  BY <1>4
<1> HIDE DEF AtEnd, S, seen
<1>12. is_valid_utf8_string(s) <=> seen.at = m
  <2>1. is_valid_utf8_string(s) <=> f[m].ok /\ f[m].k = 1
    BY <1>2 DEF Checked
  <2>2. CASE seen.at = m
    BY <1>8, <2>1, <2>2 DEF InStep
  <2>3. CASE seen.at < m /\ ~ IsNext(seen, s)
    <3> DEFINE r == Left(seen, s)
               n == NextLength(seen, s)
               i == seen.at
    <3>1. i \in 0 .. (Len(s) - 1) /\ f[i].ok /\ f[i].k = 1
      BY <1>1, <1>8, <1>9, <2>3 DEF InStep
    <3>2. Behind(s, i, r) /\ n \in Nat
      BY <1>9, <2>3, LeftBehind
    <3>3. ~ Legal(r, n) /\ n = Length(r[1])
      BY <2>3 DEF IsNext, NextLength
    <3> HIDE DEF r, n, i
    <3>4. ~ (f[Len(s)].ok /\ f[Len(s)].k = 1)
      BY <1>2, <3>1, <3>2, <3>3, CheckedAsSeen
    <3> QED
      BY <1>1, <1>9, <2>1, <2>3, <3>4
  <2> QED
    BY <1>10, <2>2, <2>3
<1>13. ASSUME is_valid_utf8_string(s), \A k \in DOMAIN s : s[k] # 0
       PROVE  count_characters(s) = Len(seen.chars)
  <2>1. seen.at = m
    BY <1>12, <1>13
  <2> QED
    BY <1>3, <1>8, <1>13, <2>1 DEF InStep
<1>14. DOMAIN seen.chars = 1 .. Len(seen.chars)
  BY <1>9, LenProperties
<1>15. ASSUME NEW k \in DOMAIN seen.chars PROVE Again(s, seen.chars[k])
  BY <1>8, <1>14, <1>15 DEF InStep
<1>16. ASSUME NEW k \in DOMAIN seen.chars, seen.chars[k].u < UNICODE
       PROVE  Encoded(seen.chars[k].u) = SubSeq(s, seen.chars[k].at + 1, seen.chars[k].at + seen.chars[k].n)
  BY Zenon, <1>15, <1>16 DEF Again
<1> HIDE DEF m
<1>17. /\ is_valid_utf8_string(s) <=> seen.at = Len(s)
       /\ is_valid_utf8_string(s) /\ (\A k \in DOMAIN s : s[k] # 0) => count_characters(s) = Len(seen.chars)
       /\ \A k \in DOMAIN seen.chars :
            seen.chars[k].u < UNICODE =>
              Encoded(seen.chars[k].u) = SubSeq(s, seen.chars[k].at + 1, seen.chars[k].at + seen.chars[k].n)
  BY Zenon, <1>12, <1>13, <1>16 DEF m
<1> QED
  BY Zenon, <1>11, <1>17 DEF Agreed

-----------------------------------------------------------------------------
(* The value of a literal is a sequence of bytes.                           *)

Escapes == [ok : BOOLEAN, bytes : Seq(Byte), n : Nat]

LEMMA EscapeType ==
  ASSUME NEW b \in Seq(Byte), NEW n \in Nat
  PROVE  Escape(b, n) \in Escapes
<1>1. PICK yes \in BOOLEAN : yes = TRUE
  OBVIOUS
<1>2. [ok |-> yes, bytes |-> b, n |-> n] \in Escapes
  BY DEF Escapes
<1>3. Escape(b, n) = [ok |-> yes, bytes |-> b, n |-> n]
  BY Zenon, <1>1 DEF Escape
<1> QED
  BY <1>2, <1>3

LEMMA NoEscapeType == NoEscape \in Escapes
<1>1. PICK no \in BOOLEAN : no = FALSE
  OBVIOUS
<1> DEFINE e == <<>>
<1>2. e \in Seq(Byte) /\ 0 \in Nat
  OBVIOUS
<1> HIDE DEF e
<1>3. [ok |-> no, bytes |-> e, n |-> 0] \in Escapes
  BY <1>2 DEF Escapes
<1>4. NoEscape = [ok |-> no, bytes |-> e, n |-> 0]
  BY Zenon, <1>1 DEF NoEscape, e
<1> QED
  BY <1>3, <1>4

LEMMA HexType ==
  ASSUME NEW c \in Byte
  PROVE  Hex(c) \in Int /\ Hex(c) <= 15 /\ Hex(c) >= -1
BY SMT DEF Hex, Byte

LEMMA EncodedType ==
  ASSUME NEW u \in Nat, u < UNICODE
  PROVE  Encoded(u) \in Seq(Byte)
<1> DEFINE a == u \div 64
           b == u \div 4096
           c == u \div 262144
           x == (u \div 1) % 64
           y == (u \div 64) % 64
           z == (u \div 4096) % 64
<1>1. x \in 0 .. 63 /\ y \in 0 .. 63 /\ z \in 0 .. 63
  BY SMT
<1>2. 128 + x \in Byte /\ 128 + y \in Byte /\ 128 + z \in Byte
  <2> HIDE DEF x, y, z
  <2> QED
    BY <1>1 DEF Byte
<1>3. CASE u < 128
  <2>1. u \in Byte
    BY <1>3 DEF Byte
  <2>2. Encoded(u) = <<u>>
    BY SMT, <1>3, EncodedAsOne
  <2>3. <<u>> \in Seq(Byte)
    BY <2>1
  <2> QED
    BY <2>2, <2>3
<1>4. CASE u >= 128 /\ u <= 2047
  <2>1. 192 + a \in Byte
    BY SMT, <1>4 DEF Byte
  <2>2. Encoded(u) = <<192 + a, 128 + x>>
    BY <1>4, EncodedAsTwo
  <2> HIDE DEF a, x
  <2> QED
    BY <1>2, <2>1, <2>2
<1>5. CASE u >= 2048 /\ u <= 65535
  <2>1. 224 + b \in Byte
    BY SMT, <1>5 DEF Byte
  <2>2. Encoded(u) = <<224 + b, 128 + y, 128 + x>>
    BY SMT, <1>5, EncodedAsThree
  <2> HIDE DEF b, x, y
  <2> QED
    BY <1>2, <2>1, <2>2
<1>6. CASE u > 65535
  <2>1. 240 + c \in Byte
    BY SMT, <1>6 DEF Byte, UNICODE
  <2>2. Encoded(u) = <<240 + c, 128 + z, 128 + y, 128 + x>>
    BY SMT, <1>6, EncodedAsFour
  <2> HIDE DEF c, x, y, z
  <2> QED
    BY <1>2, <2>1, <2>2
<1> QED
  BY SMT, <1>3, <1>4, <1>5, <1>6

LEMMA SimpleType ==
  ASSUME NEW c \in DOMAIN Simple
  PROVE  Simple[c] \in Byte
<1> DEFINE from == <<39, 34, 48, 97, 98, 102, 110, 114, 116, 118>>
           to   == <<39, 34, 0, 7, 8, 12, 10, 13, 9, 11>>
           k == CHOOSE j \in DOMAIN from : from[j] = c
<1>1. c \in ToSet(from) /\ Simple[c] = to[k]
  BY Zenon DEF Simple
<1>2. \E j \in DOMAIN from : from[j] = c
  BY Zenon, <1>1 DEF ToSet
<1>3. k \in DOMAIN from
  BY Zenon, <1>2
<1>4. DOMAIN from = 1 .. 10
  OBVIOUS
<1> HIDE DEF k, from
<1>5. to[k] \in Byte
  BY <1>3, <1>4 DEF Byte
<1> QED
  BY <1>1, <1>5

LEMMA TwoType ==
  ASSUME NEW a \in Byte, NEW b \in Byte, Hex(a) >= 0, Hex(b) >= 0
  PROVE  Hex(a) * 16 + Hex(b) \in Byte
<1> DEFINE x == Hex(a)
           y == Hex(b)
<1>1. x \in 0 .. 15 /\ y \in 0 .. 15
  BY HexType
<1> HIDE DEF x, y
<1>2. x * 16 + y \in Byte
  BY <1>1 DEF Byte
<1> QED
  BY <1>2 DEF x, y

\* The codes of four digits.
Short == 0 .. 65535
TwoBytes(a, b) == a * 256 + b

LEMMA FourType ==
  ASSUME NEW a \in Byte, NEW b \in Byte
  PROVE  TwoBytes(a, b) \in Short
BY SMT DEF Byte, Short, TwoBytes

LEMMA ShortType ==
  ASSUME NEW a \in Short
  PROVE  a \in Nat /\ a < UNICODE
BY SMT DEF Short, UNICODE

LEMMA RestBy1024 ==
  ASSUME NEW a \in Nat
  PROVE  a % 1024 \in Nat /\ a % 1024 <= 1023
BY SMT

LEMMA PairedType ==
  ASSUME NEW a \in Nat, NEW b \in Nat
  PROVE  Paired(a, b) \in Nat /\ Paired(a, b) < UNICODE
<1>1. /\ a % 1024 \in Nat /\ a % 1024 <= 1023
      /\ b % 1024 \in Nat /\ b % 1024 <= 1023
  BY RestBy1024
<1>2. ASSUME NEW x \in Nat, NEW y \in Nat, x <= 1023, y <= 1023
      PROVE  (x + 64) * 1024 + y \in Nat /\ (x + 64) * 1024 + y < 1114112
  BY SMT, <1>2
<1> QED
  BY SMT, <1>1, <1>2 DEF Paired, UNICODE

LEMMA ByteSequences ==
  ASSUME NEW a \in Byte, NEW b \in Byte
  PROVE  <<a>> \in Seq(Byte) /\ <<a, b>> \in Seq(Byte) /\ <<>> \in Seq(Byte)
OBVIOUS

LEMMA EscapeAtType ==
  ASSUME NEW s \in Seq(Byte), NEW behind \in Byte, NEW cls \in BOOLEAN
  PROVE  EscapeAt(s, behind, cls) \in Escapes
<1> DEFINE At(k) == IF k <= Len(s) THEN s[k] ELSE behind
           HexAt(k, m) == \A h \in k .. (k + m - 1) : Hex(At(h)) >= 0
           Two(k)  == Hex(At(k)) * 16 + Hex(At(k + 1))
           Four(k) == Two(k) * 256 + Two(k + 2)
           pair == At(6) = BACKSLASH /\ At(7) = 117 /\ HexAt(8, 4) /\ Low(Four(8))
           result == EscapeAt(s, behind, cls)
<1>1. ASSUME NEW k \in Nat, k > 0 PROVE At(k) \in Byte
  <2>1. CASE k <= Len(s)
    <3>1. k \in 1 .. Len(s)
      BY <1>1, <2>1, LenProperties
    <3> QED
      BY <2>1, <3>1, ElementOfSeq
  <2>2. CASE ~ (k <= Len(s))
    BY <2>2
  <2> QED
    BY <2>1, <2>2
<1> HIDE DEF At
<1>2. ASSUME NEW k \in Nat, k > 0, Hex(At(k)) >= 0, Hex(At(k + 1)) >= 0 PROVE Two(k) \in Byte
  <2>1. At(k) \in Byte /\ At(k + 1) \in Byte
    BY <1>1, <1>2
  <2> QED
    BY <1>2, <2>1, TwoType
<1>3. ASSUME NEW k \in Nat, k > 0, HexAt(k, 4) PROVE Four(k) \in Short
  <2>1. k \in k .. (k + 4 - 1) /\ k + 1 \in k .. (k + 4 - 1) /\ k + 2 \in k .. (k + 4 - 1) /\ k + 2 + 1 \in k .. (k + 4 - 1)
    BY <1>3
  <2>2. Hex(At(k)) >= 0 /\ Hex(At(k + 1)) >= 0 /\ Hex(At(k + 2)) >= 0 /\ Hex(At(k + 2 + 1)) >= 0
    BY Zenon, <1>3, <2>1
  <2>3. k + 2 \in Nat /\ k + 2 > 0
    BY <1>3
  <2>4. Two(k) \in Byte /\ Two(k + 2) \in Byte
    BY Zenon, <1>2, <1>3, <2>2, <2>3
  <2> HIDE DEF Two
  <2>5. TwoBytes(Two(k), Two(k + 2)) \in Short
    BY Zenon, <2>4, FourType
  <2>6. Four(k) = TwoBytes(Two(k), Two(k + 2))
    BY DEF TwoBytes
  <2> QED
    BY Zenon, <2>5, <2>6
<1>4. HexAt(2, 4) => Four(2) \in Short
  BY <1>3
<1>5. HexAt(8, 4) => Four(8) \in Short
  BY <1>3
<1> DEFINE c == At(1)
           bytes == IF cls THEN <<BACKSLASH, BACKSLASH>> ELSE <<BACKSLASH>>
           len == IF At(2) = LF THEN 2 ELSE 1
<1>6. c \in Byte
  BY <1>1
<1>7. BACKSLASH \in Byte
  BY DEF BACKSLASH, Byte
<1> HIDE DEF HexAt, Two, Four, pair
<1>8. \/ c \in DOMAIN Simple /\ result = Escape(<<Simple[c]>>, 1)
      \/ c = 120 /\ HexAt(2, 2) /\ result = Escape(<<Two(2)>>, 3)
      \/ result = NoEscape
      \/ c = 117 /\ HexAt(2, 4) /\ result = Escape(Encoded(Four(2)), 5)
      \/ c = 117 /\ HexAt(2, 4) /\ pair /\ result = Escape(Encoded(Paired(Four(2), Four(8))), 11)
      \/ result = Escape(<<>>, 1)
      \/ result = Escape(<<>>, len)
      \/ result = Escape(bytes, 1)
      \/ result = Escape(<<BACKSLASH, c>>, 1)
  <2>1. result = CASE c \in DOMAIN Simple -> Escape(<<Simple[c]>>, 1)
       [] c = 120 -> IF HexAt(2, 2) THEN Escape(<<Two(2)>>, 3) ELSE NoEscape
       [] c = 117 ->
            IF ~ HexAt(2, 4) \/ Low(Four(2)) THEN NoEscape
            ELSE IF ~ High(Four(2)) THEN Escape(Encoded(Four(2)), 5)
            ELSE IF pair THEN Escape(Encoded(Paired(Four(2), Four(8))), 11) ELSE NoEscape
       [] c = LF -> Escape(<<>>, 1)
       [] c = CR -> Escape(<<>>, len)
       [] c = BACKSLASH -> Escape(bytes, 1)
       [] c \notin DOMAIN Simple \cup {120, 117, LF, CR, BACKSLASH} ->
            Escape(<<BACKSLASH, c>>, 1)
    BY Zenon DEF EscapeAt, At, HexAt, Two, Four, pair
  <2> HIDE DEF c, bytes, len, result
  <2> DEFINE dom == DOMAIN Simple
             v1 == Escape(<<Simple[c]>>, 1)
             v2 == Escape(<<Two(2)>>, 3)
             v3 == Escape(Encoded(Four(2)), 5)
             v4 == Escape(Encoded(Paired(Four(2), Four(8))), 11)
             v5 == Escape(<<>>, 1)
             v6 == Escape(<<>>, len)
             v7 == Escape(bytes, 1)
             v8 == Escape(<<BACKSLASH, c>>, 1)
  <2> HIDE DEF dom, v1, v2, v3, v4, v5, v6, v7, v8
  <2>2. \/ c \in dom /\ result = v1
        \/ c = 120 /\ HexAt(2, 2) /\ result = v2
        \/ result = NoEscape
        \/ c = 117 /\ HexAt(2, 4) /\ result = v3
        \/ c = 117 /\ HexAt(2, 4) /\ pair /\ result = v4
        \/ result = v5
        \/ result = v6
        \/ result = v7
        \/ result = v8
    BY <2>1 DEF dom, v1, v2, v3, v4, v5, v6, v7, v8
  <2> QED
    BY Zenon, <2>2 DEF dom, v1, v2, v3, v4, v5, v6, v7, v8
<1> QED
  <2> HIDE DEF c, bytes, len, result
  <2>1. CASE c \in DOMAIN Simple /\ result = Escape(<<Simple[c]>>, 1)
    <3>1. <<Simple[c]>> \in Seq(Byte)
      BY <1>7, <2>1, SimpleType, ByteSequences
    <3> QED
      BY <2>1, <3>1, EscapeType DEF result
  <2>2. CASE c = 120 /\ HexAt(2, 2) /\ result = Escape(<<Two(2)>>, 3)
    <3>1. Hex(At(2)) >= 0 /\ Hex(At(2 + 1)) >= 0
      <4>1. 2 \in 2 .. (2 + 2 - 1) /\ 2 + 1 \in 2 .. (2 + 2 - 1)
        OBVIOUS
      <4> QED
        BY Zenon, <2>2, <4>1 DEF HexAt
    <3>2. Two(2) \in Byte
      BY <1>2, <3>1
    <3>3. <<Two(2)>> \in Seq(Byte)
      BY <1>7, <3>2, ByteSequences
    <3> QED
      BY <2>2, <3>3, EscapeType DEF result
  <2>3. CASE result = NoEscape
    BY <2>3, NoEscapeType DEF result
  <2>4. CASE c = 117 /\ HexAt(2, 4) /\ result = Escape(Encoded(Four(2)), 5)
    <3>1. Four(2) \in Nat /\ Four(2) < UNICODE
      <4>1. Four(2) \in Short
        BY Zenon, <1>4, <2>4
      <4> QED
        BY <4>1, ShortType
    <3>2. Encoded(Four(2)) \in Seq(Byte)
      BY <3>1, EncodedType
    <3> QED
      BY <2>4, <3>2, EscapeType DEF result
  <2>5. CASE c = 117 /\ HexAt(2, 4) /\ pair /\ result = Escape(Encoded(Paired(Four(2), Four(8))), 11)
    <3>1. Four(2) \in Nat /\ Four(8) \in Nat
      <4>1. HexAt(8, 4)
        BY <2>5 DEF pair
      <4>2. Four(2) \in Short /\ Four(8) \in Short
        BY Zenon, <1>4, <1>5, <2>5, <4>1
      <4> QED
        BY <4>2, ShortType
    <3>2. Paired(Four(2), Four(8)) \in Nat /\ Paired(Four(2), Four(8)) < UNICODE
      BY <3>1, PairedType
    <3>3. Encoded(Paired(Four(2), Four(8))) \in Seq(Byte)
      BY <3>2, EncodedType
    <3> QED
      BY <2>5, <3>3, EscapeType DEF result
  <2>6. CASE result = Escape(<<>>, 1) \/ result = Escape(<<>>, len)
    <3>1. <<>> \in Seq(Byte)
      BY <1>7, ByteSequences
    <3>2. len \in Nat /\ 1 \in Nat
      BY DEF len
    <3> QED
      BY <2>6, <3>1, <3>2, EscapeType DEF result
  <2>7. CASE result = Escape(bytes, 1)
    <3>1. bytes \in Seq(Byte)
      BY <1>7, ByteSequences DEF bytes
    <3> QED
      BY <2>7, <3>1, EscapeType DEF result
  <2>8. CASE result = Escape(<<BACKSLASH, c>>, 1)
    <3>1. <<BACKSLASH, c>> \in Seq(Byte)
      BY <1>6, <1>7, ByteSequences
    <3> QED
      BY <2>8, <3>1, EscapeType DEF result
  <2> QED
    BY Zenon, <1>8, <2>1, <2>2, <2>3, <2>4, <2>5, <2>6, <2>7, <2>8 DEF result

LEMMA FirstType ==
  ASSUME NEW s \in Seq(Byte), Len(s) > 0, NEW behind \in Byte, NEW cls \in BOOLEAN
  PROVE  First(s, behind, cls) \in Escapes
<1>1. Len(s) \in Nat /\ 1 \in 1 .. Len(s) /\ s # <<>>
  BY LenProperties
<1>2. s[1] \in Byte /\ Tail(s) \in Seq(Byte)
  BY <1>1, ElementOfSeq, HeadTailProperties
<1>3. <<s[1]>> \in Seq(Byte)
  BY <1>2, ByteSequences
<1>4. Escape(<<s[1]>>, 0) \in Escapes /\ EscapeAt(Tail(s), behind, cls) \in Escapes
  BY <1>2, <1>3, EscapeType, EscapeAtType
<1> QED
  BY <1>4 DEF First

\* The loop of unescape_string.
Unescapings == [ok : BOOLEAN, bytes : Seq(Byte), skip : Nat]

LEMMA UnescapeByteType ==
  ASSUME NEW s \in Seq(Byte), NEW k \in 1 .. Len(s), NEW behind \in Byte, NEW cls \in BOOLEAN, NEW w \in Unescapings
  PROVE  UnescapeByte(w, s, k, behind, cls) \in Unescapings
<1> DEFINE r == SubSeq(s, k, Len(s))
           e == First(r, behind, cls)
           bytes == IF e.ok THEN w.bytes \o e.bytes ELSE <<>>
           rest == w.skip - 1
<1>1. Len(s) \in Nat /\ k \in Nat
  BY LenProperties
<1>2. r \in Seq(Byte) /\ Len(r) > 0
  <2> DEFINE b == Len(s)
  <2>1. k \in Int /\ b \in Int /\ k <= b /\ b - k + 1 > 0 /\ \A j \in k .. b : s[j] \in Byte
    BY <1>1, ElementOfSeq
  <2> HIDE DEF b
  <2>2. /\ SubSeq(s, k, b) \in Seq(Byte)
        /\ Len(SubSeq(s, k, b)) = IF k <= b THEN b - k + 1 ELSE 0
    BY <2>1, SubSeqProperties
  <2> QED
    BY <2>1, <2>2 DEF b
<1>3. e \in Escapes
  <2> HIDE DEF r
  <2> QED
    BY <1>2, FirstType
<1>4. /\ w.ok \in BOOLEAN /\ w.bytes \in Seq(Byte) /\ w.skip \in Nat
      /\ e.ok \in BOOLEAN /\ e.bytes \in Seq(Byte) /\ e.n \in Nat
  BY <1>3 DEF Unescapings, Escapes
<1>5. bytes \in Seq(Byte)
  <2> HIDE DEF e
  <2>1. w.bytes \o e.bytes \in Seq(Byte)
    BY <1>4, ConcatProperties
  <2> QED
    BY <2>1
<1> HIDE DEF bytes
<1>6. CASE ~ w.ok
  BY Zenon, <1>6 DEF UnescapeByte
<1>7. CASE w.ok /\ w.skip > 0
  <2>1. rest \in Nat
    BY <1>4, <1>7
  <2>2. UnescapeByte(w, s, k, behind, cls) = [w EXCEPT !.skip = rest]
    BY <1>4, <1>7 DEF UnescapeByte
  <2> HIDE DEF rest
  <2> QED
    BY <2>1, <2>2 DEF Unescapings
<1>8. CASE w.ok /\ w.skip = 0
  <2> HIDE DEF e
  <2>1. UnescapeByte(w, s, k, behind, cls) = [ok |-> e.ok, bytes |-> bytes, skip |-> e.n]
    BY <1>4, <1>8 DEF UnescapeByte, bytes, e
  <2> QED
    BY <1>4, <1>5, <2>1 DEF Unescapings
<1> QED
  BY <1>4, <1>6, <1>7, <1>8

LEMMA UnescapedType ==
  ASSUME NEW s \in Seq(Byte), NEW behind \in Byte, NEW cls \in BOOLEAN
  PROVE  Unescaped(s, behind, cls) \in Unescapings
<1> DEFINE m == Len(s)
           x0 == [ok |-> TRUE, bytes |-> <<>>, skip |-> 0]
           Next1(x, k) == UnescapeByte(x, s, k, behind, cls)
           Fits(f) == f = [k \in 0 .. m |-> IF k = 0 THEN x0 ELSE Next1(f[k - 1], k)]
           w == CHOOSE f : Fits(f)
           Step == [k \in 1 .. m |-> [x \in Unescapings |-> Next1(x, k)]]
<1>1. m \in Nat
  BY LenProperties
<1>2. x0 \in Unescapings
  <2> DEFINE e == <<>>
  <2>1. PICK yes \in BOOLEAN : yes = TRUE
    OBVIOUS
  <2>2. e \in Seq(Byte) /\ 0 \in Nat
    OBVIOUS
  <2> HIDE DEF e
  <2>3. [ok |-> yes, bytes |-> e, skip |-> 0] \in Unescapings
    BY <2>2 DEF Unescapings
  <2>4. x0 = [ok |-> yes, bytes |-> e, skip |-> 0]
    BY Zenon, <2>1 DEF e
  <2> QED
    BY <2>3, <2>4
<1>3. Unescaped(s, behind, cls) = w[m]
  BY DEF Unescaped
<1>4. \A k \in 1 .. m, x \in Unescapings : Next1(x, k) \in Unescapings
  BY UnescapeByteType
<1> HIDE DEF m, x0, Next1
<1>5. Step \in [1 .. m -> [Unescapings -> Unescapings]]
  BY <1>4
<1>6. \A k \in 1 .. m, x \in Unescapings : Step[k][x] = Next1(x, k)
  OBVIOUS
<1> HIDE DEF Step
<1>7. PICK f \in [0 .. m -> Unescapings] : Iterate(f, m, x0, Step)
  BY <1>1, <1>2, <1>5, Iterates
<1>8. ASSUME NEW k \in 0 .. m, k # 0 PROVE Step[k][f[k - 1]] = Next1(f[k - 1], k)
  <2>1. k \in 1 .. m /\ k - 1 \in 0 .. m
    BY <1>1, <1>8
  <2> QED
    BY <1>6, <1>7, <2>1
<1>9. Fits(f)
  BY <1>7, <1>8 DEF Iterate
<1>10. Fits(w)
  <2> HIDE DEF Fits
  <2> QED
    BY <1>9
<1> HIDE DEF w
<1>11. \A k \in 1 .. m : k # 0 /\ k - 1 \in 0 .. m /\ k \in 0 .. m
  BY <1>1
<1>12. 0 \in 0 .. m /\ w[0] = x0 /\ \A k \in 1 .. m : w[k] = Next1(w[k - 1], k)
  BY <1>1, <1>10, <1>11
<1> HIDE DEF Fits
<1> DEFINE S == {k \in 0 .. m : w[k] \in Unescapings}
<1>13. 0 \in S
  BY <1>2, <1>12
<1>14. ASSUME NEW k \in 0 .. m, k # m, k \in S PROVE k + 1 \in S
  <2>1. k + 1 \in 1 .. m /\ (k + 1) - 1 = k
    BY <1>1, <1>14
  <2>2. w[k + 1] = Next1(w[k], k + 1)
    BY <1>12, <2>1
  <2> QED
    BY <1>4, <1>11, <1>14, <2>1, <2>2
<1>15. \A k \in 0 .. m : k \in S
  <2> HIDE DEF S
  <2> QED
    BY <1>1, <1>13, <1>14, Upwards
<1>16. m \in 0 .. m
  BY <1>1
<1>17. w[m] \in Unescapings
  BY <1>15, <1>16
<1> QED
  BY <1>3, <1>17

\* The values of literals.
Values == {v \in [ok : BOOLEAN, n : Nat, p : Seq(Byte)] : v.n <= Len(v.p)}

LEMMA NoValueType == NoValue \in Values
<1>1. PICK yes \in BOOLEAN : yes = TRUE
  OBVIOUS
<1> DEFINE q == <<0>>
           v == [ok |-> yes, n |-> 0, p |-> q]
<1>2. q \in Seq(Byte) /\ 0 \in Nat /\ 0 <= Len(q)
  BY DEF Byte
<1>3. NoValue = v
  BY Zenon, <1>1 DEF NoValue
<1> HIDE DEF q
<1>4. v \in [ok : BOOLEAN, n : Nat, p : Seq(Byte)] /\ v.n <= Len(v.p)
  BY <1>2
<1> QED
  BY <1>3, <1>4 DEF Values

LEMMA UnescapeStringType ==
  ASSUME NEW s \in Seq(Byte), NEW behind \in Byte, NEW cls \in BOOLEAN
  PROVE  unescape_string(s, behind, cls) \in Values
<1> DEFINE e == Unescaped(s, behind, cls)
           n == Len(e.bytes)
           b == Len(s)
           rest == SubSeq(s, n + 1, b)
           p == e.bytes \o rest \o <<behind>>
           v == [ok |-> e.ok, n |-> n, p |-> p]
<1>1. e \in Unescapings
  BY UnescapedType
<1>2. unescape_string(s, behind, cls) = v
  BY DEF unescape_string
<1> HIDE DEF e
<1>3. e.ok \in BOOLEAN /\ e.bytes \in Seq(Byte) /\ n \in Nat /\ b \in Nat
  BY <1>1, LenProperties DEF Unescapings
<1>4. rest \in Seq(Byte) /\ Len(rest) \in Nat
  <2>1. n + 1 \in Int /\ b \in Int /\ \A j \in (n + 1) .. b : s[j] \in Byte
    <3>1. \A j \in (n + 1) .. b : j \in 1 .. b
      BY <1>3
    <3> QED
      BY <1>3, <3>1, ElementOfSeq
  <2> HIDE DEF n, b
  <2>2. rest \in Seq(Byte)
    BY <2>1, SubSeqProperties
  <2> QED
    BY <2>2, LenProperties
<1> HIDE DEF b, rest
<1>5. p \in Seq(Byte) /\ n <= Len(p)
  <2> DEFINE q == e.bytes \o rest
             t == <<behind>>
  <2>1. q \in Seq(Byte) /\ Len(q) = n + Len(rest)
    BY <1>3, <1>4, ConcatProperties
  <2>2. t \in Seq(Byte) /\ Len(t) = 1
    OBVIOUS
  <2> HIDE DEF q, t
  <2>3. q \o t \in Seq(Byte) /\ Len(q \o t) = Len(q) + Len(t)
    BY <2>1, <2>2, ConcatProperties
  <2>4. n <= Len(q \o t)
    BY <1>3, <1>4, <2>1, <2>2, <2>3
  <2> QED
    BY <2>3, <2>4 DEF q, t
<1> HIDE DEF n, p
<1>6. v \in [ok : BOOLEAN, n : Nat, p : Seq(Byte)] /\ v.n <= Len(v.p)
  BY <1>3, <1>5
<1> QED
  BY <1>2, <1>6 DEF Values

\* What is read between two quotes is bytes of the file.
LEMMA RawType ==
  ASSUME NEW w \in Sound, NEW v \in Ahead(w)
  PROVE  SubSeq(v.buf, w.bufcur + 2, v.bufcur - 1) \in Seq(Byte)
<1>1. v \in Sound
  BY DEF Ahead
<1>2. /\ v.buf \in Seq(Byte) /\ Len(v.buf) \in Nat /\ v.bufcur \in Nat /\ w.bufcur \in Nat
      /\ v.bufcur <= Len(v.buf)
  BY <1>1, BufferType DEF Buffered
<1> DEFINE a == w.bufcur + 2
           b == v.bufcur - 1
<1>3. a \in Int /\ b \in Int /\ \A j \in a .. b : j \in 1 .. Len(v.buf)
  BY <1>2
<1>4. \A j \in a .. b : v.buf[j] \in Byte
  BY <1>2, <1>3, ElementOfSeq
<1> HIDE DEF a, b
<1>5. SubSeq(v.buf, a, b) \in Seq(Byte)
  BY <1>3, <1>4, SubSeqProperties
<1> QED
  BY <1>5 DEF a, b

LEMMA ReadKeepsValue ==
  ASSUME NEW kind, NEW w, NEW value \in Values, NEW errors, Read(kind, w, value, errors)
  PROVE  lit'.value \in Values
<1>1. lit'.value = value
  BY DEF Read
<1> QED
  BY <1>1

LEMMA LiteralValue ==
  ASSUME LexInv, NEW kind, NEW w \in Ahead(input), NEW b \in Behinds, ReadLiteral(kind, w, b)
  PROVE  lit'.value \in Values
<1> DEFINE raw == SubSeq(w.buf, input.bufcur + 2, w.bufcur - 1)
           cls == kind = "CHARCLASS"
           value == unescape_string(raw, b, cls)
<1>1. value \in Values
  <2>1. raw \in Seq(Byte)
    BY RawType DEF LexInv
  <2>2. b \in Byte
    BY LexingAssumption
  <2>3. cls \in BOOLEAN
    OBVIOUS
  <2> HIDE DEF raw, cls
  <2> QED
    BY <2>1, <2>2, <2>3, UnescapeStringType
<1>2. CASE w.errnum > input.errnum
  <2>1. Read(kind, w, NoValue, w.errnum - input.errnum)
    BY <1>2 DEF ReadLiteral
  <2> QED
    BY <2>1, NoValueType, ReadKeepsValue
<1>3. CASE ~ (w.errnum > input.errnum)
  <2>1. ReadValue(kind, w, raw, value)
    BY <1>3 DEF ReadLiteral
  <2> HIDE DEF raw, value
  <2>2. PICK errors : Read(kind, w, value, errors)
    BY Zenon, <2>1 DEF ReadValue
  <2> QED
    BY <1>1, <2>2, ReadKeepsValue
<1> QED
  BY <1>2, <1>3

ValueInv == LexInv /\ lit.value \in Values

LEMMA ValueInit == Init => ValueInv
<1> SUFFICES ASSUME Init PROVE lit.value \in Values
  BY InitSound DEF ValueInv
<1>1. lit.value = NoValue
  BY DEF Init, NoLiteral
<1> QED
  BY <1>1, NoValueType

LEMMA ValueStep == ValueInv /\ [Next]_lexVars => ValueInv'
<1> SUFFICES ASSUME ValueInv, [Next]_lexVars PROVE lit'.value \in Values
  BY StepSound DEF ValueInv
<1>1. LexInv /\ input \in Sound /\ lit.value \in Values
  BY DEF ValueInv, LexInv
<1>2. CASE lit' = lit
  BY <1>1, <1>2
<1>3. CASE Parse
  <2>1. CASE MatchSpaces \/ MatchIdentifier \/ MatchVersion \/ MatchArrow \/ MatchCharacter
    BY <1>2, <2>1 DEF MatchSpaces, MatchIdentifier, MatchVersion, MatchArrow, MatchCharacter, Match
  <2>2. CASE Note \/ Release \/ Unwind \/ Skip \/ Commit \/ Generate
    BY <1>2, <2>2 DEF Note, Release, Unwind, Skip, Commit, Generate, Match
  <2>3. CASE ReadClass
    <3>1. PICK b \in Behinds : ReadLiteral("CHARCLASS", match_character_class(input), b)
      BY <2>3 DEF ReadClass
    <3>2. match_character_class(input) \in Ahead(input)
      BY <1>1, QuotationTried DEF Tried
    <3> QED
      BY <1>1, <3>1, <3>2, LiteralValue
  <2>4. CASE ReadString
    <3>1. PICK b \in Behinds : ReadLiteral("STRING", Quotation(input), b)
      BY <2>4 DEF ReadString
    <3>2. Quotation(input) \in Ahead(input)
      BY <1>1, QuotationTried DEF Tried
    <3> QED
      BY <1>1, <3>1, <3>2, LiteralValue
  <2>5. CASE ReadDot
    BY <2>5, NoValueType, ReadKeepsValue DEF ReadDot
  <2>6. CASE ReadCode
    <3>1. PICK w, errors : Read("CODE", w, NoValue, errors)
      BY <2>6 DEF ReadCode
    <3> QED
      BY <3>1, NoValueType, ReadKeepsValue
  <2> QED
    BY <1>3, <2>1, <2>2, <2>3, <2>4, <2>5, <2>6 DEF Parse
<1>4. CASE WriteCode
  BY <1>2, <1>4 DEF WriteCode
<1>5. CASE UNCHANGED lexVars
  BY <1>2, <1>5 DEF lexVars
<1> QED
  BY <1>3, <1>4, <1>5 DEF Next

\* All who decode the value of a literal see the same characters: the checker of literals
\* (is_valid_utf8_string) accepts exactly what pcc_get_char_as_utf32 of a generated parser
\* sees characters in to the end, count_characters counts as many, and what is decoded is
\* what unescape_string encodes escape sequences to.  It is so for every text.
THEOREM DecodersAlwaysAgree == Spec => []DecodersAgree
<1>1. ValueInv => DecodersAgree
  <2> SUFFICES ASSUME ValueInv PROVE DecodersAgree
    OBVIOUS
  <2> DEFINE p == lit.value.p
             n == lit.value.n
  <2>1. p \in Seq(Byte) /\ n \in Nat /\ n <= Len(p) /\ Len(p) \in Nat
    BY LenProperties DEF ValueInv, Values
  <2>2. \A j \in 1 .. n : j \in 1 .. Len(p)
    BY <2>1
  <2> HIDE DEF p, n
  <2>3. 1 \in Int /\ n \in Int /\ \A j \in 1 .. n : p[j] \in Byte
    BY <2>1, <2>2, ElementOfSeq
  <2>4. SubSeq(p, 1, n) \in Seq(Byte)
    BY <2>3, SubSeqProperties
  <2>5. Value \in Seq(Byte)
    BY <2>4 DEF Value, p, n
  <2> QED
    BY <2>5, AgreedOfAll DEF DecodersAgree
<1> QED
  BY <1>1, ValueInit, ValueStep, PTL DEF Spec
=============================================================================
