--------------------------- MODULE LrTableProofs ---------------------------
(***************************************************************************)
(* Proofs about the memo table: its objects are destroyed once, its array  *)
(* grows only for the indices in use, and it implements LrTableSpec.       *)
(***************************************************************************)
EXTENDS LrTableSafety, SequenceTheorems, FiniteSetTheorems, TLAPS

-----------------------------------------------------------------------------
(* Memos.                                                                   *)

Answers(ms) == {ms[k].answer : k \in 1 .. Len(ms)}

\* No answer is in two memos.
Apart(ms) == \A j, k \in 1 .. Len(ms) : j # k => ms[j].answer # ms[k].answer

LEMMA MemoFields ==
  ASSUME NEW c \in MemoRec
  PROVE  c.rule \in Rule /\ c.answer \in Obj
BY DEF MemoRec

\* The answer found for a rule is that of the one memo for the rule.
LEMMA MemoAt ==
  ASSUME NEW ms, Distinct(ms), NEW k \in 1 .. Len(ms)
  PROVE  AnswerIn(ms, ms[k].rule) = ms[k].answer
<1>1. k \in Found(ms, ms[k].rule)
  BY DEF Found
<1>2. PICK c : c = CHOOSE j \in Found(ms, ms[k].rule) : TRUE
  OBVIOUS
<1>3. c \in Found(ms, ms[k].rule)
  BY <1>1, <1>2
<1>4. c = k
  BY <1>3 DEF Found, Distinct
<1> QED
  BY <1>1, <1>2, <1>4 DEF AnswerIn

LEMMA MemoNone ==
  ASSUME NEW ms, NEW r, \A k \in 1 .. Len(ms) : ms[k].rule # r
  PROVE  AnswerIn(ms, r) = NULL
BY DEF AnswerIn, Found

\* The memos ts are ms but for the memo of rule r, which is at k and leads to a.
Put(ms, ts, r, a, k) ==
  /\ k \in 1 .. Len(ts) /\ ts[k] = [rule |-> r, answer |-> a]
  /\ \A j \in 1 .. Len(ts) : j # k => j \in 1 .. Len(ms) /\ ts[j] = ms[j] /\ ms[j].rule # r
  /\ \A j \in 1 .. Len(ms) : j \in 1 .. Len(ts)
  /\ k \in 1 .. Len(ms) => ms[k].rule = r

LEMMA PutMemos ==
  ASSUME NEW ms \in Seq(MemoRec), Distinct(ms), NEW r \in Rule, NEW a \in Obj,
         NEW ts, ts = MemoPut(ms, r, a)
  PROVE  ts \in Seq(MemoRec) /\ \E k : Put(ms, ts, r, a, k)
<1>. PICK c : c = [rule |-> r, answer |-> a]
  OBVIOUS
<1>0. c \in MemoRec /\ Len(ms) \in Nat
  BY LenProperties DEF MemoRec
<1>1. CASE Found(ms, r) = {}
  <2>1. ts = Append(ms, c)
    BY <1>1 DEF MemoPut
  <2>2. /\ ts \in Seq(MemoRec) /\ Len(ts) = Len(ms) + 1
        /\ \A j \in 1 .. Len(ms) : ts[j] = ms[j]
        /\ ts[Len(ms) + 1] = c
    BY <1>0, <2>1, AppendProperties
  <2>3. Put(ms, ts, r, a, Len(ms) + 1)
    BY <1>0, <1>1, <2>2 DEF Put, Found
  <2> QED
    BY <2>2, <2>3
<1>2. CASE Found(ms, r) # {}
  <2>1. PICK k \in 1 .. Len(ms) : ms[k].rule = r
    BY <1>2 DEF Found
  <2>2. \A j \in 1 .. Len(ms) : ms[j].rule = r <=> j = k
    BY <2>1 DEF Distinct
  <2>3. ts = [j \in 1 .. Len(ms) |-> IF ms[j].rule = r THEN c ELSE ms[j]]
    BY <1>2 DEF MemoPut
  <2>4. \A j \in 1 .. Len(ms) : ts[j] = IF j = k THEN c ELSE ms[j]
    BY <2>2, <2>3
  <2>5. \A j \in 1 .. Len(ms) : ts[j] \in MemoRec
    BY <1>0, <2>4, ElementOfSeq
  <2>6. ts \in Seq(MemoRec) /\ Len(ts) = Len(ms)
    BY <1>0, <2>3, <2>5
  <2>7. Put(ms, ts, r, a, k)
    BY <2>1, <2>2, <2>4, <2>6 DEF Put
  <2> QED
    BY <2>6, <2>7
<1> QED
  BY <1>1, <1>2

\* What is found after a memo was put, and what the memos lead to then.
LEMMA PutAnswers ==
  ASSUME NEW ms \in Seq(MemoRec), Distinct(ms), NEW r \in Rule, NEW a \in Obj,
         NEW ts, NEW k, Put(ms, ts, r, a, k)
  PROVE  /\ Distinct(ts)
         /\ \A q \in Rule : AnswerIn(ts, q) = IF q = r THEN a ELSE AnswerIn(ms, q)
<1>0. ts[k].rule = r /\ ts[k].answer = a
  BY DEF Put
<1>1. Distinct(ts)
  BY <1>0 DEF Put, Distinct
<1>2. AnswerIn(ts, r) = a
  BY <1>0, <1>1, MemoAt DEF Put
<1>3. ASSUME NEW q \in Rule, q # r
      PROVE  AnswerIn(ts, q) = AnswerIn(ms, q)
  <2>1. CASE \E j \in 1 .. Len(ms) : ms[j].rule = q
    <3>1. PICK j \in 1 .. Len(ms) : ms[j].rule = q
      BY <2>1
    <3>2. j \in 1 .. Len(ts) /\ ts[j] = ms[j]
      BY <1>3, <3>1 DEF Put
    <3> QED
      BY <1>1, <3>1, <3>2, MemoAt
  <2>2. CASE \A j \in 1 .. Len(ms) : ms[j].rule # q
    <3>1. \A j \in 1 .. Len(ts) : ts[j].rule # q
      BY <1>0, <1>3, <2>2 DEF Put
    <3> QED
      BY <2>2, <3>1, MemoNone
  <2> QED
    BY <2>1, <2>2
<1> QED
  BY <1>1, <1>2, <1>3

LEMMA PutOwned ==
  ASSUME NEW ms \in Seq(MemoRec), Distinct(ms), NEW r \in Rule, NEW a \in Obj,
         NEW ts, NEW k, Put(ms, ts, r, a, k), Apart(ms), a \notin Answers(ms)
  PROVE  /\ Apart(ts)
         /\ Answers(ts) = (Answers(ms) \ {AnswerIn(ms, r)}) \cup {a}
         /\ AnswerIn(ms, r) = NULL \/ AnswerIn(ms, r) \in Answers(ms)
<1>0. ts[k].rule = r /\ ts[k].answer = a
  BY DEF Put
<1>1. \A j \in 1 .. Len(ms) : ms[j].answer # a
  BY DEF Answers
<1>2. Apart(ts)
  BY <1>0, <1>1 DEF Put, Apart
<1>3. \A j \in 1 .. Len(ms) : ms[j] \in MemoRec
  BY ElementOfSeq
<1>4. CASE k \in 1 .. Len(ms)
  <2>1. AnswerIn(ms, r) = ms[k].answer
    BY <1>4, MemoAt DEF Put
  <2>2. \A j \in 1 .. Len(ms) : j # k => ms[j].answer # ms[k].answer
    BY <1>4 DEF Apart
  <2>3. Answers(ts) = (Answers(ms) \ {ms[k].answer}) \cup {a}
    BY <1>0, <2>2 DEF Put, Answers
  <2> QED
    BY <1>2, <1>4, <2>1, <2>3 DEF Answers
<1>5. CASE k \notin 1 .. Len(ms)
  <2>1. \A j \in 1 .. Len(ms) : ms[j].rule # r
    BY <1>5 DEF Put
  <2>2. AnswerIn(ms, r) = NULL
    BY <2>1, MemoNone
  <2>3. \A j \in 1 .. Len(ms) : ms[j].answer # NULL
    BY <1>3, MemoFields DEF NULL, Obj
  <2>4. NULL \notin Answers(ms)
    BY <2>3 DEF Answers
  <2>5. Answers(ts) = Answers(ms) \cup {a}
    BY <1>0, <1>5 DEF Put, Answers
  <2> QED
    BY <1>2, <2>2, <2>4, <2>5
<1> QED
  BY <1>4, <1>5

-----------------------------------------------------------------------------
(* Use of an element of the array.                                          *)

LEMMA EntryFields ==
  ASSUME NEW e \in EntryRec
  PROVE  /\ e.head \in Obj \cup {NULL} /\ e.memos \in Seq(MemoRec)
         /\ e.hold_a \in SUBSET Obj /\ e.hold_h \in SUBSET Obj /\ e.ends \in Nat
BY DEF EntryRec

\* The array after the use of element x, which points to a then.
TouchedRow(x, a) ==
  /\ m' \in m .. MaxCap /\ n' \in 0 .. m' /\ o' = o /\ open' = open
  /\ n' = IF x >= n THEN x + 1 ELSE n
  /\ m' # m => m < x + 1
  /\ DOMAIN p' = 0 .. (m' - 1) /\ p'[x] = a
  /\ \A y \in o .. (n' - 1) : y # x => p'[y] = IF y < n THEN p[y] ELSE NULL

\* The entries then: the one at a was d and is e.
TouchedEntry(x, d, e, a) ==
  /\ entries' \in Seq(EntryRec)
  /\ a \in 1 .. Len(entries') /\ entries'[a] = e
  /\ \A b \in 1 .. Len(entries') : b # a => b \in 1 .. Len(entries) /\ entries'[b] = entries[b]
  /\ \A b \in 1 .. Len(entries) : b \in 1 .. Len(entries')
  /\ \/ a \notin 1 .. Len(entries) /\ d = CreateEntry /\ ~(x < n /\ p[x] # NULL)
     \/ /\ a \in 1 .. Len(entries) /\ d = entries[a] /\ d.ends = 0
        /\ x < n /\ p[x] = a

LEMMA CoveringRow ==
  ASSUME Shape, NEW i \in Idx, NEW x, x = i + o, NEW q, q = Covering(x)
  PROVE  /\ DOMAIN q = IF x >= n THEN 0 .. (CapFor(x + 1) - 1) ELSE 0 .. (m - 1)
         /\ x \in Nat /\ x \in DOMAIN q
         /\ \A y \in o .. (n - 1) : q[y] = p[y]
         /\ x >= n => /\ CapFor(x + 1) \in m .. MaxCap /\ x + 1 <= CapFor(x + 1)
                      /\ CapFor(x + 1) # m => m < x + 1
                      /\ \A y \in n .. x : q[y] = NULL
<1>0. x \in Nat /\ x + 1 <= MaxCap /\ o <= x /\ MaxIndex \in Nat /\ MaxCap \in Nat
  BY LrTableAssumption DEF Shape, Idx
<1>1. CASE x < n
  <2>1. q = p
    BY <1>0, <1>1 DEF Covering, Shape
  <2> QED
    BY <1>0, <1>1, <2>1 DEF Shape
<1>2. CASE x >= n
  <2>1. q = Resized(x + 1)
    BY <1>2 DEF Covering
  <2>2. /\ CapFor(x + 1) \in m .. MaxCap /\ x + 1 <= CapFor(x + 1)
        /\ CapFor(x + 1) # m => m < x + 1
    <3>1. m < x + 1 => Grown(m, x + 1) \in x + 1 .. MaxCap
      BY <1>0, LrTableAssumption DEF Shape
    <3> QED
      BY <1>0, <3>1 DEF CapFor, Shape
  <2>3. DOMAIN q = 0 .. (CapFor(x + 1) - 1)
    BY <2>1 DEF Resized
  <2>4. ASSUME NEW y \in o .. (n - 1)
        PROVE  q[y] = p[y]
    <3>1. y \in 0 .. (CapFor(x + 1) - 1) /\ y < n /\ ~(y >= n) /\ ~(y >= x + 1)
      BY <1>0, <1>2, <2>2, <2>4 DEF Shape
    <3>2. q[y] = CASE y < n -> p[y]
                   [] y >= n /\ y < x + 1 -> NULL
                   [] y >= x + 1 /\ y < m -> p[y]
                   [] OTHER -> Junk
      BY <2>1, <3>1 DEF Resized
    <3> QED
      BY <3>1, <3>2
  <2>5. ASSUME NEW y \in n .. x
        PROVE  q[y] = NULL
    <3>1. /\ y \in 0 .. (CapFor(x + 1) - 1) /\ ~(y < n) /\ y >= n /\ y < x + 1
          /\ ~(y >= x + 1)
      BY <1>0, <2>2, <2>5 DEF Shape
    <3>2. q[y] = CASE y < n -> p[y]
                   [] y >= n /\ y < x + 1 -> NULL
                   [] y >= x + 1 /\ y < m -> p[y]
                   [] OTHER -> Junk
      BY <2>1, <3>1 DEF Resized
    <3> QED
      BY <3>1, <3>2
  <2>6. x \in DOMAIN q
    BY <1>0, <2>2, <2>3
  <2> QED
    BY <1>0, <1>2, <2>2, <2>3, <2>4, <2>5, <2>6
<1> QED
  BY <1>0, <1>1, <1>2 DEF Shape

LEMMA Touching ==
  ASSUME Shape, Led, NEW i \in Idx, NEW x, x = i + o,
         NEW e \in EntryRec, Touch(x, e)
  PROVE  \E a : TouchedRow(x, a) /\ TouchedEntry(x, Before(x), e, a)
<1>. PICK q : q = Covering(x)
  OBVIOUS
<1>. PICK a : a = IF q[x] = NULL THEN Len(entries) + 1 ELSE q[x]
  OBVIOUS
<1>1. /\ DOMAIN q = IF x >= n THEN 0 .. (CapFor(x + 1) - 1) ELSE 0 .. (m - 1)
      /\ x \in Nat /\ x \in DOMAIN q
      /\ \A y \in o .. (n - 1) : q[y] = p[y]
      /\ x >= n => /\ CapFor(x + 1) \in m .. MaxCap /\ x + 1 <= CapFor(x + 1)
                   /\ CapFor(x + 1) # m => m < x + 1
                   /\ \A y \in n .. x : q[y] = NULL
  BY CoveringRow
<1>2. /\ m' = IF x >= n THEN CapFor(x + 1) ELSE m
      /\ n' = IF x >= n THEN x + 1 ELSE n
      /\ p' = [q EXCEPT ![x] = a]
      /\ entries' = IF q[x] = NULL THEN Append(entries, e) ELSE [entries EXCEPT ![a] = e]
      /\ o' = o /\ open' = open
  BY DEF Touch
<1>3. TouchedRow(x, a)
  <2>1. DOMAIN p' = DOMAIN q /\ p'[x] = a /\ \A y \in DOMAIN q : y # x => p'[y] = q[y]
    BY <1>1, <1>2
  <2>2. ASSUME NEW y \in o .. (n' - 1), y # x
        PROVE  p'[y] = IF y < n THEN p[y] ELSE NULL
    <3>1. y \in DOMAIN q
      BY <1>1, <1>2, <2>2 DEF Shape
    <3>2. CASE y < n
      BY <1>1, <2>1, <2>2, <3>1, <3>2 DEF Shape
    <3>3. CASE ~(y < n)
      <4>1. x >= n /\ y \in n .. x
        BY <1>1, <1>2, <2>2, <3>3 DEF Shape
      <4> QED
        BY <1>1, <2>1, <2>2, <3>1, <3>3, <4>1
    <3> QED
      BY <3>2, <3>3
  <2>3. m' \in m .. MaxCap /\ n' \in 0 .. m' /\ (m' # m => m < x + 1)
    BY <1>1, <1>2 DEF Shape
  <2>4. DOMAIN p' = 0 .. (m' - 1)
    BY <1>1, <1>2, <2>1
  <2> QED
    BY <1>2, <2>1, <2>2, <2>3, <2>4 DEF TouchedRow
<1>4. TouchedEntry(x, Before(x), e, a)
  <2>0. Len(entries) \in Nat /\ x \in o .. x
    BY <1>1, LenProperties DEF Led, Shape, Idx
  <2>1. CASE q[x] = NULL
    <3>1. Before(x) = CreateEntry
      BY <2>1 DEF Before
    <3>2. entries' = Append(entries, e) /\ a = Len(entries) + 1
      BY <1>2, <2>1
    <3>3. /\ entries' \in Seq(EntryRec) /\ Len(entries') = Len(entries) + 1
          /\ \A b \in 1 .. Len(entries) : entries'[b] = entries[b]
          /\ entries'[Len(entries) + 1] = e
      BY <3>2, AppendProperties DEF Led
    <3>4. ~(x < n /\ p[x] # NULL)
      BY <1>1, <2>0, <2>1 DEF Shape
    <3> QED
      BY <2>0, <3>1, <3>2, <3>3, <3>4 DEF TouchedEntry
  <2>2. CASE q[x] # NULL
    <3>1. x < n /\ q[x] = p[x]
      BY <1>1, <2>0, <2>2 DEF Shape, Idx
    <3>2. a = p[x] /\ a \in 1 .. Len(entries) /\ entries[a].ends = 0
      BY <1>1, <2>0, <2>2, <3>1 DEF Led, PointersValid, NULL, Shape
    <3>3. Before(x) = entries[a]
      BY <2>2, <3>1, <3>2 DEF Before
    <3>4. entries' = [entries EXCEPT ![a] = e]
      BY <1>2, <2>2
    <3>5. /\ entries' \in Seq(EntryRec) /\ Len(entries') = Len(entries)
          /\ \A b \in 1 .. Len(entries) : entries'[b] = IF b = a THEN e ELSE entries[b]
      BY <3>2, <3>4, ExceptSeq DEF Led
    <3> QED
      BY <2>0, <3>1, <3>2, <3>3, <3>5 DEF TouchedEntry
  <2> QED
    BY <2>1, <2>2
<1> QED
  BY <1>3, <1>4

\* What a use of an entry brings: new objects, and answers that others replace.
Brings(d, e) ==
  /\ made' \in made .. MaxObject /\ freed' \in Seq(1 .. made')
  /\ \A j, k \in 1 .. Len(freed') : j # k => freed'[j] # freed'[k]
  /\ Seen(freed) \subseteq Seen(freed') /\ Seen(freed') \subseteq Seen(freed) \cup Objects(d)
  /\ Objects(e) \subseteq (Objects(d) \cup ((made + 1) .. made')) \ Seen(freed')
  /\ Objects(d) \cup ((made + 1) .. made') \subseteq Objects(e) \cup Seen(freed')

LEMMA CreatedFields ==
  /\ CreateEntry \in EntryRec /\ CreateEntry.ends = 0 /\ CreateEntry.memos = <<>>
  /\ Objects(CreateEntry) = {} /\ Distinct(CreateEntry.memos) /\ Separate(CreateEntry)
<1>1. /\ CreateEntry.head = NULL /\ CreateEntry.memos = <<>> /\ CreateEntry.hold_a = {}
      /\ CreateEntry.hold_h = {} /\ CreateEntry.ends = 0
  BY DEF CreateEntry
<1>2. Len(<<>>) = 0 /\ <<>> \in Seq(MemoRec)
  BY EmptySeq
<1>3. CreateEntry \in EntryRec
  BY <1>2 DEF CreateEntry, EntryRec
<1>4. Memoized(CreateEntry) = {}
  BY <1>1, <1>2 DEF Memoized
<1> QED
  BY <1>1, <1>2, <1>3, <1>4 DEF Objects, Distinct, Separate

LEMMA BeforeMade ==
  ASSUME Shape, Led, NEW i \in Idx
  PROVE  Before(i + o) = CreateEntry \/ \E b \in 1 .. Len(entries) : Before(i + o) = entries[b]
<1>1. CASE Covering(i + o)[i + o] = NULL
  BY <1>1 DEF Before
<1>2. CASE Covering(i + o)[i + o] # NULL
  <2>. PICK x : x = i + o
    OBVIOUS
  <2>. PICK q : q = Covering(x)
    OBVIOUS
  <2>1. /\ x \in Nat /\ \A y \in o .. (n - 1) : q[y] = p[y]
        /\ x >= n => \A y \in n .. x : q[y] = NULL
    BY CoveringRow
  <2>2. x \in o .. (n - 1)
    BY <1>2, <2>1 DEF Shape, Idx
  <2>3. q[x] \in 1 .. Len(entries)
    BY <1>2, <2>1, <2>2 DEF Led, NULL
  <2> QED
    BY <1>2, <2>3 DEF Before
<1> QED
  BY <1>1, <1>2

LEMMA BeforeType ==
  ASSUME Shape, Led, NEW i \in Idx
  PROVE  Before(i + o) \in EntryRec
BY BeforeMade, CreatedFields, ElementOfSeq DEF Led

LEMMA TouchShape ==
  ASSUME Shape, NEW i \in Idx, NEW a, TouchedRow(i + o, a), open
  PROVE  Shape'
<1>1. /\ m' \in m .. MaxCap /\ n' \in 0 .. m' /\ o' = o /\ open' = open
      /\ n' = IF i + o >= n THEN i + o + 1 ELSE n
      /\ DOMAIN p' = 0 .. (m' - 1)
  BY DEF TouchedRow
<1>2. /\ m \in 0 .. MaxCap /\ n \in 0 .. m /\ o \in 0 .. n
      /\ n - o <= MaxIndex + 1 /\ 2 * o <= m
      /\ MaxIndex \in Nat /\ MaxCap \in Nat /\ i \in 0 .. MaxIndex
  BY LrTableAssumption DEF Shape, Idx
<1>3. /\ m' \in 0 .. MaxCap /\ n' \in 0 .. m' /\ o' \in 0 .. n'
      /\ n' - o' <= MaxIndex + 1 /\ 2 * o' <= m'
  BY <1>1, <1>2
<1> QED
  BY <1>1, <1>3 DEF Shape

LEMMA TouchLed ==
  ASSUME Shape, Led, NEW i \in Idx, NEW x, x = i + o, NEW a, NEW d, NEW e,
         TouchedRow(x, a), TouchedEntry(x, d, e, a), e.ends = 0
  PROVE  Led'
<1>0. /\ Len(entries) \in Nat /\ Len(entries') \in Nat
      /\ DOMAIN entries = 1 .. Len(entries) /\ DOMAIN entries' = 1 .. Len(entries')
  BY LenProperties DEF Led, TouchedEntry
<1>1. x \in o' .. (n' - 1) /\ p'[x] = a
  BY DEF TouchedRow, Shape, Idx
<1>2. ASSUME NEW y \in o' .. (n' - 1), y # x, p'[y] # NULL
      PROVE  /\ y \in o .. (n - 1) /\ p'[y] = p[y] /\ p[y] \in 1 .. Len(entries)
             /\ p[y] # a /\ p[y] \in 1 .. Len(entries') /\ entries'[p[y]] = entries[p[y]]
  <2>1. y \in o .. (n - 1) /\ p'[y] = p[y]
    <3>1. p'[y] = IF y < n THEN p[y] ELSE NULL
      BY <1>2 DEF TouchedRow
    <3>2. y < n
      BY <1>2, <3>1
    <3> QED
      BY <1>2, <3>1, <3>2 DEF TouchedRow, Shape
  <2>2. p[y] \in 1 .. Len(entries)
    BY <1>2, <2>1 DEF Led, NULL
  <2>3. p[y] # a
    <3>1. CASE a \notin 1 .. Len(entries)
      BY <2>2, <3>1
    <3>2. CASE x < n /\ p[x] = a
      <4>1. x \in o .. (n - 1)
        BY <3>2 DEF Shape, Idx
      <4> QED
        BY <1>2, <2>1, <3>2, <4>1 DEF Led, PointersValid
    <3> QED
      BY <3>1, <3>2 DEF TouchedEntry
  <2>4. p[y] \in 1 .. Len(entries')
    BY <2>2 DEF TouchedEntry
  <2> QED
    BY <2>1, <2>2, <2>3, <2>4 DEF TouchedEntry
<1>3. \A y \in o' .. (n' - 1) : p'[y] \in 0 .. Len(entries')
  <2>1. a \in 0 .. Len(entries')
    BY <1>0 DEF TouchedEntry
  <2>2. NULL \in 0 .. Len(entries')
    BY <1>0 DEF NULL
  <2> QED
    BY <1>0, <1>1, <1>2, <2>1, <2>2
<1>4. PointersValid'
  <2>1. ASSUME NEW y \in o' .. (n' - 1), p'[y] # NULL
        PROVE  p'[y] \in 1 .. Len(entries') /\ entries'[p'[y]].ends = 0
    <3>1. CASE y = x
      BY <1>1, <3>1 DEF TouchedEntry
    <3>2. CASE y # x
      <4>1. entries[p[y]].ends = 0
        BY <1>2, <2>1, <3>2 DEF Led, PointersValid
      <4> QED
        BY <1>2, <2>1, <3>2, <4>1
    <3> QED
      BY <3>1, <3>2
  <2>2. ASSUME NEW y \in o' .. (n' - 1), p'[y] # NULL, NEW z \in o' .. (n' - 1), y # z
        PROVE  p'[y] # p'[z]
    <3>1. CASE y = x
      BY <1>1, <1>2, <2>1, <2>2, <3>1
    <3>2. CASE z = x
      BY <1>1, <1>2, <2>2, <3>2
    <3>3. CASE y # x /\ z # x /\ p'[z] # NULL
      BY <1>2, <2>2, <3>3 DEF Led, PointersValid
    <3> QED
      BY <2>2, <3>1, <3>2, <3>3
  <2> QED
    BY <1>0, <2>1, <2>2 DEF PointersValid
<1>5. ASSUME NEW b \in 1 .. Len(entries')
      PROVE  /\ entries'[b].ends \in {0, 1}
             /\ entries'[b].ends = 0 => \E y \in o' .. (n' - 1) : p'[y] = b
  <2>1. CASE b = a
    BY <1>1, <2>1 DEF TouchedEntry
  <2>2. CASE b # a
    <3>1. b \in 1 .. Len(entries) /\ entries'[b] = entries[b]
      BY <2>2 DEF TouchedEntry
    <3>2. ASSUME entries[b].ends = 0
          PROVE  \E y \in o' .. (n' - 1) : p'[y] = b
      <4>1. PICK y \in o .. (n - 1) : p[y] = b
        BY <3>1, <3>2 DEF Led
      <4>2. y # x
        <5>1. CASE a \notin 1 .. Len(entries)
          <6>1. ~(x < n /\ p[x] # NULL)
            BY <5>1 DEF TouchedEntry
          <6>2. y < n /\ p[y] # NULL
            BY <1>0, <3>1, <4>1 DEF NULL, Shape
          <6> QED
            BY <6>1, <6>2
        <5>2. CASE p[x] = a
          BY <2>2, <4>1, <5>2
        <5> QED
          BY <5>1, <5>2 DEF TouchedEntry
      <4>3. y \in o' .. (n' - 1) /\ p'[y] = p[y]
        BY SMTT(20), <4>1, <4>2 DEF TouchedRow, Shape
      <4> QED
        BY <4>1, <4>3
    <3> QED
      BY <3>1, <3>2 DEF Led
  <2> QED
    BY <2>1, <2>2
<1> QED
  BY <1>3, <1>4, <1>5 DEF Led, TouchedEntry

\* The objects of the entry that is used.
LEMMA BeforeOwns ==
  ASSUME Shared, NEW x, NEW a, NEW d, NEW e, TouchedEntry(x, d, e, a)
  PROVE  /\ Objects(d) \subseteq (1 .. made) \ Seen(freed)
         /\ Distinct(d.memos) /\ Separate(d)
         /\ \A b \in 1 .. Len(entries) : b # a => Objects(entries[b]) \cap Objects(d) = {}
         /\ \A y \in 1 .. made :
              \/ y \in Seen(freed) \/ y \in Objects(d)
              \/ \E b \in 1 .. Len(entries) : b # a /\ y \in Objects(entries[b])
<1>1. CASE a \notin 1 .. Len(entries) /\ d = CreateEntry
  BY <1>1, CreatedFields DEF Shared
<1>2. CASE a \in 1 .. Len(entries) /\ d = entries[a]
  BY <1>2 DEF Shared
<1> QED
  BY <1>1, <1>2 DEF TouchedEntry

LEMMA TouchShared ==
  ASSUME Shared, NEW x, NEW a, NEW d, NEW e, TouchedEntry(x, d, e, a),
         Brings(d, e), Distinct(e.memos), Separate(e)
  PROVE  Shared'
<1>0. /\ Objects(d) \subseteq (1 .. made) \ Seen(freed)
      /\ \A b \in 1 .. Len(entries) : b # a => Objects(entries[b]) \cap Objects(d) = {}
      /\ \A y \in 1 .. made :
           \/ y \in Seen(freed) \/ y \in Objects(d)
           \/ \E b \in 1 .. Len(entries) : b # a /\ y \in Objects(entries[b])
  BY BeforeOwns
<1>1. made \in 0 .. MaxObject /\ made' \in made .. MaxObject /\ MaxObject \in Nat
  BY LrTableAssumption DEF Shared, Brings
<1>2. ASSUME NEW b \in 1 .. Len(entries'), b # a
      PROVE  /\ b \in 1 .. Len(entries) /\ entries'[b] = entries[b]
             /\ Objects(entries[b]) \subseteq (1 .. made') \ Seen(freed')
             /\ Objects(entries[b]) \cap Objects(e) = {}
  <2>1. b \in 1 .. Len(entries) /\ entries'[b] = entries[b]
    BY <1>2 DEF TouchedEntry
  <2>2. Objects(entries[b]) \subseteq (1 .. made) \ Seen(freed)
    BY <2>1 DEF Shared
  <2>3. 1 .. made \subseteq 1 .. made' /\ (1 .. made) \cap ((made + 1) .. made') = {}
    BY <1>1
  <2>4. Seen(freed') \subseteq Seen(freed) \cup Objects(d)
    BY DEF Brings
  <2>5. Objects(e) \subseteq Objects(d) \cup ((made + 1) .. made')
    BY DEF Brings
  <2>6. Objects(entries[b]) \cap Objects(d) = {}
    BY <1>0, <1>2, <2>1
  <2> QED
    BY <2>1, <2>2, <2>3, <2>4, <2>5, <2>6
<1>3. Objects(e) \subseteq (1 .. made') \ Seen(freed')
  <2>1. (made + 1) .. made' \subseteq 1 .. made' /\ 1 .. made \subseteq 1 .. made'
    BY <1>1
  <2>2. Objects(e) \subseteq (Objects(d) \cup ((made + 1) .. made')) \ Seen(freed')
    BY DEF Brings
  <2> QED
    BY <1>0, <2>1, <2>2
<1>4. ASSUME NEW b \in 1 .. Len(entries')
      PROVE  /\ Distinct(entries'[b].memos) /\ Separate(entries'[b])
             /\ Objects(entries'[b]) \subseteq (1 .. made') \ Seen(freed')
  <2>1. CASE b = a
    BY <1>3, <2>1 DEF TouchedEntry
  <2>2. CASE b # a
    BY <1>2, <2>2 DEF Shared
  <2> QED
    BY <2>1, <2>2
<1>5. ASSUME NEW b \in 1 .. Len(entries'), NEW c \in 1 .. Len(entries'), b # c
      PROVE  Objects(entries'[b]) \cap Objects(entries'[c]) = {}
  <2>1. CASE b = a
    BY <1>2, <1>5, <2>1 DEF TouchedEntry
  <2>2. CASE c = a
    BY <1>2, <1>5, <2>2 DEF TouchedEntry
  <2>3. CASE b # a /\ c # a
    BY <1>2, <1>5, <2>3 DEF Shared
  <2> QED
    BY <2>1, <2>2, <2>3
<1>6. ASSUME NEW y \in 1 .. made'
      PROVE  y \in Seen(freed') \/ \E b \in 1 .. Len(entries') : y \in Objects(entries'[b])
  <2>1. Objects(d) \cup ((made + 1) .. made') \subseteq Objects(e) \cup Seen(freed')
    BY DEF Brings
  <2>2. a \in 1 .. Len(entries') /\ entries'[a] = e
    BY DEF TouchedEntry
  <2>3. CASE y \in Objects(d) \/ y \in (made + 1) .. made'
    BY <2>1, <2>2, <2>3
  <2>4. CASE y \in Seen(freed)
    BY <2>4 DEF Brings
  <2>5. CASE \E b \in 1 .. Len(entries) : b # a /\ y \in Objects(entries[b])
    <3>1. PICK b \in 1 .. Len(entries) : b # a /\ y \in Objects(entries[b])
      BY <2>5
    <3>2. b \in 1 .. Len(entries') /\ entries'[b] = entries[b]
      BY <3>1 DEF TouchedEntry
    <3> QED
      BY <3>1, <3>2
  <2>6. y \in 1 .. made \/ y \in (made + 1) .. made'
    BY <1>1
  <2> QED
    BY <1>0, <2>3, <2>4, <2>5, <2>6
<1>7. /\ made' \in 0 .. MaxObject /\ freed' \in Seq(1 .. made')
      /\ \A j, k \in 1 .. Len(freed') : j # k => freed'[j] # freed'[k]
  BY <1>1 DEF Brings
<1> QED
  BY <1>4, <1>5, <1>6, <1>7 DEF Shared

-----------------------------------------------------------------------------
(* What is seen of the table.                                               *)

MemoView(ms) == [r \in Rule |-> AnswerIn(ms, r)]
View(e) == [head |-> e.head, memo |-> MemoView(e.memos),
            hold_a |-> e.hold_a, hold_h |-> e.hold_h]

LEMMA CreatedView == View(CreateEntry) = Table!EmptyEntry
<1>1. \A r \in Rule : AnswerIn(<<>>, r) = NULL
  BY MemoNone, Len(<<>>) = 0
<1> QED
  BY <1>1 DEF View, MemoView, CreateEntry, Table!EmptyEntry, Table!NULL, NULL

LEMMA ShownIs ==
  ASSUME NEW i
  PROVE  Shown(i) = IF InTable(i) THEN View(EntryAt(i)) ELSE View(CreateEntry)
<1>1. View(CreateEntry) = [head |-> NULL, memo |-> [r \in Rule |-> NULL], hold_a |-> {}, hold_h |-> {}]
  BY CreatedView DEF Table!EmptyEntry, Table!NULL, NULL
<1> QED
  BY <1>1 DEF Shown, GetHead, GetAnswer, View, MemoView

LEMMA ShownIsNext ==
  ASSUME NEW i
  PROVE  Shown(i)' = IF InTable(i)' THEN View(EntryAt(i)') ELSE View(CreateEntry)
<1>1. View(CreateEntry) = [head |-> NULL, memo |-> [r \in Rule |-> NULL], hold_a |-> {}, hold_h |-> {}]
  BY CreatedView DEF Table!EmptyEntry, Table!NULL, NULL
<1> QED
  BY <1>1 DEF Shown, GetHead, GetAnswer, View, MemoView

\* The use of an entry changes what is seen of its index, and of no other.
LEMMA TouchShown ==
  ASSUME Shape, Led, NEW i \in Idx, NEW x, x = i + o, NEW a, NEW d, NEW e,
         TouchedRow(x, a), TouchedEntry(x, d, e, a)
  PROVE  /\ Shown(i) = View(d) /\ Shown(i)' = View(e)
         /\ \A j \in Idx : j # i => Shown(j)' = Shown(j)
<1>0. /\ Len(entries) \in Nat /\ Len(entries') \in Nat
      /\ DOMAIN entries = 1 .. Len(entries) /\ DOMAIN entries' = 1 .. Len(entries')
  BY LenProperties DEF Led, TouchedEntry
<1>1. Shown(i) = View(d)
  <2>1. CASE d = CreateEntry /\ ~(x < n /\ p[x] # NULL)
    <3>1. ~InTable(i)
      BY <2>1 DEF InTable
    <3> QED
      BY <2>1, <3>1, ShownIs
  <2>2. CASE a \in 1 .. Len(entries) /\ d = entries[a] /\ x < n /\ p[x] = a
    <3>1. InTable(i) /\ EntryAt(i) = d
      BY <1>0, <2>2 DEF InTable, EntryAt, NULL
    <3> QED
      BY <3>1, ShownIs
  <2> QED
    BY <2>1, <2>2 DEF TouchedEntry
<1>2. Shown(i)' = View(e)
  <2>1. x < n' /\ p'[x] = a /\ o' = o
    BY DEF TouchedRow, Shape, Idx
  <2>2. InTable(i)' /\ EntryAt(i)' = e
    BY <1>0, <2>1 DEF InTable, EntryAt, NULL, TouchedEntry
  <2> QED
    BY <2>2, ShownIsNext
<1>3. ASSUME NEW j \in Idx, j # i
      PROVE  Shown(j)' = Shown(j)
  <2>. PICK y : y = j + o
    OBVIOUS
  <2>0. y # x /\ y >= o /\ o' = o
    BY <1>3 DEF TouchedRow, Shape, Idx
  <2>1. CASE y < n /\ p[y] # NULL
    <3>1. y \in o .. (n - 1) /\ y \in o .. (n' - 1)
      BY <2>0, <2>1 DEF TouchedRow, Shape, Idx
    <3>2. p'[y] = p[y] /\ y < n'
      <4>1. p'[y] = IF y < n THEN p[y] ELSE NULL
        BY <2>0, <3>1 DEF TouchedRow
      <4>2. y < n'
        BY <2>1, <3>1 DEF TouchedRow, Shape
      <4> QED
        BY <2>1, <4>1, <4>2
    <3>3. p[y] \in 1 .. Len(entries)
      BY <2>1, <3>1 DEF Led, NULL
    <3>4. p[y] # a
      <4>1. CASE a \notin 1 .. Len(entries)
        BY <3>3, <4>1
      <4>2. CASE x < n /\ p[x] = a
        <5>1. x \in o .. (n - 1)
          BY <4>2 DEF Shape, Idx
        <5> QED
          BY <2>0, <2>1, <3>1, <4>2, <5>1 DEF Led, PointersValid
      <4> QED
        BY <4>1, <4>2 DEF TouchedEntry
    <3>5. entries'[p[y]] = entries[p[y]]
      BY <3>3, <3>4 DEF TouchedEntry
    <3>6. InTable(j) /\ InTable(j)' /\ EntryAt(j)' = EntryAt(j)
      BY <2>0, <2>1, <3>2, <3>5 DEF InTable, EntryAt
    <3> QED
      BY <3>6, ShownIs, ShownIsNext
  <2>2. CASE ~(y < n /\ p[y] # NULL)
    <3>1. ~InTable(j)
      BY <2>2 DEF InTable
    <3>2. ASSUME y < n'
          PROVE  p'[y] = NULL
      <4>1. y \in o .. (n' - 1)
        BY <2>0, <3>2 DEF TouchedRow, Shape, Idx
      <4> QED
        BY <2>0, <2>2, <4>1 DEF TouchedRow
    <3>3. ~InTable(j)'
      BY <2>0, <3>2 DEF InTable
    <3> QED
      BY <3>1, <3>3, ShownIs, ShownIsNext
  <2> QED
    BY <2>1, <2>2
<1> QED
  BY <1>1, <1>2, <1>3

LEMMA GoneIs ==
  ASSUME Led, NEW y
  PROVE  y \in Gone <=> \/ y \in Seen(freed)
                        \/ \E b \in 1 .. Len(entries) : entries[b].ends > 0 /\ y \in Objects(entries[b])
<1>1. DOMAIN entries = 1 .. Len(entries)
  BY LenProperties DEF Led
<1> QED
  BY <1>1 DEF Gone

LEMMA GoneIsNext ==
  ASSUME Led', NEW y
  PROVE  y \in Gone' <=> \/ y \in Seen(freed')
                         \/ \E b \in 1 .. Len(entries') : entries'[b].ends > 0 /\ y \in Objects(entries'[b])
<1>1. DOMAIN entries' = 1 .. Len(entries')
  BY LenProperties DEF Led
<1> QED
  BY <1>1 DEF Gone

LEMMA TouchGone ==
  ASSUME Led, Led', NEW x, NEW a, NEW d, NEW e, TouchedEntry(x, d, e, a), e.ends = 0,
         Seen(freed) \subseteq Seen(freed')
  PROVE  Gone' = Gone \cup Seen(freed')
<1>1. ASSUME NEW y, NEW b \in 1 .. Len(entries), entries[b].ends > 0, y \in Objects(entries[b])
      PROVE  b \in 1 .. Len(entries') /\ entries'[b] = entries[b]
  BY <1>1, CreatedFields DEF TouchedEntry
<1>2. ASSUME NEW y, NEW b \in 1 .. Len(entries'), entries'[b].ends > 0, y \in Objects(entries'[b])
      PROVE  b \in 1 .. Len(entries) /\ entries'[b] = entries[b]
  BY <1>2 DEF TouchedEntry
<1>3. ASSUME NEW y
      PROVE  y \in Gone' <=> y \in Gone \/ y \in Seen(freed')
  BY <1>1, <1>2, GoneIs, GoneIsNext
<1> QED
  BY <1>3

\* What destroying an entry destroys is what is seen to be owned by it.
LEMMA OwnedIs ==
  ASSUME NEW e \in EntryRec, Distinct(e.memos)
  PROVE  Table!Owned(View(e)) = Objects(e)
<1>0. e.memos \in Seq(MemoRec)
  BY EntryFields
<1>1. ASSUME NEW k \in 1 .. Len(e.memos)
      PROVE  /\ e.memos[k].rule \in Rule /\ e.memos[k].answer # NULL
             /\ AnswerIn(e.memos, e.memos[k].rule) = e.memos[k].answer
  <2>1. e.memos[k] \in MemoRec
    BY <1>0, ElementOfSeq
  <2> QED
    BY <2>1, MemoFields, MemoAt DEF Obj, NULL
<1>2. ASSUME NEW r \in Rule, AnswerIn(e.memos, r) # NULL
      PROVE  \E k \in 1 .. Len(e.memos) : AnswerIn(e.memos, r) = e.memos[k].answer
  <2>1. PICK k \in 1 .. Len(e.memos) : e.memos[k].rule = r
    BY <1>2, MemoNone
  <2> QED
    BY <1>1, <2>1
<1>3. {AnswerIn(e.memos, r) : r \in Rule} \ {NULL} = Memoized(e)
  BY <1>1, <1>2 DEF Memoized
<1>4. /\ View(e).hold_a = e.hold_a /\ View(e).hold_h = e.hold_h
      /\ \A r \in Rule : View(e).memo[r] = AnswerIn(e.memos, r)
  BY DEF View, MemoView
<1>5. {View(e).memo[r] : r \in Rule} = {AnswerIn(e.memos, r) : r \in Rule}
  BY <1>4
<1> QED
  BY <1>3, <1>4, <1>5 DEF Table!Owned, Table!NULL, NULL, Objects

-----------------------------------------------------------------------------
(* The operations that use an entry.                                        *)

\* The entry of index i was d, and is e.
Used(i, d, e) ==
  /\ open
  /\ \E a : TouchedRow(i + o, a) /\ TouchedEntry(i + o, d, e, a)
  /\ Brings(d, e) /\ e.ends = 0 /\ Distinct(e.memos) /\ Separate(e)

LEMMA UsedHolds ==
  ASSUME TableInv, NEW i \in Idx, NEW d, NEW e, Used(i, d, e)
  PROVE  /\ TableInv'
         /\ Shown(i) = View(d) /\ Shown(i)' = View(e)
         /\ \A j \in Idx : j # i => Shown(j)' = Shown(j)
         /\ Gone' = Gone \cup Seen(freed') /\ Seen(freed) \subseteq Gone
<1>1. PICK a : TouchedRow(i + o, a) /\ TouchedEntry(i + o, d, e, a)
  BY DEF Used
<1>2. Shape'
  BY <1>1, TouchShape DEF Used, TableInv
<1>3. Led'
  BY <1>1, TouchLed DEF Used, TableInv
<1>4. Shared'
  BY <1>1, TouchShared DEF Used, TableInv
<1>5. /\ Shown(i) = View(d) /\ Shown(i)' = View(e)
      /\ \A j \in Idx : j # i => Shown(j)' = Shown(j)
  BY <1>1, TouchShown DEF TableInv
<1>6. Seen(freed) \subseteq Seen(freed')
  BY DEF Used, Brings
<1>7. Gone' = Gone \cup Seen(freed')
  BY <1>1, <1>3, <1>6, TouchGone DEF Used, TableInv
<1> QED
  BY <1>2, <1>3, <1>4, <1>5, <1>7 DEF TableInv, Gone

LEMMA Begun ==
  ASSUME TableInv, NEW i \in Idx, NEW e \in EntryRec, Touch(i + o, e), open
  PROVE  \E a : TouchedRow(i + o, a) /\ TouchedEntry(i + o, Before(i + o), e, a)
BY Touching DEF TableInv

\* The entry as it was is one of those that were made, or new.
LEMMA BeforeFields ==
  ASSUME TableInv, NEW i \in Idx
  PROVE  /\ Before(i + o) \in EntryRec /\ MaxObject \in Nat /\ made \in 0 .. MaxObject
         /\ freed \in Seq(1 .. made)
         /\ \A j, k \in 1 .. Len(freed) : j # k => freed[j] # freed[k]
BY BeforeType, LrTableAssumption DEF TableInv, Shared

\* One object more for an entry.
LEMMA HoldUses ==
  ASSUME TableInv, NEW i \in Idx, NEW d, d = Before(i + o), NEW e \in EntryRec,
         New, freed' = freed, Touch(i + o, e),
         e.memos = d.memos, e.ends = d.ends,
         \/ e.hold_a = d.hold_a /\ e.hold_h = d.hold_h \cup {made'}
         \/ e.hold_h = d.hold_h /\ e.hold_a = d.hold_a \cup {made'}
  PROVE  Used(i, d, e)
<1>1. open /\ made \in Nat /\ made' = made + 1 /\ made' \in made .. MaxObject
  BY BeforeFields DEF New
<1>2. PICK a : TouchedRow(i + o, a) /\ TouchedEntry(i + o, d, e, a)
  BY <1>1, Begun
<1>3. /\ Objects(d) \subseteq (1 .. made) \ Seen(freed)
      /\ Distinct(d.memos) /\ Separate(d)
  BY <1>2, BeforeOwns DEF TableInv
<1>4. Objects(e) = Objects(d) \cup {made'} /\ Memoized(e) = Memoized(d)
  BY DEF Objects, Memoized
<1>5. made' \notin 1 .. made /\ (made + 1) .. made' = {made'} /\ 1 .. made \subseteq 1 .. made'
  BY <1>1
<1>6. Seen(freed) \subseteq 1 .. made
  BY BeforeFields, ElementOfSeq DEF Seen
<1>7. Brings(d, e)
  <2>1. freed' \in Seq(1 .. made')
    BY <1>5, BeforeFields, SeqMonotonic
  <2> QED
    BY <1>1, <1>3, <1>4, <1>5, <1>6, <2>1, BeforeFields DEF Brings
<1>8. Separate(e)
  <2>1. made' \notin Objects(d)
    BY <1>3, <1>5
  <2> QED
    BY <1>3, <1>4, <2>1 DEF Separate, Objects
<1>9. e.ends = 0
  BY <1>2, CreatedFields DEF TouchedEntry
<1> QED
  BY <1>1, <1>2, <1>3, <1>7, <1>8, <1>9 DEF Used

LEMMA HoldHeadUses ==
  ASSUME TableInv, NEW i \in Idx, HoldHead(i)
  PROVE  \E d, e : /\ Used(i, d, e)
                   /\ View(e) = [View(d) EXCEPT !.hold_h = @ \cup {made'}]
<1>. PICK d : d = Before(i + o)
  OBVIOUS
<1>. PICK e : e = [d EXCEPT !.hold_h = @ \cup {made'}]
  OBVIOUS
<1>1. New /\ freed' = freed /\ Touch(i + o, e) /\ d \in EntryRec /\ made' \in Obj
  BY BeforeFields DEF HoldHead, New, Obj
<1>2. /\ e \in EntryRec /\ e.memos = d.memos /\ e.hold_a = d.hold_a
      /\ e.hold_h = d.hold_h \cup {made'} /\ e.ends = d.ends /\ e.head = d.head
  BY <1>1 DEF EntryRec
<1>3. Used(i, d, e)
  BY <1>1, <1>2, HoldUses
<1>4. View(e) = [View(d) EXCEPT !.hold_h = @ \cup {made'}]
  BY <1>2 DEF View
<1> QED
  BY <1>3, <1>4

LEMMA HoldAnswerUses ==
  ASSUME TableInv, NEW i \in Idx, HoldAnswer(i)
  PROVE  \E d, e : /\ Used(i, d, e)
                   /\ View(e) = [View(d) EXCEPT !.hold_a = @ \cup {made'}]
<1>. PICK d : d = Before(i + o)
  OBVIOUS
<1>. PICK e : e = [d EXCEPT !.hold_a = @ \cup {made'}]
  OBVIOUS
<1>1. New /\ freed' = freed /\ Touch(i + o, e) /\ d \in EntryRec /\ made' \in Obj
  BY BeforeFields DEF HoldAnswer, New, Obj
<1>2. /\ e \in EntryRec /\ e.memos = d.memos /\ e.hold_h = d.hold_h
      /\ e.hold_a = d.hold_a \cup {made'} /\ e.ends = d.ends /\ e.head = d.head
  BY <1>1 DEF EntryRec
<1>3. Used(i, d, e)
  BY <1>1, <1>2, HoldUses
<1>4. View(e) = [View(d) EXCEPT !.hold_a = @ \cup {made'}]
  BY <1>2 DEF View
<1> QED
  BY <1>3, <1>4

LEMMA SetHeadUses ==
  ASSUME TableInv, NEW i \in Idx, SetHead(i)
  PROVE  \E d, e : \E h \in d.hold_h \cup {NULL} :
           /\ Used(i, d, e)
           /\ View(e) = [View(d) EXCEPT !.head = h]
<1>. PICK d : d = Before(i + o)
  OBVIOUS
<1>1. /\ open /\ InTable(i) /\ made' = made /\ freed' = freed /\ d \in EntryRec
  BY BeforeFields DEF SetHead
<1>2. PICK h \in EntryAt(i).hold_h \cup {NULL} : Touch(i + o, [d EXCEPT !.head = h])
  BY DEF SetHead
<1>. PICK e : e = [d EXCEPT !.head = h]
  OBVIOUS
<1>3. d = EntryAt(i)
  <2>1. ~(i + o >= n) /\ p[i + o] # NULL
    BY <1>1 DEF InTable, Shape, TableInv, Idx
  <2> QED
    BY <2>1 DEF Before, Covering, EntryAt
<1>4. h \in Obj \cup {NULL}
  BY <1>1, <1>2, <1>3, EntryFields
<1>5. /\ e \in EntryRec /\ e.memos = d.memos /\ e.hold_h = d.hold_h
      /\ e.hold_a = d.hold_a /\ e.ends = d.ends /\ e.head = h
  BY <1>1, <1>4 DEF EntryRec
<1>6. PICK a : TouchedRow(i + o, a) /\ TouchedEntry(i + o, d, e, a)
  BY <1>1, <1>2, <1>5, Begun
<1>7. /\ Objects(d) \subseteq (1 .. made) \ Seen(freed)
      /\ Distinct(d.memos) /\ Separate(d)
  BY <1>6, BeforeOwns DEF TableInv
<1>8. Objects(e) = Objects(d) /\ Memoized(e) = Memoized(d)
  BY <1>5 DEF Objects, Memoized
<1>9. Brings(d, e)
  <2>1. (made + 1) .. made' = {} /\ made' \in made .. MaxObject
    BY <1>1, BeforeFields
  <2> QED
    BY <1>1, <1>7, <1>8, <2>1, BeforeFields DEF Brings
<1>10. Separate(e)
  BY <1>5, <1>7, <1>8 DEF Separate
<1>11. e.ends = 0
  BY <1>5, <1>6, CreatedFields DEF TouchedEntry
<1>12. Used(i, d, e)
  BY <1>1, <1>5, <1>6, <1>7, <1>9, <1>10, <1>11 DEF Used
<1>13. View(e) = [View(d) EXCEPT !.head = h]
  BY <1>5 DEF View
<1> QED
  BY <1>2, <1>3, <1>12, <1>13

LEMMA SetAnswerUses ==
  ASSUME TableInv, NEW i \in Idx, NEW r \in Rule, SetAnswer(i, r)
  PROVE  \E d, e : /\ Used(i, d, e)
                   /\ View(e) = [View(d) EXCEPT !.memo[r] = made']
                   /\ Seen(freed') = Seen(freed) \cup ({View(d).memo[r]} \ {NULL})
<1>. PICK d : d = Before(i + o)
  OBVIOUS
<1>. PICK ts : ts = MemoPut(d.memos, r, made')
  OBVIOUS
<1>. PICK e : e = [d EXCEPT !.memos = ts]
  OBVIOUS
<1>. PICK old : old = AnswerIn(d.memos, r)
  OBVIOUS
<1>1. /\ open /\ made' = made + 1 /\ made' \in Obj /\ made \in Nat /\ made' \in made .. MaxObject
      /\ Touch(i + o, e) /\ d \in EntryRec
  BY BeforeFields DEF SetAnswer, New, Obj
<1>2. d.memos \in Seq(MemoRec) /\ Distinct(d.memos)
  <2>1. CASE d = CreateEntry
    BY <2>1, <1>1, EntryFields, CreatedFields
  <2>2. CASE \E b \in 1 .. Len(entries) : d = entries[b]
    BY <2>2, <1>1, EntryFields DEF TableInv, Shared
  <2> QED
    BY <2>1, <2>2, BeforeMade DEF TableInv
<1>3. ts \in Seq(MemoRec) /\ \E k : Put(d.memos, ts, r, made', k)
  BY <1>1, <1>2, PutMemos
<1>4. PICK k : Put(d.memos, ts, r, made', k)
  BY <1>3
<1>5. /\ e \in EntryRec /\ e.memos = ts /\ e.hold_h = d.hold_h
      /\ e.hold_a = d.hold_a /\ e.ends = d.ends /\ e.head = d.head
  BY <1>1, <1>3 DEF EntryRec
<1>6. PICK a : TouchedRow(i + o, a) /\ TouchedEntry(i + o, d, e, a)
  BY <1>1, <1>5, Begun
<1>7. /\ Objects(d) \subseteq (1 .. made) \ Seen(freed)
      /\ Distinct(d.memos) /\ Separate(d)
  BY <1>6, BeforeOwns DEF TableInv
<1>8. made' \notin 1 .. made /\ (made + 1) .. made' = {made'} /\ 1 .. made \subseteq 1 .. made'
  BY <1>1
<1>9. /\ Apart(d.memos) /\ Answers(d.memos) = Memoized(d) /\ Memoized(e) = Answers(ts)
      /\ made' \notin Answers(d.memos)
  BY <1>5, <1>7, <1>8 DEF Separate, Apart, Answers, Memoized, Objects
<1>10. /\ Apart(ts) /\ Answers(ts) = (Answers(d.memos) \ {old}) \cup {made'}
       /\ old = NULL \/ old \in Answers(d.memos)
  BY <1>1, <1>2, <1>4, <1>9, PutOwned
<1>11. /\ Distinct(ts)
       /\ \A q \in Rule : AnswerIn(ts, q) = IF q = r THEN made' ELSE AnswerIn(d.memos, q)
  BY <1>1, <1>2, <1>4, PutAnswers
<1>12. old = GetAnswer(i, r) /\ View(d).memo[r] = old
  <2>1. Shown(i) = View(d)
    BY <1>6, TouchShown DEF TableInv
  <2>2. Shown(i).memo[r] = GetAnswer(i, r) /\ View(d).memo[r] = old
    BY DEF Shown, View, MemoView
  <2> QED
    BY <2>1, <2>2
<1>13. /\ freed' \in Seq(1 .. made') /\ Seen(freed') = Seen(freed) \cup ({old} \ {NULL})
       /\ \A j, l \in 1 .. Len(freed') : j # l => freed'[j] # freed'[l]
  <2>1. freed \in Seq(1 .. made')
    BY <1>8, BeforeFields, SeqMonotonic
  <2>2. CASE old = NULL
    BY <1>12, <2>1, <2>2, BeforeFields DEF SetAnswer
  <2>3. CASE old # NULL
    <3>1. freed' = Append(freed, old)
      BY <1>12, <2>3 DEF SetAnswer
    <3>2. old \in 1 .. made' /\ old \notin Seen(freed)
      BY <1>7, <1>8, <1>9, <1>10, <2>3 DEF Objects
    <3>3. /\ freed' \in Seq(1 .. made') /\ Len(freed') = Len(freed) + 1 /\ Len(freed) \in Nat
          /\ \A j \in 1 .. Len(freed) : freed'[j] = freed[j]
          /\ freed'[Len(freed) + 1] = old
      BY <2>1, <3>1, <3>2, AppendProperties, LenProperties
    <3>4. Seen(freed') = Seen(freed) \cup {old}
      BY <3>3 DEF Seen
    <3>5. ASSUME NEW j \in 1 .. Len(freed'), NEW l \in 1 .. Len(freed'), j # l
          PROVE  freed'[j] # freed'[l]
      <4>1. CASE j = Len(freed) + 1
        BY <3>2, <3>3, <3>5, <4>1 DEF Seen
      <4>2. CASE l = Len(freed) + 1
        BY <3>2, <3>3, <3>5, <4>2 DEF Seen
      <4>3. CASE j \in 1 .. Len(freed) /\ l \in 1 .. Len(freed)
        BY <3>3, <3>5, <4>3, BeforeFields
      <4> QED
        BY <3>3, <4>1, <4>2, <4>3
    <3> QED
      BY <2>3, <3>3, <3>4, <3>5
  <2> QED
    BY <2>2, <2>3
<1>14. Seen(freed) \subseteq 1 .. made
  BY BeforeFields, ElementOfSeq DEF Seen
<1>15. old # NULL => old \in Memoized(d) /\ old \notin d.hold_a /\ old \notin d.hold_h
  BY <1>7, <1>9, <1>10 DEF Separate
<1>16. Objects(e) = (Objects(d) \ ({old} \ {NULL})) \cup {made'}
  <2>1. Memoized(e) = (Memoized(d) \ {old}) \cup {made'}
    BY <1>9, <1>10
  <2>2. NULL \notin Memoized(d)
    BY <1>1, <1>7 DEF Objects, NULL
  <2> QED
    BY <1>5, <1>15, <2>1, <2>2 DEF Objects
<1>17. Brings(d, e)
  <2>1. {old} \ {NULL} \subseteq Objects(d)
    BY <1>15 DEF Objects
  <2>2. /\ Seen(freed) \subseteq Seen(freed')
        /\ Seen(freed') \subseteq Seen(freed) \cup Objects(d)
    BY <1>13, <2>1
  <2>3. Objects(e) \subseteq (Objects(d) \cup {made'}) \ Seen(freed')
    <3>1. made' \notin Seen(freed) /\ made' \notin Objects(d)
      BY <1>7, <1>8, <1>14
    <3> QED
      BY <1>7, <1>13, <1>16, <2>1, <3>1
  <2>4. Objects(d) \cup {made'} \subseteq Objects(e) \cup Seen(freed')
    BY <1>13, <1>16
  <2> QED
    BY <1>1, <1>8, <1>13, <2>2, <2>3, <2>4 DEF Brings
<1>18. Separate(e)
  <2>1. made' \notin Objects(d)
    BY <1>7, <1>8
  <2>2. Memoized(e) = (Memoized(d) \ {old}) \cup {made'}
    BY <1>9, <1>10
  <2> QED
    BY <1>5, <1>7, <1>10, <2>1, <2>2 DEF Separate, Objects, Apart
<1>19. e.ends = 0
  BY <1>5, <1>6, CreatedFields DEF TouchedEntry
<1>20. Used(i, d, e)
  BY <1>1, <1>5, <1>6, <1>11, <1>17, <1>18, <1>19 DEF Used
<1>21. View(e) = [View(d) EXCEPT !.memo[r] = made']
  <2>1. MemoView(ts) = [MemoView(d.memos) EXCEPT ![r] = made']
    BY <1>11 DEF MemoView
  <2> QED
    BY <1>5, <2>1 DEF View
<1> QED
  BY <1>12, <1>13, <1>20, <1>21

-----------------------------------------------------------------------------
(* Shifts, and the end of the table.                                        *)

\* The entries that the elements in X point to were destroyed.
Destroyed(X) ==
  /\ entries' \in Seq(EntryRec) /\ Len(entries') = Len(entries)
  /\ \A a \in 1 .. Len(entries) :
       entries'[a] = [entries[a] EXCEPT !.ends = IF \E x \in X : p[x] = a THEN 1 ELSE @]

LEMMA Destroying ==
  ASSUME Shape, Led, NEW X, X \subseteq o .. (n - 1), DestroyEntries(X)
  PROVE  Destroyed(X)
<1>0. Len(entries) \in Nat /\ DOMAIN entries = 1 .. Len(entries)
  BY LenProperties DEF Led
<1>1. ASSUME NEW a \in 1 .. Len(entries)
      PROVE  /\ entries'[a] = [entries[a] EXCEPT !.ends = IF \E x \in X : p[x] = a THEN 1 ELSE @]
             /\ entries'[a] \in EntryRec
  <2>. PICK S : S = {x \in X : p[x] = a}
    OBVIOUS
  <2>1. entries'[a] = [entries[a] EXCEPT !.ends = @ + Cardinality(S)]
    BY <1>0 DEF DestroyEntries
  <2>2. entries[a] \in EntryRec /\ entries[a].ends \in {0, 1}
    BY ElementOfSeq DEF Led
  <2>3. CASE S = {}
    <3>1. Cardinality(S) = 0
      BY <2>3, FS_EmptySet
    <3>2. entries[a].ends + Cardinality(S) = entries[a].ends
      BY <2>2, <3>1
    <3>3. ~ \E x \in X : p[x] = a
      BY <2>3
    <3> QED
      BY <2>1, <2>2, <3>2, <3>3 DEF EntryRec
  <2>4. CASE S # {}
    <3>1. PICK x \in X : p[x] = a
      BY <2>4
    <3>2. a # NULL /\ x \in o .. (n - 1)
      BY <3>1 DEF NULL
    <3>3. entries[a].ends = 0 /\ \A y \in X : p[y] = a => y = x
      BY <3>1, <3>2 DEF Led, PointersValid
    <3>4. S = {x}
      BY <3>1, <3>3
    <3>5. Cardinality(S) = 1
      BY <3>4, FS_Singleton
    <3>6. entries[a].ends + Cardinality(S) = 1
      BY <3>3, <3>5
    <3> QED
      BY <2>1, <2>2, <3>1, <3>6 DEF EntryRec
  <2> QED
    BY <2>3, <2>4
<1>2. entries' = [a \in 1 .. Len(entries) |-> entries'[a]]
  BY <1>0 DEF DestroyEntries
<1>3. entries' \in Seq(EntryRec) /\ Len(entries') = Len(entries)
  BY <1>0, <1>1, <1>2
<1> QED
  BY <1>1, <1>3 DEF Destroyed

LEMMA DestroyedFields ==
  ASSUME Led, NEW X, Destroyed(X), NEW a \in 1 .. Len(entries)
  PROVE  /\ a \in 1 .. Len(entries')
         /\ entries'[a].head = entries[a].head /\ entries'[a].memos = entries[a].memos
         /\ entries'[a].hold_a = entries[a].hold_a /\ entries'[a].hold_h = entries[a].hold_h
         /\ Objects(entries'[a]) = Objects(entries[a]) /\ View(entries'[a]) = View(entries[a])
         /\ Separate(entries'[a]) <=> Separate(entries[a])
<1>1. entries[a] \in EntryRec
  BY ElementOfSeq DEF Led
<1>2. entries'[a] = [entries[a] EXCEPT !.ends = IF \E x \in X : p[x] = a THEN 1 ELSE @]
  BY DEF Destroyed
<1>3. /\ entries'[a].head = entries[a].head /\ entries'[a].memos = entries[a].memos
      /\ entries'[a].hold_a = entries[a].hold_a /\ entries'[a].hold_h = entries[a].hold_h
  BY <1>1, <1>2 DEF EntryRec
<1>4. Memoized(entries'[a]) = Memoized(entries[a])
  BY <1>3 DEF Memoized
<1>5. Objects(entries'[a]) = Objects(entries[a])
  BY <1>3, <1>4 DEF Objects
<1>6. View(entries'[a]) = View(entries[a])
  BY <1>3 DEF View
<1>7. Separate(entries'[a]) <=> Separate(entries[a])
  BY <1>3, <1>4 DEF Separate
<1>8. a \in 1 .. Len(entries')
  BY DEF Destroyed
<1> QED
  BY <1>3, <1>5, <1>6, <1>7, <1>8

LEMMA DestroyedEnds ==
  ASSUME Led, NEW X, Destroyed(X), NEW a \in 1 .. Len(entries)
  PROVE  /\ \A x \in X : p[x] = a => entries'[a].ends = 1
         /\ (\A x \in X : p[x] # a) => entries'[a].ends = entries[a].ends
<1>1. entries[a] \in EntryRec
  BY ElementOfSeq DEF Led
<1>2. entries'[a] = [entries[a] EXCEPT !.ends = IF \E x \in X : p[x] = a THEN 1 ELSE @]
  BY DEF Destroyed
<1>3. ASSUME \E x \in X : p[x] = a
      PROVE  entries'[a].ends = 1
  <2>1. entries'[a] = [entries[a] EXCEPT !.ends = 1]
    BY <1>2, <1>3
  <2> QED
    BY <1>1, <2>1 DEF EntryRec
<1>4. ASSUME \A x \in X : p[x] # a
      PROVE  entries'[a].ends = entries[a].ends
  <2>1. entries'[a] = [entries[a] EXCEPT !.ends = @]
    BY <1>2, <1>4
  <2> QED
    BY <1>1, <2>1 DEF EntryRec
<1> QED
  BY <1>3, <1>4

LEMMA DestroyedShared ==
  ASSUME Shared, Led, NEW X, Destroyed(X), UNCHANGED <<made, freed>>
  PROVE  Shared'
<1>1. Len(entries') = Len(entries)
  BY DEF Destroyed
<1>2. \A a \in 1 .. Len(entries) :
        /\ Objects(entries'[a]) = Objects(entries[a])
        /\ entries'[a].memos = entries[a].memos
        /\ Separate(entries'[a]) <=> Separate(entries[a])
  BY DestroyedFields
<1>3. \A a \in 1 .. Len(entries') :
        /\ Distinct(entries'[a].memos) /\ Separate(entries'[a])
        /\ Objects(entries'[a]) \subseteq (1 .. made') \ Seen(freed')
  BY <1>1, <1>2 DEF Shared
<1>4. \A a, b \in 1 .. Len(entries') :
        a # b => Objects(entries'[a]) \cap Objects(entries'[b]) = {}
  BY <1>1, <1>2 DEF Shared
<1>5. \A y \in 1 .. made' :
        y \in Seen(freed') \/ \E a \in 1 .. Len(entries') : y \in Objects(entries'[a])
  BY <1>1, <1>2 DEF Shared
<1> QED
  BY <1>3, <1>4, <1>5 DEF Shared

\* What is destroyed then: what the elements in X lead to.
LEMMA DestroyedGone ==
  ASSUME Led, Led', NEW X, X \subseteq o .. (n - 1), Destroyed(X), freed' = freed, NEW y
  PROVE  y \in Gone' <=> \/ y \in Gone
                         \/ \E x \in X : p[x] # NULL /\ y \in Objects(entries[p[x]])
<1>1. Len(entries') = Len(entries)
  BY DEF Destroyed
<1>2. ASSUME NEW a \in 1 .. Len(entries)
      PROVE  /\ Objects(entries'[a]) = Objects(entries[a])
             /\ entries'[a].ends > 0 <=> entries[a].ends > 0 \/ \E x \in X : p[x] = a
  <2>1. Objects(entries'[a]) = Objects(entries[a])
    BY DestroyedFields
  <2>2. \A x \in X : p[x] = a => entries'[a].ends = 1
    BY DestroyedEnds
  <2>3. (\A x \in X : p[x] # a) => entries'[a].ends = entries[a].ends
    BY DestroyedEnds
  <2> QED
    BY <2>1, <2>2, <2>3
<1>3. \A x \in X : p[x] # NULL => p[x] \in 1 .. Len(entries)
  BY DEF Led, NULL
<1>4. \A a \in 1 .. Len(entries) : a # NULL
  BY DEF NULL
<1>6. y \in Gone' <=> \/ y \in Seen(freed)
                      \/ \E a \in 1 .. Len(entries) :
                           /\ entries[a].ends > 0 \/ \E x \in X : p[x] = a
                           /\ y \in Objects(entries[a])
  BY <1>1, <1>2, GoneIsNext
<1>7. (\E a \in 1 .. Len(entries) : (\E x \in X : p[x] = a) /\ y \in Objects(entries[a]))
      <=> \E x \in X : p[x] # NULL /\ y \in Objects(entries[p[x]])
  BY <1>3, <1>4
<1> QED
  BY <1>6, <1>7, GoneIs

\* The elements from w on are the table then; those in front of w were destroyed.
Cut(w, u, v) ==
  /\ w \in o .. n /\ Destroyed(o .. (w - 1))
  /\ m' = m /\ o' = u /\ n' = v /\ u <= v /\ v <= m /\ v - u = n - w /\ 2 * u <= m
  /\ DOMAIN p' = DOMAIN p
  /\ \A x \in u .. (v - 1) : p'[x] = p[x + w - u]
  /\ UNCHANGED <<made, freed>>

LEMMA CutNumbers ==
  ASSUME Shape, NEW w \in Nat, NEW u \in Nat, NEW v \in Nat, Cut(w, u, v)
  PROVE  /\ MaxCap \in Nat /\ MaxIndex \in Nat
         /\ m \in Nat /\ n \in Nat /\ o \in Nat
         /\ o <= w /\ w <= n /\ n <= m /\ m <= MaxCap /\ n - o <= MaxIndex + 1
         /\ u <= v /\ v <= m /\ v - u = n - w /\ o' = u /\ n' = v
<1>1. MaxCap \in Nat /\ MaxIndex \in Nat
  BY LrTableAssumption
<1>2. m \in Nat /\ n \in Nat /\ o \in Nat /\ n <= m /\ m <= MaxCap /\ n - o <= MaxIndex + 1
  BY <1>1 DEF Shape
<1>3. /\ w \in o .. n /\ u <= v /\ v <= m /\ v - u = n - w /\ o' = u /\ n' = v
  BY DEF Cut
<1> QED
  BY <1>1, <1>2, <1>3

LEMMA CutLed ==
  ASSUME Shape, Led, NEW w \in Nat, NEW u \in Nat, NEW v \in Nat, Cut(w, u, v)
  PROVE  Led'
<1>0. /\ Len(entries) \in Nat /\ Len(entries') = Len(entries) /\ entries' \in Seq(EntryRec)
      /\ DOMAIN entries' = 1 .. Len(entries') /\ DOMAIN entries = 1 .. Len(entries)
  BY LenProperties DEF Led, Cut, Destroyed
<1>a. o' = u /\ n' = v
  BY CutNumbers
<1>1. ASSUME NEW x \in u .. (v - 1)
      PROVE  /\ x + w - u \in o .. (n - 1) /\ p'[x] = p[x + w - u]
             /\ x + w - u \notin o .. (w - 1)
  <2>1. p'[x] = p[x + w - u]
    BY DEF Cut
  <2>2. x + w - u \in o .. (n - 1) /\ x + w - u \notin o .. (w - 1)
    BY CutNumbers
  <2> QED
    BY <2>1, <2>2
<1>2. ASSUME NEW x \in u .. (v - 1), p'[x] # NULL
      PROVE  p'[x] \in 1 .. Len(entries') /\ entries'[p'[x]].ends = 0
  <2>1. p[x + w - u] \in 1 .. Len(entries) /\ entries[p[x + w - u]].ends = 0
    BY <1>1, <1>2 DEF Led, PointersValid, NULL
  <2>2. \A y \in o .. (w - 1) : y \in o .. (n - 1) /\ y # x + w - u
    BY <1>1, CutNumbers
  <2>3. \A y \in o .. (w - 1) : p[y] # p[x + w - u]
    BY <1>1, <1>2, <2>2 DEF Led, PointersValid
  <2>4. Destroyed(o .. (w - 1))
    BY DEF Cut
  <2>5. entries'[p[x + w - u]].ends = 0
    BY <2>1, <2>3, <2>4, DestroyedEnds
  <2> QED
    BY <1>0, <1>1, <2>1, <2>5
<1>3. ASSUME NEW x \in u .. (v - 1), p'[x] # NULL, NEW y \in u .. (v - 1), x # y
      PROVE  p'[x] # p'[y]
  <2>1. x + w - u # y + w - u
    BY <1>3, CutNumbers
  <2>2. PointersValid
    BY DEF Led
  <2>3. /\ x + w - u \in o .. (n - 1) /\ y + w - u \in o .. (n - 1)
        /\ p'[x] = p[x + w - u] /\ p'[y] = p[y + w - u]
    BY <1>1, <1>3
  <2> QED
    BY <1>3, <2>1, <2>2, <2>3 DEF PointersValid
<1>4. PointersValid'
  BY <1>0, <1>a, <1>2, <1>3 DEF PointersValid
<1>5. \A x \in u .. (v - 1) : p'[x] \in 0 .. Len(entries')
  BY <1>0, <1>1 DEF Led
<1>6. ASSUME NEW a \in 1 .. Len(entries')
      PROVE  /\ entries'[a].ends \in {0, 1}
             /\ entries'[a].ends = 0 => \E x \in u .. (v - 1) : p'[x] = a
  <2>0. Destroyed(o .. (w - 1)) /\ a \in 1 .. Len(entries) /\ entries[a].ends \in {0, 1}
    BY <1>0 DEF Cut, Led
  <2>1. /\ \A x \in o .. (w - 1) : p[x] = a => entries'[a].ends = 1
        /\ (\A x \in o .. (w - 1) : p[x] # a) => entries'[a].ends = entries[a].ends
    BY <2>0, DestroyedEnds
  <2>2. ASSUME entries'[a].ends = 0
        PROVE  \E x \in u .. (v - 1) : p'[x] = a
    <3>1. entries[a].ends = 0 /\ ~ \E x \in o .. (w - 1) : p[x] = a
      BY <2>1, <2>2
    <3>2. PICK y \in o .. (n - 1) : p[y] = a
      BY <2>0, <3>1 DEF Led
    <3>3. y \notin o .. (w - 1)
      BY <3>1, <3>2
    <3>. PICK x : x = y - w + u
      OBVIOUS
    <3>4. x \in u .. (v - 1) /\ x + w - u = y
      BY <3>3, CutNumbers
    <3> QED
      BY <1>1, <3>2, <3>4
  <2> QED
    BY <2>0, <2>1, <2>2
<1> QED
  BY <1>0, <1>a, <1>4, <1>5, <1>6 DEF Led

\* The indices move down by what was cut off.
LEMMA CutShown ==
  ASSUME Shape, Led, NEW w \in Nat, NEW u \in Nat, NEW v \in Nat, Cut(w, u, v), NEW i \in Nat, NEW j \in Nat,
         j = i + w - o \/ (j + o >= n /\ i + w >= n)
  PROVE  Shown(i)' = Shown(j)
<1>0. /\ u \in Nat /\ v \in Nat /\ w \in Nat /\ o \in Nat /\ n \in Nat
      /\ o <= w /\ w <= n /\ u <= v /\ v - u = n - w /\ o' = u /\ n' = v
  BY CutNumbers
<1>1. CASE j = i + w - o
  <2>1. i + u < v <=> j + o < n
    BY <1>0, <1>1
  <2>2. ASSUME j + o < n
        PROVE  /\ p'[i + u] = p[j + o]
               /\ p[j + o] # NULL => /\ p[j + o] \in 1 .. Len(entries)
                                     /\ View(entries'[p[j + o]]) = View(entries[p[j + o]])
    <3>1. i + u \in u .. (v - 1) /\ i + u + w - u = j + o /\ j + o \in o .. (n - 1)
      BY <1>0, <1>1, <2>1, <2>2
    <3>2. p'[i + u] = p[i + u + w - u]
      BY <3>1 DEF Cut
    <3>3. p[j + o] # NULL => p[j + o] \in 1 .. Len(entries)
      BY <3>1 DEF Led, NULL
    <3> QED
      BY <3>1, <3>2, <3>3, DestroyedFields DEF Cut
  <2>3. CASE j + o < n /\ p[j + o] # NULL
    <3>1. InTable(j) /\ InTable(i)'
      BY <1>0, <2>1, <2>2, <2>3 DEF InTable
    <3>2. View(EntryAt(i)') = View(EntryAt(j))
      BY <1>0, <2>2, <2>3 DEF EntryAt
    <3> QED
      BY <3>1, <3>2, ShownIs, ShownIsNext
  <2>4. CASE ~(j + o < n /\ p[j + o] # NULL)
    <3>1. ~InTable(j) /\ ~InTable(i)'
      BY <1>0, <2>1, <2>2, <2>4 DEF InTable
    <3> QED
      BY <3>1, ShownIs, ShownIsNext
  <2> QED
    BY <2>3, <2>4
<1>2. CASE j + o >= n /\ i + w >= n
  <2>1. ~(j + o < n) /\ ~(i + u < v)
    BY <1>0, <1>2
  <2>2. ~InTable(j) /\ ~InTable(i)'
    BY <1>0, <2>1 DEF InTable
  <2> QED
    BY <2>2, ShownIs, ShownIsNext
<1> QED
  BY <1>1, <1>2

\* What is destroyed then is what the indices in front of w are seen to own.
LEMMA CutGone ==
  ASSUME Shape, Led, Shared, NEW w \in Nat, NEW u \in Nat, NEW v \in Nat, Cut(w, u, v), NEW c,
         \A i \in Idx : i \in c <=> i + o < w
  PROVE  Gone' = Gone \cup UNION {Table!Owned(Shown(i)) : i \in {i \in Idx : i \in c}}
<1>1. Led'
  BY CutLed
<1>2. o .. (w - 1) \subseteq o .. (n - 1) /\ freed' = freed /\ Destroyed(o .. (w - 1))
  BY SMTT(20), CutNumbers DEF Cut
<1>3. \A y : y \in Gone' <=> \/ y \in Gone
                             \/ \E x \in o .. (w - 1) : p[x] # NULL /\ y \in Objects(entries[p[x]])
  BY <1>1, <1>2, DestroyedGone
<1>4. ASSUME NEW i \in Idx, i + o < w
      PROVE  /\ i + o \in o .. (w - 1)
             /\ Table!Owned(Shown(i)) = IF p[i + o] # NULL THEN Objects(entries[p[i + o]]) ELSE {}
  <2>1. i + o \in o .. (w - 1) /\ i + o \in o .. (n - 1) /\ i + o < n
    BY <1>4, CutNumbers DEF Idx
  <2>2. CASE p[i + o] # NULL
    <3>1. InTable(i) /\ EntryAt(i) = entries[p[i + o]]
      BY <2>1, <2>2 DEF InTable, EntryAt
    <3>2. p[i + o] \in 1 .. Len(entries)
      BY <2>1, <2>2 DEF Led, NULL
    <3>3. entries[p[i + o]] \in EntryRec /\ Distinct(entries[p[i + o]].memos)
      BY <3>2, ElementOfSeq DEF Led, Shared
    <3>4. Shown(i) = View(entries[p[i + o]])
      BY <3>1, ShownIs
    <3> QED
      BY <2>1, <2>2, <3>3, <3>4, OwnedIs
  <2>3. CASE p[i + o] = NULL
    <3>1. ~InTable(i)
      BY <2>3 DEF InTable
    <3>2. Shown(i) = View(CreateEntry)
      BY <3>1, ShownIs
    <3> QED
      BY <2>1, <2>3, <3>2, CreatedFields, OwnedIs
  <2> QED
    BY <2>2, <2>3
<1>5. ASSUME NEW x \in o .. (w - 1)
      PROVE  \E i \in Idx : i + o < w /\ i + o = x
  <2>. PICK i : i = x - o
    OBVIOUS
  <2>1. i \in Idx /\ i + o = x /\ i + o < w
    BY CutNumbers DEF Idx
  <2> QED
    BY <2>1
<1>6. ASSUME NEW y
      PROVE  (\E x \in o .. (w - 1) : p[x] # NULL /\ y \in Objects(entries[p[x]]))
             <=> \E i \in Idx : i + o < w /\ y \in Table!Owned(Shown(i))
  BY <1>4, <1>5
<1> QED
  BY <1>3, <1>6

LEMMA CutHolds ==
  ASSUME TableInv, NEW w \in Nat, NEW u \in Nat, NEW v \in Nat, Cut(w, u, v),
         open' \in BOOLEAN, ~open' => u = v
  PROVE  TableInv'
<1>1. Shape'
  <2>1. /\ m \in 0 .. MaxCap /\ n \in 0 .. m /\ o \in 0 .. n /\ n - o <= MaxIndex + 1
        /\ DOMAIN p = 0 .. (m - 1)
    BY DEF TableInv, Shape
  <2>2. m' = m /\ o' = u /\ n' = v /\ u <= v /\ v <= m /\ 2 * u <= m /\ DOMAIN p' = DOMAIN p
    BY DEF Cut
  <2>3. v - u <= MaxIndex + 1
    BY CutNumbers DEF TableInv
  <2> QED
    BY <2>1, <2>2, <2>3, CutNumbers DEF Shape, TableInv
<1>2. Led'
  BY CutLed DEF TableInv
<1>3. Shared'
  BY DestroyedShared DEF Cut, TableInv
<1> QED
  BY <1>1, <1>2, <1>3 DEF TableInv

LEMMA ShiftCuts ==
  ASSUME TableInv, NEW count \in Nat, Shift(count)
  PROVE  \E w, u, v \in Nat : /\ Cut(w, u, v) /\ open /\ open' = open
                              /\ w = o + (IF count > n - o THEN n - o ELSE count)
<1>. PICK w : w = o + (IF count > n - o THEN n - o ELSE count)
  OBVIOUS
<1>0. /\ m \in Nat /\ n \in Nat /\ o \in Nat /\ o <= n /\ n <= m /\ 2 * o <= m
      /\ DOMAIN p = 0 .. (m - 1)
  BY LrTableAssumption DEF TableInv, Shape
<1>1. w \in Nat /\ w \in o .. n
  BY <1>0
<1>2. /\ open /\ open' = open /\ m' = m /\ made' = made /\ freed' = freed
      /\ DestroyEntries(o .. (w - 1))
      /\ IF Compacts(w) THEN p' = Moved(w) /\ n' = n - w /\ o' = 0
                        ELSE UNCHANGED <<p, n>> /\ o' = w
  BY DEF Shift
<1>3. Destroyed(o .. (w - 1))
  <2>1. o .. (w - 1) \subseteq o .. (n - 1)
    BY <1>0, <1>1
  <2> QED
    BY <1>2, <2>1, Destroying DEF TableInv
<1>4. CASE Compacts(w)
  <2>1. p' = Moved(w) /\ n' = n - w /\ o' = 0
    BY <1>2, <1>4
  <2>. PICK v : v = n - w
    OBVIOUS
  <2>2. v \in Nat /\ v <= m /\ v - 0 = n - w /\ 0 <= v /\ 2 * 0 <= m
    BY <1>0, <1>1
  <2>3. DOMAIN p' = DOMAIN p
    BY <2>1 DEF Moved
  <2>4. \A x \in 0 .. (v - 1) : x \in DOMAIN p /\ x < n - w /\ x + w - 0 = x + w
    BY <1>0, <1>1, <2>2
  <2>5. \A x \in 0 .. (v - 1) : p'[x] = p[x + w - 0]
    BY <2>1, <2>4 DEF Moved
  <2>6. Cut(w, 0, v)
    BY <1>1, <1>2, <1>3, <2>1, <2>2, <2>3, <2>5 DEF Cut
  <2> QED
    BY <1>1, <1>2, <2>2, <2>6
<1>5. CASE ~Compacts(w)
  <2>1. p' = p /\ n' = n /\ o' = w
    BY <1>2, <1>5
  <2>2. 2 * w <= m
    BY <1>0, <1>1, <1>5 DEF Compacts
  <2>3. \A x \in w .. (n - 1) : x + w - w = x
    BY <1>0, <1>1
  <2>4. Cut(w, w, n)
    BY <1>0, <1>1, <1>2, <1>3, <2>1, <2>2, <2>3 DEF Cut
  <2> QED
    BY <1>0, <1>1, <1>2, <2>4
<1> QED
  BY <1>4, <1>5

LEMMA FinalizeCuts ==
  ASSUME TableInv, Finalize
  PROVE  o \in Nat /\ n \in Nat /\ Cut(n, o, o) /\ open /\ ~open'
<1>0. m \in Nat /\ n \in Nat /\ o \in Nat /\ o <= n /\ n <= m /\ 2 * o <= m
  BY LrTableAssumption DEF TableInv, Shape
<1>1. DestroyEntries(o .. (n - 1)) /\ UNCHANGED <<m, o, p, made, freed>> /\ open /\ ~open'
  BY DEF Finalize
<1>2. n' = o
  BY <1>0 DEF Finalize
<1>3. Destroyed(o .. (n - 1))
  BY <1>1, Destroying DEF TableInv
<1>4. /\ n \in o .. n /\ o <= o /\ o <= m /\ o - o = n - n
      /\ \A x \in o .. (o - 1) : FALSE
  BY <1>0
<1>5. Cut(n, o, o)
  BY <1>0, <1>1, <1>2, <1>3, <1>4 DEF Cut
<1> QED
  BY <1>0, <1>1, <1>5

-----------------------------------------------------------------------------
(* The theorems.                                                            *)

LEMMA InitHolds == ASSUME Init PROVE TableInv
<1>1. /\ m = 0 /\ n = 0 /\ o = 0 /\ p = <<>> /\ entries = <<>> /\ made = 0 /\ freed = <<>>
      /\ open = TRUE
  BY DEF Init
<1>2. <<>> \in Seq(EntryRec) /\ <<>> \in Seq(1 .. 0) /\ Len(<<>>) = 0 /\ DOMAIN <<>> = 1 .. 0
  BY EmptySeq, LenProperties
<1>3. Shape
  <2>1. 1 .. 0 = 0 .. (0 - 1)
    OBVIOUS
  <2> QED
    BY <1>1, <1>2, <2>1, LrTableAssumption DEF Shape
<1>4. Led
  BY <1>1, <1>2 DEF Led, PointersValid
<1>5. Shared
  BY <1>1, <1>2, LrTableAssumption DEF Shared
<1> QED
  BY <1>3, <1>4, <1>5 DEF TableInv

\* A use of an entry, a cut, or nothing.
LEMMA StepHolds == ASSUME TableInv, [Next]_vars PROVE TableInv'
<1>1. ASSUME NEW i \in Idx, HoldHead(i) PROVE TableInv'
  BY <1>1, HoldHeadUses, UsedHolds
<1>2. ASSUME NEW i \in Idx, HoldAnswer(i) PROVE TableInv'
  BY <1>2, HoldAnswerUses, UsedHolds
<1>3. ASSUME NEW i \in Idx, SetHead(i) PROVE TableInv'
  BY <1>3, SetHeadUses, UsedHolds
<1>4. ASSUME NEW i \in Idx, NEW r \in Rule, SetAnswer(i, r) PROVE TableInv'
  BY <1>4, SetAnswerUses, UsedHolds
<1>5. ASSUME NEW count \in 0 .. (MaxIndex + 1), Shift(count) PROVE TableInv'
  <2>1. count \in Nat
    BY LrTableAssumption
  <2>2. PICK w, u, v \in Nat : Cut(w, u, v) /\ open /\ open' = open
    BY <1>5, <2>1, ShiftCuts
  <2> QED
    BY <2>2, CutHolds
<1>6. CASE Finalize
  <2>1. o \in Nat /\ n \in Nat /\ Cut(n, o, o)
    BY <1>6, FinalizeCuts
  <2>2. open' \in BOOLEAN
    BY <1>6 DEF Finalize
  <2> QED
    BY <2>1, <2>2, CutHolds
<1>7. CASE UNCHANGED vars
  BY ZenonT(30), <1>7 DEF vars, TableInv, Shape, Led, PointersValid, Shared
<1> QED
  BY <1>1, <1>2, <1>3, <1>4, <1>5, <1>6, <1>7 DEF Next, Closed

\* The conjuncts of TableInv hold in every state the table can be in.
THEOREM TableInvariant == Spec => []TableInv
BY InitHolds, StepHolds, PTL DEF Spec

\* No accessor of the memo table follows a pointer that was not written or whose
\* entry was destroyed; no answer and no head is destroyed twice, and none is left
\* when the table is.
THEOREM TableSound == Spec => []ObjectsSound
<1>1. ASSUME TableInv
      PROVE  ObjectsSound
  <2>1. DOMAIN entries = 1 .. Len(entries)
    BY <1>1, LenProperties DEF TableInv, Led
  <2>2. ASSUME ~open
        PROVE  Gone = 1 .. made
    <3>1. \A x \in o .. (n - 1) : FALSE
      BY <1>1, <2>2 DEF TableInv, Shape
    <3>2. \A a \in 1 .. Len(entries) : entries[a].ends > 0
      BY <1>1, <3>1 DEF TableInv, Led
    <3>3. ASSUME NEW y
          PROVE  y \in Gone <=> y \in Seen(freed) \/ \E a \in 1 .. Len(entries) : y \in Objects(entries[a])
      BY <1>1, <3>2, GoneIs DEF TableInv
    <3>4. Seen(freed) \subseteq 1 .. made
      BY <1>1, ElementOfSeq DEF TableInv, Shared, Seen
    <3>5. \A a \in 1 .. Len(entries) : Objects(entries[a]) \subseteq 1 .. made
      BY <1>1 DEF TableInv, Shared
    <3>6. \A y \in 1 .. made :
            y \in Seen(freed) \/ \E a \in 1 .. Len(entries) : y \in Objects(entries[a])
      BY <1>1 DEF TableInv, Shared
    <3> QED
      BY <3>3, <3>4, <3>5, <3>6
  <2>3. \A a \in 1 .. Len(entries) : entries[a].ends <= 1
    BY <1>1 DEF TableInv, Led
  <2>4. /\ \A j, k \in 1 .. Len(freed) : j # k => freed[j] # freed[k]
        /\ \A a \in 1 .. Len(entries) :
             Separate(entries[a]) /\ Objects(entries[a]) \cap Seen(freed) = {}
        /\ \A a, b \in 1 .. Len(entries) :
             a # b => Objects(entries[a]) \cap Objects(entries[b]) = {}
    BY <1>1 DEF TableInv, Shared
  <2>5. FreedOnce
    BY <2>1, <2>2, <2>3, <2>4 DEF FreedOnce
  <2> QED
    BY <1>1, <2>5 DEF ObjectsSound, TableInv, Led
<1> QED
  BY <1>1, TableInvariant, PTL

\* The array grows only while it holds less than twice as many elements as there
\* are indices, however often the table is shifted.
THEOREM TableBounded == Spec => Bounded
<1>1. ASSUME TableInv, [Next]_vars, m' # m
      PROVE  m < 2 * (MaxIndex + 1)
  <2>1. ASSUME NEW i \in Idx, NEW d, NEW e, Used(i, d, e)
        PROVE  m < 2 * (MaxIndex + 1)
    <3>1. m < i + o + 1
      BY <1>1, <2>1 DEF Used, TouchedRow
    <3>2. i <= MaxIndex /\ i \in Nat /\ o \in Nat /\ m \in Nat /\ 2 * o <= m /\ MaxIndex \in Nat
      BY <1>1, LrTableAssumption DEF TableInv, Shape, Idx
    <3> QED
      BY <3>1, <3>2
  <2>2. ASSUME NEW i \in Idx, HoldHead(i) \/ HoldAnswer(i) \/ SetHead(i)
        PROVE  m < 2 * (MaxIndex + 1)
    BY <1>1, <2>1, <2>2, HoldHeadUses, HoldAnswerUses, SetHeadUses
  <2>3. ASSUME NEW i \in Idx, NEW r \in Rule, SetAnswer(i, r)
        PROVE  m < 2 * (MaxIndex + 1)
    BY <1>1, <2>1, <2>3, SetAnswerUses
  <2>4. ASSUME NEW count, Shift(count)
        PROVE  m' = m
    BY <2>4 DEF Shift
  <2>5. Finalize \/ Closed \/ UNCHANGED vars => m' = m
    BY DEF Finalize, Closed, vars
  <2> QED
    BY <1>1, <2>2, <2>3, <2>4, <2>5 DEF Next
<1>2. TableInv /\ [Next]_vars => [m' # m => m < 2 * (MaxIndex + 1)]_m
  BY <1>1
<1> QED
  BY <1>2, TableInvariant, PTL DEF Spec, Bounded

\* A use of an entry as a change of the row.
LEMMA UsedUpdates ==
  ASSUME TableInv, NEW i \in Idx, NEW d, NEW e, Used(i, d, e),
         NEW t, t = [j \in Idx |-> Shown(j)], NEW t1, t1 = [j \in Idx |-> Shown(j)']
  PROVE  /\ t[i] = View(d) /\ t1 = [t EXCEPT ![i] = View(e)] /\ open
         /\ open' = open /\ Gone' = Gone \cup Seen(freed') /\ Seen(freed) \subseteq Gone
<1>1. /\ Shown(i) = View(d) /\ Shown(i)' = View(e)
      /\ \A j \in Idx : j # i => Shown(j)' = Shown(j)
      /\ Gone' = Gone \cup Seen(freed') /\ Seen(freed) \subseteq Gone
  BY UsedHolds
<1>2. open /\ open' = open
  BY DEF Used, TouchedRow
<1>3. t1 = [t EXCEPT ![i] = View(e)]
  BY <1>1
<1> QED
  BY <1>1, <1>2, <1>3

\* The table of arrays and pointers is the row of entries that pcc_apply_rule
\* works with: whatever was resized, moved and shifted, an index shows what was put
\* there since a shift cut it off, and what is cut off is destroyed.
THEOREM TableImplements == Spec => Implements
<1>1. ASSUME Init
      PROVE  Table!SpecInit
  <2>1. \A i \in Idx : Shown(i) = Table!EmptyEntry
    <3>1. ASSUME NEW i \in Idx PROVE ~InTable(i)
      BY <1>1, LrTableAssumption DEF InTable, Init, Idx
    <3> QED
      BY <3>1, ShownIs, CreatedView
  <2>2. Gone = {}
    <3>1. Len(<<>>) = 0 /\ DOMAIN <<>> = {}
      BY EmptySeq
    <3> QED
      BY <1>1, <3>1 DEF Gone, Seen, Init
  <2>3. [i \in Idx |-> Shown(i)] = [i \in Idx |-> Table!EmptyEntry]
    BY <2>1
  <2> QED
    BY <1>1, <2>2, <2>3 DEF Table!SpecInit, Table!Idx, Idx, Init
<1>2. ASSUME TableInv, [Next]_vars
      PROVE  [Table!SpecNext]_Table!specVars
  <2>. PICK t : t = [i \in Idx |-> Shown(i)]
    OBVIOUS
  <2>. PICK t1 : t1 = [i \in Idx |-> Shown(i)']
    OBVIOUS
  <2>0. /\ Table!Idx = Idx /\ Table!NULL = NULL
        /\ [i \in Idx |-> Shown(i)]' = t1
    BY DEF Table!Idx, Idx, Table!NULL, NULL
  <2>1. ASSUME NEW i \in Idx, HoldHead(i)
        PROVE  Table!SpecHoldHead(i)
    <3>1. PICK d, e : /\ Used(i, d, e)
                      /\ View(e) = [View(d) EXCEPT !.hold_h = @ \cup {made'}]
      BY <1>2, <2>1, HoldHeadUses
    <3>2. /\ t[i] = View(d) /\ t1 = [t EXCEPT ![i] = View(e)] /\ open' = open
          /\ Gone' = Gone \cup Seen(freed') /\ Seen(freed) \subseteq Gone
      <4>1. TableInv /\ Used(i, d, e)
        BY <1>2, <3>1
      <4>2. t = [j \in Idx |-> Shown(j)] /\ t1 = [j \in Idx |-> Shown(j)']
        OBVIOUS
      <4> QED
        BY ONLY <4>1, <4>2, i \in Idx, UsedUpdates
    <3>3. New /\ freed' = freed
      BY <2>1 DEF HoldHead
    <3>4. Gone' = Gone
      BY <3>2, <3>3
    <3>5. t1 = [t EXCEPT ![i] = [t[i] EXCEPT !.hold_h = @ \cup {made'}]]
      BY <3>1, <3>2
    <3> QED
      BY <2>0, <3>2, <3>3, <3>4, <3>5 DEF Table!SpecHoldHead, Table!New, Table!Update, New
  <2>2. ASSUME NEW i \in Idx, HoldAnswer(i)
        PROVE  Table!SpecHoldAnswer(i)
    <3>1. PICK d, e : /\ Used(i, d, e)
                      /\ View(e) = [View(d) EXCEPT !.hold_a = @ \cup {made'}]
      BY <1>2, <2>2, HoldAnswerUses
    <3>2. /\ t[i] = View(d) /\ t1 = [t EXCEPT ![i] = View(e)] /\ open' = open
          /\ Gone' = Gone \cup Seen(freed') /\ Seen(freed) \subseteq Gone
      <4>1. TableInv /\ Used(i, d, e)
        BY <1>2, <3>1
      <4>2. t = [j \in Idx |-> Shown(j)] /\ t1 = [j \in Idx |-> Shown(j)']
        OBVIOUS
      <4> QED
        BY ONLY <4>1, <4>2, i \in Idx, UsedUpdates
    <3>3. New /\ freed' = freed
      BY <2>2 DEF HoldAnswer
    <3>4. Gone' = Gone
      BY <3>2, <3>3
    <3>5. t1 = [t EXCEPT ![i] = [t[i] EXCEPT !.hold_a = @ \cup {made'}]]
      BY <3>1, <3>2
    <3> QED
      BY <2>0, <3>2, <3>3, <3>4, <3>5 DEF Table!SpecHoldAnswer, Table!New, Table!Update, New
  <2>3. ASSUME NEW i \in Idx, SetHead(i)
        PROVE  \E h \in Shown(i).hold_h \cup {NULL} : Table!SpecSetHead(i, h)
    <3>1. PICK d, e : \E h \in d.hold_h \cup {NULL} :
            Used(i, d, e) /\ View(e) = [View(d) EXCEPT !.head = h]
      BY <1>2, <2>3, SetHeadUses
    <3>2. PICK h \in d.hold_h \cup {NULL} :
            Used(i, d, e) /\ View(e) = [View(d) EXCEPT !.head = h]
      BY <3>1
    <3>3. /\ t[i] = View(d) /\ t1 = [t EXCEPT ![i] = View(e)] /\ open /\ open' = open
          /\ Gone' = Gone \cup Seen(freed') /\ Seen(freed) \subseteq Gone
      <4>1. TableInv /\ Used(i, d, e)
        BY <1>2, <3>2
      <4>2. t = [j \in Idx |-> Shown(j)] /\ t1 = [j \in Idx |-> Shown(j)']
        OBVIOUS
      <4> QED
        BY ONLY <4>1, <4>2, i \in Idx, UsedUpdates
    <3>4. made' = made /\ freed' = freed
      BY <2>3 DEF SetHead
    <3>5. Gone' = Gone
      BY <3>3, <3>4
    <3>6. t1 = [t EXCEPT ![i] = [t[i] EXCEPT !.head = h]]
      BY <3>2, <3>3
    <3>7. h \in Shown(i).hold_h \cup {NULL}
      <4>1. Shown(i) = View(d) /\ View(d).hold_h = d.hold_h
        BY <3>3 DEF View
      <4> QED
        BY <3>2, <4>1
    <3> QED
      BY <2>0, <3>3, <3>4, <3>5, <3>6, <3>7 DEF Table!SpecSetHead, Table!Update
  <2>4. ASSUME NEW i \in Idx, NEW r \in Rule, SetAnswer(i, r)
        PROVE  Table!SpecSetAnswer(i, r)
    <3>1. PICK d, e : /\ Used(i, d, e)
                      /\ View(e) = [View(d) EXCEPT !.memo[r] = made']
                      /\ Seen(freed') = Seen(freed) \cup ({View(d).memo[r]} \ {NULL})
      BY <1>2, <2>4, SetAnswerUses
    <3>2. /\ t[i] = View(d) /\ t1 = [t EXCEPT ![i] = View(e)] /\ open' = open
          /\ Gone' = Gone \cup Seen(freed') /\ Seen(freed) \subseteq Gone
      <4>1. TableInv /\ Used(i, d, e)
        BY <1>2, <3>1
      <4>2. t = [j \in Idx |-> Shown(j)] /\ t1 = [j \in Idx |-> Shown(j)']
        OBVIOUS
      <4> QED
        BY ONLY <4>1, <4>2, i \in Idx, UsedUpdates
    <3>3. New
      BY <2>4 DEF SetAnswer
    <3>4. Gone' = Gone \cup ({t[i].memo[r]} \ {NULL})
      BY <3>1, <3>2
    <3>5. t1 = [t EXCEPT ![i].memo[r] = made']
      BY <3>1, <3>2
    <3>6. t1 = [t EXCEPT ![i] = [t[i] EXCEPT !.memo[r] = made']]
      BY <3>1, <3>2
    <3> QED
      BY <2>0, <3>2, <3>3, <3>4, <3>6 DEF Table!SpecSetAnswer, Table!New, Table!Update, New
  <2>5. ASSUME NEW count \in 0 .. (MaxIndex + 1), Shift(count)
        PROVE  Table!SpecShift(count)
    <3>0. count \in Nat
      BY LrTableAssumption
    <3>1. PICK w, u, v \in Nat : /\ Cut(w, u, v) /\ open /\ open' = open
                                 /\ w = o + (IF count > n - o THEN n - o ELSE count)
      BY <1>2, <2>5, <3>0, ShiftCuts
    <3>2. /\ n \in Nat /\ o \in Nat /\ o <= n /\ n - o <= MaxIndex + 1 /\ MaxIndex \in Nat
      BY <1>2, LrTableAssumption DEF TableInv, Shape
    <3>3. ASSUME NEW i \in Idx
          PROVE  Shown(i)' = IF i + count \in Idx THEN Shown(i + count) ELSE Table!EmptyEntry
      <4>1. i \in Nat /\ i + count \in Nat
        BY <3>0, <3>2 DEF Idx
      <4>2. i + count = i + w - o \/ (i + count + o >= n /\ i + w >= n)
        BY <3>0, <3>1, <3>2, <4>1
      <4>3. Shown(i)' = Shown(i + count)
        BY <1>2, <3>1, <4>1, <4>2, CutShown DEF TableInv
      <4>4. ASSUME i + count \notin Idx
            PROVE  Shown(i + count) = Table!EmptyEntry
        <5>1. ~(i + count + o < n)
          BY <3>2, <4>1, <4>4 DEF Idx
        <5>2. ~InTable(i + count)
          BY <5>1 DEF InTable
        <5> QED
          BY <5>2, ShownIs, CreatedView
      <4> QED
        BY <4>3, <4>4
    <3>4. t1 = [i \in Idx |-> IF i + count \in Idx THEN t[i + count] ELSE Table!EmptyEntry]
      BY <3>3
    <3>5. Gone' = Gone \cup UNION {Table!Owned(Shown(i)) : i \in {i \in Idx : i < count}}
      <4>. PICK c : c = {i \in Idx : i + o < w}
        OBVIOUS
      <4>1. Gone' = Gone \cup UNION {Table!Owned(Shown(i)) : i \in {i \in Idx : i \in c}}
        BY <1>2, <3>1, CutGone DEF TableInv
      <4>2. \A i \in Idx : i \in c => i < count
        BY <3>0, <3>1, <3>2 DEF Idx
      <4>3. ASSUME NEW i \in Idx, i < count, i \notin c
            PROVE  Table!Owned(Shown(i)) = {}
        <5>1. ~(i + o < n)
          BY <3>0, <3>1, <3>2, <4>3 DEF Idx
        <5>2. ~InTable(i)
          BY <5>1 DEF InTable
        <5> QED
          BY <5>2, ShownIs, CreatedFields, OwnedIs
      <4> QED
        BY <4>1, <4>2, <4>3
    <3>6. {Table!Owned(t[i]) : i \in {i \in Idx : i < count}}
          = {Table!Owned(Shown(i)) : i \in {i \in Idx : i < count}}
      OBVIOUS
    <3>7. made' = made
      BY <3>1 DEF Cut
    <3> QED
      BY <2>0, <3>1, <3>4, <3>5, <3>6, <3>7 DEF Table!SpecShift
  <2>6. ASSUME Finalize
        PROVE  Table!SpecFinalize
    <3>1. o \in Nat /\ n \in Nat /\ Cut(n, o, o) /\ open /\ ~open' /\ open' = FALSE
      BY <1>2, <2>6, FinalizeCuts DEF Finalize
    <3>2. /\ o <= n /\ n - o <= MaxIndex + 1 /\ MaxIndex \in Nat /\ o' = o /\ n' = o
      BY <1>2, <3>1, LrTableAssumption DEF TableInv, Shape, Cut
    <3>3. ASSUME NEW i \in Idx
          PROVE  Shown(i)' = Table!EmptyEntry
      <4>1. ~(i + o < o)
        BY <3>1 DEF Idx
      <4>2. ~InTable(i)'
        BY <3>2, <4>1 DEF InTable
      <4> QED
        BY <4>2, ShownIsNext, CreatedView
    <3>4. t1 = [i \in Idx |-> Table!EmptyEntry]
      BY <3>3
    <3>5. Gone' = Gone \cup UNION {Table!Owned(Shown(i)) : i \in Idx}
      <4>. PICK c : c = {i \in Idx : i + o < n}
        OBVIOUS
      <4>1. Gone' = Gone \cup UNION {Table!Owned(Shown(i)) : i \in {i \in Idx : i \in c}}
        BY <1>2, <3>1, CutGone DEF TableInv
      <4>2. ASSUME NEW i \in Idx, i \notin c
            PROVE  Table!Owned(Shown(i)) = {}
        <5>1. ~InTable(i)
          BY <4>2 DEF InTable
        <5> QED
          BY <5>1, ShownIs, CreatedFields, OwnedIs
      <4> QED
        BY <4>1, <4>2
    <3>6. {Table!Owned(t[i]) : i \in Idx} = {Table!Owned(Shown(i)) : i \in Idx}
      OBVIOUS
    <3>7. made' = made
      BY <3>1 DEF Cut
    <3> QED
      BY <2>0, <3>1, <3>4, <3>5, <3>6, <3>7 DEF Table!SpecFinalize
  <2>7. UNCHANGED vars => UNCHANGED Table!specVars
    BY DEF vars, Table!specVars, Shown, GetHead, GetAnswer, InTable, EntryAt, Gone
  <2>8. \A i \in Idx : [j \in Idx |-> Shown(j)][i] = Shown(i)
    OBVIOUS
  <2> QED
    BY <1>2, <2>0, <2>1, <2>2, <2>3, <2>4, <2>5, <2>6, <2>7, <2>8
    DEF Next, Closed, Table!SpecNext
<1> QED
  BY <1>1, <1>2, TableInvariant, PTL DEF Spec, Implements, Table!TableSpec

=============================================================================
