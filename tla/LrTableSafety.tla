--------------------------- MODULE LrTableSafety ---------------------------
(***************************************************************************)
(* What makes the memo table correct: its pointers, the objects that its   *)
(* entries own, and what a user of it sees.                                *)
(***************************************************************************)
EXTENDS LrTable

Seen(s) == {s[k] : k \in 1 .. Len(s)}

\* What destroying the entry e destroys; its head is just a reference.
Memoized(e) == {e.memos[k].answer : k \in 1 .. Len(e.memos)}
Objects(e)  == Memoized(e) \cup e.hold_a \cup e.hold_h

\* The answers and heads that were destroyed.
Gone == Seen(freed) \cup UNION {Objects(entries[a]) : a \in {a \in DOMAIN entries : entries[a].ends > 0}}

\* What the accessors show of index i.
Shown(i) ==
  [head   |-> GetHead(i),
   memo   |-> [r \in Rule |-> GetAnswer(i, r)],
   hold_a |-> IF InTable(i) THEN EntryAt(i).hold_a ELSE {},
   hold_h |-> IF InTable(i) THEN EntryAt(i).hold_h ELSE {}]

Table == INSTANCE LrTableSpec WITH tab <- [i \in Idx |-> Shown(i)], gone <- Gone

\* The array with its offset behaves like an unbounded row of entries: whatever
\* was resized, shifted and moved before, an index shows what was put there and
\* nothing that a shift has cut off, and a shift destroys what it cuts off.
Implements == Table!TableSpec

\* The pointers of the table are null or lead to entries that were not
\* destroyed, no two to the same: an accessor follows neither what a realloc
\* left unwritten nor what a move left behind.
PointersValid ==
  \A x \in o .. (n - 1) :
    p[x] # NULL => /\ p[x] \in DOMAIN entries /\ entries[p[x]].ends = 0
                   /\ \A y \in o .. (n - 1) : x # y => p[x] # p[y]

\* An entry owns each of its objects once.
Separate(e) ==
  /\ \A j, k \in 1 .. Len(e.memos) : j # k => e.memos[j].answer # e.memos[k].answer
  /\ Memoized(e) \cap e.hold_a = {} /\ Memoized(e) \cap e.hold_h = {}
  /\ e.hold_a \cap e.hold_h = {}

\* No answer and no head is destroyed twice, whichever of a replaced memo, a
\* shift and the end of the table comes first, and the end leaves nothing behind.
FreedOnce ==
  /\ \A j, k \in 1 .. Len(freed) : j # k => freed[j] # freed[k]
  /\ \A a \in DOMAIN entries :
       /\ entries[a].ends <= 1
       /\ Separate(entries[a]) /\ Objects(entries[a]) \cap Seen(freed) = {}
       /\ \A b \in DOMAIN entries : a # b => Objects(entries[a]) \cap Objects(entries[b]) = {}
  /\ ~open => Gone = 1 .. made

\* What the table leads to exists, and is destroyed once.
ObjectsSound == PointersValid /\ FreedOnce

\* However often the table is shifted, the array grows only for the indices in
\* use: once it holds twice as many elements, what was cut off is reclaimed first.
Bounded == [][m' # m => m < 2 * (MaxIndex + 1)]_m
-----------------------------------------------------------------------------
(* The inductive invariant.                                                 *)

\* Less than half of the array is cut off, and the rest of what is used is not
\* longer than the indices.
Shape ==
  /\ m \in 0 .. MaxCap /\ n \in 0 .. m /\ o \in 0 .. n
  /\ n - o <= MaxIndex + 1 /\ 2 * o <= m
  /\ DOMAIN p = 0 .. (m - 1)
  /\ open \in BOOLEAN /\ (~open => n = o)

\* The entries that were not destroyed are those the table leads to.
Led ==
  /\ entries \in Seq(EntryRec)
  /\ \A x \in o .. (n - 1) : p[x] \in 0 .. Len(entries)
  /\ PointersValid
  /\ \A a \in 1 .. Len(entries) :
       /\ entries[a].ends \in {0, 1}
       /\ entries[a].ends = 0 => \E x \in o .. (n - 1) : p[x] = a

\* An entry has one memo for a rule.
Distinct(ms) == \A j, k \in 1 .. Len(ms) : j # k => ms[j].rule # ms[k].rule

\* What was made is owned by one entry or was replaced, and only once.
Shared ==
  /\ made \in 0 .. MaxObject /\ freed \in Seq(1 .. made)
  /\ \A j, k \in 1 .. Len(freed) : j # k => freed[j] # freed[k]
  /\ \A a \in 1 .. Len(entries) :
       /\ Distinct(entries[a].memos) /\ Separate(entries[a])
       /\ Objects(entries[a]) \subseteq (1 .. made) \ Seen(freed)
  /\ \A a, b \in 1 .. Len(entries) :
       a # b => Objects(entries[a]) \cap Objects(entries[b]) = {}
  /\ \A y \in 1 .. made :
       y \in Seen(freed) \/ \E a \in 1 .. Len(entries) : y \in Objects(entries[a])

TableInv == Shape /\ Led /\ Shared

=============================================================================
