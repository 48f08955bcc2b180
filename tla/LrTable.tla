------------------------------ MODULE LrTable ------------------------------
(***************************************************************************)
(* The memo table of a generated parser: pcc_lr_table_t with its entries   *)
(* and their memo maps.  The array of pointers p has m elements; those     *)
(* from o up to n hold the table, those below o were destroyed by a shift, *)
(* those from n on were never used or hold what was there before the       *)
(* remaining pointers were moved to the front.                             *)
(*                                                                         *)
(* An address is the number of an entry in the order of creation and is    *)
(* not used again: MemoryRecycler says what becomes of them.               *)
(***************************************************************************)
EXTENDS Integers, Sequences, FiniteSets

CONSTANTS
  Rule,         \* the rules an answer can be memoized for
  MaxIndex,     \* bound: the largest index
  MaxObject,    \* bound: how many answers and heads are made
  MaxCap,       \* the largest number a size_t holds
  Grown(_, _)   \* the capacity to which an array of m elements grows for len

NULL == 0
Junk == -1      \* what memory that was not written holds
Idx  == 0 .. MaxIndex
Obj  == 1 .. MaxObject

\* A size_t holds more than twice the indices in use, which count pointers in memory.
ASSUME LrTableAssumption ==
  /\ MaxIndex \in Nat /\ MaxObject \in Nat /\ MaxCap \in Nat
  /\ 2 * (MaxIndex + 1) <= MaxCap
  /\ \A cap, len \in 0 .. MaxCap : cap < len => Grown(cap, len) \in len .. MaxCap

VARIABLES
  m, n, o, p,   \* the array of pointers
  entries,      \* the entries made, by address
  made,         \* the number of answers and heads made
  freed,        \* the answers that were destroyed because another replaced them
  open          \* whether the table is in use
vars == <<m, n, o, p, entries, made, freed, open>>

\* ends: how often the entry was destroyed.
MemoRec  == [rule: Rule, answer: Obj]
EntryRec == [head: Obj \cup {NULL}, memos: Seq(MemoRec), hold_a: SUBSET Obj,
             hold_h: SUBSET Obj, ends: Nat]

CreateEntry == [head |-> NULL, memos |-> <<>>, hold_a |-> {}, hold_h |-> {}, ends |-> 0]

Init ==
  /\ m = 0 /\ n = 0 /\ o = 0 /\ p = << >>
  /\ entries = <<>> /\ made = 0 /\ freed = <<>> /\ open = TRUE

-----------------------------------------------------------------------------
(* Definitions whose name holds an underscore and a capital state a slip in *)
(* the definition that follows them.                                        *)

CapFor(len) == IF m < len THEN Grown(m, len) ELSE m

Resized_Stale(len) ==
  [x \in 0 .. (CapFor(len) - 1) |->
     CASE x < m -> p[x]
       [] x >= m /\ x < len -> NULL
       [] OTHER -> Junk]

\* pcc_lr_table__resize for a len above n, as all callers ask for: the array
\* grows if need be, and the elements from n up to len become null pointers.
Resized(len) ==
  [x \in 0 .. (CapFor(len) - 1) |->
     CASE x < n -> p[x]
       [] x >= n /\ x < len -> NULL
       [] x >= len /\ x < m -> p[x]
       [] OTHER -> Junk]

\* The pointers once element x is part of the table.
Covering(x) == IF x >= n THEN Resized(x + 1) ELSE p

\* The entry that element x of the array points to then, a new one for a null
\* pointer.
Before(x) == LET a == Covering(x)[x] IN IF a = NULL THEN CreateEntry ELSE entries[a]

\* Element x of the array becomes part of the table and points to an entry, a
\* new one if it held a null pointer; the entry is e from now on.
Touch(x, e) ==
  LET q == Covering(x)
      a == IF q[x] = NULL THEN Len(entries) + 1 ELSE q[x]
  IN /\ m' = IF x >= n THEN CapFor(x + 1) ELSE m
     /\ n' = IF x >= n THEN x + 1 ELSE n
     /\ p' = [q EXCEPT ![x] = a]
     /\ entries' = IF q[x] = NULL THEN Append(entries, e) ELSE [entries EXCEPT ![a] = e]
     /\ UNCHANGED <<o, open>>

\* pcc_lr_table__get_*: the entry at index i, or none.
InTable(i)   == i + o < n /\ p[i + o] # NULL
EntryAt(i)   == entries[p[i + o]]
GetHead(i)   == IF InTable(i) THEN EntryAt(i).head ELSE NULL
Found(ms, r) == {k \in 1 .. Len(ms) : ms[k].rule = r}
AnswerIn(ms, r) == IF Found(ms, r) = {} THEN NULL
                   ELSE ms[CHOOSE k \in Found(ms, r) : TRUE].answer
GetAnswer(i, r) == IF InTable(i) THEN AnswerIn(EntryAt(i).memos, r) ELSE NULL

-----------------------------------------------------------------------------
New == open /\ made < MaxObject /\ made' = made + 1

\* The new head or answer comes first in the chain of those held for the entry;
\* their order does not matter.
HoldHead(i) ==
  /\ New
  /\ Touch(i + o, [Before(i + o) EXCEPT !.hold_h = @ \cup {made'}])
  /\ UNCHANGED freed

HoldAnswer(i) ==
  /\ New
  /\ Touch(i + o, [Before(i + o) EXCEPT !.hold_a = @ \cup {made'}])
  /\ UNCHANGED freed

\* pcc_lr_memo_map__put: one memo for a rule.
MemoPut(ms, r, a) ==
  IF Found(ms, r) = {} THEN Append(ms, [rule |-> r, answer |-> a])
  ELSE [k \in 1 .. Len(ms) |->
          IF ms[k].rule = r THEN [rule |-> r, answer |-> a] ELSE ms[k]]

\* The answer that a new memo for rule r replaces, if there is one, is destroyed.
SetAnswer(i, r) ==
  /\ New
  /\ Touch(i + o, [Before(i + o) EXCEPT !.memos = MemoPut(@, r, made')])
  /\ freed' = IF GetAnswer(i, r) = NULL THEN freed ELSE Append(freed, GetAnswer(i, r))

\* A head that is set is one the entry holds, or none any more.
SetHead(i) ==
  /\ open /\ InTable(i)
  /\ \E h \in EntryAt(i).hold_h \cup {NULL} :
       Touch(i + o, [Before(i + o) EXCEPT !.head = h])
  /\ UNCHANGED <<made, freed>>

\* The entries that the elements in X point to are destroyed, with what they own.
DestroyEntries(X) ==
  entries' = [a \in DOMAIN entries |->
                [entries[a] EXCEPT !.ends = @ + Cardinality({x \in X : p[x] = a})]]

Compacts_Never(w) == FALSE

Moved_Short(w) == [x \in DOMAIN p |-> IF x + 1 < n - w THEN p[x + w] ELSE p[x]]

\* Whether the elements from w on are moved to the front.
Compacts(w) == w > m \div 2

\* The elements from w on, at the front; what was behind them stays.
Moved(w) == [x \in DOMAIN p |-> IF x < n - w THEN p[x + w] ELSE p[x]]

\* pcc_lr_table__shift
Shift(count) ==
  LET w == o + (IF count > n - o THEN n - o ELSE count)
  IN /\ open
     /\ DestroyEntries(o .. (w - 1))
     /\ IF Compacts(w)
        THEN p' = Moved(w) /\ n' = n - w /\ o' = 0
        ELSE UNCHANGED <<p, n>> /\ o' = w
     /\ UNCHANGED <<m, made, freed, open>>

\* pcc_lr_table__finalize
Finalize ==
  /\ open
  /\ DestroyEntries(o .. (n - 1))
  /\ n' = IF n > o THEN o ELSE n
  /\ open' = FALSE
  /\ UNCHANGED <<m, o, p, made, freed>>

Closed == ~open /\ UNCHANGED vars

Next ==
  \/ \E i \in Idx : HoldHead(i) \/ HoldAnswer(i) \/ SetHead(i)
                    \/ \E r \in Rule : SetAnswer(i, r)
  \/ \E count \in 0 .. (MaxIndex + 1) : Shift(count)
  \/ Finalize \/ Closed

Spec == Init /\ [][Next]_vars
=============================================================================
