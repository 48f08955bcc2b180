---------------------------- MODULE LrTableSpec ----------------------------
(***************************************************************************)
(* What the memo table of a generated parser promises (pcc_lr_table_t): an *)
(* unbounded row of entries that can be read and written at any index, and *)
(* whose beginning can be cut off.  An entry owns the answers and heads    *)
(* put into it, and destroying it destroys each of them once.              *)
(*                                                                         *)
(* Answers and heads are numbers, given out in the order they are made.    *)
(* PackratRuntime uses the table in this form.                             *)
(***************************************************************************)
EXTENDS Naturals

CONSTANTS
  Rule,       \* the rules an answer can be memoized for
  MaxIndex,   \* bound: the largest index
  MaxObject   \* bound: how many answers and heads are made

NULL == 0
Idx  == 0 .. MaxIndex
Obj  == 1 .. MaxObject

VARIABLES
  tab,    \* the entries
  made,   \* the number of answers and heads made
  gone,   \* the answers and heads destroyed
  open    \* whether the table is in use

specVars == <<tab, made, gone, open>>

EmptyEntry == [head |-> NULL, memo |-> [r \in Rule |-> NULL], hold_a |-> {}, hold_h |-> {}]

\* What destroying an entry destroys: its head is just a reference.
Owned(e) == ({e.memo[r] : r \in Rule} \ {NULL}) \cup e.hold_a \cup e.hold_h

SpecInit == tab = [i \in Idx |-> EmptyEntry] /\ made = 0 /\ gone = {} /\ open = TRUE

Update(i, e) == tab' = [tab EXCEPT ![i] = e]

\* The operations that bring a new answer or head.
New == open /\ made < MaxObject /\ made' = made + 1 /\ UNCHANGED open

SpecHoldHead(i) ==
  New /\ Update(i, [tab[i] EXCEPT !.hold_h = @ \cup {made'}]) /\ UNCHANGED gone

SpecHoldAnswer(i) ==
  New /\ Update(i, [tab[i] EXCEPT !.hold_a = @ \cup {made'}]) /\ UNCHANGED gone

\* An answer that was memoized for the rule is replaced, and destroyed.
SpecSetAnswer(i, r) ==
  New /\ Update(i, [tab[i] EXCEPT !.memo[r] = made'])
      /\ gone' = gone \cup ({tab[i].memo[r]} \ {NULL})

SpecSetHead(i, h) ==
  open /\ Update(i, [tab[i] EXCEPT !.head = h]) /\ UNCHANGED <<made, gone, open>>

\* The first n entries are destroyed, the others move down.
SpecShift(n) ==
  /\ open
  /\ gone' = gone \cup UNION {Owned(tab[i]) : i \in {i \in Idx : i < n}}
  /\ tab' = [i \in Idx |-> IF i + n \in Idx THEN tab[i + n] ELSE EmptyEntry]
  /\ UNCHANGED <<made, open>>

SpecFinalize ==
  /\ open
  /\ open' = FALSE
  /\ gone' = gone \cup UNION {Owned(tab[i]) : i \in Idx}
  /\ tab' = [i \in Idx |-> EmptyEntry]
  /\ UNCHANGED made

SpecNext ==
  \/ \E i \in Idx : \/ SpecHoldHead(i) \/ SpecHoldAnswer(i)
                    \/ \E h \in tab[i].hold_h \cup {NULL} : SpecSetHead(i, h)
                    \/ \E r \in Rule : SpecSetAnswer(i, r)
  \/ \E n \in 0 .. (MaxIndex + 1) : SpecShift(n)
  \/ SpecFinalize

TableSpec == SpecInit /\ [][SpecNext]_specVars
=============================================================================
