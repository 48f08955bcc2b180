---------------------------- MODULE MarkerRecord ----------------------------
(***************************************************************************)
(* The marker variables of a generated parser: ctx->mvars holds the        *)
(* current values with the position they were set at, and a stack of the   *)
(* values before them, so that the code of a rule can go back to those of  *)
(* the position where a match failed.                                      *)
(*                                                                         *)
(* What a rule does is left open: it matches characters, sets markers in   *)
(* predicates, tries alternatives and applies rules in any order.  One     *)
(* value stands for those of all markers, and its field at, which the code *)
(* does not have, for the position of the predicate that set it.  The memo *)
(* of a rule is looked up where it was made; what happens to memos behind  *)
(* a commit is the subject of PackratRuntime, and here they are gone.      *)
(***************************************************************************)
EXTENDS Integers, Sequences

CONSTANTS
  Rule,       \* the rules of the grammar; one that is not memoizing stands for any
              \* number of rules none of which is applied twice at a position
  Recursive,  \* those that are left-recursive
  Value,      \* what a predicate can set the markers to
  Memoizing,  \* those that may be applied again at a position
  End,        \* bound: the length of the input
  MaxDepth,   \* bound: how deeply choices and rules nest
  MaxSaved    \* bound: how many entries the stack has

ASSUME MarkerAssumption ==
  /\ Recursive \subseteq Memoizing /\ Memoizing \subseteq Rule
  /\ End \in Nat /\ MaxDepth \in Nat /\ MaxSaved \in Nat

NULL == "unset"

VARIABLES
  base,     \* ctx->pos
  here,     \* ctx->pos + ctx->cur
  curr,     \* ctx->mvars.curr
  prev,     \* ctx->mvars.prev, the oldest entry first
  frames,   \* the choices and rules being matched, the innermost last
  memos,    \* the answers in ctx->lrtable
  parsing,  \* whether pcc_parse runs
  recalled  \* whether an answer was used again, ever; no such field is in the code
vars == <<base, here, curr, prev, frames, memos, parsing, recalled>>

Pos      == 0 .. End
ValueRec == [at: Pos, value: Value \cup {NULL}]
EntryRec == [pos: Pos, set: ValueRec]
Memo     == [rule: Rule, at: Pos, end: Pos, mvars: EntryRec]
\* A place a failing match returns to; past and own are the value at that time
\* and whether a predicate ran at the position since.
Choice   == [kind: {"choice"}, pos: Pos, past: ValueRec, own: BOOLEAN]
Call     == [kind: {"rule"}, rule: Rule, pos: Pos, growing: BOOLEAN]

Unset == [pos |-> 0, set |-> [at |-> 0, value |-> NULL]]

Init ==
  /\ base = 0 /\ here = 0 /\ curr = Unset /\ prev = <<>>
  /\ frames = <<>> /\ memos = {} /\ parsing = FALSE /\ recalled = FALSE

Depth == Len(frames)
Top   == frames[Depth]
Down(k) == SubSeq(frames, 1, k)

-----------------------------------------------------------------------------
(* Definitions whose name holds an underscore and a capital state a slip in *)
(* the definition that follows them.                                        *)

\* pcc_marker_variable_set_record__save makes an entry for a position ahead.
Saves(pos) == curr.pos < pos

Remaining_All(pos) == Len(prev)

\* How many entries pcc_marker_variable_set_record__restore leaves: those up to
\* the last one that is not ahead of pos.
Remaining(pos) ==
  CHOOSE n \in 0 .. Len(prev) : /\ n > 0 => prev[n].pos <= pos
                                /\ \A m \in (n + 1) .. Len(prev) : prev[m].pos > pos

Restores_Own(pos) == curr.pos >= pos

Restores(pos) == curr.pos > pos

\* pcc_marker_variable_set_record__restore; popping an empty stack resets.
Restore(pos) ==
  LET n == Remaining(pos) IN
  IF ~Restores(pos) THEN UNCHANGED <<curr, prev>>
  ELSE IF n = 0 THEN curr' = Unset /\ prev' = <<>>
  ELSE curr' = prev[n] /\ prev' = SubSeq(prev, 1, n - 1)

\* How many entries the loop of pcc_marker_variable_set_record__shift passes: those
\* before the first one that is ahead of pos.
Passed(pos) ==
  CHOOSE k \in 0 .. Len(prev) : /\ k < Len(prev) => prev[k + 1].pos > pos
                                /\ \A m \in 1 .. k : prev[m].pos <= pos

Dropped_None(pos) == 0

\* How many of them pcc_marker_variable_set_record__shift drops.
Dropped(pos) == IF Passed(pos) > 0 THEN Passed(pos) - 1 ELSE 0

Shift(pos) == prev' = SubSeq(prev, Dropped(pos) + 1, Len(prev)) /\ UNCHANGED curr

-----------------------------------------------------------------------------
Matching == parsing /\ frames # <<>>

Advance ==
  /\ Matching /\ here < End
  /\ here' = here + 1
  /\ UNCHANGED <<base, curr, prev, frames, memos, parsing, recalled>>

\* &{ ... } or !{ ... } that sets the markers.
Predicate(v) ==
  /\ Matching /\ (Saves(here) => Len(prev) < MaxSaved)
  /\ curr' = [pos |-> IF Saves(here) THEN here ELSE curr.pos,
              set |-> [at |-> here, value |-> v]]
  /\ prev' = IF Saves(here) THEN Append(prev, curr) ELSE prev
  /\ frames' = [k \in 1 .. Depth |->
                  IF frames[k].kind = "choice" /\ frames[k].pos = here
                  THEN [frames[k] EXCEPT !.own = TRUE] ELSE frames[k]]
  /\ UNCHANGED <<base, here, memos, parsing, recalled>>

\* An alternative, an optional element, a turn of a loop or a lookahead begins.
Choose ==
  /\ Matching /\ Depth < MaxDepth
  /\ frames' = Append(frames, [kind |-> "choice", pos |-> here, past |-> curr.set,
                               own |-> FALSE])
  /\ UNCHANGED <<base, here, curr, prev, memos, parsing, recalled>>

\* A choice is over: its element matched, or a loop or a lookahead goes on behind
\* what did not.
Leave ==
  /\ Matching /\ Top.kind = "choice"
  /\ frames' = Down(Depth - 1)
  /\ UNCHANGED <<base, here, curr, prev, memos, parsing, recalled>>

Resumable(k) == frames[k].kind = "choice" \/ frames[k].growing

\* The match fails, or a lookahead ends: the innermost choice goes back to the
\* position and the markers of before, and may try another alternative.
Back(k) ==
  /\ Matching /\ frames[k].kind = "choice"
  /\ \A j \in (k + 1) .. Depth : ~Resumable(j)
  /\ here' = frames[k].pos
  /\ Restore(frames[k].pos)
  /\ frames' = Down(k)
  /\ UNCHANGED <<base, memos, parsing, recalled>>

\* No choice is left: pcc_parse reports an error, and the markers stay as they are.
SyntaxError ==
  /\ Matching /\ \A k \in 1 .. Depth : ~Resumable(k)
  /\ frames' = <<>>
  /\ UNCHANGED <<base, here, curr, prev, memos, parsing, recalled>>

Made(r)   == {a \in memos : a.rule = r /\ a.at = here}
Opened(r) == \E k \in 1 .. Depth :
               frames[k].kind = "rule" /\ frames[k].rule = r /\ frames[k].pos = here
Grows     == \E k \in 1 .. Depth :
               frames[k].kind = "rule" /\ frames[k].growing /\ frames[k].pos = here

\* pcc_parse calls pcc_apply_rule while there is input.
Begin(r) ==
  /\ ~parsing /\ frames = <<>> /\ here < End /\ Made(r) = {} /\ MaxDepth > 0
  /\ parsing' = TRUE
  /\ frames' = <<[kind |-> "rule", rule |-> r, pos |-> here, growing |-> FALSE]>>
  /\ UNCHANGED <<base, here, curr, prev, memos, recalled>>

\* pcc_apply_rule for a rule that has no answer here.  One that is being matched
\* here is left-recursive and fails at first.
Apply(r) ==
  /\ Matching /\ Depth < MaxDepth
  /\ Made(r) = {} /\ (r \in Memoizing => ~Opened(r)) /\ ~Grows
  /\ frames' = Append(frames, [kind |-> "rule", rule |-> r, pos |-> here,
                               growing |-> FALSE])
  /\ UNCHANGED <<base, here, curr, prev, memos, parsing, recalled>>

\* pcc_apply_rule for a rule that has an answer here: the current values become
\* those at the end of the match, without an entry for those before.
Reuse(r) ==
  /\ Matching
  /\ \E a \in Made(r) : here' = a.end /\ curr' = a.mvars
  /\ recalled' = TRUE
  /\ UNCHANGED <<base, prev, frames, memos, parsing>>

Answer == [rule |-> Top.rule, at |-> Top.pos, end |-> here, mvars |-> curr]
Latest == CHOOSE a \in memos : a.rule = Top.rule /\ a.at = Top.pos

\* A rule that is not left-recursive matched.
Return ==
  /\ Matching /\ Top.kind = "rule" /\ Top.rule \notin Recursive
  /\ memos' = memos \cup (IF Top.rule \in Memoizing THEN {Answer} ELSE {})
  /\ frames' = Down(Depth - 1)
  /\ UNCHANGED <<base, here, curr, prev, parsing, recalled>>

\* A left-recursive rule matched, and more than before: it is tried again, and
\* the markers stay as they are.
Grow ==
  /\ Matching /\ Top.kind = "rule" /\ Top.rule \in Recursive
  /\ Top.growing => here > Latest.end
  /\ memos' = {a \in memos : a.rule # Top.rule \/ a.at # Top.pos} \cup {Answer}
  /\ here' = Top.pos
  /\ frames' = [frames EXCEPT ![Depth].growing = TRUE]
  /\ recalled' = TRUE
  /\ UNCHANGED <<base, curr, prev, parsing>>

\* It matched no more than before, or failed: the answer of before holds, and the
\* markers stay as they are.
Grown(k) ==
  /\ Matching /\ frames[k].kind = "rule" /\ frames[k].growing
  /\ \A j \in (k + 1) .. Depth : ~Resumable(j)
  /\ here' = (CHOOSE a \in memos : a.rule = frames[k].rule /\ a.at = frames[k].pos).end
  /\ frames' = Down(k - 1)
  /\ recalled' = TRUE
  /\ UNCHANGED <<base, curr, prev, memos, parsing>>

\* ctx->pos += ctx->cur
Committed == base + (here - base)

\* pcc_commit_buffer at the end of pcc_parse.
Commit ==
  /\ parsing /\ frames = <<>>
  /\ base' = Committed
  /\ Shift(here)
  /\ memos' = IF here = base THEN memos ELSE {}
  /\ parsing' = FALSE
  /\ UNCHANGED <<here, frames, recalled>>

\* The program calls pcc_parse no more.
Over == ~parsing /\ UNCHANGED vars

Next ==
  \/ Advance \/ (\E v \in Value : Predicate(v))
  \/ Choose \/ Leave \/ (\E k \in 1 .. Depth : Back(k) \/ Grown(k)) \/ SyntaxError
  \/ (\E r \in Rule : Begin(r) \/ Apply(r) \/ Reuse(r))
  \/ Return \/ Grow \/ Commit \/ Over

Spec == Init /\ [][Next]_vars
=============================================================================
