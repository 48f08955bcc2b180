--------------------------- MODULE PackratMarkers ---------------------------
(***************************************************************************)
(* The generated parser of a grammar that declares marker variables: the   *)
(* machine of PackratRuntime, of which each step does to ctx->mvars what   *)
(* the generator emits beside the statement.  The record of markers is the *)
(* one of MarkerRecord; here the grammar says what is done to it.          *)
(*                                                                         *)
(* With markers the generator emits a restore behind every ctx->cur = p,   *)
(* a save before the code of a predicate, a copy into a rule's chunk       *)
(* before it is returned and one into the thunk of each action.  One value *)
(* stands for all variables, as in MarkerRecord.                           *)
(***************************************************************************)
EXTENDS PackratRuntime

CONSTANTS
  Value,    \* what the predicates can set the markers to
  UserCode  \* for each programmable predicate and value of the markers: whether it
            \* accepts (ok), and the value it leaves (set)

VARIABLES
  curr,   \* ctx->mvars.curr
  prev,   \* ctx->mvars.prev
  kept,   \* chunk->mvars of each chunk
  noted,  \* thunk->data.leaf.mvars of each thunk of each chunk; what stands for a
          \* node thunk means nothing
  due,    \* the same of the thunks in work,
  seen,   \* and of the actions in log (observed only)
  begun   \* the value at the beginning of the call of pcc_parse (observed only)

record == <<curr, prev>>
markedVars == <<vars, curr, prev, kept, noted, due, seen, begun>>

R == INSTANCE MarkerRecord
       WITH Recursive <- {}, Memoizing <- {}, End <- MaxPos, MaxSaved <- MaxPos,
            base <- pos, here <- Here, frames <- <<>>, memos <- {},
            parsing <- FALSE, recalled <- FALSE

MarkedInit ==
  /\ Init
  /\ curr = R!Unset /\ prev = <<>>
  /\ kept = <<>> /\ noted = <<>> /\ due = <<>> /\ seen = <<>>
  /\ begun = R!NULL

-----------------------------------------------------------------------------
(* What a statement does to the markers.                                    *)

\* The code of a predicate, which may set the markers, behind the saving.
RunCode ==
  LET u == UserCode[Stmt.num][curr.set.value] IN
  /\ Jump(IF u.ok = (Stmt.op = "pred") THEN Top.pc + 1 ELSE Stmt.to)
  /\ prev' = IF R!Saves(Here) THEN Append(prev, curr) ELSE prev
  /\ curr' = [pos |-> IF R!Saves(Here) THEN Here ELSE curr.pos,
              set |-> [at |-> Here, value |-> u.set]]

\* The chunk that pcc_apply_rule finds: an answer or, in a left recursion, a seed.
Found == IF phase = "involve" THEN entries[answers[walk.ans].lr].seed
         ELSE answers[MemoHere].chunk

Take_Nothing(c) == UNCHANGED record

\* Its markers become the current ones.
Take(c) == curr' = (IF c = NULL THEN curr ELSE kept[c]) /\ UNCHANGED prev

Marking ==
  CASE At("setp")                   -> R!Restore(pos + Top.ploc[Stmt.slot])
    [] At("pred") \/ At("npred")    -> RunCode
    [] At("mvar")                   -> CompareMarker(curr.set.value) /\ UNCHANGED record
    [] ApplyMemoized \/ Involved    -> Take(Found)
    [] phase = "commit"             -> R!Shift(pos + cur)
    [] OTHER                        -> UNCHANGED record

-----------------------------------------------------------------------------
(* Copies of the markers in chunks and thunks.                              *)

\* A new chunk has none; a rule that returns its chunk leaves the current ones there.
KeptNext ==
  [c \in DOMAIN chunks' |->
     CASE c \notin DOMAIN kept           -> R!Unset
       [] At("ret") /\ c = Top.chunk     -> curr
       [] OTHER                          -> kept[c]]

\* A thunk that is appended notes the current value; those that are reverted lose it.
NotedNext ==
  [c \in DOMAIN chunks' |->
     LET old == IF c \in DOMAIN noted THEN noted[c] ELSE <<>>
         n   == Len(chunks'[c].thunks)
     IN IF n > Len(old) THEN Append(old, curr.set.value) ELSE CutTo(old, n)]

DueNext ==
  CASE phase = "acting" /\ work # <<>> ->
         (IF Head(work).type = "leaf" THEN <<>> ELSE noted[Head(work).chunk]) \o Tail(due)
    [] OTHER -> [k \in DOMAIN work' |-> curr.set.value]

\* An action sees what its thunk noted, an error action the current value.
SeenNext ==
  IF Len(log') > Len(log)
  THEN Append(seen, IF phase = "acting" THEN Head(due) ELSE curr.set.value)
  ELSE CutTo(seen, Len(log'))

Copying ==
  /\ kept' = KeptNext /\ noted' = NotedNext /\ due' = DueNext /\ seen' = SeenNext
  /\ begun' = IF phase = "idle" THEN curr.set.value ELSE begun

\* A step of the parser, with all that it does to the markers.
MarkedNext == Next /\ Marking /\ Copying

MarkedSpec == MarkedInit /\ [][MarkedNext]_markedVars
=============================================================================
