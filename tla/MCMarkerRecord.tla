--------------------------- MODULE MCMarkerRecord ---------------------------
(***************************************************************************)
(* What the marker variables of a generated parser promise.                *)
(***************************************************************************)
EXTENDS MarkerRecord

Resumed(k) == Depth >= k /\ frames[k].kind = "choice" /\ Back(k)

\* A match that failed after predicates at the very position it began at keeps what
\* they set, and an answer used again leaves no entry for the markers of before; the
\* properties that hold leave out the one or the other.

\* Where a match fails the markers become what they were when it began, however
\* many predicates ran since, over any number of pcc_parse calls
\* (pcc_marker_variable_set_record__restore): of a grammar whose answers are never
\* used again, and unless a predicate ran at the position the match began at.
RolledBack ==
  [][\A k \in 1 .. Depth :
       Resumed(k) /\ ~frames[k].own /\ ~recalled => curr'.set = frames[k].past]_vars

\* The same, although answers are used again.
RolledBackAfterReuse ==
  [][\A k \in 1 .. Depth :
       Resumed(k) /\ ~frames[k].own => curr'.set = frames[k].past]_vars

\* No predicate that ran ahead of the position a match goes back to has an effect
\* any more, whichever answers were reused and whatever was grown since.
NothingAhead ==
  [][\A k \in 1 .. Depth : Resumed(k) => curr'.set.at <= here']_vars

\* After a commit one entry at most is behind the buffer, and it is the oldest
\* (pcc_marker_variable_set_record__shift), unless an answer was used again.
ShiftLeavesOne ==
  ~parsing /\ ~recalled => /\ Len(prev) > 0 => prev[1].pos <= base
                           /\ Len(prev) > 1 => prev[2].pos > base
=============================================================================
