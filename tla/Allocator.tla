----------------------------- MODULE Allocator -----------------------------
(***************************************************************************)
(* What the runtime of a generated parser expects of its recyclers: what a *)
(* pointer is supplied with no other pointer holds, what is given back may *)
(* be supplied again, and the end of the parser releases everything.       *)
(***************************************************************************)
CONSTANTS Pointer,  \* the variables and fields the program keeps elements in
          Address,  \* where an element can be
          NULL      \* no address

VARIABLE held       \* the address each of them holds

Init == held = [c \in Pointer |-> NULL]

Take(c) ==
  /\ held[c] = NULL
  /\ held'[c] \in Address
  /\ \A d \in Pointer : held[d] # held'[c]
  /\ held' = [held EXCEPT ![c] = held'[c]]

Give(c) == held' = [held EXCEPT ![c] = NULL]

Release == held' = [c \in Pointer |-> NULL]

Next == (\E c \in Pointer : Take(c) \/ Give(c)) \/ Release

AllocatorSpec == Init /\ [][Next]_held
=============================================================================
