--------------------------- MODULE MemoryRecycler ---------------------------
(***************************************************************************)
(* pcc_memory_recycler_t, from which a generated parser takes its answers, *)
(* heads, entries, chunks and thunks: elements of one size are cut from    *)
(* pools from their end to their beginning, and those given back are kept  *)
(* in a list that is used first.                                           *)
(*                                                                         *)
(* The pools are in the order of their creation, so that the first of      *)
(* pool_list is the last here.  An address is a pair of the number of a    *)
(* pool and the index of an element in it.  The callers are the pointers   *)
(* of the runtime, each of which owns what it is supplied with until it is *)
(* given back: PackratSafety (OneOwner, NoDangling) is why.                *)
(***************************************************************************)
EXTENDS Integers, Sequences

CONSTANTS
  Pointer,      \* the pointers that own elements
  MinSize,      \* PCC_POOL_MIN_SIZE
  ElementSize,  \* obj->element_size
  Header,       \* sizeof(pcc_memory_pool_t)
  Modulus,      \* 2^w, for a size_t of w bits
  Memory        \* how many bytes PCC_MALLOC supplies before it fails

\* A process has at most half of the addresses a size_t can express.
ASSUME RecyclerAssumption ==
  /\ MinSize \in Nat \ {0} /\ ElementSize \in Nat \ {0} /\ Header \in Nat \ {0}
  /\ Modulus \in Nat \ {0} /\ Memory \in Nat
  /\ 2 * Memory <= Modulus
  /\ Header + ElementSize * MinSize < Modulus

VARIABLES
  pools,        \* their sizes and the elements never used
  entry_list,   \* the addresses given back, the latest first
  held,         \* the address each pointer owns
  used,         \* the bytes taken from PCC_MALLOC
  phase         \* "open", "closed" or, where PCC_MALLOC left the program, "exit"
vars == <<pools, entry_list, held, used, phase>>

Address == Nat \X Nat
NULL    == <<>>
PoolRec == [allocated: Nat, unused: Nat, bytes: Nat]

Init ==
  /\ pools = <<>> /\ entry_list = <<>> /\ used = 0
  /\ held = [c \in Pointer |-> NULL]
  /\ phase = "open"

-----------------------------------------------------------------------------
(* Definitions whose name holds an underscore and a capital state a slip in *)
(* the definition that follows them.                                        *)

\* A pointer that owns nothing is to be supplied.
Wants(c) == phase = "open" /\ held[c] = NULL

Rest_Same(s) == s

Rest(s) == Tail(s)

\* The latest element that was given back is supplied again.
SupplyRecycled(c) ==
  /\ Wants(c) /\ entry_list # <<>>
  /\ held' = [held EXCEPT ![c] = Head(entry_list)]
  /\ entry_list' = Rest(entry_list)
  /\ UNCHANGED <<pools, used, phase>>

NoneUnused == pools # <<>> => pools[Len(pools)].unused = 0

Cut_Before(pool) == [pool EXCEPT !.unused = IF @ = 1 THEN 1 ELSE @ - 1]

\* obj->pool_list->unused--
Cut(pool) == [pool EXCEPT !.unused = @ - 1]

\* The last of the unused elements of the newest pool is supplied.
SupplyUnused(c) ==
  /\ Wants(c) /\ entry_list = <<>> /\ ~NoneUnused
  /\ LET k == Len(pools) IN
       /\ pools' = [pools EXCEPT ![k] = Cut(@)]
       /\ held' = [held EXCEPT ![c] = <<k, pools[k].unused - 1>>]
  /\ UNCHANGED <<entry_list, used, phase>>

Shl(size) == (2 * size) % Modulus

\* The size of the next pool: twice the newest one's, unless that is no size_t.
NextSize ==
  IF pools = <<>> THEN MinSize
  ELSE LET s == pools[Len(pools)].allocated
       IN IF Shl(s) = 0 THEN s ELSE Shl(s)

Bytes_NoHeader(size) == (ElementSize * size) % Modulus

\* sizeof(pcc_memory_pool_t) + obj->element_size * size
Bytes(size) == (Header + ElementSize * size) % Modulus

\* No element is left to be supplied without a new pool.
Exhausted == entry_list = <<>> /\ NoneUnused

SupplyFromNewPool(c) ==
  /\ Wants(c) /\ Exhausted
  /\ used + Bytes(NextSize) <= Memory
  /\ used' = used + Bytes(NextSize)
  /\ pools' = Append(pools, Cut([allocated |-> NextSize, unused |-> NextSize,
                                 bytes |-> Bytes(NextSize)]))
  /\ held' = [held EXCEPT ![c] = <<Len(pools) + 1, NextSize - 1>>]
  /\ UNCHANGED <<entry_list, phase>>

\* PCC_MALLOC leaves the program where memory runs out.
SupplyFails(c) ==
  /\ Wants(c) /\ Exhausted
  /\ used + Bytes(NextSize) > Memory
  /\ phase' = "exit"
  /\ UNCHANGED <<pools, entry_list, held, used>>

Listing_Alone(a) == IF a = NULL THEN entry_list ELSE <<a>>

\* The list once the element at a is given back.
Listing(a) == IF a = NULL THEN entry_list ELSE <<a>> \o entry_list

\* pcc_memory_recycler__recycle
Recycle(c) ==
  /\ phase = "open"
  /\ held' = [held EXCEPT ![c] = NULL]
  /\ entry_list' = Listing(held[c])
  /\ UNCHANGED <<pools, used, phase>>

\* pcc_memory_recycler__finalize
Finalize ==
  /\ phase = "open"
  /\ pools' = <<>> /\ entry_list' = <<>> /\ used' = 0
  /\ held' = [c \in Pointer |-> NULL]
  /\ phase' = "closed"

Over == phase # "open" /\ UNCHANGED vars

Next ==
  \/ \E c \in Pointer : SupplyRecycled(c) \/ SupplyUnused(c)
                         \/ SupplyFromNewPool(c) \/ SupplyFails(c) \/ Recycle(c)
  \/ Finalize \/ Over

Spec == Init /\ [][Next]_vars

-----------------------------------------------------------------------------
Listed == {entry_list[k] : k \in 1 .. Len(entry_list)}

\* The variables have their types.
TypeOK ==
  /\ pools \in Seq(PoolRec)
  /\ entry_list \in Seq(Address) /\ held \in [Pointer -> Address \cup {NULL}]
  /\ used \in 0 .. Memory /\ phase \in {"open", "closed", "exit"}

\* The element at a was cut from its pool, one of ps.
WasCut(ps, a) ==
  /\ a[1] \in 1 .. Len(ps)
  /\ a[2] \in ps[a[1]].unused .. (ps[a[1]].allocated - 1)

\* No element is handed out twice, listed twice, or both; what is handed out or
\* listed was cut from a pool before.
Apart ==
  /\ \A c, d \in Pointer : c # d /\ held[c] # NULL => held[c] # held[d]
  /\ \A j, k \in 1 .. Len(entry_list) : j # k => entry_list[j] # entry_list[k]
  /\ \A c \in Pointer, j \in 1 .. Len(entry_list) : held[c] # entry_list[j]
  /\ \A c \in Pointer : held[c] # NULL => WasCut(pools, held[c])
  /\ \A j \in 1 .. Len(entry_list) : WasCut(pools, entry_list[j])

\* No element is lost: every one that was cut from a pool is in use or listed, and
\* only the newest pool holds elements that were not.
NoneLost ==
  \A k \in 1 .. Len(pools) :
    /\ \A j \in pools[k].unused .. (pools[k].allocated - 1) :
         (\E c \in Pointer : held[c] = <<k, j>>) \/ <<k, j>> \in Listed
    /\ k < Len(pools) => pools[k].unused = 0

\* The elements of a pool lie within the bytes that PCC_MALLOC was asked for: the
\* multiplication and the doubling that size a pool do not wrap before memory
\* runs out.
SlotsFit ==
  \A k \in 1 .. Len(pools) :
    /\ pools[k].bytes = Header + ElementSize * pools[k].allocated
    /\ pools[k].bytes <= used
    /\ pools[k].allocated > 0 /\ pools[k].unused <= pools[k].allocated

\* A pool is only added while every element of every other one is in use.
GrowsWhenFull ==
  [][Len(pools') > Len(pools) =>
       \A k \in 1 .. Len(pools) : \A j \in 0 .. (pools[k].allocated - 1) :
         \E c \in Pointer : held[c] = <<k, j>>]_vars
=============================================================================
