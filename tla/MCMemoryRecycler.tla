-------------------------- MODULE MCMemoryRecycler --------------------------
(***************************************************************************)
(* The recycler with a size_t of six bits: two pools fit into memory, and *)
(* a third, which seven pointers would need, does not.                     *)
(***************************************************************************)
EXTENDS MemoryRecycler

Promise == INSTANCE Allocator

\* The recycler supplies no address that is in use.
Implements == Promise!AllocatorSpec
=============================================================================
