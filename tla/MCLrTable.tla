----------------------------- MODULE MCLrTable -----------------------------
(***************************************************************************)
(* The memo table with a size_t of three bits.                             *)
(***************************************************************************)
EXTENDS LrTableSafety

A == INSTANCE ArrayGrowth WITH Modulus <- 8, MinSize <- 2
MCGrown(cap, len) == A!Capacity(cap, len)
=============================================================================
