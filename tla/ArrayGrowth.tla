---------------------------- MODULE ArrayGrowth ----------------------------
(***************************************************************************)
(* How every growing array of packcc and of its parsers chooses a capacity *)
(* (pcc_lr_table__resize, pcc_thunk_array__add, pcc_char_array__resize,    *)
(* node_array__add, ...): doubling from a minimum size, in the width of    *)
(* size_t.                                                                 *)
(***************************************************************************)
EXTENDS Naturals

CONSTANTS Modulus,  \* 2^w, for a size_t of w bits
          MinSize   \* PCC_ARRAY_MIN_SIZE and the like

Size == 0 .. (Modulus - 1)

\* m <<= 1
Shl(m) == (2 * m) % Modulus

\* Where the loop while (m < len && m != 0) leaves off.
Settled(m, len) == m >= len \/ m = 0

Doubled(m, len) ==
  LET f[c \in Size] == IF Settled(c, len) THEN c ELSE f[Shl(c)] IN f[m]

\* The new capacity of an array with m elements that must hold len of them.
Capacity(m, len) ==
  LET d == Doubled(IF m = 0 THEN MinSize ELSE m, len)
  IN IF d = 0 THEN len ELSE d
=============================================================================
