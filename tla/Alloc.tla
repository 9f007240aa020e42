------------------------------- MODULE Alloc -------------------------------
(***************************************************************************)
(* The allocation map of one CP/M drive (cpm22/bdos.asm): blocks are       *)
(* numbered 0..DSKSIZE, the map is the set of the blocks whose bit is set, *)
(* and a block pointer of 0 means "no block".                              *)
(***************************************************************************)
EXTENDS Integers

CONSTANTS
  DSKSIZE,   \* number of the last block, from the disk parameter block
  DirBlocks  \* the blocks of the directory: the bits of ALLOC0

ASSUME AllocAssumption ==
  /\ DSKSIZE \in Nat
  /\ DirBlocks \subseteq 0..DSKSIZE
  /\ 0 \in DirBlocks

Block == 0..DSKSIZE

First(S) == CHOOSE x \in S : \A y \in S : x <= y

(* The order in which FNDSPACE looks at the blocks around bc: one below, one *)
(* above, two below, ... The block bc itself is never looked at.             *)
Turn(b, bc) == IF b < bc THEN 2 * (bc - b) - 1 ELSE 2 * (b - bc)

Unmarked(alv, bc) == {b \in Block : b \notin alv /\ b # bc}

(* What FNDSPACE promises: the free block nearest to bc, the lower of two,   *)
(* and 0 when there is none.                                                 *)
Nearest(alv, bc) ==
  IF Unmarked(alv, bc) = {} THEN 0
  ELSE CHOOSE b \in Unmarked(alv, bc) :
         \A c \in Unmarked(alv, bc) : Turn(b, bc) <= Turn(c, bc)
============================================================================
