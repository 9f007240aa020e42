------------------------------ MODULE FndSpace -----------------------------
(***************************************************************************)
(* FNDSPACE of cpm22/bdos.asm as the loop it is: register BC walks down    *)
(* from the target block and DE walks up, and the first clear bit of the   *)
(* allocation map is set and returned.  The callers rely on the result     *)
(* only, which module Alloc states without a loop (Nearest); here the loop *)
(* is shown to compute it and to end.                                      *)
(***************************************************************************)
EXTENDS Alloc

VARIABLES
  pc,     \* the label the loop is at, or "done"
  target, \* the block number passed in BC
  bc,     \* lower pointer
  de,     \* upper pointer
  alv0,   \* the allocation map when the routine was called
  alv,    \* the allocation map
  hl      \* the result

vars == <<pc, target, bc, de, alv0, alv, hl>>

Init ==
  /\ pc = "FNDSPA1"
  /\ target \in Block
  /\ alv0 \in {a \in SUBSET Block : DirBlocks \subseteq a}
  /\ bc = target
  /\ de = target
  /\ alv = alv0
  /\ hl = 0

(* Label FNDSPA3: mark the block and return its number. *)
Take(b) ==
  /\ alv' = alv \cup {b}
  /\ hl' = b
  /\ pc' = "done"

(* Mutant: the search gives up as soon as the end of the disk is reached. *)
FNDSPA2GivesUp ==
  /\ pc = "FNDSPA2"
  /\ UNCHANGED <<target, bc, alv0>>
  /\ IF de >= DSKSIZE
     THEN pc' = "done" /\ UNCHANGED <<de, alv, hl>>
     ELSE /\ de' = de + 1
          /\ IF de + 1 \notin alv THEN Take(de + 1)
             ELSE pc' = "FNDSPA1" /\ UNCHANGED <<alv, hl>>

(* Mutant: at the end of the disk the loop always goes round again. *)
FNDSPA2Forever ==
  /\ pc = "FNDSPA2"
  /\ UNCHANGED <<target, bc, alv0>>
  /\ IF de >= DSKSIZE
     THEN pc' = "FNDSPA1" /\ UNCHANGED <<de, alv, hl>>
     ELSE /\ de' = de + 1
          /\ IF de + 1 \notin alv THEN Take(de + 1)
             ELSE pc' = "FNDSPA1" /\ UNCHANGED <<alv, hl>>

(* Look before the target block; block 0 ends the walk down. *)
FNDSPA1 ==
  /\ pc = "FNDSPA1"
  /\ UNCHANGED <<target, de, alv0>>
  /\ IF bc = 0
     THEN pc' = "FNDSPA2" /\ UNCHANGED <<bc, alv, hl>>
     ELSE /\ bc' = bc - 1
          /\ IF bc - 1 \notin alv THEN Take(bc - 1)
             ELSE pc' = "FNDSPA2" /\ UNCHANGED <<alv, hl>>

(* Look after it; at the end of the disk go on (FNDSPA4) while there are     *)
(* blocks left below.                                                        *)
FNDSPA2 ==
  /\ pc = "FNDSPA2"
  /\ UNCHANGED <<target, bc, alv0>>
  /\ IF de >= DSKSIZE
     THEN /\ pc' = IF bc # 0 THEN "FNDSPA1" ELSE "done"
          /\ UNCHANGED <<de, alv, hl>>
     ELSE /\ de' = de + 1
          /\ IF de + 1 \notin alv THEN Take(de + 1)
             ELSE pc' = "FNDSPA1" /\ UNCHANGED <<alv, hl>>

Done == pc = "done" /\ UNCHANGED vars

Next == FNDSPA1 \/ FNDSPA2 \/ Done

Spec == Init /\ [][Next]_vars

FairSpec == Spec /\ WF_vars(FNDSPA1 \/ FNDSPA2)

----------------------------------------------------------------------------
(* Every pointer stays on the disk: the loop of FNDSPACE never tests or sets *)
(* a bit outside the allocation vector (bdos.asm 1393-1432).                 *)
TypeOK ==
  /\ pc \in {"FNDSPA1", "FNDSPA2", "done"}
  /\ target \in Block /\ bc \in Block /\ de \in Block /\ hl \in Block
  /\ alv0 \subseteq Block /\ alv \subseteq Block /\ DirBlocks \subseteq alv0

(* FNDSPACE returns the nearest free block, having looked at every block of  *)
(* the disk but the target before it says 0, and marks exactly that block    *)
(* as used (bdos.asm 1387-1451).                                             *)
FindsNearest ==
  pc = "done" =>
    /\ hl = Nearest(alv0, target)
    /\ alv = IF hl = 0 THEN alv0 ELSE alv0 \cup {hl}

(* The alternating walk of FNDSPACE comes to an end from every target block  *)
(* and every map, a full one included.                                       *)
Returns == <>(pc = "done")
============================================================================
