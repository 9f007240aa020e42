------------------------------- MODULE Import ------------------------------
(***************************************************************************)
(* disk::readhost and addfile of src/src/biosapi.cpp: when a drive is      *)
(* selected for the first time, every regular file of the host directory   *)
(* gets directory entries and blocks, as if CP/M had written it.  The      *)
(* files come in the order readdir gives them.  Three parties then number  *)
(* the extents of a file: addfile, the BDOS (ex and s2), and               *)
(* cpmdir::GetExtNumber; a record of an imported file is only found where  *)
(* they agree.  Sizes are in records.                                      *)
(***************************************************************************)
EXTENDS HostDisk

CONSTANTS
  Host,     \* the files of the host directory
  CpmName,  \* the CP/M name readhost makes of each
  MaxSize,  \* bound: records of a host file
  LOW       \* values addfile puts into Xl (16)

ASSUME ImportAssumption ==
  /\ CpmName \in [Host -> Name] /\ MaxSize \in Nat /\ LOW \in Nat \ {0}

VARIABLES
  size,      \* what stat says of each host file
  todo,      \* the files readdir has not returned yet
  h,         \* the disk object
  freeblock_ \* next free block

ivars == <<size, todo, h, freeblock_>>

Content(u) == [r \in 0..size[u] - 1 |-> <<u, r>>]

IInit ==
  /\ size \in [Host -> 0..MaxSize]
  /\ todo = Host
  /\ h = [EmptyHost EXCEPT !.files = [u \in Host |-> Content(u)]]
  /\ freeblock_ = Cardinality(DirBlocks)

Pointers == Cardinality(Ptr)
BlocksOf(n) == (n + RPB - 1) \div RPB
Least(a, b) == IF a <= b THEN a ELSE b

NewDir(g) == {p \in Pos : g.dir[p] = Unused}

(* Mutant: the blocks of every extent are counted from the first one. *)
ExtentSameBlocks(u, d, blocks) ==
  LET n == Least(blocks - d * Pointers, Pointers)
  IN [name |-> CpmName[u], ro |-> FALSE, ex |-> d % LOW, s2 |-> (d \div LOW) % 32,
      rc |-> n * RPB,
      al |-> [i \in Ptr |-> IF i < n THEN freeblock_ + i ELSE 0]]

(* Mutant: the record count is left in blocks. *)
ExtentRcInBlocks(u, d, blocks) ==
  LET n == Least(blocks - d * Pointers, Pointers)
  IN [name |-> CpmName[u], ro |-> FALSE, ex |-> d % LOW, s2 |-> (d \div LOW) % 32,
      rc |-> n,
      al |-> [i \in Ptr |-> IF i < n THEN freeblock_ + d * Pointers + i ELSE 0]]

(* The d-th extent of host file u, which has the given number of blocks. *)
Extent(u, d, blocks) ==
  LET n == Least(blocks - d * Pointers, Pointers)
  IN [name |-> CpmName[u], ro |-> FALSE, ex |-> d % LOW, s2 |-> (d \div LOW) % 32,
      rc |-> n * RPB,
      al |-> [i \in Ptr |-> IF i < n THEN freeblock_ + d * Pointers + i ELSE 0]]

(* Out of entries or of blocks: throw without an exception ends the process. *)
addfile(u) ==
  LET blocks == BlocksOf(size[u])
      dirs == 1 + blocks \div Pointers
      key == <<CpmName[u], FALSE>>
      free == NewDir(h)
      rank(p) == Cardinality({q \in free : q < p})
  IN /\ todo' = todo \ {u}
     /\ IF key \in DOMAIN h.cpm2unix THEN UNCHANGED <<h, freeblock_>>
        ELSE IF dirs > Cardinality(free) \/ (blocks > 0 /\ freeblock_ + blocks >= DSKSIZE + 1)
        THEN h' = Throw(h) /\ UNCHANGED freeblock_
        ELSE /\ h' = [h EXCEPT
                        !.dir = [p \in Pos |->
                                   IF p \in free /\ rank(p) < dirs
                                   THEN Extent(u, rank(p), blocks) ELSE h.dir[p]],
                        !.cpm2unix = With1(@, key, u)]
             /\ freeblock_' = freeblock_ + blocks

readhost == h.up /\ \E u \in todo : addfile(u) /\ UNCHANGED size

ISpec == IInit /\ [][readhost]_ivars

----------------------------------------------------------------------------
(* Record r of file n as the BDOS finds it: FINDFST for its extent, COMBLK   *)
(* for its block, disk::Read for its sector.                                 *)
Lookup(n, r) ==
  {p \in Pos : Matches(h.dir[p], n, (r \div RPE) % EXTS, r \div (RPE * EXTS))}

BdosReads(n, r) ==
  LET e == h.dir[First(Lookup(n, r))]
      b == COMBLK(e, r % RPE)
  IN IF Lookup(n, r) = {} \/ r % RPE >= e.rc \/ b = 0 THEN Unused
     ELSE Read(h, LOGICAL(b, r % RPE))

(* Every record of an imported host file is read by CP/M as it is in the     *)
(* file: the numbers addfile gives to extents and blocks are the ones the    *)
(* BDOS looks for, and GetExtNumber turns them back into the same place of   *)
(* the same file.                                                            *)
ImportedIsReadable ==
  h.up => \A k \in DOMAIN h.cpm2unix :
            \A r \in DOMAIN Content(h.cpm2unix[k]) :
              BdosReads(k[1], r) = <<h.cpm2unix[k], r>>

(* The map the BDOS builds when it logs the drive in leaves free exactly the *)
(* blocks from freeblock_ on: none of an imported file, and no lost ones.    *)
FreeIsFree == h.up => BITMAP(h.dir) = 0..freeblock_ - 1

Imported == {h.cpm2unix[k] : k \in DOMAIN h.cpm2unix}
DoesNotFit(u) ==
  \/ freeblock_ + BlocksOf(size[u]) > DSKSIZE + 1
  \/ (BlocksOf(size[u]) + Pointers - 1) \div Pointers > Cardinality(NewDir(h))
  \/ NewDir(h) = {}

(* The import ends the process for lack of space (biosapi.cpp 121) or of     *)
(* directory entries (93) only when some file really does not fit.           *)
EndsOnlyWhenFull == ~h.up => \E u \in Host \ (todo \cup Imported) : DoesNotFit(u)
============================================================================
