------------------------------- MODULE MCBdos ------------------------------
(* The BDOS on a disk small enough to fill up: an extent holds two records,  *)
(* a file at most EXTS * S2S extents.                                        *)
EXTENDS Bdos, TLC

DirectoryBlocks == {0}
Alike == Permutations(Name) \cup Permutations(Slot)
AllRecords == 0..MaxRec
EvenRecords == {r \in 0..MaxRec : r % 2 = 0}
FirstOfExtents == {r \in 0..MaxRec : r % RPE = 0}
============================================================================
