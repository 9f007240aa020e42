----------------------------- MODULE MCCpmHost -----------------------------
(* CP/M on a host directory, one record to an extent. *)
EXTENDS CpmHost

DirectoryBlocks == {0}
EvenRecords == {r \in 0..MaxRec : r % 2 = 0}
AllRecords == 0..MaxRec
Alike == Permutations(Name)
============================================================================
