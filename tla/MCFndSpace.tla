----------------------------- MODULE MCFndSpace ----------------------------
(* Every map of a disk of eight blocks, the first one the directory, from    *)
(* every target block.                                                       *)
EXTENDS FndSpace

DirectoryBlocks == {0}
============================================================================
