------------------------------ MODULE MCImport -----------------------------
(* Three host files; the first two may have the same name in CP/M. *)
EXTENDS Import, TLC

CONSTANTS n1, n2, u1, u2, u3

DirectoryBlocks == {0}
Alike1 == (u1 :> n1) @@ (u2 :> n1) @@ (u3 :> n2)
Alone == u1 :> n1
============================================================================
