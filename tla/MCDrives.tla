------------------------------ MODULE MCDrives -----------------------------
(* The drives are the numbers of the BIOS: 0 = A, 1 = B, 8 = I, 9 = J. *)
EXTENDS Drives
============================================================================
