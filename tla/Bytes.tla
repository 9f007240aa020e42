-------------------------------- MODULE Bytes ------------------------------
(* Files as functions from positions to bytes, kept in whole records. *)
EXTENDS Integers, Sequences, FiniteSetsExt

CONSTANTS
  RECLEN,  \* bytes of a record, 128 in the code
  RECS,    \* bound: records of a file
  Byte,    \* what a byte may be
  Hole     \* what a record never written holds

CTLZ == 26

Size == RECS * RECLEN
Position == 0..Size - 1
NoBytes == [p \in Position |-> Hole]

At(c, p) == IF p \in Position THEN c[p] ELSE Hole

(* The bytes bs go to position p; the rest of a new record is control-Z. *)
Put(c, p, bs) ==
  [q \in Position |->
     IF q \in p..p + Len(bs) - 1 THEN bs[q - p + 1]
     ELSE IF c[q] = Hole /\ \E x \in p..p + Len(bs) - 1 : x \div RECLEN = q \div RECLEN
     THEN CTLZ ELSE c[q]]

(* Where a text ends: in its last record, behind what is not control-Z. *)
End(c) ==
  LET last == Max({0} \cup {p \div RECLEN : p \in {q \in Position : c[q] # Hole}}) * RECLEN
  IN Max({last} \cup {p + 1 : p \in {q \in last..last + RECLEN - 1 : At(c, q) \notin {Hole, CTLZ}}})
============================================================================
