-------------------------------- MODULE CDisk ------------------------------
(***************************************************************************)
(* The calls of the BDOS that the Aztec C libraries (disks/I/2) make, on a *)
(* machine m: files in user areas, kept as records with holes, as the file *)
(* store gives them.  The directory knows how long a file is only once the *)
(* file is closed.  A block holds one record here.                         *)
(***************************************************************************)
EXTENDS Bytes, FiniteSets

CONSTANTS
  User, Name,  \* user numbers, file names
  Capacity,    \* records the disk holds
  Files,       \* files the directory holds
  Default,     \* the user number 255 of a name without one
  Absent       \* a file that does not exist

ASSUME DiskAssumption ==
  /\ User \subseteq Nat /\ CTLZ \in Byte
  /\ RECLEN \in Nat \ {0} /\ RECS \in Nat /\ Capacity \in Nat /\ Files \in Nat

File == User \X Name
Record == 0..RECS - 1
NoRecords == [r \in Record |-> Hole]
Blanks == [i \in 1..RECLEN |-> CTLZ]

(* One level only: a second call before the restore loses the first user. *)
setusr(m, u) == [m EXCEPT !.old = m.usr, !.usr = IF u = Default THEN @ ELSE u]
rstusr(m) == [m EXCEPT !.usr = m.old]

Ret(m, x) == [m EXCEPT !.ret = x]
Fail(m) == Ret(m, -1)

There(m, n) == m.file[<<m.usr, n>>] # Absent
ReadRec(m, n, r) == IF r \in Record THEN m.file[<<m.usr, n>>][r] ELSE Hole

DELFIL(m, n) == [m EXCEPT !.file[<<m.usr, n>>] = Absent, !.size[<<m.usr, n>>] = 0]

(* Makes the file n, which does not exist. *)
Makes(m) == Cardinality({x \in File : m.file[x] # Absent}) < Files
MAKFIL(m, n) == [m EXCEPT !.file[<<m.usr, n>>] = NoRecords]

Length(f) == Max({0} \cup {r + 1 : r \in {q \in Record : f[q] # Hole}})
CLSFIL(m, n) == [m EXCEPT !.size[<<m.usr, n>>] = Length(m.file[<<m.usr, n>>])]

Taken(m) ==
  Cardinality({<<x, r>> \in File \X Record : m.file[x] # Absent /\ m.file[x][r] # Hole})
Writes(m, n, r) == r \in Record /\ (ReadRec(m, n, r) # Hole \/ Taken(m) < Capacity)
WriteRec(m, n, r, b) == [m EXCEPT !.file[<<m.usr, n>>][r] = b]

----------------------------------------------------------------------------
(* Random reads, or writes, of up to k records from record r on, until one   *)
(* fails: how many were done.                                                *)
blkrd(m, n, r, k) == Max({j \in 0..k : \A i \in 0..j - 1 : ReadRec(m, n, r + i) # Hole})

RecordsRead(m, n, r, j) ==
  [i \in 1..j * RECLEN |-> ReadRec(m, n, r + (i - 1) \div RECLEN)[((i - 1) % RECLEN) + 1]]

Cut(bs, i) == SubSeq(bs, i * RECLEN + 1, (i + 1) * RECLEN)
WriteRecs(m, n, r, j, bs) ==
  [m EXCEPT !.file[<<m.usr, n>>] =
     [q \in Record |-> IF q \in r..r + j - 1 THEN Cut(bs, q - r) ELSE @[q]]]

blkwr(m, n, r, k, bs) ==
  Max({j \in 0..k : \A i \in 0..j - 1 : Writes(WriteRecs(m, n, r, i, bs), n, r + i)})

unlink(a, n) ==
  LET m == setusr(a, n.user)
  IN IF There(m, n.name) THEN Ret(rstusr(DELFIL(m, n.name)), 0) ELSE Fail(rstusr(m))

(* Within the user area of the old name. *)
rename(a, o, n) ==
  LET m == setusr(a, o.user)
      x == <<m.usr, o.name>>
      y == <<m.usr, n>>
  IN IF There(m, n) \/ ~There(m, o.name) THEN Fail(rstusr(m))
     ELSE Ret(rstusr([m EXCEPT !.file[y] = m.file[x], !.size[y] = m.size[x],
                               !.file[x] = Absent, !.size[x] = 0]), 0)

(* The files as functions from positions to bytes. *)
BytesOf(f) ==
  IF f = Absent THEN Absent
  ELSE [p \in Position |->
          IF f[p \div RECLEN] = Hole THEN Hole ELSE f[p \div RECLEN][(p % RECLEN) + 1]]
============================================================================
