----------------------------- MODULE RandomRec -----------------------------
(***************************************************************************)
(* The three numbers of a record in cpm22/bdos.asm: sequential access      *)
(* counts in cr, ex and s2 of the FCB, random access in r0, r1 and r2.     *)
(* SETRAN (function 36) and RANSIZE (function 35) go from the first to the *)
(* second through COMPRAND, POSITION goes back, all in 8-bit registers     *)
(* with their carries.                                                     *)
(*                                                                         *)
(* A program gets somewhere by sequential access, or names a record, and   *)
(* calls SETRAN and POSITION in either order; or it asks for the size of a *)
(* file.  Every extent sought is there: what happens when it is not is in  *)
(* BdosFiles.                                                              *)
(***************************************************************************)
EXTENDS Integers, Sequences, FiniteSetsExt

CONSTANTS
  Hi,      \* values of s2 without its mark that programs get to
  R1,      \* values of r1 that programs set
  Extent,  \* entries [ex, s2, rc] a directory may hold for the file
  Entries  \* how many of them it holds at most

(* The bytes the BDOS keeps in these fields: s2 counts to 15 without its   *)
(* mark, ex to 31, and an extent has up to 128 records.                    *)
ASSUME RandomAssumption ==
  /\ Hi \subseteq 0..15
  /\ R1 \subseteq 0..255
  /\ Extent \subseteq [ex : 0..31, s2 : 0..15, rc : 0..128]
  /\ Entries \in Nat

(* Bit 7 of s2 says that the extent is not modified (SETS2B7).             *)
MARK == 128

VARIABLES
  fcb,     \* [cr, ex, s2, r0, r1, r2]
  was,     \* the FCB before the calls
  dir,     \* the file's entries in the order of the directory
  did,     \* the calls that have returned
  at,      \* the entry RANSIZE has come to; 0 outside RANSIZE
  status   \* what POSITION returned

rvars == <<fcb, was, dir, did, at, status>>

(* The FCB after sequential access; cr is 128 behind the last record of a  *)
(* full extent.                                                            *)
Sequential ==
  [cr : 0..128, ex : 0..31, s2 : Hi \cup {h + MARK : h \in Hi},
   r0 : {0}, r1 : {0}, r2 : {0}]

(* The FCB of a file just opened, with a random record.                    *)
Random ==
  [cr : {0}, ex : {0}, s2 : {MARK}, r0 : 0..255, r1 : R1, r2 : {0, 1}]

Files == {s \in UNION {[1..n -> Extent] : n \in 0..Entries} :
            \A i, j \in DOMAIN s :
              i # j => <<s[i].ex, s[i].s2>> # <<s[j].ex, s[j].s2>>}

RInit ==
  /\ \/ dir = <<>> /\ fcb \in Sequential \cup Random
     \/ dir \in Files
        /\ fcb = [cr |-> 0, ex |-> 0, s2 |-> MARK, r0 |-> 255, r1 |-> 255, r2 |-> 1]
  /\ was = fcb /\ did = <<>> /\ at = 0 /\ status = 0

(* Mutant: the carry out of r0 is lost.                                    *)
COMPRANDNoCarry(rec, ex, s2) ==
  LET high == ((s2 * 16) % 256) + ((ex \div 2) % 16)
  IN  [r0 |-> (rec + (ex % 2) * 128) % 256, r1 |-> high % 256,
       r2 |-> IF high > 255 THEN 1 ELSE 0]

(* The bytes r0, r1, r2 for record rec of extent ex, s2: the addition into *)
(* r0 carries into r1, and r2 is the carry of the shift or of r1.          *)
COMPRAND(rec, ex, s2) ==
  LET low  == rec + (ex % 2) * 128
      mid  == low \div 256 + ((ex \div 2) % 16)
      high == ((s2 * 16) % 256) + mid
  IN  [r0 |-> low % 256,
       r1 |-> high % 256,
       r2 |-> IF high > 255 \/ (s2 \div 16) % 2 = 1 THEN 1 ELSE 0]

(* A number of three bytes into the FCB.                                   *)
Stuffed(f, n) == [f EXCEPT !.r0 = n.r0, !.r1 = n.r1, !.r2 = n.r2]

SETRAN ==
  /\ dir = <<>> /\ at = 0 /\ Len(did) < 2
  /\ fcb' = Stuffed(fcb, COMPRAND(fcb.cr, fcb.ex, fcb.s2))
  /\ did' = Append(did, "SETRAN")
  /\ UNCHANGED <<was, dir, at, status>>

(* Where the bytes of a random record lead.                                *)
Split(r0, r1) ==
  [cr |-> r0 % 128, ex |-> (((r1 * 2) % 256) + r0 \div 128) % 32, s2 |-> r1 \div 16]

(* A record beyond 65535 is error 6.  Otherwise cr is stored, and the      *)
(* extent is opened unless the FCB has it; OPENIT marks it.                *)
POSITION ==
  /\ dir = <<>> /\ at = 0 /\ Len(did) < 2
  /\ LET to == Split(fcb.r0, fcb.r1) IN
       IF fcb.r2 # 0
       THEN /\ status' = 6
            /\ fcb' = [fcb EXCEPT !.s2 = (@ % MARK) + MARK]
       ELSE /\ status' = 0
            /\ fcb' = IF to.ex = fcb.ex /\ (to.s2 - fcb.s2) % MARK = 0
                      THEN [fcb EXCEPT !.cr = to.cr]
                      ELSE [fcb EXCEPT !.cr = to.cr, !.ex = to.ex, !.s2 = to.s2 + MARK]
  /\ did' = Append(did, "POSITION")
  /\ UNCHANGED <<was, dir, at>>

(* RANSIZE finds the first entry and clears the number.                   *)
RANSIZE ==
  /\ did = <<>> /\ at = 0
  /\ fcb' = Stuffed(fcb, [r0 |-> 0, r1 |-> 0, r2 |-> 0])
  /\ at' = 1
  /\ UNCHANGED <<was, dir, did, status>>

(* Mutant: the borrow of r0 is not taken on.                               *)
SUBTRACTNoBorrow(n, f) ==
  LET b1 == IF n.r1 < f.r1 THEN 1 ELSE 0
  IN  IF n.r2 < f.r2 + b1 THEN 1 ELSE 0

(* The borrow when the number in the FCB is subtracted byte by byte.       *)
SUBTRACT(n, f) ==
  LET b0 == IF n.r0 < f.r0 THEN 1 ELSE 0
      b1 == IF n.r1 < f.r1 + b0 THEN 1 ELSE 0
  IN  IF n.r2 < f.r2 + b1 THEN 1 ELSE 0

(* One round of its loop: the number of the entry replaces that in the FCB *)
(* unless the FCB's is larger, and FINDNXT finds the next entry.           *)
RANSIZ1 ==
  /\ at \in DOMAIN dir
  /\ LET n == COMPRAND(dir[at].rc, dir[at].ex, dir[at].s2)
     IN  fcb' = IF SUBTRACT(n, fcb) = 1 THEN fcb ELSE Stuffed(fcb, n)
  /\ at' = at + 1
  /\ UNCHANGED <<was, dir, did, status>>

(* There is no entry any more.                                             *)
RANSIZ3 ==
  /\ at = Len(dir) + 1
  /\ did' = <<"RANSIZE">> /\ at' = 0
  /\ UNCHANGED <<fcb, was, dir, status>>

RNext == SETRAN \/ POSITION \/ RANSIZE \/ RANSIZ1 \/ RANSIZ3

RSpec == RInit /\ [][RNext]_rvars

(* What RDSEQ does before it reads on: at the end of an extent GETNEXT     *)
(* goes to the next, until s2 overflows.                                   *)
ReadsNext(f) ==
  LET ex == (f.ex + 1) % 32
      s2 == IF ex = 0 THEN (f.s2 + 1) % 256 ELSE f.s2
  IN  IF f.cr < 128 THEN [ok |-> TRUE, cr |-> f.cr, ex |-> f.ex, s2 |-> f.s2 % 16]
      ELSE [ok |-> ex # 0 \/ s2 % 16 # 0, cr |-> 0, ex |-> ex, s2 |-> s2 % 16]
----------------------------------------------------------------------------
(* The number SETRAN leaves after sequential access leads POSITION to the  *)
(* very record a sequential read would have read next, also behind a full  *)
(* extent, and is refused exactly where sequential access cannot go on.    *)
SameRecord ==
  did = <<"SETRAN", "POSITION">> =>
    LET next == ReadsNext(was) IN
    /\ next.ok <=> status = 0
    /\ next.ok => <<fcb.cr, fcb.ex, fcb.s2 % 16>> = <<next.cr, next.ex, next.s2>>

(* Random access does not lose its place: after POSITION to a record,      *)
(* SETRAN gives the number of that record again.                           *)
PlaceKept ==
  did = <<"POSITION", "SETRAN">> /\ status = 0 =>
    <<fcb.r0, fcb.r1, fcb.r2>> = <<was.r0, was.r1, was.r2>>

(* Sequential and random numbers of a record name the same record, in both  *)
(* directions (COMPRAND, SETRAN, POSITION).                                *)
NumbersAgree == SameRecord /\ PlaceKept

Records(e) == (e.s2 * 32 + e.ex) * 128 + e.rc

(* The size RANSIZE reports is one more than the last record of the file,  *)
(* in whatever order the directory holds the extents, up to 65536.         *)
SizeIsEnd ==
  did = <<"RANSIZE">> =>
    fcb.r0 + 256 * fcb.r1 + 65536 * fcb.r2
      = Max({0} \cup {Records(dir[i]) : i \in DOMAIN dir})
============================================================================
