----------------------------- MODULE BdosFiles -----------------------------
(***************************************************************************)
(* The file routines of the BDOS (cpm22/bdos.asm) on one logged-in drive.  *)
(* Each routine is an operator on the machine m, a record of what the      *)
(* routines share: the directory, the allocation map, the data sectors,    *)
(* the caller's file control block (FCB) and the BDOS's own STATUS and     *)
(* FILEPOS.  A routine of the source that calls others is the composition  *)
(* of their operators, in the order of the calls.                          *)
(*                                                                         *)
(* A Name stands for a user number with a file name.  All drives of this   *)
(* BIOS have EXTMASK 0, so a directory entry describes one logical extent. *)
(* The sizes the code has as literals are constants here.                  *)
(***************************************************************************)
EXTENDS Alloc, Sequences, FiniteSets

CONSTANTS
  Name,
  Data,     \* what a record may hold
  Zero,     \* the record of zeros function 40 writes
  DIRSIZE,  \* number of the last directory entry
  RPE,      \* records in an extent (128)
  RPB,      \* records in a block (BLKMASK + 1)
  EXTS,     \* extents counted by the extent byte (32)
  S2S,      \* values of the s2 byte (16)
  Unused,   \* a directory entry whose first byte is 0E5h; an FCB not in use
  Watch     \* which of the observers status, xfer and io are kept

ASSUME BdosAssumption ==
  /\ Zero \in Data
  /\ DIRSIZE \in Nat /\ RPE \in Nat \ {0} /\ RPB \in 1..RPE
  /\ EXTS \in Nat \ {0} /\ S2S \in 1..16
  /\ Watch \subseteq {"status", "xfer", "io"}

Pos == 0..DIRSIZE
NoPos == -1                    \* FILEPOS = 0ffffh
Ptr == 0..((RPE - 1) \div RPB) \* block pointers of an entry
NotFound == 255                \* STATUS of a search that failed
Lost == 64                     \* s2 after a failed seek (0C0h less bit 7)
MaxRec == EXTS * S2S * RPE - 1 \* 65535

Entry == [name: Name, ro: BOOLEAN, ex: 0..EXTS - 1, s2: 0..127,
          rc: 0..RPE, al: [Ptr -> Block]]

(* unmod is bit 7 of the s2 byte; stuck observes that the extent number was  *)
(* advanced to an extent that could not be opened.                           *)
Fcb == [name: Name, ro: BOOLEAN, ex: 0..EXTS - 1, s2: 0..127, unmod: BOOLEAN,
        rc: 0..RPE, al: [Ptr -> Block], cr: 0..RPE, stuck: BOOLEAN]

(* No user number is 0E5h. *)
ASSUME UnusedAssumption == Unused \notin Entry /\ Unused \notin Fcb

NoBlocks == [i \in Ptr |-> 0]
NewFcb(n) == [name |-> n, ro |-> FALSE, ex |-> 0, s2 |-> 0, unmod |-> FALSE,
              rc |-> 0, al |-> NoBlocks, cr |-> 0, stuck |-> FALSE]

Sector == 0..((DSKSIZE + 1) * RPB - 1)
Blocks(e) == {e.al[i] : i \in Ptr} \ {0}

DirWritten(p, e) == [op |-> "dir", at |-> p, val |-> e]
DataWritten(s, v) == [op |-> "data", at |-> s, val |-> v]

Note(m, op) == IF "io" \in Watch THEN Append(m.io, op) ELSE m.io

----------------------------------------------------------------------------
(* Directory entries are searched in order, up to the highest one that was   *)
(* ever in use since the drive was logged in (m.mark, SCRATCH1).             *)

Matches(e, n, x, s) == e # Unused /\ e.name = n /\ e.ex = x /\ e.s2 = s

Found1(m, p) == [m EXCEPT !.pos = p, !.st = p % 4]

At(m, S) ==
  IF S = {} THEN [m EXCEPT !.pos = NoPos, !.st = NotFound] ELSE Found1(m, First(S))

FINDFST(m) ==
  At(m, {p \in Pos : p < m.mark /\ Matches(m.dir[p], m.fcb.name, m.fcb.ex, m.fcb.s2)})

(* Mutant: the search limit is not moved behind a new entry. *)
CHKNMBRIdle(m) == m

CHKNMBR(m) == [m EXCEPT !.mark = IF m.pos < @ THEN @ ELSE m.pos + 1]

DIRWRITE(m, e) == [m EXCEPT !.dir[m.pos] = e, !.io = Note(m, DirWritten(m.pos, e))]

(* ERROR3 and ERROR4: the message, then a warm boot. *)
Boot(m) == [m EXCEPT !.boot = TRUE]

IOERR1(m) == [m EXCEPT !.st = 1]

(* BITMAP: the allocation map and the search limit from the directory. *)
Used(dir) == {p \in Pos : dir[p] # Unused}

BITMAP(dir) == DirBlocks \cup UNION {Blocks(dir[p]) : p \in Used(dir)}
Limit(dir) == CHOOSE k \in 3..(DIRSIZE + 4) :
                /\ \A p \in Used(dir) : p < k
                /\ k = 3 \/ k - 1 \in Used(dir)

----------------------------------------------------------------------------
Opened(m, e) ==
  [m EXCEPT !.fcb = [@ EXCEPT !.ro = e.ro, !.rc = e.rc, !.al = e.al,
                              !.unmod = TRUE, !.stuck = FALSE]]
OPENIT1(m) == Opened(m, m.dir[m.pos])
OpenFound(m) == IF m.pos = NoPos THEN m ELSE OPENIT1(m)
OPENIT(m) == OpenFound(FINDFST(m))

(* The pointers of the FCB and of the directory entry are merged one by one; *)
(* two different ones end the merge with an error.  STATUS, which DEC turns  *)
(* into 0ffh when it is 0, still holds the position FINDFST stored.          *)
Clash(f, e) == {i \in Ptr : f.al[i] # 0 /\ e.al[i] # 0 /\ f.al[i] # e.al[i]}
Merged(f, e, k) == [i \in Ptr |-> IF i < k /\ f.al[i] = 0 THEN e.al[i] ELSE f.al[i]]

CLOSEIT1(m, e) ==
  IF Clash(m.fcb, e) # {}
  THEN [m EXCEPT !.fcb.al = Merged(m.fcb, e, First(Clash(m.fcb, e))),
                 !.st = (@ + 255) % 256]
  ELSE DIRWRITE([m EXCEPT !.fcb.al = Merged(m.fcb, e, RPE)],
                [e EXCEPT !.al = Merged(m.fcb, e, RPE), !.rc = m.fcb.rc])

CloseFound(m) == IF m.pos = NoPos THEN m ELSE CLOSEIT1(m, m.dir[m.pos])

(* Mutant: a close writes to a protected drive. *)
CLOSEITUnprotected(m) ==
  IF m.fcb.unmod THEN [m EXCEPT !.st = 0, !.pos = 0] ELSE CloseFound(FINDFST(m))

CLOSEIT(m) ==
  IF m.wp \/ m.fcb.unmod THEN [m EXCEPT !.st = 0, !.pos = 0]
  ELSE CloseFound(FINDFST(m))

(* Mutant: a new extent starts with the block pointers of the last one. *)
ClearedNot(f) == [f EXCEPT !.unmod = TRUE, !.stuck = FALSE]

(* GETMT1, and bit 7 of s2. *)
Cleared(f) == [f EXCEPT !.rc = 0, !.al = NoBlocks, !.unmod = TRUE, !.stuck = FALSE]

FCBSET(m) ==
  DIRWRITE(m, [name |-> m.fcb.name, ro |-> m.fcb.ro, ex |-> m.fcb.ex, s2 |-> m.fcb.s2,
               rc |-> m.fcb.rc, al |-> m.fcb.al])

GETMT1(m) == IF m.pos = NoPos THEN m ELSE FCBSET(CHKNMBR([m EXCEPT !.fcb = Cleared(@)]))

(* Only the first byte is compared, and the search limit does not apply. *)
GETEMPTY(m) ==
  IF m.wp THEN Boot(m) ELSE GETMT1(At(m, {p \in Pos : m.dir[p] = Unused}))

(* GTNEXT5: the FCB keeps the block pointers of the extent it came from. *)
GTNEXT5(m) == [m EXCEPT !.st = 1, !.fcb.unmod = TRUE, !.fcb.stuck = TRUE]

SETSTAT0(m) == [m EXCEPT !.st = 0]

GTNEXT4(m) == IF m.pos = NoPos THEN GTNEXT5(m) ELSE SETSTAT0(m)

(* Open the next extent, or make it when writing; m has searched for it. *)
GTNEXT3(m, reading) ==
  IF m.pos # NoPos THEN SETSTAT0(OPENIT1(m))
  ELSE IF reading THEN GTNEXT5(m)
  ELSE GTNEXT4(GETEMPTY(m))

NextExtent(f) ==
  IF f.ex + 1 < EXTS THEN [f EXCEPT !.ex = @ + 1]
  ELSE [f EXCEPT !.ex = 0, !.s2 = (@ + 1) % 128]

GTNEXT2(m, reading) ==
  IF m.fcb.ex = 0 /\ m.fcb.s2 % S2S = 0 THEN GTNEXT5(m) ELSE GTNEXT3(FINDFST(m), reading)

GTNEXT1(m, reading) ==
  IF m.pos = NoPos THEN m ELSE GTNEXT2([m EXCEPT !.fcb = NextExtent(@)], reading)

GETNEXT(m, reading) == GTNEXT1(CLOSEIT(m), reading)

----------------------------------------------------------------------------
(* COMBLK: the block of record c of the FCB's extent. *)
COMBLK(f, c) == f.al[c \div RPB]
LOGICAL(b, c) == b * RPB + (c % RPB)

RecordOf(f, c) == (f.s2 * EXTS + f.ex) * RPE + c

(* xfer observes the transfer: which record the caller asked for, and from   *)
(* or to which block it went.                                                *)
Transfer(m, op, r, b) ==
  [m EXCEPT !.xfer = [op |-> op, name |-> m.fcb.name, rec |-> r, blk |-> b]]

(* The record is in the FCB's extent, which may be the next one by now. *)
RDSEQ2(m, c, adder) ==
  IF m.st # 0 \/ COMBLK(m.fcb, c) = 0 THEN IOERR1(m)
  ELSE Transfer([m EXCEPT !.fcb.cr = c + adder], "read", RecordOf(m.fcb, c), COMBLK(m.fcb, c))

(* The next record to access: adder is 1 for sequential access, else 0. *)
RDSEQ1(m, adder) ==
  IF m.fcb.cr < m.fcb.rc THEN RDSEQ2(m, m.fcb.cr, adder)
  ELSE IF m.fcb.cr # RPE THEN IOERR1(m)
  ELSE RDSEQ2(GETNEXT(m, TRUE), 0, adder)

(* Function 40 zeroes a block it has just allocated. *)
ZeroBlock(m, b) ==
  [m EXCEPT !.data = [s \in Sector |-> IF s \div RPB = b THEN Zero ELSE m.data[s]],
            !.io = IF "io" \in Watch
                   THEN m.io \o [k \in 1..RPB |-> DataWritten(b * RPB + k - 1, Zero)]
                   ELSE m.io]

(* Mutant: bit 7 of s2 is left set. *)
WTSEQ10Quiet(f, c, b) ==
  [f EXCEPT !.al[c \div RPB] = b, !.rc = IF c < @ THEN @ ELSE c + 1]

WTSEQ10(f, c, b) ==
  [f EXCEPT !.al[c \div RPB] = b, !.rc = IF c < @ THEN @ ELSE c + 1, !.unmod = FALSE]

PutRecord(m, c, b, v) ==
  Transfer([m EXCEPT !.data[LOGICAL(b, c)] = v,
                     !.io = Note(m, DataWritten(LOGICAL(b, c), v)),
                     !.fcb = WTSEQ10(@, c, b)],
           "write", RecordOf(m.fcb, c), b)

(* FNDSPACE looks near the block before the missing one. *)
Space(m, c) ==
  Nearest(m.alv, IF c < RPB THEN 0 ELSE COMBLK(m.fcb, c - RPB))

(* A record written into a block the extent already has. *)
WTSEQ6(m, v) == PutRecord(m, m.fcb.cr, COMBLK(m.fcb, m.fcb.cr), v)

(* Mutant: the block found is not marked. *)
MarkedNot(m, b) == m

Marked(m, b) == [m EXCEPT !.alv = @ \cup {b}]

(* A record written into the new block b. *)
WTSEQ3(m, b, mode, v) ==
  IF b = 0 THEN [m EXCEPT !.st = 2]
  ELSE PutRecord(IF mode = 2 THEN ZeroBlock(Marked(m, b), b) ELSE Marked(m, b), m.fcb.cr, b, v)

WTSEQ11(m) == [m EXCEPT !.st = 0, !.fcb.cr = IF m.st = 0 THEN 0 ELSE RPE]

(* After the last record of an extent sequential access opens the next one;  *)
(* that this failed shows at the next call only.                             *)
WTSEQ99(m, mode) ==
  IF m.st # 0 \/ mode # 1 THEN m
  ELSE IF m.fcb.cr # RPE - 1 THEN [m EXCEPT !.fcb.cr = @ + 1]
  ELSE WTSEQ11(GETNEXT([m EXCEPT !.fcb.cr = RPE], FALSE))

WTSEQ1(m, mode, v) ==
  IF m.wp \/ m.fcb.ro THEN Boot(m)
  ELSE IF m.fcb.cr >= RPE THEN IOERR1(m)
  ELSE WTSEQ99(IF COMBLK(m.fcb, m.fcb.cr) # 0 THEN WTSEQ6(m, v)
               ELSE WTSEQ3(m, Space(m, m.fcb.cr), mode, v), mode)

(* POSITN4: s2 gets a value no extent has, so that the next seek reopens. *)
POSITN4(m, code) == [m EXCEPT !.st = code, !.fcb.s2 = Lost, !.fcb.unmod = TRUE]

POSITN3(m) == IF m.boot THEN m ELSE IF m.pos = NoPos THEN POSITN4(m, 5) ELSE SETSTAT0(m)

(* The extent has been searched for (OPENIT). *)
Reopened(m, reading) ==
  IF m.pos # NoPos THEN SETSTAT0(OPENIT1(m))
  ELSE IF reading THEN POSITN4(m, 4)
  ELSE POSITN3(GETEMPTY(m))

(* The extent of the FCB has been closed; x and s number the one to open. *)
POSITN2(m, x, s, reading) ==
  IF m.st = NotFound THEN POSITN4(m, 3)
  ELSE Reopened(FINDFST([m EXCEPT !.fcb.ex = x, !.fcb.s2 = s, !.fcb.unmod = FALSE]), reading)

(* Mutant: a seek compares the extent byte only. *)
SameExtentOneByte(f, x, s) == f.ex = x

SameExtent(f, x, s) == f.ex = x /\ f.s2 = s

POSITN1(m, x, s, reading) ==
  IF SameExtent(m.fcb, x, s) THEN SETSTAT0(m) ELSE POSITN2(CLOSEIT(m), x, s, reading)

(* Seek to random record r; a record above MaxRec has a non-zero r2 byte. *)
POSITION(m, r, reading) ==
  IF r > MaxRec THEN [m EXCEPT !.st = 6, !.fcb.unmod = TRUE]
  ELSE POSITN1([m EXCEPT !.fcb.cr = r % RPE],
               (r \div RPE) % EXTS, r \div (RPE * EXTS), reading)

ReadAt(m) == IF m.st # 0 THEN m ELSE RDSEQ1(m, 0)
READRAN(m, r) == ReadAt(POSITION(m, r, TRUE))

WriteAt(m, mode, v) == IF m.st # 0 \/ m.boot THEN m ELSE WTSEQ1(m, mode, v)
WRITERAN(m, r, mode, v) == WriteAt(POSITION(m, r, FALSE), mode, v)

----------------------------------------------------------------------------
(* Routines that go over all the entries of the names N, in order.  A read-  *)
(* only one stops them where they are, with the entries before it done.      *)
Found(m, N) == {p \in Pos : p < m.mark /\ m.dir[p] # Unused /\ m.dir[p].name \in N}
ReadOnly(m, N) == {p \in Found(m, N) : m.dir[p].ro}
Reached(m, N) == {p \in Found(m, N) : \A q \in ReadOnly(m, N) : p < q}

InOrder(S) ==
  CHOOSE q \in [1..Cardinality(S) -> S] :
    \A i, j \in 1..Cardinality(S) : i < j => q[i] < q[j]

(* The entries at the positions DOMAIN es are replaced, one write for each. *)
Rewrite(m, es) ==
  LET q == InOrder(DOMAIN es) IN
  [m EXCEPT !.dir = [p \in Pos |-> IF p \in DOMAIN es THEN es[p] ELSE m.dir[p]],
            !.io = IF "io" \in Watch
                   THEN m.io \o [k \in DOMAIN q |-> DirWritten(q[k], es[q[k]])]
                   ELSE m.io,
            !.st = IF DOMAIN es = {} THEN NotFound ELSE 0]

ERAFILE(m, N) ==
  LET S == Reached(m, N)
      r == [Rewrite(m, [p \in S |-> Unused])
              EXCEPT !.alv = @ \ UNION {Blocks(m.dir[p]) : p \in S}]
  IN IF m.wp THEN Boot(m) ELSE IF ReadOnly(m, N) # {} THEN Boot(r) ELSE r

(* The twelve bytes of the new name carry no attribute bits. *)
CHGNAMES(m, o, n) ==
  LET r == Rewrite(m, [p \in Reached(m, {o}) |->
                         [m.dir[p] EXCEPT !.name = n, !.ro = FALSE]])
  IN IF m.wp THEN Boot(m) ELSE IF ReadOnly(m, {o}) # {} THEN Boot(r) ELSE r

SAVEATTR(m, n, ro) ==
  Rewrite(m, [p \in Found(m, {n}) |-> [m.dir[p] EXCEPT !.ro = ro]])
============================================================================
