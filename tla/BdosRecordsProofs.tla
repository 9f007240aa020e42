------------------------- MODULE BdosRecordsProofs -------------------------
(***************************************************************************)
(* The same for the routines that read and write records: one lemma per    *)
(* routine, up to RDSEQ1, WTSEQ1 and the random calls.                     *)
(***************************************************************************)
EXTENDS BdosFilesProofs

----------------------------------------------------------------------------
(* Reading. *)

(* A record number counts the records of whole extents. *)
LEMMA RecordExtent ==
  ASSUME NEW f \in Fcb, NEW c \in 0..RPE - 1
  PROVE  RecordOf(f, c) \div RPE = f.s2 * EXTS + f.ex
<1> DEFINE k == f.s2 * EXTS + f.ex
<1>0. RPE \in Nat \ {0} /\ EXTS \in Nat \ {0}
  BY BdosAssumption
<1>1. k \in Nat
  BY <1>0 DEF Fcb
<1>2. RecordOf(f, c) = k * RPE + c
  BY DEF RecordOf
<1> HIDE DEF k
<1>3. c < RPE /\ c \in Nat
  BY <1>0
<1>4. (k * RPE + c) \div RPE = k
  BY <1>0, <1>1, <1>3
<1> QED BY <1>2, <1>4 DEF k

(* A transfer to or from a block of an FCB that fits. *)
LEMMA Placed ==
  ASSUME NEW d, NEW a, NEW f \in Fcb, Fits(d, a, f), Saved(d, f), NEW c \in 0..RPE - 1,
         COMBLK(f, c) # 0, NEW x, x.name = f.name, x.rec = RecordOf(f, c),
         x.blk = COMBLK(f, c)
  PROVE  Proper(d, x)
<1>1. x.rec \div RPE = f.s2 * EXTS + f.ex
  BY RecordExtent
<1>2. c \div RPB \in Ptr
  BY PtrOf
<1>3. \A p \in Used(d) : x.blk \in Blocks(d[p]) => SameKey(d[p], f)
  BY <1>2 DEF Fits, Blocks, COMBLK
<1>4. \E p \in Used(d) : SameKey(d[p], f)
  BY DEF Saved
<1> QED BY <1>1, <1>3, <1>4 DEF Proper, SameKey

(* The place within the extent does not matter to the blocks. *)
LEMMA CrSet ==
  ASSUME NEW O, NEW m, Whole(m, O), NEW c \in 0..RPE, m.fcb.stuck => c = RPE
  PROVE  /\ Whole([m EXCEPT !.fcb.cr = c], O)
         /\ Alike(m, [m EXCEPT !.fcb.cr = c])
         /\ [m EXCEPT !.fcb.cr = c].fcb.cr = c
         /\ [m EXCEPT !.fcb.cr = c].fcb.stuck = m.fcb.stuck
         /\ SameKey([m EXCEPT !.fcb.cr = c].fcb, m.fcb)
         /\ Similar([m EXCEPT !.fcb.cr = c].fcb, m.fcb)
         /\ Tells(m, [m EXCEPT !.fcb.cr = c])
<1> DEFINE f == [m.fcb EXCEPT !.cr = c]
           n == [m EXCEPT !.fcb = f]
<1>0. IsMachine(m) /\ Base(m, O) /\ m.fcb \in Fcb
  BY DEF Whole, Base, IsMachine
<1>1. [m EXCEPT !.fcb.cr = c] = n
  BY <1>0 DEF IsMachine
<1>2. /\ f \in Fcb /\ f.cr = c /\ f.stuck = m.fcb.stuck /\ f.unmod = m.fcb.unmod
      /\ f.al = m.fcb.al
  BY <1>0 DEF Fcb
<1>3. SameKey(f, m.fcb)
  BY <1>0 DEF Fcb, SameKey
<1> HIDE DEF f
<1>4. IsMachine(n) /\ Alike(m, n) /\ n.fcb = f
  BY <1>0, <1>2, FcbSet
<1> HIDE DEF n
<1>5. Base(n, O)
  BY <1>0, <1>4, AlikeKeeps
<1>6. Live(f) <=> Live(m.fcb)
  BY <1>2, <1>3 DEF Live, SameKey
<1>7. FcbOk(m.dir, m.alv, f)
  <2>1. Live(f) => Saved(m.dir, f)
    BY <1>2, <1>3, <1>6 DEF Whole, FcbOk, Saved, SameKey
  <2> QED BY <1>2, <1>3, <1>6, <2>1 DEF Whole, FcbOk, Fits, Owned, SameKey
<1>8. \A g \in O : Apart(f, g)
  BY <1>2, <1>3, <1>6 DEF Whole, Apart, SameKey
<1>9. Whole(n, O)
  BY <1>4, <1>5, <1>7, <1>8 DEF Whole, Alike
<1>10. Similar(f, m.fcb)
  BY <1>2, <1>3, <1>6 DEF Similar
<1>11. Tells(m, n)
  BY <1>4, <1>10, AlikeTells
<1> QED BY Zenon, <1>1, <1>2, <1>3, <1>4, <1>9, <1>10, <1>11

(* A transfer is not seen by directory and FCB. *)
LEMMA Transferred ==
  ASSUME NEW O, NEW m, Whole(m, O), NEW op, NEW r, NEW b,
         NEW n, n = Transfer(m, op, r, b)
  PROVE  /\ Whole(n, O) /\ n.dir = m.dir /\ n.alv = m.alv /\ n.wp = m.wp
         /\ n.fcb = m.fcb /\ n.st = m.st /\ n.data = m.data /\ n.boot = m.boot
         /\ n.xfer.op = op /\ n.xfer.name = m.fcb.name /\ n.xfer.rec = r /\ n.xfer.blk = b
<1> DEFINE x == [op |-> op, name |-> m.fcb.name, rec |-> r, blk |-> b]
<1>1. n = [m EXCEPT !.xfer = x]
  BY DEF Transfer
<1>2. x.op = op /\ x.name = m.fcb.name /\ x.rec = r /\ x.blk = b
  OBVIOUS
<1> HIDE DEF x
<1>3. IsMachine(m)
  BY DEF Whole, Base
<1>4. IsMachine(n)
  BY <1>1, <1>3 DEF IsMachine
<1>5. /\ n.dir = m.dir /\ n.mark = m.mark /\ n.alv = m.alv /\ n.wp = m.wp
      /\ n.fcb = m.fcb /\ n.st = m.st /\ n.xfer = x /\ n.data = m.data /\ n.boot = m.boot
  BY <1>1, <1>3 DEF IsMachine
<1>6. Whole(n, O)
  BY <1>4, <1>5 DEF Whole, Base
<1> QED BY <1>2, <1>5, <1>6

(* IOERR1 only sets the status. *)
LEMMA IoErr1 ==
  ASSUME NEW O, NEW m, Whole(m, O)
  PROVE  Whole(IOERR1(m), O) /\ Alike(m, IOERR1(m)) /\ Tells(m, IOERR1(m))
<1>1. 1 \in 0..255
  OBVIOUS
<1>2. IsMachine(m)
  BY DEF Whole, Base
<1>3. Whole(IOERR1(m), O) /\ Alike(m, IOERR1(m)) /\ IOERR1(m).fcb = m.fcb
  BY <1>1, <1>2, SetStat, Zenon DEF IOERR1
<1>4. Tells(m, IOERR1(m))
  BY <1>3, SimilarSelf, AlikeTells
<1> QED BY <1>3, <1>4

(* RDSEQ2 reads a record of the FCB. *)
LEMMA RdSeq2 ==
  ASSUME NEW O, NEW m, Whole(m, O), m.st = 0 => Live(m.fcb), m.xfer.op = "none",
         NEW c \in 0..RPE - 1, NEW adder \in {0, 1}, NEW n, n = RDSEQ2(m, c, adder)
  PROVE  /\ Whole(n, O) /\ Proper(n.dir, n.xfer)
         /\ n.dir = m.dir /\ n.alv = m.alv /\ n.wp = m.wp
         /\ Tells(m, n) /\ n.boot = m.boot
<1>1. CASE m.st # 0 \/ COMBLK(m.fcb, c) = 0
  <2>1. n = IOERR1(m)
    BY <1>1 DEF RDSEQ2
  <2> QED BY <2>1, IoErr1 DEF Alike, Proper
<1>2. CASE ~(m.st # 0 \/ COMBLK(m.fcb, c) = 0)
  <2> DEFINE k == [m EXCEPT !.fcb.cr = c + adder]
  <2>1. c + adder \in 0..RPE
    BY BdosAssumption
  <2>2. Live(m.fcb) /\ ~m.fcb.stuck
    BY <1>2 DEF Live
  <2>3. Whole(k, O) /\ Alike(m, k) /\ SameKey(k.fcb, m.fcb) /\ Tells(m, k)
    BY Zenon, <2>1, <2>2, CrSet
  <2>4. n = Transfer(k, "read", RecordOf(m.fcb, c), COMBLK(m.fcb, c))
    BY <1>2 DEF RDSEQ2
  <2> HIDE DEF k
  <2>5. /\ Whole(n, O) /\ n.dir = k.dir /\ n.alv = k.alv /\ n.wp = k.wp
        /\ n.xfer.name = k.fcb.name /\ n.xfer.rec = RecordOf(m.fcb, c)
        /\ n.xfer.blk = COMBLK(m.fcb, c)
        /\ n.fcb = k.fcb /\ n.data = k.data /\ n.boot = k.boot
    BY <2>3, <2>4, Transferred
  <2>6. /\ m.fcb \in Fcb /\ Fits(m.dir, m.alv, m.fcb) /\ Saved(m.dir, m.fcb)
        /\ COMBLK(m.fcb, c) # 0 /\ k.fcb.name = m.fcb.name
    BY <1>2, <2>2, <2>3 DEF Whole, Base, IsMachine, FcbOk, SameKey
  <2>7. Proper(m.dir, n.xfer)
    BY Zenon, <2>5, <2>6, Placed
  <2>8. Tells(k, n)
    BY <2>5, SimilarSelf, TellsSame
  <2>9. Tells(m, n)
    BY <2>3, <2>8, TellsOn
  <2> QED BY <2>3, <2>5, <2>7, <2>9 DEF Alike
<1> QED BY <1>1, <1>2

(* RDSEQ1 moves to the next extent first when it has to. *)
LEMMA RdSeq1 ==
  ASSUME NEW O \in SUBSET Fcb, NEW m, Whole(m, O), NEW adder \in {0, 1},
         Counted(m.fcb), m.xfer.op = "none", NEW n, n = RDSEQ1(m, adder)
  PROVE  Whole(n, O) /\ Guarded(m, n) /\ Proper(n.dir, n.xfer) /\ Tells(m, n)
<1>0. /\ m.fcb.cr \in 0..RPE /\ m.fcb.rc \in 0..RPE /\ RPE \in Nat \ {0}
      /\ m.fcb.stuck => m.fcb.cr = RPE
      /\ m.fcb.s2 \in 0..127
  BY BdosAssumption DEF Whole, Base, IsMachine, Fcb, FcbOk
<1>1. CASE m.fcb.cr < m.fcb.rc
  <2>1. n = RDSEQ2(m, m.fcb.cr, adder)
    BY <1>1 DEF RDSEQ1
  <2>2. m.fcb.cr \in 0..RPE - 1 /\ Live(m.fcb)
    BY <1>0, <1>1 DEF Live, Counted, Lost
  <2> QED BY <2>1, <2>2, RdSeq2 DEF Guarded
<1>2. CASE ~(m.fcb.cr < m.fcb.rc) /\ m.fcb.cr # RPE
  <2>1. n = IOERR1(m)
    BY <1>2 DEF RDSEQ1
  <2> QED BY <2>1, IoErr1 DEF Alike, Guarded, Proper
<1>3. CASE ~(m.fcb.cr < m.fcb.rc) /\ m.fcb.cr = RPE
  <2> DEFINE k == GETNEXT(m, TRUE)
  <2>1. n = RDSEQ2(k, 0, adder)
    BY <1>3 DEF RDSEQ1
  <2>2. Whole(k, O) /\ Moves(m, {m.fcb}, k) /\ (k.st = 0 => Live(k.fcb)) /\ Tells(m, k)
    BY Zenon, <1>3, GetNext
  <2> HIDE DEF k
  <2>3. 0 \in 0..RPE - 1 /\ k.xfer.op = "none"
    BY <1>0, <2>2 DEF Moves
  <2>4. /\ Whole(n, O) /\ Proper(n.dir, n.xfer)
        /\ n.dir = k.dir /\ n.alv = k.alv /\ n.wp = k.wp /\ Tells(k, n)
    BY <2>1, <2>2, <2>3, RdSeq2
  <2>5. Tells(m, n)
    BY <2>2, <2>4, TellsOn
  <2> QED BY <2>2, <2>4, <2>5 DEF Guarded, Moves
<1> QED BY <1>1, <1>2, <1>3

----------------------------------------------------------------------------
(* Writing. *)

(* WTSEQ10 gives the FCB the record's block and counts the record. *)
LEMMA WtSeq10 ==
  ASSUME NEW f \in Fcb, NEW c \in 0..RPE - 1, NEW b \in Block
  PROVE  /\ WTSEQ10(f, c, b) \in Fcb /\ SameKey(WTSEQ10(f, c, b), f)
         /\ WTSEQ10(f, c, b).al = [f.al EXCEPT ![c \div RPB] = b]
         /\ WTSEQ10(f, c, b).cr = f.cr /\ WTSEQ10(f, c, b).stuck = f.stuck
         /\ ~WTSEQ10(f, c, b).unmod
<1> DEFINE x == [f.al EXCEPT ![c \div RPB] = b]
           k == IF c < f.rc THEN f.rc ELSE c + 1
           n == [f EXCEPT !.al = x, !.rc = k, !.unmod = FALSE]
<1>1. WTSEQ10(f, c, b) = n
  BY DEF WTSEQ10, Fcb
<1>2. x \in [Ptr -> Block]
  BY Zenon DEF Fcb
<1>3. k \in 0..RPE
  BY BdosAssumption DEF Fcb
<1> HIDE DEF x, k
<1>4. n \in Fcb /\ n.al = x /\ n.cr = f.cr /\ n.stuck = f.stuck /\ ~n.unmod
  BY Zenon, <1>2, <1>3 DEF Fcb
<1>5. SameKey(n, f)
  BY DEF Fcb, SameKey
<1> QED BY <1>1, <1>4, <1>5 DEF x

(* The record written is one of the extent f is at. *)
About(x, f) == x.name = f.name /\ x.rec \div RPE = f.s2 * EXTS + f.ex /\ x.op = "write"

(* A record is written to block b, which may be new to the FCB. *)
LEMMA PutRec ==
  ASSUME NEW O, NEW m, Base(m, O), NEW c \in 0..RPE - 1, NEW b \in Block, b # 0,
         NEW v \in Data, Live(m.fcb), Saved(m.dir, m.fcb),
         Fits(m.dir, m.alv, WTSEQ10(m.fcb, c, b)),
         \A g \in O : Apart(WTSEQ10(m.fcb, c, b), g),
         NEW n, n = PutRecord(m, c, b, v)
  PROVE  /\ Whole(n, O) /\ n.fcb.cr = m.fcb.cr /\ n.wp = m.wp
         /\ Proper(n.dir, n.xfer) /\ About(n.xfer, n.fcb)
         /\ n.dir = m.dir /\ n.boot = m.boot /\ SameKey(n.fcb, m.fcb) /\ Live(n.fcb)
         /\ n.fcb.al = [m.fcb.al EXCEPT ![c \div RPB] = b]
         /\ n.data = [m.data EXCEPT ![LOGICAL(b, c)] = v]
<1> DEFINE f == WTSEQ10(m.fcb, c, b)
           x == Note(m, DataWritten(LOGICAL(b, c), v))
           d == [m.data EXCEPT ![LOGICAL(b, c)] = v]
           k == [m EXCEPT !.data = d, !.io = x, !.fcb = f]
<1>0. IsMachine(m) /\ m.fcb \in Fcb
  BY Zenon DEF Base, IsMachine
<1>1. /\ f \in Fcb /\ SameKey(f, m.fcb) /\ f.cr = m.fcb.cr /\ f.stuck = m.fcb.stuck
      /\ ~f.unmod /\ f.al = [m.fcb.al EXCEPT ![c \div RPB] = b]
  BY <1>0, WtSeq10
<1>2. d \in [Sector -> Data]
  BY Zenon, <1>0 DEF IsMachine
<1>3. n = Transfer(k, "write", RecordOf(m.fcb, c), b)
  BY <1>0 DEF PutRecord, IsMachine
<1>4. Saved(m.dir, f)
  BY Zenon, <1>1 DEF Saved, SameKey
<1>5. FcbOk(m.dir, m.alv, f)
  BY <1>1, <1>4 DEF FcbOk, Live, SameKey
<1>6. COMBLK(f, c) = b
  <2>1. c \div RPB \in Ptr /\ m.fcb.al \in [Ptr -> Block]
    BY <1>0, PtrOf DEF Fcb
  <2> QED BY <1>1, <2>1 DEF COMBLK
<1> HIDE DEF f, x, d
<1>7. IsMachine(k)
  BY Zenon, <1>0, <1>1, <1>2 DEF IsMachine
<1>8. /\ k.dir = m.dir /\ k.mark = m.mark /\ k.alv = m.alv /\ k.fcb = f /\ k.wp = m.wp
      /\ k.data = d /\ k.boot = m.boot
  BY <1>0 DEF IsMachine
<1> HIDE DEF k
<1>9. Whole(k, O)
  BY <1>5, <1>7, <1>8 DEF Whole, Base, f
<1>10. /\ Whole(n, O) /\ n.dir = k.dir /\ n.fcb = k.fcb /\ n.wp = k.wp
       /\ n.xfer.op = "write" /\ n.xfer.name = k.fcb.name
       /\ n.xfer.rec = RecordOf(m.fcb, c) /\ n.xfer.blk = b
       /\ n.data = k.data /\ n.boot = k.boot
  BY <1>3, <1>9, Transferred
<1>11. RecordOf(m.fcb, c) = RecordOf(f, c)
  BY <1>1 DEF RecordOf, SameKey
<1>12. Proper(m.dir, n.xfer)
  <2>1. Fits(m.dir, m.alv, f)
    BY DEF f
  <2> QED BY <1>1, <1>4, <1>6, <1>8, <1>10, <1>11, <2>1, Placed
<1>13. About(n.xfer, n.fcb)
  BY <1>1, <1>8, <1>10, <1>11, RecordExtent DEF About
<1>14. Live(f)
  BY Zenon, <1>1 DEF Live, SameKey
<1> QED BY <1>1, <1>8, <1>10, <1>12, <1>13, <1>14 DEF d

(* WTSEQ6 writes the record and counts it. *)
LEMMA WtSeq6 ==
  ASSUME NEW O, NEW m, Whole(m, O), Live(m.fcb), m.fcb.cr < RPE, NEW v \in Data,
         COMBLK(m.fcb, m.fcb.cr) # 0, ~m.wp, NEW n, n = WTSEQ6(m, v)
  PROVE  /\ Whole(n, O) /\ n.fcb.cr = m.fcb.cr /\ n.wp = m.wp
         /\ Proper(n.dir, n.xfer) /\ About(n.xfer, n.fcb)
         /\ n.boot = m.boot /\ \E b \in Block : Writes(m, n, m.fcb.cr, b)
<1> DEFINE c == m.fcb.cr
           b == m.fcb.al[c \div RPB]
           f == WTSEQ10(m.fcb, c, b)
<1>0. IsMachine(m) /\ m.fcb \in Fcb /\ Base(m, O)
  BY DEF Whole, Base, IsMachine
<1>1. c \in 0..RPE - 1
  BY <1>0, BdosAssumption DEF Fcb
<1>2. c \div RPB \in Ptr
  BY <1>1, PtrOf
<1>3. b \in Block /\ b # 0
  BY <1>0, <1>2 DEF Fcb, COMBLK
<1>4. f \in Fcb /\ SameKey(f, m.fcb) /\ f.stuck = m.fcb.stuck
  BY Zenon, <1>0, <1>1, <1>3, WtSeq10
<1>5. f.al = m.fcb.al
  <2>1. f.al = [m.fcb.al EXCEPT ![c \div RPB] = b]
    BY <1>0, <1>1, <1>3, WtSeq10
  <2>2. m.fcb.al \in [Ptr -> Block]
    BY <1>0 DEF Fcb
  <2>3. [m.fcb.al EXCEPT ![c \div RPB] = b] = m.fcb.al
    BY <2>2
  <2> QED BY <2>1, <2>3
<1> HIDE DEF f
<1>6. Fits(m.dir, m.alv, f)
  BY <1>4, <1>5 DEF Whole, FcbOk, Fits, Owned, SameKey
<1>7. \A g \in O : Apart(f, g)
  BY <1>4, <1>5 DEF Whole, Apart, SameKey, Live
<1>8. n = PutRecord(m, c, b, v) /\ Saved(m.dir, m.fcb)
  BY DEF WTSEQ6, COMBLK, Whole, FcbOk
<1>a. b = m.fcb.al[c \div RPB]
  OBVIOUS
<1> HIDE DEF b, c
<1>9. /\ Whole(n, O) /\ n.fcb.cr = m.fcb.cr /\ n.wp = m.wp
      /\ Proper(n.dir, n.xfer) /\ About(n.xfer, n.fcb)
      /\ n.dir = m.dir /\ n.boot = m.boot /\ SameKey(n.fcb, m.fcb) /\ Live(n.fcb)
      /\ n.fcb.al = [m.fcb.al EXCEPT ![c \div RPB] = b]
      /\ n.data = [m.data EXCEPT ![LOGICAL(b, c)] = v]
  BY <1>0, <1>1, <1>3, <1>6, <1>7, <1>8, PutRec DEF f
<1>10. Writes(m, n, c, b)
  <2>1. n.data \in [Sector -> Data] /\ m.data \in [Sector -> Data]
    BY Zenon, <1>0, <1>9 DEF Whole, Base, IsMachine
  <2>2. \A s \in Sector : s # LOGICAL(b, c) => n.data[s] = m.data[s]
    BY Zenon, <1>9, <2>1
  <2> QED BY Zenon, <1>3, <1>9, <1>a, <2>1, <2>2 DEF Writes
<1> QED BY <1>3, <1>9, <1>10 DEF c

(* The block is marked before the record is written, and zeroed if need be. *)
LEMMA MarkedBlock ==
  ASSUME NEW m, IsMachine(m), NEW b \in Block,
         NEW n \in {Marked(m, b), ZeroBlock(Marked(m, b), b)}
  PROVE  /\ IsMachine(n) /\ n.dir = m.dir /\ n.mark = m.mark /\ n.alv = m.alv \cup {b}
         /\ n.fcb = m.fcb /\ n.wp = m.wp /\ n.boot = m.boot
         /\ \A s \in Sector : s \div RPB # b => n.data[s] = m.data[s]
<1> DEFINE a == [m EXCEPT !.alv = m.alv \cup {b}]
           d == [s \in Sector |-> IF s \div RPB = b THEN Zero ELSE a.data[s]]
           x == IF "io" \in Watch
                THEN a.io \o [k \in 1..RPB |-> DataWritten(b * RPB + k - 1, Zero)] ELSE a.io
           z == [a EXCEPT !.data = d, !.io = x]
<1>1. Marked(m, b) = a /\ ZeroBlock(a, b) = z
  BY DEF Marked, ZeroBlock, IsMachine
<1>2. /\ IsMachine(a) /\ a.dir = m.dir /\ a.mark = m.mark /\ a.alv = m.alv \cup {b}
      /\ a.fcb = m.fcb /\ a.wp = m.wp /\ a.boot = m.boot /\ a.data = m.data
  <2>1. m.alv \cup {b} \in SUBSET Block
    BY DEF IsMachine
  <2> QED BY <2>1 DEF IsMachine
<1>3. d \in [Sector -> Data]
  <2>1. a.data \in [Sector -> Data]
    BY <1>2 DEF IsMachine
  <2> HIDE DEF a
  <2> QED BY <2>1, BdosAssumption
<1>a. \A s \in Sector : s \div RPB # b => d[s] = a.data[s]
  OBVIOUS
<1> HIDE DEF a, d, x
<1>4. /\ IsMachine(z) /\ z.dir = a.dir /\ z.mark = a.mark /\ z.alv = a.alv
      /\ z.fcb = a.fcb /\ z.wp = a.wp /\ z.boot = a.boot /\ z.data = d
  BY Zenon, <1>2, <1>3 DEF IsMachine
<1> HIDE DEF z
<1>5. n = a \/ n = z
  BY <1>1
<1>6. CASE n = a
  BY <1>2, <1>6
<1>7. CASE n = z
  BY <1>2, <1>4, <1>7, <1>a
<1> QED BY <1>5, <1>6, <1>7

(* The free block b, if there is one, is given to the FCB's record. *)
Added(m, n, b, O) ==
  /\ Whole(n, O) /\ n.fcb.cr = m.fcb.cr /\ n.wp = m.wp
  /\ Proper(n.dir, n.xfer) /\ (n.st = 0 => About(n.xfer, n.fcb))
  /\ n.boot = m.boot /\ (b = 0 => Tells(m, n))
  /\ b # 0 => Writes(m, n, m.fcb.cr, b)

(* WTSEQ3 gives the FCB a new block when the record has none. *)
LEMMA WtSeq3 ==
  ASSUME NEW O \in SUBSET Fcb, NEW m, Whole(m, O), Live(m.fcb), m.fcb.cr < RPE,
         NEW v \in Data, NEW mode \in {0, 1, 2}, NEW b \in Block, b # 0 => b \notin m.alv,
         m.xfer.op = "none", COMBLK(m.fcb, m.fcb.cr) = 0, ~m.wp,
         NEW k, k = WTSEQ3(m, b, mode, v)
  PROVE  Added(m, k, b, O)
<1>0. IsMachine(m) /\ m.fcb \in Fcb /\ Base(m, O) /\ m.dir \in [Pos -> Entry \cup {Unused}]
  BY DEF Whole, Base, IsMachine
<1>1. CASE b = 0
  <2>1. 2 \in 0..255
    OBVIOUS
  <2>2. k = [m EXCEPT !.st = 2]
    BY <1>1 DEF WTSEQ3
  <2>3. /\ Whole([m EXCEPT !.st = 2], O) /\ Alike(m, [m EXCEPT !.st = 2])
        /\ [m EXCEPT !.st = 2].fcb = m.fcb /\ [m EXCEPT !.st = 2].st = 2
    <3> DEFINE w == [m EXCEPT !.st = 2]
    <3>1. IsMachine(w) /\ Alike(m, w) /\ w.fcb = m.fcb /\ w.st = 2
      BY <1>0, <2>1 DEF IsMachine, Alike
    <3> HIDE DEF w
    <3>2. Base(w, O)
      BY <1>0, <3>1, AlikeKeeps
    <3>3. Whole(w, O)
      BY <3>1, <3>2 DEF Whole, Alike
    <3> QED BY <3>1, <3>3 DEF w
  <2>4. Whole(k, O) /\ k.fcb = m.fcb /\ k.st = 2 /\ Alike(m, k)
    BY <2>2, <2>3
  <2>5. Tells(m, k)
    BY <2>4, SimilarSelf, AlikeTells
  <2> QED BY <1>1, <2>4, <2>5 DEF Alike, Proper, Added
<1>2. CASE b # 0
  <2> DEFINE c == m.fcb.cr
             f == WTSEQ10(m.fcb, c, b)
             n == IF mode = 2 THEN ZeroBlock(Marked(m, b), b) ELSE Marked(m, b)
  <2>1. c \in 0..RPE - 1 /\ b \in Block /\ b \notin m.alv
    BY <1>0, <1>2, BdosAssumption DEF Fcb
  <2>2. c \div RPB \in Ptr
    BY <2>1, PtrOf
  <2>3. f \in Fcb /\ SameKey(f, m.fcb) /\ f.al = [m.fcb.al EXCEPT ![c \div RPB] = b]
    BY <1>0, <2>1, WtSeq10
  <2>4. Fits(m.dir, m.alv, m.fcb) /\ Saved(m.dir, m.fcb)
    BY DEF Whole, FcbOk
  <2>5. /\ DirOk(m.dir, m.mark, m.alv \cup {b}) /\ Fits(m.dir, m.alv \cup {b}, f)
        /\ \A g \in Fcb : FcbOk(m.dir, m.alv, g) => FcbOk(m.dir, m.alv \cup {b}, g)
        /\ \A g \in Fcb : FcbOk(m.dir, m.alv, g) /\ Apart(m.fcb, g) /\ Live(m.fcb) => Apart(f, g)
    <3> HIDE DEF f, c
    <3> QED BY ZenonT(30), <1>0, <2>1, <2>2, <2>3, <2>4, FreshCore DEF Base
  <2>6. k = PutRecord(n, c, b, v)
    BY <1>2 DEF WTSEQ3
  <2>7. /\ IsMachine(n) /\ n.dir = m.dir /\ n.mark = m.mark /\ n.alv = m.alv \cup {b}
        /\ n.fcb = m.fcb /\ n.wp = m.wp /\ n.boot = m.boot
        /\ \A s \in Sector : s \div RPB # b => n.data[s] = m.data[s]
    <3>1. n \in {Marked(m, b), ZeroBlock(Marked(m, b), b)}
      OBVIOUS
    <3> HIDE DEF n
    <3> QED BY <1>0, <2>1, <3>1, MarkedBlock
  <2> HIDE DEF n
  <2>8. Base(n, O)
    BY Zenon, <1>0, <2>5, <2>7 DEF Base
  <2>9. \A g \in O : Apart(f, g)
    BY <1>0, <2>5 DEF Whole, Base
  <2>10. /\ Live(n.fcb) /\ Fits(n.dir, n.alv, WTSEQ10(n.fcb, c, b)) /\ Saved(n.dir, n.fcb)
         /\ \A g \in O : Apart(WTSEQ10(n.fcb, c, b), g)
    BY Zenon, <2>4, <2>5, <2>7, <2>9
  <2>11. /\ Whole(k, O) /\ k.fcb.cr = n.fcb.cr /\ k.wp = n.wp
         /\ Proper(k.dir, k.xfer) /\ About(k.xfer, k.fcb)
         /\ k.dir = n.dir /\ k.boot = n.boot /\ SameKey(k.fcb, n.fcb) /\ Live(k.fcb)
         /\ k.fcb.al = [n.fcb.al EXCEPT ![c \div RPB] = b]
         /\ k.data = [n.data EXCEPT ![LOGICAL(b, c)] = v]
    <3> HIDE DEF c, f
    <3> QED BY SMTT(30), <1>2, <2>1, <2>6, <2>8, <2>10, PutRec
  <2>12. Writes(m, k, c, b)
    <3>1. k.data \in [Sector -> Data] /\ n.data \in [Sector -> Data]
      BY Zenon, <2>7, <2>11 DEF Whole, Base, IsMachine
    <3>2. \A s \in Sector : s # LOGICAL(b, c) => k.data[s] = n.data[s]
      BY Zenon, <2>11, <3>1
    <3>3. m.fcb.al[c \div RPB] = 0
      BY DEF COMBLK
    <3> HIDE DEF c
    <3> QED BY ZenonT(30), <1>2, <2>1, <2>7, <2>11, <3>1, <3>2, <3>3 DEF Writes
  <2> QED BY <1>2, <2>7, <2>11, <2>12 DEF Added
<1> QED BY <1>1, <1>2

(* WTSEQ11 sets the current record after GETNEXT. *)
LEMMA WtSeq11 ==
  ASSUME NEW O, NEW m, Whole(m, O), m.st = 0 => ~m.fcb.stuck
  PROVE  Whole(WTSEQ11(m), O) /\ Alike(m, WTSEQ11(m)) /\ Tells(m, WTSEQ11(m))
<1> DEFINE k == IF m.st = 0 THEN 0 ELSE RPE
           a == [m EXCEPT !.fcb.cr = k]
<1>1. k \in 0..RPE /\ (m.fcb.stuck => k = RPE)
  BY BdosAssumption
<1>2. WTSEQ11(m) = [a EXCEPT !.st = 0]
  BY Zenon DEF WTSEQ11, Whole, Base, IsMachine
<1> HIDE DEF k
<1>3. Whole(a, O) /\ Alike(m, a) /\ Tells(m, a)
  BY Zenon, <1>1, CrSet
<1> HIDE DEF a
<1>4. 0 \in 0..255 /\ IsMachine(a)
  BY <1>3 DEF Whole, Base
<1>5. /\ Whole([a EXCEPT !.st = 0], O) /\ Alike(a, [a EXCEPT !.st = 0])
      /\ [a EXCEPT !.st = 0].fcb = a.fcb
  BY <1>3, <1>4, SetStat, Zenon
<1>6. Tells(a, [a EXCEPT !.st = 0])
  BY Zenon, <1>5, SimilarSelf, AlikeTells
<1>7. Tells(m, [a EXCEPT !.st = 0])
  BY <1>3, <1>6, TellsOn
<1> QED BY <1>2, <1>3, <1>5, <1>7 DEF Alike

(* What GETNEXT writes for the extent of a transfer stays in that extent. *)
LEMMA StaysProper ==
  ASSUME NEW d, NEW d1, NEW f, NEW x, Grown(d, {f}, d1), Proper(d, x), About(x, f)
  PROVE  Proper(d1, x)
<1> SUFFICES ASSUME NEW p \in Used(d1), x.blk \in Blocks(d1[p])
             PROVE  d1[p].name = x.name /\ d1[p].s2 * EXTS + d1[p].ex = x.rec \div RPE
  BY DEF Proper, About
<1>1. PICK i \in Ptr : x.blk = d1[p].al[i] /\ d1[p].al[i] # 0
  BY DEF Blocks
<1>2. CASE p \in Used(d) /\ SameKey(d1[p], d[p]) /\ d1[p].al[i] = d[p].al[i]
  <2>1. x.blk \in Blocks(d[p])
    BY <1>1, <1>2 DEF Blocks
  <2>2. d[p].name = x.name /\ d[p].s2 * EXTS + d[p].ex = x.rec \div RPE
    BY <1>2, <2>1 DEF Proper, About
  <2> QED BY <1>2, <2>2 DEF SameKey
<1>3. CASE SameKey(d1[p], f)
  BY <1>3 DEF SameKey, About
<1> QED BY <1>1, <1>2, <1>3 DEF Grown

(* WTSEQ99 moves to the next extent after the last record. *)
LEMMA WtSeq99 ==
  ASSUME NEW O \in SUBSET Fcb, NEW m, Whole(m, O), m.fcb.cr < RPE, NEW mode,
         Proper(m.dir, m.xfer), m.st = 0 => About(m.xfer, m.fcb),
         ~m.wp, NEW n, n = WTSEQ99(m, mode)
  PROVE  /\ Whole(n, O) /\ n.wp = m.wp /\ Proper(n.dir, n.xfer)
         /\ Tells(m, n) /\ n.boot = m.boot
<1>0. m.fcb.cr \in 0..RPE /\ RPE \in Nat \ {0} /\ IsMachine(m)
  BY Zenon, BdosAssumption DEF Whole, Base, IsMachine, Fcb
<1>1. ~m.fcb.stuck
  BY <1>0 DEF Whole, FcbOk
<1>2. CASE m.st # 0 \/ mode # 1
  <2>1. n = m
    BY Zenon, <1>2 DEF WTSEQ99
  <2>2. Tells(m, m)
    BY SimilarSelf, TellsSame
  <2> QED BY <2>1, <2>2
<1>3. CASE ~(m.st # 0 \/ mode # 1) /\ m.fcb.cr # RPE - 1
  <2> DEFINE c == m.fcb.cr + 1
  <2>1. c \in 0..RPE
    BY <1>0
  <2>2. n = [m EXCEPT !.fcb.cr = c]
    BY <1>0, <1>3 DEF WTSEQ99, IsMachine, Fcb
  <2> HIDE DEF c
  <2>3. /\ Whole([m EXCEPT !.fcb.cr = c], O) /\ Alike(m, [m EXCEPT !.fcb.cr = c])
        /\ Tells(m, [m EXCEPT !.fcb.cr = c])
    BY Zenon, <1>1, <2>1, CrSet
  <2> QED BY <2>2, <2>3 DEF Alike
<1>4. CASE ~(m.st # 0 \/ mode # 1) /\ m.fcb.cr = RPE - 1
  <2> DEFINE a == [m EXCEPT !.fcb.cr = RPE]
             k == GETNEXT(a, FALSE)
  <2>1. RPE \in 0..RPE
    BY <1>0
  <2>2. /\ Whole(a, O) /\ a.fcb.cr = RPE /\ Alike(m, a) /\ SameKey(a.fcb, m.fcb)
        /\ Tells(m, a)
    BY <1>1, <2>1, CrSet
  <2>3. n = WTSEQ11(k)
    BY <1>4 DEF WTSEQ99
  <2> HIDE DEF a
  <2>4. /\ Whole(k, O) /\ (k.st = 0 => ~k.fcb.stuck) /\ Moves(a, {a.fcb}, k)
        /\ Tells(a, k) /\ (~a.wp => k.boot = a.boot)
    BY Zenon, <2>2, GetNext
  <2> HIDE DEF k
  <2>5. Whole(n, O) /\ Alike(k, n) /\ Tells(k, n)
    BY <2>3, <2>4, WtSeq11
  <2>6. About(m.xfer, a.fcb)
    BY <1>4, <2>2 DEF About, SameKey
  <2>7. Grown(m.dir, {a.fcb}, k.dir) /\ k.xfer = m.xfer /\ k.wp = m.wp
    BY <2>2, <2>4 DEF Moves, Alike
  <2>8. Proper(k.dir, m.xfer)
    BY Zenon, <2>6, <2>7, StaysProper
  <2>9. Tells(m, n)
    BY <2>2, <2>4, <2>5, TellsOn
  <2> QED BY Zenon, <2>2, <2>4, <2>5, <2>7, <2>8, <2>9 DEF Alike
<1> QED BY <1>2, <1>3, <1>4

(* A warm boot needs nothing of the FCB. *)
LEMMA Booted ==
  ASSUME NEW O \in SUBSET Fcb, NEW m, Base(m, O), NEW n, n = Boot(m)
  PROVE  /\ Base(n, O) /\ n.boot
         /\ n.dir = m.dir /\ n.alv = m.alv /\ n.wp = m.wp /\ n.xfer = m.xfer
         /\ Drops(m, n)
<1>0. IsMachine(m) /\ n = [m EXCEPT !.boot = TRUE]
  BY DEF Base, Boot
<1>1. IsMachine(n)
  BY ZenonT(30), <1>0 DEF IsMachine
<1>2. /\ n.dir = m.dir /\ n.mark = m.mark /\ n.alv = m.alv /\ n.boot /\ n.wp = m.wp
      /\ n.xfer = m.xfer /\ n.data = m.data
  BY <1>0 DEF IsMachine
<1>3. Base(n, O)
  BY <1>1, <1>2 DEF Base
<1>4. Drops(m, n)
  BY <1>2 DEF Drops, Shown
<1> QED BY <1>2, <1>3, <1>4

(* WTSEQ1 as a whole: every exit keeps the machine. *)
LEMMA WtSeq1 ==
  ASSUME NEW O \in SUBSET Fcb, NEW m, Whole(m, O), m.fcb.s2 # Lost,
         NEW mode \in {0, 1, 2}, NEW v \in Data, m.xfer.op = "none", ~m.boot,
         NEW w, w = WTSEQ1(m, mode, v)
  PROVE  Over(w, O) /\ Guarded(m, w) /\ Proper(w.dir, w.xfer) /\ Outcome(m, w, O)
<1>0. /\ m.fcb \in Fcb /\ m.fcb.cr \in 0..RPE /\ RPE \in Nat \ {0} /\ Base(m, O)
      /\ m.alv \in SUBSET Block
  BY Zenon, BdosAssumption DEF Whole, Base, IsMachine, Fcb
<1>1. CASE m.wp \/ m.fcb.ro
  <2>1. w = Boot(m)
    BY <1>1 DEF WTSEQ1
  <2>2. /\ Base(w, O) /\ w.boot /\ w.dir = m.dir /\ w.alv = m.alv /\ w.wp = m.wp
        /\ w.xfer = m.xfer /\ Drops(m, w)
    BY <1>0, <2>1, Booted
  <2> QED BY Zenon, <2>2 DEF Over, Guarded, Proper, Outcome
<1>2. CASE ~(m.wp \/ m.fcb.ro) /\ m.fcb.cr >= RPE
  <2>1. w = IOERR1(m)
    BY <1>2 DEF WTSEQ1
  <2>2. Whole(w, O) /\ Alike(m, w) /\ Tells(m, w)
    BY <2>1, IoErr1
  <2> QED BY Zenon, <2>2 DEF Over, Whole, Alike, Guarded, Proper, Outcome
<1>3. CASE ~(m.wp \/ m.fcb.ro) /\ ~(m.fcb.cr >= RPE)
  <2> DEFINE c == m.fcb.cr
             b == Space(m, c)
             n == IF COMBLK(m.fcb, c) # 0 THEN WTSEQ6(m, v) ELSE WTSEQ3(m, b, mode, v)
  <2>1. c < RPE /\ c \in 0..RPE - 1
    BY <1>0, <1>3
  <2>2. Live(m.fcb)
    BY <1>0, <2>1 DEF Whole, FcbOk, Live
  <2>3. w = WTSEQ99(n, mode)
    BY <1>3 DEF WTSEQ1
  <2>4. b \in Block /\ (b # 0 => b \notin m.alv)
    <3>0. 0 \in Block
      BY AllocAssumption DEF Block
    <3> DEFINE t == IF c < RPB THEN 0 ELSE COMBLK(m.fcb, c - RPB)
    <3>1. CASE c < RPB
      <4>1. t \in Block
        BY Zenon, <3>1, AllocAssumption DEF Block
      <4> HIDE DEF t
      <4> QED BY <1>0, <3>0, <4>1, NearestFree DEF Space, t
    <3>2. CASE ~(c < RPB)
      <4>1. c - RPB \in 0..RPE - 1
        BY <2>1, <3>2, BdosAssumption
      <4>2. (c - RPB) \div RPB \in Ptr
        BY <4>1, PtrOf
      <4>3. m.fcb.al[(c - RPB) \div RPB] \in Block
        BY <1>0, <4>2 DEF Fcb
      <4>4. t \in Block
        BY <3>2, <4>3 DEF COMBLK
      <4> HIDE DEF t
      <4> QED BY <1>0, <3>0, <4>4, NearestFree DEF Space, t
    <3> QED BY <3>1, <3>2
  <2> HIDE DEF b
  <2>5. /\ Whole(n, O) /\ n.fcb.cr = c /\ n.wp = m.wp
        /\ Proper(n.dir, n.xfer) /\ (n.st = 0 => About(n.xfer, n.fcb))
        /\ n.boot = m.boot /\ (Tells(m, n) \/ \E a \in Block : Writes(m, n, c, a))
    <3>1. CASE COMBLK(m.fcb, c) # 0
      <4>1. n = WTSEQ6(m, v)
        BY <3>1
      <4> HIDE DEF n
      <4>2. ~m.wp /\ m.fcb.cr < RPE /\ COMBLK(m.fcb, m.fcb.cr) # 0
        BY <1>3, <2>1, <3>1
      <4>3. /\ Whole(n, O) /\ n.fcb.cr = m.fcb.cr /\ n.wp = m.wp
            /\ Proper(n.dir, n.xfer) /\ About(n.xfer, n.fcb)
            /\ n.boot = m.boot /\ \E a \in Block : Writes(m, n, m.fcb.cr, a)
        BY <2>2, <4>1, <4>2, WtSeq6
      <4> QED BY Zenon, <4>3
    <3>2. CASE COMBLK(m.fcb, c) = 0
      <4>1. n = WTSEQ3(m, b, mode, v)
        BY <3>2
      <4> HIDE DEF n
      <4>2. ~m.wp /\ m.fcb.cr < RPE /\ COMBLK(m.fcb, m.fcb.cr) = 0
        BY <1>3, <2>1, <3>2
      <4>3. Added(m, n, b, O)
        BY Zenon, <2>2, <2>4, <4>1, <4>2, WtSeq3
      <4> QED BY Zenon, <2>4, <4>3 DEF Added
    <3> QED BY Zenon, <3>1, <3>2
  <2> HIDE DEF n
  <2>6. /\ Whole(w, O) /\ w.wp = n.wp /\ Proper(w.dir, w.xfer)
        /\ Tells(n, w) /\ w.boot = n.boot
    BY SMTT(30), <1>3, <2>1, <2>3, <2>5, WtSeq99
  <2>7. Outcome(m, w, O)
    <3>1. CASE Tells(m, n)
      BY Zenon, <2>5, <2>6, <3>1, TellsOn DEF Outcome
    <3>2. CASE \E a \in Block : Writes(m, n, c, a)
      <4>1. Tells(m, m)
        BY SimilarSelf, TellsSame
      <4>2. Wrote(m, w, O)
        BY <2>1, <2>6, <3>2, <4>1 DEF Wrote
      <4> QED BY Zenon, <2>5, <2>6, <4>2 DEF Outcome
    <3> QED BY Zenon, <2>5, <3>1, <3>2
  <2> QED BY Zenon, <1>3, <2>5, <2>6, <2>7 DEF Over, Whole, Guarded
<1> QED BY <1>1, <1>2, <1>3

----------------------------------------------------------------------------
(* Seeking. *)

(* POSITN4 marks the FCB as lost. *)
LEMMA Positn4 ==
  ASSUME NEW O \in SUBSET Fcb, NEW m, Base(m, O), ~m.fcb.stuck, NEW code \in 0..255
  PROVE  /\ Whole(POSITN4(m, code), O) /\ POSITN4(m, code).st = code
         /\ POSITN4(m, code).boot = m.boot /\ Alike(m, POSITN4(m, code))
         /\ Fresh(m, POSITN4(m, code))
<1> DEFINE f == [m.fcb EXCEPT !.s2 = Lost, !.unmod = TRUE]
           a == [m EXCEPT !.st = code]
           n == [a EXCEPT !.fcb = f]
<1>0. IsMachine(m) /\ m.fcb \in Fcb /\ Lost \in 0..127
  BY DEF Base, IsMachine, Lost
<1>1. POSITN4(m, code) = n
  BY Zenon, <1>0 DEF POSITN4, IsMachine, Fcb
<1>2. /\ f \in Fcb /\ f.s2 = Lost /\ f.unmod /\ f.stuck = m.fcb.stuck
      /\ f.name = m.fcb.name
  BY Zenon, <1>0 DEF Fcb
<1> HIDE DEF f
<1>3. Base(a, O) /\ Alike(m, a) /\ a.st = code
  BY <1>0, SetStat, Zenon
<1> HIDE DEF a
<1>4. IsMachine(n) /\ Alike(a, n) /\ n.fcb = f /\ n.st = code
  BY <1>2, <1>3, FcbSet DEF Base
<1> HIDE DEF n
<1>5. Base(n, O)
  BY <1>3, <1>4, AlikeKeeps
<1>6. FcbOk(n.dir, n.alv, f) /\ \A g \in O : Apart(f, g)
  BY <1>2 DEF FcbOk, Apart, Live
<1>7. Whole(n, O)
  BY <1>4, <1>5, <1>6 DEF Whole
<1>8. Fresh(m, n)
  BY SMTT(30), <1>2, <1>4 DEF Fresh, Covers, Live
<1> QED BY Zenon, <1>1, <1>3, <1>4, <1>7, <1>8 DEF Alike

(* POSITION closes one extent and opens another. *)
LEMMA Reopening ==
  ASSUME NEW O \in SUBSET Fcb, NEW m, Base(m, O), ~m.fcb.stuck,
         ~m.boot, NEW reading \in BOOLEAN,
         NEW n, n = Reopened(FINDFST(m), reading)
  PROVE  /\ Over(n, O) /\ Moves(m, {}, n)
         /\ n.st = 0 /\ ~n.boot => n.fcb.s2 = m.fcb.s2
         /\ reading => Whole(n, O) /\ ~n.boot
         /\ ~n.boot => Whole(n, O) /\ Fresh(m, n)
<1> DEFINE a == FINDFST(m)
<1>0. n = Reopened(a, reading)
  OBVIOUS
<1>1. /\ IsMachine(a) /\ Alike(m, a) /\ a.fcb = m.fcb
      /\ a.pos = NoPos => \A q \in Used(a.dir) : ~SameKey(a.dir[q], a.fcb)
      /\ a.pos # NoPos => a.pos \in Used(a.dir) /\ SameKey(a.dir[a.pos], a.fcb)
  BY Zenon, FindFst DEF Alike
<1> HIDE DEF a
<1>2. Base(a, O) /\ ~a.boot /\ Moves(m, {}, a)
  BY Zenon, <1>1, AlikeKeeps, AlikeMoves DEF Alike
<1>3. CASE a.pos # NoPos
  <2> DEFINE o == OPENIT1(a)
  <2>1. Whole(o, O) /\ SameKey(o.fcb, a.fcb) /\ Alike(a, o) /\ Fresh(a, o)
    BY Zenon, <1>1, <1>2, <1>3, OpenIt
  <2>2. n = SETSTAT0(o)
    BY <1>0, <1>3 DEF Reopened
  <2> HIDE DEF o
  <2>3. Whole(n, O) /\ n.fcb = o.fcb /\ Alike(o, n)
    BY <2>1, <2>2, SetStat0
  <2>4. Alike(a, n)
    BY Zenon, <2>1, <2>3 DEF Alike
  <2>5. Moves(m, {}, n)
    BY SMTT(30), <1>2, <2>4, AlikeMoves, MovesOn
  <2>6. Fresh(m, n)
    BY Zenon, <1>1, <2>1, <2>3 DEF Fresh, Alike
  <2> QED BY Zenon, <1>1, <1>2, <2>1, <2>3, <2>4, <2>5, <2>6 DEF Over, Whole, SameKey, Alike
<1>4. CASE a.pos = NoPos /\ reading
  <2>1. n = POSITN4(a, 4)
    BY <1>0, <1>4 DEF Reopened
  <2>2. Whole(n, O) /\ n.st = 4 /\ Alike(a, n) /\ Fresh(a, n)
    <3>1. 4 \in 0..255
      OBVIOUS
    <3>2. /\ Whole(POSITN4(a, 4), O) /\ POSITN4(a, 4).st = 4 /\ Alike(a, POSITN4(a, 4))
          /\ Fresh(a, POSITN4(a, 4))
      BY ZenonT(30), <1>1, <1>2, <3>1, Positn4
    <3> QED BY <2>1, <3>2
  <2>3. Moves(m, {}, n)
    BY <1>2, <2>2, AlikeMoves, MovesOn
  <2>4. n.st # 0
    BY <2>2
  <2>5. ~n.boot /\ Fresh(m, n)
    BY Zenon, <1>1, <1>2, <2>2 DEF Alike, Fresh
  <2> QED BY Zenon, <2>2, <2>3, <2>4, <2>5 DEF Over, Whole
<1>5. CASE a.pos = NoPos /\ ~reading
  <2> DEFINE g == GETEMPTY(a)
  <2>1. n = POSITN3(g)
    BY SMTT(30), <1>0, <1>5 DEF Reopened
  <2>2. /\ Base(g, O) /\ Moves(a, {}, g)
        /\ g.pos = NoPos => g.fcb = a.fcb
        /\ g.pos # NoPos => Whole(g, O) /\ SameKey(g.fcb, a.fcb) /\ Fresh(a, g)
    BY Zenon, <1>1, <1>2, <1>5, GetEmpty
  <2> HIDE DEF g
  <2>a. Moves(m, {}, g)
    BY <1>2, <2>2, MovesOn
  <2>3. CASE g.boot
    <3>1. n = g
      BY <2>1, <2>3 DEF POSITN3
    <3> QED BY <1>5, <2>2, <2>3, <2>a, <3>1 DEF Over
  <2>4. CASE ~g.boot /\ g.pos = NoPos
    <3>1. n = POSITN4(g, 5)
      BY <2>1, <2>4 DEF POSITN3
    <3>2. Whole(n, O) /\ n.st = 5 /\ Alike(g, n) /\ Fresh(g, n)
      <4>1. 5 \in 0..255
        OBVIOUS
      <4>2. /\ Whole(POSITN4(g, 5), O) /\ POSITN4(g, 5).st = 5 /\ Alike(g, POSITN4(g, 5))
            /\ Fresh(g, POSITN4(g, 5))
        <5>1. Base(g, O) /\ ~g.fcb.stuck
          BY Zenon, <1>1, <2>2, <2>4
        <5> QED BY ZenonT(30), <4>1, <5>1, Positn4
      <4> QED BY <3>1, <4>2
    <3>3. Moves(m, {}, n)
      BY SMTT(30), <2>a, <3>2, AlikeMoves, MovesOn
    <3>4. Fresh(m, n)
      BY Zenon, <1>1, <2>2, <2>4, <3>2 DEF Fresh
    <3> QED BY <1>5, <3>2, <3>3, <3>4 DEF Over, Whole
  <2>5. CASE ~g.boot /\ g.pos # NoPos
    <3>1. n = SETSTAT0(g)
      BY Zenon, <2>1, <2>5 DEF POSITN3
    <3>2. Whole(n, O) /\ n.fcb = g.fcb /\ Alike(g, n)
      BY Zenon, <2>2, <2>5, <3>1, SetStat0
    <3>3. Moves(m, {}, n)
      BY SMTT(30), <2>a, <3>2, AlikeMoves, MovesOn
    <3>4. Fresh(m, n)
      BY Zenon, <1>1, <2>2, <2>5, <3>2 DEF Fresh, Alike
    <3> QED BY Zenon, <1>1, <1>5, <2>2, <2>5, <3>2, <3>3, <3>4 DEF Over, Whole, SameKey
  <2> QED BY Zenon, <2>3, <2>4, <2>5
<1> QED BY Zenon, <1>3, <1>4, <1>5

(* A record number up to MaxRec names an extent that s2 and ex can count. *)
LEMMA RecordParts ==
  ASSUME NEW r \in 0..MaxRec
  PROVE  /\ r % RPE \in 0..RPE - 1 /\ (r \div RPE) % EXTS \in 0..EXTS - 1
         /\ r \div (RPE * EXTS) \in 0..15
<1>0. RPE \in Nat \ {0} /\ EXTS \in Nat \ {0} /\ S2S \in 1..16
  BY BdosAssumption
<1>1. r \in Nat
  BY <1>0 DEF MaxRec
<1>2. r % RPE \in 0..RPE - 1
  BY <1>0, <1>1
<1>3. r \div RPE \in Nat
  BY <1>0, <1>1
<1>4. (r \div RPE) % EXTS \in 0..EXTS - 1
  <2> DEFINE q == r \div RPE
  <2> HIDE DEF q
  <2>1. q \in Nat
    BY <1>3 DEF q
  <2>2. q % EXTS \in 0..EXTS - 1
    BY <1>0, <2>1
  <2> QED BY <2>2 DEF q
<1> DEFINE z == RPE * EXTS
<1>5. z \in Nat \ {0}
  BY <1>0
<1>6. MaxRec = S2S * z - 1
  BY <1>0 DEF MaxRec
<1> HIDE DEF z
<1>7. r < S2S * z
  <2>1. S2S * z \in Nat
    BY <1>0, <1>5
  <2> QED BY <1>6, <2>1
<1>8. S2S * z <= 16 * z
  BY <1>0, <1>5
<1>9. r < 16 * z
  BY <1>1, <1>0, <1>5, <1>7, <1>8
<1>10. r \div z \in 0..15
  BY <1>1, <1>5, <1>9
<1> QED BY <1>2, <1>4, <1>10 DEF z

(* POSITION as a whole: the FCB fits, or is marked as lost. *)
LEMMA Seek ==
  ASSUME NEW O \in SUBSET Fcb, NEW m, Whole(m, O), ~m.fcb.stuck, ~m.boot,
         NEW r \in 0..MaxRec, NEW reading \in BOOLEAN,
         NEW n, n = POSITION(m, r, reading)
  PROVE  /\ Over(n, O) /\ Guarded(m, n) /\ n.xfer = m.xfer
         /\ n.st = 0 /\ ~n.boot => Counted(n.fcb) /\ n.fcb.s2 # Lost
         /\ reading => Whole(n, O) /\ ~n.boot
         /\ IF n.boot THEN Drops(m, n) ELSE Tells(m, n)
<1> DEFINE x == (r \div RPE) % EXTS
           s == r \div (RPE * EXTS)
           k == r % RPE
           b == [m EXCEPT !.fcb.cr = k]
<1>1. k \in 0..RPE /\ x \in 0..EXTS - 1 /\ s \in 0..15 /\ s \in 0..127
  BY RecordParts, BdosAssumption
<1>2. n = POSITN1(b, x, s, reading)
  <2>1. ~(r > MaxRec)
    BY BdosAssumption DEF MaxRec
  <2> QED BY <2>1 DEF POSITION
<1> HIDE DEF k, x, s
<1>3. Whole(b, O) /\ ~b.fcb.stuck /\ ~b.boot /\ Alike(m, b) /\ Tells(m, b)
  BY SMTT(30), <1>1, CrSet DEF Alike
<1> HIDE DEF b
<1>4. CASE SameExtent(b.fcb, x, s)
  <2>1. n = SETSTAT0(b) /\ b.fcb.s2 = s
    BY Zenon, <1>2, <1>4 DEF POSITN1, SameExtent
  <2>2. Whole(n, O) /\ n.fcb = b.fcb /\ Alike(b, n)
    BY <1>3, <2>1, SetStat0
  <2>3. Tells(b, n)
    BY <2>2, SimilarSelf, AlikeTells
  <2>4. Tells(m, n)
    BY <1>3, <2>3, TellsOn
  <2>5. ~n.boot /\ n.xfer = m.xfer /\ Guarded(m, n)
    BY <1>3, <2>2 DEF Alike, Guarded
  <2>6. Over(n, O)
    BY Zenon, <2>2 DEF Over, Whole
  <2>7. Counted(n.fcb) /\ n.fcb.s2 # Lost
    BY SMTT(30), <1>1, <2>1, <2>2 DEF Counted, Lost
  <2> QED BY Zenon, <2>2, <2>4, <2>5, <2>6, <2>7
<1>5. CASE ~SameExtent(b.fcb, x, s)
  <2> DEFINE c == CLOSEIT(b)
  <2>1. n = POSITN2(c, x, s, reading)
    BY <1>2, <1>5 DEF POSITN1
  <2>2. /\ Whole(c, O) /\ ~c.fcb.stuck /\ ~c.boot /\ Moves(b, {b.fcb}, c)
        /\ Stored(b, c) /\ SameKey(c.fcb, b.fcb)
    BY Zenon, <1>3, CloseIt
  <2> HIDE DEF c
  <2>3. IsMachine(c) /\ Base(c, O) /\ c.fcb \in Fcb
    BY Zenon, <2>2 DEF Whole, Base, IsMachine
  <2>4. CASE c.st = NotFound
    <3>1. n = POSITN4(c, 3)
      BY <2>1, <2>4 DEF POSITN2
    <3>2. 3 \in 0..255
      OBVIOUS
    <3>3. /\ Whole(POSITN4(c, 3), O) /\ POSITN4(c, 3).st = 3 /\ Alike(c, POSITN4(c, 3))
          /\ Fresh(c, POSITN4(c, 3))
      BY ZenonT(30), <2>2, <2>3, <3>2, Positn4
    <3>4. Whole(n, O) /\ n.st = 3 /\ Alike(c, n) /\ Fresh(c, n)
      BY <3>1, <3>3
    <3>5. Tells(b, n)
      <4>1. Recorded(n.dir, n.fcb)
        BY Zenon, <3>4, UnmodRecorded DEF Whole, Fresh
      <4>2. Moves(b, {b.fcb}, n) /\ Stored(b, n) /\ Fresh(b, n)
        BY Zenon, <2>2, <3>4 DEF Alike, Moves, Stored, Fresh, SameKey
      <4> QED BY SMTT(30), <4>1, <4>2, TellsMoved
    <3>6. Tells(m, n)
      BY <1>3, <3>5, TellsOn
    <3> QED BY <1>3, <2>2, <3>4, <3>6 DEF Over, Whole, Alike, Moves, Guarded
  <2>5. CASE c.st # NotFound
    <3> DEFINE f == [c.fcb EXCEPT !.ex = x, !.s2 = s, !.unmod = FALSE]
               d == [c EXCEPT !.fcb = f]
    <3>1. n = Reopened(FINDFST(d), reading)
      BY Zenon, <2>1, <2>3, <2>5 DEF POSITN2, IsMachine, Fcb
    <3>2. f \in Fcb /\ f.s2 = s /\ f.stuck = c.fcb.stuck /\ f.name = c.fcb.name
      BY Zenon, <1>1, <2>3 DEF Fcb
    <3> HIDE DEF f
    <3>3. IsMachine(d) /\ Alike(c, d) /\ d.fcb = f
      BY SMTT(30), <2>3, <3>2, FcbSet
    <3> HIDE DEF d
    <3>4. Base(d, O) /\ ~d.boot /\ ~d.fcb.stuck /\ d.fcb.s2 = s
      BY Zenon, <1>1, <2>2, <2>3, <3>2, <3>3, AlikeKeeps DEF Alike
    <3>5. /\ Over(n, O) /\ Moves(d, {}, n) /\ (n.st = 0 /\ ~n.boot => n.fcb.s2 = s)
          /\ reading => Whole(n, O) /\ ~n.boot
          /\ ~n.boot => Whole(n, O) /\ Fresh(d, n)
      BY ZenonT(30), <3>1, <3>4, Reopening
    <3>6. Guarded(m, n) /\ n.xfer = m.xfer
      BY Zenon, <1>3, <2>2, <3>3, <3>5 DEF Alike, Moves, Guarded
    <3>7. Moves(b, {b.fcb}, n)
      <4>1. Moves(c, {}, d)
        BY <3>3, AlikeMoves
      <4>2. Moves(c, {}, n)
        BY SMTT(30), <3>5, <4>1, MovesOn
      <4> QED BY Zenon, <2>2, <4>2, MovesOn
    <3>8. CASE n.boot
      <4>1. Drops(m, n)
        BY Zenon, <1>3, <3>7, MovesDrops, TellsDrops
      <4> QED BY Zenon, <1>1, <3>5, <3>6, <3>8, <4>1 DEF Counted, Lost
    <3>9. CASE ~n.boot
      <4>1. Recorded(n.dir, n.fcb)
        BY Zenon, <3>5, <3>9, UnmodRecorded DEF Whole, Fresh
      <4>2. Stored(b, n)
        <5>1. Extends(c.dir, n.dir)
          BY Zenon, <3>3, <3>5 DEF Alike, Moves
        <5> QED BY Zenon, <2>2, <5>1, StaysListed DEF Stored, Recorded
      <4>3. Fresh(b, n)
        BY Zenon, <2>2, <3>2, <3>3, <3>5, <3>9 DEF Fresh, SameKey
      <4>4. Tells(m, n)
        BY Zenon, <1>3, <3>7, <4>1, <4>2, <4>3, TellsMoved, TellsOn
      <4> QED BY SMTT(30), <1>1, <3>5, <3>6, <3>9, <4>4 DEF Counted, Lost
    <3> QED BY Zenon, <3>8, <3>9
  <2> QED BY <2>4, <2>5
<1> QED BY <1>4, <1>5

(* A random read goes on only with an FCB that fits. *)
LEMMA RandomRead ==
  ASSUME NEW O \in SUBSET Fcb, NEW m, Whole(m, O), ~m.fcb.stuck, ~m.boot,
         m.xfer.op = "none", NEW r \in 0..MaxRec, NEW n, n = READRAN(m, r)
  PROVE  /\ Over(n, O) /\ Guarded(m, n) /\ Proper(n.dir, n.xfer)
         /\ Whole(n, O) /\ Tells(m, n)
<1> DEFINE p == POSITION(m, r, TRUE)
<1>1. p = POSITION(m, r, TRUE) /\ TRUE \in BOOLEAN
  BY Zenon
<1>2. n = IF p.st # 0 THEN p ELSE RDSEQ1(p, 0)
  BY DEF READRAN, ReadAt
<1> HIDE DEF p
<1>a. /\ Over(p, O) /\ Guarded(m, p) /\ p.xfer = m.xfer /\ Whole(p, O)
      /\ p.st = 0 => Counted(p.fcb)
      /\ Tells(m, p)
  BY ZenonT(30), <1>1, Seek
<1>3. CASE p.st # 0
  BY Zenon, <1>2, <1>3, <1>a DEF Proper
<1>4. CASE p.st = 0
  <2>1. n = RDSEQ1(p, 0) /\ Counted(p.fcb)
    BY Zenon, <1>2, <1>4, <1>a
  <2>2. Whole(n, O) /\ Guarded(p, n) /\ Proper(n.dir, n.xfer) /\ Tells(p, n)
    BY Zenon, <1>a, <2>1, RdSeq1
  <2>3. Tells(m, n)
    BY Zenon, <1>a, <2>2, TellsOn
  <2> QED BY Zenon, <1>a, <2>2, <2>3 DEF Over, Whole, Guarded
<1> QED BY Zenon, <1>3, <1>4

(* So does a random write. *)
LEMMA RandomWrite ==
  ASSUME NEW O \in SUBSET Fcb, NEW m, Whole(m, O), ~m.fcb.stuck, ~m.boot,
         m.xfer.op = "none", NEW r \in 0..MaxRec, NEW mode \in {0, 1, 2}, NEW v \in Data,
         NEW n, n = WRITERAN(m, r, mode, v)
  PROVE  Over(n, O) /\ Guarded(m, n) /\ Proper(n.dir, n.xfer) /\ Outcome(m, n, O)
<1> DEFINE p == POSITION(m, r, FALSE)
<1>1. /\ Over(p, O) /\ Guarded(m, p) /\ p.xfer = m.xfer
      /\ p.st = 0 /\ ~p.boot => p.fcb.s2 # Lost
      /\ IF p.boot THEN Drops(m, p) ELSE Tells(m, p)
  BY ZenonT(30), Seek
<1>2. n = WriteAt(p, mode, v)
  BY DEF WRITERAN
<1> HIDE DEF p
<1>3. CASE p.st # 0 \/ p.boot
  BY Zenon, <1>1, <1>2, <1>3 DEF WriteAt, Proper, Outcome
<1>4. CASE ~(p.st # 0 \/ p.boot)
  <2>1. n = WTSEQ1(p, mode, v)
    BY SMTT(30), <1>2, <1>4 DEF WriteAt
  <2>2. Whole(p, O) /\ p.fcb.s2 # Lost
    BY Zenon, <1>1, <1>4 DEF Over
  <2>3. Over(n, O) /\ Guarded(p, n) /\ Proper(n.dir, n.xfer) /\ Outcome(p, n, O)
    BY ZenonT(30), <1>1, <1>4, <2>1, <2>2, WtSeq1
  <2>4. Outcome(m, n, O)
    <3>1. Tells(m, p)
      BY Zenon, <1>1, <1>4
    <3>2. CASE n.boot
      BY Zenon, <2>3, <3>1, <3>2, TellsDrops DEF Outcome
    <3>3. CASE ~n.boot /\ Tells(p, n)
      BY Zenon, <3>1, <3>3, TellsOn DEF Outcome
    <3>4. CASE ~n.boot /\ Wrote(p, n, O)
      <4>1. PICK q, k : \E c \in 0..RPE - 1, b \in Block :
              Tells(p, q) /\ Whole(q, O) /\ Writes(q, k, c, b) /\ Tells(k, n)
        BY Zenon, <3>4 DEF Wrote
      <4>2. Tells(m, q)
        BY <3>1, <4>1, TellsOn
      <4>3. Wrote(m, n, O)
        BY Zenon, <4>1, <4>2 DEF Wrote
      <4> QED BY Zenon, <3>4, <4>3 DEF Outcome
    <3> QED BY Zenon, <2>3, <3>2, <3>3, <3>4 DEF Outcome
  <2> QED BY Zenon, <1>1, <2>3, <2>4 DEF Guarded
<1> QED BY Zenon, <1>3, <1>4
============================================================================
