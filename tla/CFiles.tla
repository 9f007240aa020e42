-------------------------------- MODULE CFiles -----------------------------
(***************************************************************************)
(* The unbuffered input and output of the Aztec C library C.LIB (OPEN.C,   *)
(* READ.C, WRITE.C, LSEEK.C, POSIT.C, CEOF.C, FIND.C, RENAME.C, UNLINK.C)  *)
(* as functions on a machine m: the channel table, the file table, and the *)
(* one work buffer through which every file transfers parts of a record.   *)
(***************************************************************************)
EXTENDS CDisk

CONSTANTS
  MAXCHAN, MAXFILE,  \* channels, open disk files: 11 and 8 in the code
  NoName             \* a name fcbinit refuses

Fd == 0..MAXCHAN - 1
Slot == 1..MAXFILE
NoFp == 0

(* The read, write, ioctl and seek numbers of the devices. *)
condev == [rd |-> 2, wr |-> 2, io |-> 1, sk |-> 0]
bdosout == [rd |-> 0, wr |-> 3, io |-> 0, sk |-> 0]
bdosin == [rd |-> 3, wr |-> 0, io |-> 0, sk |-> 0]
filedev == [rd |-> 1, wr |-> 1, io |-> 0, sk |-> 1]
devtabl == [con |-> condev, lst |-> bdosout, rdr |-> bdosin]
Device(n) == IF n \in DOMAIN devtabl THEN devtabl[n] ELSE filedev

Idle == [rd |-> 0, wr |-> 0, io |-> 0, sk |-> 0, cl |-> "bdf", arg |-> NoFp]
FreeFcb == [flags |-> 0, user |-> 0, name |-> NoName, rec |-> 0, off |-> 0]
NoWork == [fp |-> NoFp, sct |-> 0, buf |-> Blanks]

----------------------------------------------------------------------------
zap(m) == [m EXCEPT !.wrk.fp = NoFp]

(* Brings the record of file f into the work buffer.  Of the errors of a     *)
(* random read only "no such record" (1 or 4) happens: the file is in the    *)
(* directory, and f_overfl is 0.                                             *)
find(m, f) ==
  LET p == m.fcb[f]
      b == ReadRec(m, p.name, p.rec)
  IN IF m.wrk.fp = f /\ m.wrk.sct = p.rec THEN Ret(m, 0)
     ELSE IF b = Hole
     THEN Ret([m EXCEPT !.wrk = [fp |-> NoFp, sct |-> m.wrk.sct, buf |-> Blanks]], 1)
     ELSE Ret([m EXCEPT !.wrk = [fp |-> f, sct |-> p.rec, buf |-> b]], 0)

Advance(p, l) ==
  [p EXCEPT !.off = (p.off + l) % RECLEN,
            !.rec = IF (p.off + l) % RECLEN = 0 THEN @ + 1 ELSE @]

FromWork(m, f, l) ==
  IF m.ret # 0 THEN Fail(m)
  ELSE [m EXCEPT !.got = @ \o SubSeq(m.wrk.buf, m.fcb[f].off + 1, m.fcb[f].off + l),
                 !.fcb[f] = Advance(@, l)]
getsect(m, f, l) == FromWork(find(m, f), f, l)

ToWork(m, off, bs) ==
  [m EXCEPT !.wrk.buf = [i \in 1..RECLEN |->
     IF i \in off + 1..off + Len(bs) THEN bs[i - off] ELSE @[i]]]
ToDisk(m, f, bs) ==
  LET p == m.fcb[f]
  IN IF ~Writes(m, p.name, p.rec) THEN Fail(m)
     ELSE Ret([WriteRec(m, p.name, p.rec, m.wrk.buf) EXCEPT
                 !.got = @ \o bs, !.fcb[f] = Advance(@, Len(bs))], 0)
putsect(m, f, bs) == ToDisk(ToWork(find(m, f), m.fcb[f].off, bs), f, bs)

(* Whole records go past the work buffer, also the one it holds. *)
GetBlocks(m, f, k) ==
  LET p == m.fcb[f]
      j == blkrd(m, p.name, p.rec, k)
  IN [m EXCEPT !.got = @ \o RecordsRead(m, p.name, p.rec, j),
               !.fcb[f].rec = @ + j, !.ret = k - j]

PutBlocks(m, f, k, bs) ==
  LET p == m.fcb[f]
      j == blkwr(m, p.name, p.rec, k, bs)
  IN [WriteRecs(m, p.name, p.rec, j, bs) EXCEPT
        !.got = @ \o SubSeq(bs, 1, j * RECLEN),
        !.fcb[f].rec = @ + j, !.ret = k - j,
        !.around = @ \/ (m.wrk.fp = f /\ m.wrk.sct \in p.rec..p.rec + j - 1)]

(* A transfer of len bytes at offset off: to the end of the record begun,    *)
(* whole records, the rest.  After a failure nothing more is done.           *)
First(off, len) == IF off = 0 THEN 0 ELSE Min({RECLEN - off, len})
Whole(off, len) == (len - First(off, len)) \div RECLEN
Begin(m, f) == [setusr(m, m.fcb[f].user) EXCEPT !.got = <<>>, !.ret = 0]

PartIn(m, f, l) == IF m.ret # 0 \/ l = 0 THEN m ELSE getsect(m, f, l)
BlocksIn(m, f, k) == IF m.ret # 0 \/ k = 0 THEN m ELSE GetBlocks(m, f, k)
EndIn(m) == Ret(rstusr(m), Len(m.got))

filerd(m, f, len) ==
  LET l == First(m.fcb[f].off, len)
      k == Whole(m.fcb[f].off, len)
  IN EndIn(PartIn(BlocksIn(PartIn(Begin(m, f), f, l), f, k), f, len - l - k * RECLEN))

PartOut(m, f, bs) == IF m.ret # 0 \/ bs = <<>> THEN m ELSE putsect(m, f, bs)
BlocksOut(m, f, k, bs) == IF m.ret # 0 \/ k = 0 THEN m ELSE PutBlocks(m, f, k, bs)

(* Nothing written is an error, unless only the rest was to be written. *)
EndOut(m, d) == Ret(rstusr(m), IF m.got = <<>> /\ d > 0 THEN -1 ELSE Len(m.got))

filewr(m, f, bs) ==
  LET l == First(m.fcb[f].off, Len(bs))
      k == Whole(m.fcb[f].off, Len(bs))
      d == l + k * RECLEN
      first == PartOut(Begin(m, f), f, SubSeq(bs, 1, l))
  IN EndOut(PartOut(BlocksOut(first, f, k, SubSeq(bs, l + 1, d)), f, SubSeq(bs, d + 1, Len(bs))), d)

----------------------------------------------------------------------------
(* To the end of the file: behind the last byte that is not control-Z. *)
EndOfText(m) == Max({0} \cup {i \in 1..RECLEN : m.wrk.buf[i] # CTLZ})
AfterText(m, f, o) ==
  IF m.ret # 0 THEN m
  ELSE [m EXCEPT !.fcb[f].rec = IF o = RECLEN THEN @ + 1 ELSE @, !.fcb[f].off = o % RECLEN]
Behind(m, f) == AfterText(m, f, EndOfText(m))
Ceof(m, f) ==
  LET s == m.size[<<m.usr, m.fcb[f].name>>]
  IN IF s = 0 THEN [m EXCEPT !.fcb[f].rec = 0, !.fcb[f].off = 0]
     ELSE Behind(find([m EXCEPT !.fcb[f].rec = s - 1], f), f)

UserOf(m, n) == IF n.user = Default THEN m.usr ELSE n.user

Attach(m, fd, f, n, mode, opts) ==
  LET o == [m EXCEPT !.fcb[f] = [flags |-> mode + 1, user |-> m.usr, name |-> n,
                                 rec |-> 0, off |-> 0],
                     !.ch[fd].arg = f, !.ch[fd].cl = "filecl", !.ret = 0]
  IN rstusr(IF "APPEND" \in opts THEN Ret(Ceof(o, f), 0) ELSE o)

FindOrMake(m, fd, f, n, mode, opts) ==
  IF There(m, n)
  THEN IF {"CREAT", "EXCL"} \subseteq opts THEN Fail(rstusr(m))
       ELSE Attach(m, fd, f, n, mode, opts)
  ELSE IF opts \cap {"TRUNC", "CREAT"} = {} \/ ~Makes(m) THEN Fail(rstusr(m))
  ELSE Attach(MAKFIL(m, n), fd, f, n, mode, opts)

fileop(m, fd, n, mode, opts) ==
  LET free == {f \in Slot : m.fcb[f].flags = 0}
      u == setusr(m, UserOf(m, n))
      t == IF "TRUNC" \in opts THEN DELFIL(u, n.name) ELSE u
  IN IF free = {} \/ n.name = NoName THEN Fail(m)
     ELSE FindOrMake(t, fd, Min(free), n.name, mode, opts)

(* Modes: 0 to read, 1 to write, 2 for both.  An open that fails leaves the  *)
(* numbers it had entered in the channel.                                    *)
Opened(m, fd) == IF m.ret < 0 THEN [m EXCEPT !.ch[fd].cl = "bdf"] ELSE Ret(m, fd)
Enters(c, d, mode) ==
  [c EXCEPT !.rd = IF mode # 1 THEN d.rd ELSE @,
            !.wr = IF mode # 0 /\ (mode = 1 \/ d.rd # 0) THEN d.wr ELSE @]
open(m, n, mode, opts) ==
  LET free == {c \in Fd : m.ch[c].cl = "bdf"}
      fd == Min(free)
      d == Device(n.name)
      e == [m EXCEPT !.ch[fd] = Enters(@, d, mode)]
      o == [e EXCEPT !.ch[fd] = [@ EXCEPT !.io = d.io, !.sk = d.sk, !.cl = "ret",
                                          !.arg = NoFp]]
  IN IF free = {} THEN Fail(m)
     ELSE IF (mode # 1 /\ d.rd = 0) \/ (mode # 0 /\ d.wr = 0) THEN Fail(e)
     ELSE IF d.sk = 0 THEN Ret(o, fd)
     ELSE Opened(fileop(o, fd, n, mode, opts), fd)

(* Mutant: the work buffer stays. *)
FileclNoZap(a, f) ==
  LET m == setusr(a, a.fcb[f].user)
  IN [rstusr(CLSFIL(m, a.fcb[f].name)) EXCEPT !.fcb[f] = FreeFcb]

(* Mutant: the slot stays taken. *)
FileclNoFree(a, f) ==
  LET m == setusr(zap(a), a.fcb[f].user) IN rstusr(CLSFIL(m, a.fcb[f].name))

filecl(a, f) ==
  LET m == setusr(zap(a), a.fcb[f].user)
  IN [rstusr(CLSFIL(m, a.fcb[f].name)) EXCEPT !.fcb[f] = FreeFcb]

close(m, fd) ==
  LET n == IF m.ch[fd].cl = "filecl" THEN filecl(m, m.ch[fd].arg) ELSE m
  IN Ret([n EXCEPT !.ch[fd] = Idle],
         IF m.ch[fd].cl = "bdf" THEN -1 ELSE 0)

read(m, fd, len) ==
  IF m.ch[fd].rd = 1 THEN filerd(m, m.ch[fd].arg, len) ELSE Fail([m EXCEPT !.got = <<>>])

write(m, fd, bs) ==
  IF m.ch[fd].wr = 1 THEN filewr(m, m.ch[fd].arg, bs) ELSE Fail([m EXCEPT !.got = <<>>])

PositionOf(p) == p.off + p.rec * RECLEN

(* From the beginning, the position, the end: for that the file is closed,   *)
(* and stays open, because the directory does not know its length.           *)
(* Mutant: the end of the file is looked up without the close. *)
ClosingNot(m, f) == setusr(m, m.fcb[f].user)

Closing(m, f) == CLSFIL(setusr(m, m.fcb[f].user), m.fcb[f].name)
MoveTo(m, f, p) ==
  LET q == IF p < 0 THEN 0 ELSE p
  IN Ret([m EXCEPT !.fcb[f].off = q % RECLEN, !.fcb[f].rec = q \div RECLEN],
         IF p < 0 THEN -1 ELSE p)
MoveBy(m, f, x) == MoveTo(m, f, x + PositionOf(m.fcb[f]))
lseek(m, fd, x, how) ==
  LET f == m.ch[fd].arg
  IN IF m.ch[fd].sk = 0 THEN Fail(m)
     ELSE CASE how = 0 -> MoveTo(m, f, x)
            [] how = 1 -> MoveBy(m, f, x)
            [] how = 2 -> MoveBy(rstusr(Ceof(Closing(m, f), f)), f, x)
            [] OTHER -> Fail(m)

posit(m, fd, r) ==
  IF m.ch[fd].sk = 0 THEN Fail(m)
  ELSE Ret([m EXCEPT !.fcb[m.ch[fd].arg].rec = r, !.fcb[m.ch[fd].arg].off = 0], 0)
============================================================================
