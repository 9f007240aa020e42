------------------------------ MODULE TinyStdio ----------------------------
(***************************************************************************)
(* The streams of the small Aztec C library T.LIB (FOPEN.C): up to MAXFILE *)
(* files share one read buffer, which is filled again whenever another     *)
(* file is read, and one file at a time is written through one write       *)
(* buffer.  Functions on a machine m; one action per call of a program,    *)
(* which has a file open once at a time and writes no more to a stream     *)
(* that has reported an error.                                             *)
(***************************************************************************)
EXTENDS CDisk

CONSTANTS
  MAXFILE,         \* FILEs, 4 in the code
  RDNSCT, WRNSCT,  \* records of the read and of the write buffer, 8 in the code
  Target,          \* bound: the names the program uses, with or without a user
  Text,            \* bound: the characters it writes
  Stored,          \* the files it may find
  Calls,           \* bound: how many calls it makes
  Closed           \* no position

VARIABLES
  file, size, usr,         \* the disk, the directory, the user number
  Cbuffs,                  \* the FILEs
  readbuf, curread,        \* the read buffer up to bufeof, and whose it is
  writbuf, writfp,         \* the write buffer, and whose it is
  failed,                  \* observer: the writer has reported an error
  io,                      \* observer: what the last call moved
  calls                    \* bound: the calls made

vars == <<file, size, usr, Cbuffs, readbuf, curread, writbuf, writfp, failed, io, calls>>

Fp == 1..MAXFILE
NULL == 0
EOF == -1
NL == 10
CR == 13
Home == 0
WBUFSIZ == WRNSCT * RECLEN
NoFile == [bp |-> Closed, user |-> Home, name |-> Closed, rec |-> 0]
NoIo == [op |-> "none", fd |-> 0, bytes |-> <<>>, short |-> FALSE]

Init ==
  /\ file \in Stored
  /\ size = [x \in File |-> IF file[x] = Absent THEN 0 ELSE Length(file[x])]
  /\ usr = Home
  /\ Cbuffs = [p \in Fp |-> NoFile]
  /\ readbuf = <<>> /\ curread = NULL /\ writbuf = <<>> /\ writfp = NULL
  /\ failed = FALSE /\ io = NoIo /\ calls = 0

----------------------------------------------------------------------------
(* A second writer is refused, and a file that does not exist cannot be      *)
(* read.  Only the first leaves the user number of the name set.             *)
Attach(m, p, n, writing) ==
  LET f == [bp |-> 0, user |-> m.usr, name |-> n, rec |-> 0]
  IN rstusr(IF writing THEN [m EXCEPT !.f[p] = f, !.wfp = p, !.wbuf = <<>>, !.ret = p]
            ELSE [m EXCEPT !.f[p] = f, !.cur = NULL, !.ret = p])

Renewed(m, p, n) ==
  IF Makes(m) THEN Attach(MAKFIL(m, n), p, n, TRUE) ELSE rstusr(Ret(m, NULL))

OnDisk(m, p, n, writing) ==
  IF writing
  THEN IF m.wfp # NULL THEN Ret(m, NULL) ELSE Renewed(DELFIL(m, n), p, n)
  ELSE IF There(m, n) THEN Attach(m, p, n, FALSE) ELSE rstusr(Ret(m, NULL))

fopen(m, n, writing) ==
  LET free == {p \in Fp : m.f[p].bp = Closed}
  IN IF free = {} THEN Ret(m, NULL)
     ELSE OnDisk(setusr(m, IF n.user = Default THEN m.usr ELSE n.user),
                 Min(free), n.name, writing)

(* Fills the last record up with control-Z, and writes. *)
Padded(bs) ==
  bs \o [i \in 1..(RECLEN - (Len(bs) % RECLEN)) % RECLEN |-> CTLZ]

Blocks(m, p, bs) ==
  LET k == Len(bs) \div RECLEN
      j == blkwr(m, m.f[p].name, m.f[p].rec, k, bs)
  IN [WriteRecs(m, m.f[p].name, m.f[p].rec, j, bs) EXCEPT
        !.f[p].rec = @ + j, !.ret = IF j = k THEN 0 ELSE EOF]

flush(m) == rstusr(Blocks(setusr(m, m.f[m.wfp].user), m.wfp, Padded(m.wbuf)))

Shut(m, p) ==
  [rstusr(CLSFIL(setusr(m, m.f[p].user), m.f[p].name)) EXCEPT !.f[p] = NoFile]

fclose(m, p) ==
  IF p = m.wfp THEN Shut([flush(m) EXCEPT !.wfp = NULL, !.wbuf = <<>>], p)
  ELSE Shut([m EXCEPT !.cur = IF p = @ THEN NULL ELSE @, !.ret = 0], p)

----------------------------------------------------------------------------
(* Reads records from the one of the FILE on; at the end of the file the     *)
(* user number of the FILE stays set.                                        *)
Filled(m, p, j) ==
  IF j = 0 THEN Ret([m EXCEPT !.cur = NULL], EOF)
  ELSE Ret(rstusr([m EXCEPT !.rbuf = RecordsRead(m, m.f[p].name, m.f[p].rec, j),
                            !.cur = p]), 0)

Blkrd(m, p) == Filled(m, p, blkrd(m, m.f[p].name, m.f[p].rec, RDNSCT))
readit(m, p) == Blkrd(setusr(m, m.f[p].user), p)

(* Mutant: the next buffer is the one just read. *)
NextBufferSame(m, p) ==
  IF m.ret = EOF \/ m.f[p].bp < Len(m.rbuf) THEN m
  ELSE readit([m EXCEPT !.f[p].bp = 0], p)

NextBuffer(m, p) ==
  IF m.ret = EOF \/ m.f[p].bp < Len(m.rbuf) THEN m
  ELSE readit([m EXCEPT !.f[p].rec = @ + Len(m.rbuf) \div RECLEN, !.f[p].bp = 0], p)

Next1(m, p) ==
  IF m.ret = EOF THEN [m EXCEPT !.io.short = TRUE]
  ELSE [m EXCEPT !.f[p].bp = @ + 1, !.ret = m.rbuf[m.f[p].bp + 1],
                 !.io.bytes = Append(@, m.rbuf[m.f[p].bp + 1])]

getc(m, p) == Next1(NextBuffer(IF p = m.cur THEN Ret(m, 0) ELSE readit(m, p), p), p)

(* A text character; control-Z is the end, and stays unread. *)
RECURSIVE agetc(_, _)
AsText(m, p) ==
  IF m.ret = EOF THEN m
  ELSE CASE m.ret % 128 = CTLZ ->
              [m EXCEPT !.f[p].bp = @ - 1, !.io.short = TRUE, !.ret = EOF,
                        !.io.bytes = SubSeq(@, 1, Len(@) - 1)]
         [] m.ret % 128 \in {CR, 0} -> agetc(m, p)
         [] OTHER -> Ret(m, m.ret % 128)
agetc(m, p) == AsText(getc(m, p), p)

Emptied(m, p, c) ==
  IF m.ret = 0 THEN Ret([m EXCEPT !.f[p].bp = 0, !.wbuf = <<>>], c)
  ELSE [m EXCEPT !.io.short = TRUE]
Put1(m, p, c) ==
  [m EXCEPT !.wbuf = Append(@, c), !.f[p].bp = @ + 1, !.io.bytes = Append(@, c), !.ret = c]
Full(m, p, c) == IF Len(m.wbuf) >= WBUFSIZ THEN Emptied(flush(m), p, c) ELSE m
putc(m, p, c) == Full(Put1(m, p, c), p, c)

PutAfter(m, p, c) == IF m.ret = EOF THEN m ELSE putc(m, p, c)
aputc(m, p, c) ==
  PutAfter(IF c % 128 = NL THEN putc(m, p, CR) ELSE Ret(m, 0), p, c % 128)

----------------------------------------------------------------------------
Enter ==
  [file |-> file, size |-> size, usr |-> usr, old |-> usr, f |-> Cbuffs, rbuf |-> readbuf,
   cur |-> curread, wbuf |-> writbuf, wfp |-> writfp, io |-> NoIo, ret |-> 0]

(* What the read buffer holds for no FILE is not used again. *)
Return(m, i) ==
  /\ calls < Calls /\ calls' = calls + 1
  /\ file' = m.file /\ size' = m.size /\ usr' = m.usr /\ Cbuffs' = m.f
  /\ readbuf' = IF m.cur = NULL THEN <<>> ELSE m.rbuf
  /\ curread' = m.cur /\ writbuf' = m.wbuf /\ writfp' = m.wfp
  /\ failed' = (m.wfp # NULL /\ (failed \/ (i.op = "write" /\ i.short)))
  /\ io' = i

FileOf(p) == <<Cbuffs[p].user, Cbuffs[p].name>>
InUse(p) == Cbuffs[p].bp # Closed
Named(n) == <<IF n.user = Default THEN usr ELSE n.user, n.name>>
OpenFiles == {FileOf(p) : p \in {q \in Fp : InUse(q)}}

Fopen(n, writing) == Named(n) \notin OpenFiles /\ Return(fopen(Enter, n, writing), NoIo)

Fclose(p) ==
  /\ InUse(p)
  /\ LET m == fclose(Enter, p)
     IN Return(m, [NoIo EXCEPT !.short = m.ret # 0 \/ (p = writfp /\ failed)])

Unlink(n) == Named(n) \notin OpenFiles /\ Return(unlink(Enter, n), NoIo)

Reading(p, m, kind) == InUse(p) /\ p # writfp /\ Return(m, [m.io EXCEPT !.op = kind, !.fd = p])
Getc(p) == Reading(p, getc(Enter, p), "read")
Agetc(p) == Reading(p, agetc(Enter, p), "text")

Writing(p, m) == p = writfp /\ ~failed /\ Return(m, [m.io EXCEPT !.op = "write", !.fd = p])
Putc(p, c) == Writing(p, putc(Enter, p, c))
Aputc(p, c) == Writing(p, aputc(Enter, p, c))

Next ==
  \/ \E n \in Target : Unlink(n) \/ \E writing \in BOOLEAN : Fopen(n, writing)
  \/ \E p \in Fp :
       \/ Fclose(p) \/ Getc(p) \/ Agetc(p)
       \/ \E c \in Text : Putc(p, c) \/ Aputc(p, c)

Spec == Init /\ [][Next]_vars

----------------------------------------------------------------------------
PositionOf(p) == IF InUse(p) THEN Cbuffs[p].rec * RECLEN + Cbuffs[p].bp ELSE Closed

Logical ==
  [x \in File |->
     IF writfp = NULL \/ failed THEN BytesOf(file[x])
     ELSE IF FileOf(writfp) # x THEN BytesOf(file[x])
     ELSE Put(BytesOf(file[x]), Cbuffs[writfp].rec * RECLEN, writbuf)]

Promise == INSTANCE ByteFile WITH
  Handle <- Fp, Buffer <- WBUFSIZ, bytes <- Logical,
  pos <- [p \in Fp |-> PositionOf(p)],
  of <- [p \in Fp |-> IF InUse(p) THEN FileOf(p) ELSE Closed],
  stopped <- {p \in Fp : p = writfp /\ failed}

(* T.LIB implements the byte file too, although its files share the buffers. *)
TinySpec == Promise!Spec
============================================================================
