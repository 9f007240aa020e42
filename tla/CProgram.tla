------------------------------- MODULE CProgram ----------------------------
(***************************************************************************)
(* A C program linked with C.LIB: one action per library call.  It keeps   *)
(* the rules of the language: a descriptor, or the stream on it, is used   *)
(* for what it was opened for; between reading and writing a stream it     *)
(* seeks, or has read all there was; it does not mix calls on a stream     *)
(* with calls on its descriptor.  A file is open once at a time, and not   *)
(* while it is erased or renamed.                                          *)
(***************************************************************************)
EXTENDS CStdio

CONSTANTS
  Target,    \* bound: the names it uses, with or without a user number
  Opening,   \* bound: the modes and options it opens with
  Amount,   \* bound: how much it reads at a time
  Text,      \* bound: what it writes at a time
  Goal,      \* bound: where it seeks to
  Memory,    \* may malloc succeed, may it fail?
  Alone,     \* bound: a program with a stream has no other file open
  Calls,     \* bound: how many calls it makes
  Stored,    \* the files it may find
  Rewrites,  \* does it write whole records over the one in the work buffer?
  Closed

VARIABLES
  file, size, usr,       \* the disk, the directory, the user number
  ch, fcb, wrk,          \* chantab, fcbtab, the work buffer with Wfp and Wsct
  strm,                  \* Cbuffs
  io,                    \* observer: what the last call moved
  calls                  \* bound: the calls made

vars == <<file, size, usr, ch, fcb, wrk, strm, io, calls>>

Home == 0
NoIo == [op |-> "none", fd |-> 0, bytes |-> <<>>, short |-> FALSE]

Init ==
  /\ file \in Stored
  /\ size = [x \in File |-> IF file[x] = Absent THEN 0 ELSE Length(file[x])]
  /\ usr = Home
  /\ ch = [c \in Fd |-> Idle] /\ fcb = [f \in Slot |-> FreeFcb]
  /\ wrk = NoWork
  /\ strm = [s \in Stream |-> NoStream]
  /\ io = NoIo
  /\ calls = 0

(* A call that changes the user number saves it first; what the work buffer  *)
(* holds for no file is not used again.                                      *)
Enter(mem) ==
  [file |-> file, size |-> size, usr |-> usr, old |-> usr, ch |-> ch, fcb |-> fcb,
   wrk |-> wrk, strm |-> strm, io |-> NoIo, ret |-> 0, got |-> <<>>, mem |-> mem,
   around |-> FALSE]

Return(m, i) ==
  /\ m.around => Rewrites
  /\ file' = m.file /\ size' = m.size /\ usr' = m.usr
  /\ ch' = m.ch /\ fcb' = m.fcb /\ strm' = m.strm
  /\ wrk' = IF m.wrk.fp = NoFp THEN NoWork ELSE m.wrk
  /\ io' = i
  /\ calls < Calls /\ calls' = calls + 1

Streamed(c) == {s \in Stream : strm[s].flags # {} /\ strm[s].unit = c}
IsFile(c) == ch[c].cl = "filecl"
FileOf(c) == <<fcb[ch[c].arg].user, fcb[ch[c].arg].name>>
OpenFiles == {FileOf(c) : c \in {d \in Fd : IsFile(d)}}
MayRead(c) == IsFile(c) /\ fcb[ch[c].arg].flags \in {1, 3}
MayWrite(c) == IsFile(c) /\ fcb[ch[c].arg].flags \in {2, 3}
Plain(c) == IsFile(c) /\ Streamed(c) = {}
Named(n) == <<UserOf(Enter(TRUE), n), n.name>>

----------------------------------------------------------------------------
Open(n, how) ==
  /\ Alone => \A s \in Stream : strm[s].flags = {}
  /\ Named(n) \notin OpenFiles
  /\ Return(open(Enter(TRUE), n, how.mode, how.opts), NoIo)

Close(c) ==
  /\ ch[c].cl # "bdf" /\ Streamed(c) = {}
  /\ Return(close(Enter(TRUE), c), NoIo)

Read(c, len) ==
  /\ Plain(c) /\ MayRead(c)
  /\ LET m == read(Enter(TRUE), c, len)
     IN Return(m, [op |-> "read", fd |-> c, bytes |-> m.got, short |-> m.ret < len])

Write(c, bs) ==
  /\ Plain(c) /\ MayWrite(c)
  /\ LET m == write(Enter(TRUE), c, bs)
     IN Return(m, [op |-> "write", fd |-> c, bytes |-> m.got, short |-> m.ret < Len(bs)])

Sought(c, x, how) == [op |-> "seek", fd |-> c, bytes |-> <<x, how>>, short |-> FALSE]

Lseek(c, x, how) ==
  Plain(c) /\ Return(lseek(Enter(TRUE), c, x, how), Sought(c, x, how))

Posit(c, r) == Plain(c) /\ Return(posit(Enter(TRUE), c, r), Sought(c, r * RECLEN, 0))

Unlink(n) == Named(n) \notin OpenFiles /\ Return(unlink(Enter(TRUE), n), NoIo)

Rename(o, n) == Named(o) \notin OpenFiles /\ Return(rename(Enter(TRUE), o, n), NoIo)

----------------------------------------------------------------------------
InUse(s) == strm[s].flags # {}
Dirty(s) == "DIRTY" \in strm[s].flags
Unread(s) == ~Dirty(s) /\ strm[s].bp < strm[s].bend

Fdopen(c) ==
  /\ Plain(c)
  /\ Alone => \A d \in Fd \ {c} : ch[d].cl = "bdf"
  /\ Return(fdopen(Enter(TRUE), c), NoIo)

Setbuf(s, own) == InUse(s) /\ Return(setbuf(Enter(TRUE), s, own), NoIo)

Input(s, m, kind) ==
  /\ InUse(s) /\ MayRead(strm[s].unit) /\ ~Dirty(s)
  /\ Return(m, [m.io EXCEPT !.op = kind, !.fd = strm[s].unit])

Fread(s, len, mem) == Input(s, fread(Enter(mem), s, len), "read")
Fgets(s, len, mem) == Input(s, fgets(Enter(mem), s, len), "text")

(* Pushed back is what the last call read from the stream. *)
Ungetc(s) ==
  /\ InUse(s) /\ io.op \in {"read", "text"} /\ io.fd = strm[s].unit
  /\ LET m == ungetc(Enter(TRUE), s,
                     IF io.bytes = <<>> THEN EOF ELSE io.bytes[Len(io.bytes)])
     IN Return(m, [Sought(io.fd, -1, 1) EXCEPT !.short = m.ret = EOF])

Output(s, m) ==
  /\ InUse(s) /\ MayWrite(strm[s].unit) /\ ~Unread(s)
  /\ Return(m, [m.io EXCEPT !.op = "write", !.fd = strm[s].unit])

Fwrite(s, bs, mem) == Output(s, fwrite(Enter(mem), s, bs))
Fputs(s, bs, mem) == Output(s, fputs(Enter(mem), s, bs))

Fflush(s) ==
  /\ InUse(s) /\ ~Unread(s)
  /\ LET m == flsh(Enter(TRUE), s, -1) IN Return(m, m.io)

Fseek(s, x, how) ==
  /\ InUse(s)
  /\ LET m == fseek(Enter(TRUE), s, x, how)
     IN Return(m, [Sought(strm[s].unit, x, how) EXCEPT !.short = m.io.short])

Fclose(s) == InUse(s) /\ LET m == fclose(Enter(TRUE), s) IN Return(m, m.io)

OnFiles ==
  \/ \E n \in Target : (\E how \in Opening : Open(n, how)) \/ Unlink(n)
  \/ \E o \in Target, n \in Name : Rename(o, n)
  \/ \E c \in Fd :
       \/ Close(c) \/ Fdopen(c)
       \/ \E len \in Amount : Read(c, len)
       \/ \E bs \in Text : Write(c, bs)
       \/ \E g \in Goal : Lseek(c, g[1], g[2])
       \/ \E r \in Record : Posit(c, r)

OnStreams ==
  \E s \in Stream :
    \/ \E own \in BOOLEAN : Setbuf(s, own)
    \/ Ungetc(s) \/ Fflush(s) \/ Fclose(s)
    \/ \E g \in Goal : Fseek(s, g[1], g[2])
    \/ \E mem \in Memory :
         \/ \E len \in Amount : Fread(s, len, mem) \/ Fgets(s, len, mem)
         \/ \E bs \in Text : Fwrite(s, bs, mem) \/ Fputs(s, bs, mem)

Next == OnFiles \/ OnStreams

Spec == Init /\ [][Next]_vars

----------------------------------------------------------------------------
(* The work buffer belongs to an open file and holds the record it is said   *)
(* to hold: a part of a record is read from there, and written back with the *)
(* rest of it (find, getsect, putsect), whatever calls on other descriptors  *)
(* and closes came between.                                                  *)
WorkBuffer ==
  wrk.fp # NoFp =>
    /\ fcb[wrk.fp].flags # 0
    /\ file[<<fcb[wrk.fp].user, fcb[wrk.fp].name>>][wrk.sct] = wrk.buf

(* No open, failed or not, and no close leaves a slot of the file table      *)
(* taken without a descriptor, or two descriptors on one slot.               *)
SlotsHeld ==
  \A f \in Slot :
    Cardinality({c \in Fd : IsFile(c) /\ ch[c].arg = f}) = IF fcb[f].flags = 0 THEN 0 ELSE 1

(* Every call gives back the user number it found, errors included. *)
UserRestored == usr = Home

(* A call, failed or not, keeps nothing it took on its way: no slot of the   *)
(* file table, and not the user number (open, close, setusr, rstusr).        *)
NothingHeld == SlotsHeld /\ UserRestored

(* The promise of the library: bytes in files, positions of descriptors.  A  *)
(* stream's unwritten buffer counts as written.                              *)
Tells(c) ==
  IF ~IsFile(c) THEN Closed
  ELSE IF Streamed(c) = {} THEN PositionOf(fcb[ch[c].arg])
  ELSE ftell(Enter(TRUE), CHOOSE s \in Streamed(c) : TRUE)

Pending(x) ==
  {s \in Stream : /\ InUse(s) /\ Dirty(s) /\ "IOERR" \notin strm[s].flags
                  /\ FileOf(strm[s].unit) = x}

Logical ==
  [x \in File |->
     IF Pending(x) = {} THEN BytesOf(file[x])
     ELSE LET t == strm[CHOOSE s \in Pending(x) : TRUE]
          IN Put(BytesOf(file[x]), PositionOf(fcb[ch[t.unit].arg]), SubSeq(t.buf, 1, t.bp))]

Promise == INSTANCE ByteFile WITH
  Handle <- Fd, Buffer <- BUFSIZ + RECLEN, bytes <- Logical,
  pos <- [c \in Fd |-> Tells(c)],
  of <- [c \in Fd |-> IF IsFile(c) THEN FileOf(c) ELSE Closed],
  stopped <- {c \in Fd : \E s \in Streamed(c) : strm[s].flags \cap {"EOF", "IOERR"} # {}}

(* C.LIB implements the byte file: every call reads the bytes at the         *)
(* position, or replaces the bytes there and no others, or reports that it   *)
(* did not, through the buffers, the work buffer, seeks, appends, a full     *)
(* disk or directory, and reopened descriptors.                              *)
ByteSpec == Promise!Spec
============================================================================
