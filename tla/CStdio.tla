-------------------------------- MODULE CStdio -----------------------------
(***************************************************************************)
(* The streams of C.LIB (GETBUFF.C, GETC.C, PUTC.C, AGETC.C, APUTC.C,      *)
(* FSEEK.C, UNGETC.C, SETBUF.C, FDOPEN.C, FREAD.C, FWRITE.C, FGETS.C,      *)
(* FPUTS.C) on the machine of CFiles.  bp and bend are counted from the    *)
(* beginning of the buffer; buf is what the buffer holds up to there.      *)
(***************************************************************************)
EXTENDS CFiles

CONSTANTS
  BUFSIZ,     \* length of a buffer, 1024 in the code
  MAXSTREAM   \* streams beside stdin, stdout and stderr

Stream == 1..MAXSTREAM
NULL == -1
EOF == -1
NL == 10
CR == 13

NoStream == [flags |-> {}, unit |-> NULL, bp |-> NULL, bend |-> NULL, buff |-> FALSE,
             len |-> 0, buf |-> <<>>]

Empty(t) == [t EXCEPT !.bp = NULL, !.bend = NULL, !.buf = <<>>]

(* The end of a file or an error, reported. *)
Stop(m) == Ret([m EXCEPT !.io.short = TRUE], EOF)

newstream(m) == {s \in Stream : m.strm[s].flags = {}}

fdopen(m, fd) ==
  LET s == Min(newstream(m))
  IN IF newstream(m) = {} THEN Ret(m, NULL)
     ELSE Ret([m EXCEPT !.strm[s] = [NoStream EXCEPT !.unit = fd, !.flags = {"BUSY"}]], s)

getbuff(m, t) ==
  IF m.ch[t.unit].io # 0 \/ ~m.mem THEN [t EXCEPT !.len = 1, !.buff = TRUE]
  ELSE [t EXCEPT !.len = BUFSIZ, !.buff = TRUE, !.flags = @ \cup {"ALLBUF"}]

setbuf(m, s, own) ==
  IF m.strm[s].buff THEN m
  ELSE [m EXCEPT !.strm[s].buff = TRUE, !.strm[s].len = IF own THEN BUFSIZ ELSE 1]

Take(m, s) ==
  LET t == m.strm[s]
      c == t.buf[t.bp + 1]
  IN Ret([m EXCEPT !.strm[s].bp = @ + 1, !.io.bytes = Append(@, c)], c)

(* What read gave goes to the stream b. *)
Filled(m, s, b) ==
  IF m.ret <= 0
  THEN Stop([m EXCEPT !.strm[s] =
               [b EXCEPT !.flags = @ \cup {IF m.ret = 0 THEN "EOF" ELSE "IOERR"}]])
  ELSE Take([m EXCEPT !.strm[s] = [b EXCEPT !.bp = 0, !.bend = m.ret, !.buf = m.got]], s)

Buffered(m, t) == IF t.buff THEN t ELSE getbuff(m, t)
Refill(m, s, b) == Filled(read(m, b.unit, b.len), s, b)

getc(m, s) ==
  LET t == m.strm[s]
  IN IF t.bp < t.bend THEN Take(m, s)
     ELSE IF t.flags \cap {"EOF", "IOERR"} # {} THEN Stop(m)
     ELSE Refill(m, s, Buffered(m, [t EXCEPT !.flags = @ \ {"DIRTY"}]))

----------------------------------------------------------------------------
IoErr(m, s, t) ==
  Stop([m EXCEPT !.strm[s] = Empty([t EXCEPT !.flags = @ \cup {"IOERR"}])])

(* Writes what is in the buffer; then data begins a new one, unless it is -1. *)
Single(m, s, b, data) ==
  IF m.ret # 1 THEN IoErr(m, s, b)
  ELSE Ret([m EXCEPT !.strm[s] = b, !.io.bytes = Append(@, data)], data)
Start(m, s, b, data) ==
  IF b.len = 1 THEN Single(write(m, b.unit, <<data>>), s, b, data)
  ELSE Ret([m EXCEPT !.strm[s] = [b EXCEPT !.bp = 1, !.bend = b.len, !.buf = <<data>>,
                                           !.flags = @ \cup {"DIRTY"}],
                     !.io.bytes = Append(@, data)], data)
Flushed(m, s, data) ==
  LET t == m.strm[s]
  IN IF "DIRTY" \in t.flags /\ m.ret # t.bp THEN IoErr(m, s, t)
     ELSE IF data = -1
     THEN Ret([m EXCEPT !.strm[s] = Empty([t EXCEPT !.flags = @ \ {"DIRTY"}])], 0)
     ELSE Start(m, s, Buffered(m, t), data)
flsh(m, s, data) ==
  LET t == m.strm[s]
  IN IF "IOERR" \in t.flags THEN Stop(m)
     ELSE Flushed(IF "DIRTY" \in t.flags THEN write(m, t.unit, SubSeq(t.buf, 1, t.bp)) ELSE m,
                  s, data)

Store(buf, i, c) == IF i <= Len(buf) THEN [buf EXCEPT ![i] = c] ELSE Append(buf, c)

putc(m, s, c) ==
  LET t == m.strm[s]
  IN IF t.bp >= t.bend THEN flsh(m, s, c)
     ELSE Ret([m EXCEPT !.strm[s].buf = Store(@, t.bp + 1, c), !.strm[s].bp = @ + 1,
                        !.io.bytes = Append(@, c)], c)

FlushDirty(m, s) == IF "DIRTY" \in m.strm[s].flags THEN flsh(m, s, -1) ELSE Ret(m, 0)
Closes(m, s) ==
  Ret([close(m, m.strm[s].unit) EXCEPT !.strm[s] = NoStream], IF m.ret = 0 THEN 0 ELSE EOF)
fclose(m, s) == IF m.strm[s].flags = {} THEN Ret(m, 0) ELSE Closes(FlushDirty(m, s), s)

Seeks(m, s, x, how) ==
  IF m.ret # 0 THEN Ret(m, EOF)
  ELSE lseek([m EXCEPT !.strm[s] = Empty(@)], m.strm[s].unit, x, how)
fseek(m, s, x, how) ==
  LET t == m.strm[s]
      back == IF "DIRTY" \notin t.flags /\ how = 1 /\ t.bp # NULL THEN t.bend - t.bp ELSE 0
  IN Seeks(FlushDirty([m EXCEPT !.strm[s].flags = @ \ {"EOF"}], s), s, x - back, how)

ftell(m, s) ==
  LET t == m.strm[s]
  IN lseek(m, t.unit, 0, 1).ret
     + (IF "DIRTY" \in t.flags THEN t.bp ELSE IF t.bp # NULL THEN t.bp - t.bend ELSE 0)

ungetc(m, s, c) ==
  LET t == m.strm[s]
  IN IF c = EOF \/ t.bp <= 0 THEN Ret(m, EOF)
     ELSE Ret([m EXCEPT !.strm[s].buf = Store(@, t.bp, c), !.strm[s].bp = @ - 1], c)

----------------------------------------------------------------------------
RECURSIVE agetc(_, _), fread(_, _, _), fgets(_, _, _), fwrite(_, _, _), fputs(_, _, _)

(* A text character: no carriage return, no null, control-Z is the end. *)
AsText(m, s) ==
  IF m.ret \in {CR, 0} THEN agetc(m, s)
  ELSE IF m.ret = CTLZ THEN Stop([m EXCEPT !.strm[s].flags = @ \cup {"EOF"}])
  ELSE m
agetc(m, s) == AsText(getc(m, s), s)

PutAfter(m, s, c) == IF m.ret = EOF THEN m ELSE putc(m, s, c)
aputc(m, s, c) == PutAfter(IF c = NL THEN putc(m, s, CR) ELSE Ret(m, 0), s, c)

(* Up to k bytes; up to k characters of a line. *)
Onward(m, s, k) == IF m.ret = EOF THEN m ELSE fread(m, s, k - 1)
fread(m, s, k) == IF k = 0 THEN m ELSE Onward(getc(m, s), s, k)

InLine(m, s, k) == IF m.ret \in {EOF, NL} THEN m ELSE fgets(m, s, k - 1)
fgets(m, s, k) == IF k = 0 THEN m ELSE InLine(agetc(m, s), s, k)

Rest(m, s, bs) == IF m.ret = EOF THEN m ELSE fwrite(m, s, Tail(bs))
fwrite(m, s, bs) == IF bs = <<>> THEN m ELSE Rest(putc(m, s, Head(bs)), s, bs)

RestOfText(m, s, bs) == IF m.ret = EOF THEN m ELSE fputs(m, s, Tail(bs))
fputs(m, s, bs) == IF bs = <<>> THEN m ELSE RestOfText(aputc(m, s, Head(bs)), s, bs)
============================================================================
