------------------------------- MODULE Convert -----------------------------
(* Formatted output and input of the C libraries (FORMAT.C, PRINTF.C,      *)
(* SCAN.C, ATOI.C, ATOL.C).  A character is its code, a text a sequence of *)
(* codes.  A format is a sequence of records, one per directive or         *)
(* literal.  Arguments and results are sequences of texts: an int is a     *)
(* text of one word, a long two of them, low word first.  A program prints *)
(* arguments and scans what it printed, or scans a text it was given.      *)
EXTENDS Integers, Sequences, FiniteSetsExt

CONSTANTS
  INT,     \* number of values of an int; 2^16 in the code
  HIGH,    \* number of values of the high word of a long; 2^16 in the code
  Job      \* what the program does: [fmt, star, args, room, text, back]

VARIABLES
  stage,   \* "print", "scan", "done"; "idle" where nothing is converted
  job,
  f,       \* format: text, arguments and room left, refused, next of fmt
  s        \* scanfmt: see Begin

cvars == <<stage, job, f, s>>

EOF == -1
Star == -1       \* for a width: it is an argument
NoPrec == 10000
Blank == 32
Minus == 45
Plus == 43
Space == 9..13 \cup {Blank}
Digit == 48..57
LONG == INT * HIGH

Signed(n, m) == IF n >= m \div 2 THEN n - m ELSE n
Words(n, long) == IF long THEN <<<<n % INT>>, <<n \div INT>>>> ELSE <<<<n % INT>>>>

Digits[n \in Nat, b \in {8, 10, 16}] ==
  (IF n < b THEN <<>> ELSE Digits[n \div b, b])
  \o <<IF n % b < 10 THEN 48 + (n % b) ELSE 87 + (n % b)>>

(* Mutant: the most negative number is not negated as an unsigned one. *)
fmtcvtShort(n, k, m) ==
  IF k < 0 /\ n >= m \div 2 THEN <<Minus>> \o Digits[(m - n) % (m \div 2), -k]
  ELSE Digits[n, IF k < 0 THEN -k ELSE k]

(* n has m values; a base below 0 asks for a signed conversion. *)
fmtcvt(n, k, m) ==
  IF k < 0 /\ n >= m \div 2 THEN <<Minus>> \o Digits[m - n, -k]
  ELSE Digits[n, IF k < 0 THEN -k ELSE k]

(* The text of the first argument without its field. *)
Body(it, a) ==
  IF it.op # "num" THEN a[1]
  ELSE IF it.long THEN fmtcvt(a[1][1] + (INT * a[2][1]), it.k, LONG)
  ELSE fmtcvt(a[1][1], it.k, INT)

(* At most p characters in a field of w: the zeros of a right-justified one  *)
(* stand before the sign.                                                    *)
Field(it, w, p, t) ==
  LET n == Min({Len(t), p})
      pad == [k \in 1..Max({0, w - n}) |-> IF it.zero /\ ~it.minus THEN 48 ELSE Blank]
  IN IF it.minus THEN SubSeq(t, 1, n) \o pad ELSE pad \o SubSeq(t, 1, n)

(* putsub takes what there is room for; a is left of the arguments. *)
Put(t, a) ==
  f' = [out |-> f.out \o SubSeq(t, 1, Min({Len(t), f.room})), args |-> a,
        room |-> f.room - Min({Len(t), f.room}), full |-> Len(t) > f.room, k |-> f.k + 1]

Convert(it, w, p, a) ==
  Put(Field(it, w, p, Body(it, a)), SubSeq(a, IF it.op = "num" /\ it.long THEN 3 ELSE 2, Len(a)))

Precision(it, w, a) ==
  IF it.prec = Star THEN Convert(it, w, Signed(a[1][1], INT), Tail(a))
  ELSE Convert(it, w, it.prec, a)

format ==
  LET it == job.fmt[f.k]
  IN /\ stage = "print" /\ f.k <= Len(job.fmt) /\ ~f.full
     /\ IF it.op = "lit" THEN Put(<<it.c>>, f.args)
        ELSE IF it.width = Star THEN Precision(it, Signed(f.args[1][1], INT), Tail(f.args))
        ELSE Precision(it, it.width, f.args)
     /\ UNCHANGED <<stage, job, s>>

(* -1 where a character was refused, else the number of characters. *)
ret == IF f.full THEN -1 ELSE Len(f.out)

sprintf ==
  /\ stage = "print" /\ (f.k > Len(job.fmt) \/ f.full)
  /\ stage' = "scan" /\ UNCHANGED <<job, f, s>>

(* The format of T.LIB, which has no flags and no widths. *)
hexconv(n) == Digits[n, 16]

dconv(n) == Digits[n, 10]

tinydirective(it, a) ==
  IF it.op # "num" THEN a
  ELSE IF it.k = 16 THEN hexconv(a[1])
  ELSE IF it.k < 0 /\ Signed(a[1], INT) < 0 THEN <<Minus>> \o dconv((-a[1]) % INT)
  ELSE dconv(a[1])

(* What the first n items of fmt print of args. *)
tinyformat(fmt, args) ==
  LET Used(n) == Cardinality({q \in 1..n : fmt[q].op # "lit"})
      t[n \in 0..Len(fmt)] ==
        IF n = 0 THEN <<>>
        ELSE t[n - 1] \o IF fmt[n].op = "lit" THEN <<fmt[n].c>> ELSE tinydirective(fmt[n], args[Used(n)])
  IN t[Len(fmt)]
----------------------------------------------------------------------------
(* scanfmt: position in the text, end of it seen (quit), item of back, place *)
(* in the code; results; the number or string being read.  The observer back *)
(* tells that a character was given back last, twice that two were.          *)
Begin ==
  [pos |-> 1, quit |-> FALSE, k |-> 1, at |-> "item", got |-> <<>>, count |-> 0,
   cnt |-> 0, val |-> 0, sign |-> FALSE, buf |-> <<>>, back |-> FALSE, twice |-> FALSE]

text == f.out
item == job.back[s.k]

(* sgetc: the next character is taken, or EOF; what was taken is given back. *)
Char == IF s.pos > Len(text) THEN EOF ELSE text[s.pos]
Got(z) == [z EXCEPT !.pos = IF Char = EOF THEN @ ELSE @ + 1, !.quit = @ \/ Char = EOF, !.back = FALSE]
Ungot(z) == [z EXCEPT !.pos = IF z.quit THEN @ ELSE @ - 1, !.twice = @ \/ z.back, !.back = TRUE]

Goes(z, place) == s' = [z EXCEPT !.at = place]
Onward(z) == s' = [z EXCEPT !.at = "item", !.k = @ + 1]

At(place) == stage = "scan" /\ s.at = place /\ UNCHANGED <<stage, job, f>>

matchit ==
  IF Char = item.c THEN Onward(Got(s)) ELSE Goes(Ungot(Got(s)), "stop")

scanfmt ==
  /\ At("item")
  /\ IF s.k > Len(job.back) THEN Goes(s, "stop")
     ELSE IF item.op \in {"num", "str"} \/ (item.op = "lit" /\ item.c \in Space) THEN Goes(s, "blank")
     ELSE IF item.op = "chr" THEN Goes([s EXCEPT !.buf = <<>>], "char")
     ELSE matchit

skipblank ==
  /\ At("blank")
  /\ IF Char \in Space THEN s' = Got(s)
     ELSE IF Char = EOF THEN Goes(Ungot(Got(s)), "stop")
     ELSE IF item.op = "num" THEN Goes(Ungot(Got(s)), "sign")
     ELSE IF item.op = "str" THEN Goes([Ungot(Got(s)) EXCEPT !.buf = <<>>], "char")
     ELSE Onward(Ungot(Got(s)))

(* Mutant: the sign does not count for the width. *)
SignFree ==
  LET signed == Char \in {Minus, Plus}
  IN /\ At("sign")
     /\ IF item.width <= 0 THEN Goes(s, "stop")
        ELSE Goes([IF signed THEN Got(s) ELSE Ungot(Got(s)) EXCEPT
                     !.cnt = 0, !.val = 0, !.sign = Char = Minus], "digit")

(* getnum: the sign, and then digit by digit. *)
Sign ==
  LET signed == Char \in {Minus, Plus}
  IN /\ At("sign")
     /\ IF item.width <= 0 THEN Goes(s, "stop")
        ELSE Goes([IF signed THEN Got(s) ELSE Ungot(Got(s)) EXCEPT
                     !.cnt = IF signed THEN 1 ELSE 0, !.val = 0, !.sign = Char = Minus], "digit")

(* index in the part of list for the base, and the value there. *)
ValueOf(c) ==
  IF c \in Digit THEN c - 48
  ELSE IF c \in 65..70 THEN c - 55
  ELSE IF c \in 97..102 THEN c - 87
  ELSE 16
IsDigit(c, b) == ValueOf(c) < b

Store(z) ==
  [z EXCEPT !.got = @ \o Words(IF z.sign THEN (LONG - z.val) % LONG ELSE z.val, item.long),
            !.count = @ + 1]

getval(z) ==
  IF z.cnt = 0 THEN Goes(z, "stop") ELSE Onward(IF item.suppress THEN z ELSE Store(z))

getnum ==
  /\ At("digit")
  /\ IF s.cnt >= item.width THEN getval(s)
     ELSE IF IsDigit(Char, item.base)
     THEN s' = [Got(s) EXCEPT !.val = ((@ * item.base) + ValueOf(Char)) % LONG, !.cnt = @ + 1]
     ELSE IF item.base = 16 /\ s.val = 0 /\ Char \in {88, 120} THEN s' = [Got(s) EXCEPT !.cnt = @ + 1]
     ELSE getval(Ungot(Got(s)))

(* %c takes one character whatever width it has. *)
Width == IF item.op = "chr" THEN 1 ELSE item.width

StringEnds(z) ==
  IF z.buf = <<>> THEN Goes(z, "stop")
  ELSE Onward(IF item.suppress THEN z ELSE [z EXCEPT !.got = Append(@, z.buf), !.count = @ + 1])

charstring ==
  /\ At("char")
  /\ IF Len(s.buf) = Width THEN StringEnds(s)
     ELSE IF Char = EOF THEN StringEnds(Got(s))
     ELSE IF (Char \in item.set) = item.not THEN StringEnds(Ungot(Got(s)))
     ELSE s' = [Got(s) EXCEPT !.buf = Append(@, Char)]

stopscan ==
  /\ stage = "scan" /\ s.at = "stop" /\ stage' = "done" /\ UNCHANGED <<job, f>>
  /\ s' = IF s.count # 0 THEN s
          ELSE IF Char = EOF THEN [Got(s) EXCEPT !.count = EOF] ELSE Ungot(Got(s))

(* atoi and atol have a loop of their own. *)
Decimal(t, m) ==
  LET n[k \in 0..Len(t)] == IF k = 0 THEN 0 ELSE ((n[k - 1] * 10) + t[k] - 48) % m
      digits == {k \in 0..Len(t) : \A q \in 1..k : t[q] \in Digit}
  IN n[Max(digits)]

Behind(t, k) == SubSeq(t, k + 1, Len(t))

atoi(t, m) ==
  LET u == Behind(t, Max({k \in 0..Len(t) : \A q \in 1..k : t[q] \in {9, Blank}}))
  IN IF u = <<>> THEN 0
     ELSE IF u[1] = Minus THEN (m - Decimal(Tail(u), m)) % m
     ELSE IF u[1] = Plus THEN Decimal(Tail(u), m)
     ELSE Decimal(u, m)
----------------------------------------------------------------------------
Start(t, a, room) == [out |-> t, args |-> a, room |-> room, full |-> FALSE, k |-> 1]

CIdle == stage = "idle" /\ job = <<>> /\ f = Start(<<>>, <<>>, 0) /\ s = Begin

CInit ==
  /\ job \in Job
  /\ stage = IF job.fmt = <<>> THEN "scan" ELSE "print"
  /\ f = Start(job.text, job.star \o job.args, job.room) /\ s = Begin

CNext == format \/ sprintf \/ scanfmt \/ skipblank \/ Sign \/ getnum \/ charstring \/ stopscan
----------------------------------------------------------------------------
(* Nothing is cut short, no zeros stand before a sign, and an item has only  *)
(* blanks before it.                                                         *)
Reversible ==
  \A n \in DOMAIN job.fmt :
    job.fmt[n].op # "lit" =>
      /\ job.fmt[n].prec = NoPrec
      /\ job.fmt[n].zero => job.fmt[n].op = "num" /\ job.fmt[n].k > 0
      /\ job.fmt[n].minus => n = Len(job.fmt) \/ job.fmt[n + 1].c \in Space

(* Scanning what was printed gives the arguments back, to the ends of the    *)
(* range of an int and a long, in every base and field (FORMAT.C, SCAN.C),   *)
(* unless format said that it could not print them.                          *)
RoundTrip ==
  stage = "done" /\ job.fmt # <<>> /\ ret # -1 /\ Reversible => s.got = job.args

(* Without flags the format of T.LIB prints what that of C.LIB does          *)
(* (PRINTF.C, FORMAT.C).                                                     *)
TinySame ==
  (/\ stage = "done" /\ job.fmt # <<>> /\ ret # -1
   /\ \A n \in DOMAIN job.fmt :
        /\ job.fmt[n].op # "lit" => job.fmt[n].prec = NoPrec /\ job.fmt[n].width = 0
        /\ job.fmt[n].op = "num" => ~job.fmt[n].long /\ job.fmt[n].k # 8)
  => text = tinyformat(job.fmt, job.args)

Run(t, S, k) == Max({n \in 0..Len(t) - k + 1 : \A q \in k..k + n - 1 : t[q] \in S})

(* The one directive of a scan without a prefix 0x. *)
OneNumber ==
  /\ stage = "done" /\ job.fmt = <<>> /\ Len(job.back) = 1 /\ job.back[1].op = "num"
  /\ job.back[1].width > 0
  /\ \A k \in DOMAIN text : text[k] \notin {88, 120}

(* A number is read from the longest part of the text behind the blanks that *)
(* is a sign and digits of the base and not longer than the width, has its   *)
(* value in the width of the argument, and is all that is taken (SCAN.C).    *)
ScanReads ==
  OneNumber =>
    LET it == job.back[1]
        b == Run(text, Space, 1)
        g == IF b < Len(text) /\ text[b + 1] \in {Minus, Plus} THEN 1 ELSE 0
        d == Min({it.width - g, Run(text, {c \in 0..127 : IsDigit(c, it.base)}, b + g + 1)})
        v == MapThenSumSet(LAMBDA k : ValueOf(text[b + g + k]) * it.base^(d - k), 1..d)
    IN IF g + d = 0 THEN s.got = <<>>
       ELSE /\ s.got = Words((IF text[b + 1] = Minus THEN LONG - (v % LONG) ELSE v) % LONG, it.long)
            /\ s.pos = b + g + d + 1

(* atoi and atol agree with the directives %d and %ld on every text with no  *)
(* blanks but spaces and tabs (ATOI.C, ATOL.C, SCAN.C).                      *)
AtoiAgrees ==
  OneNumber /\ job.back[1].base = 10 /\ job.back[1].width > Len(text) =>
    Words(atoi(text, IF job.back[1].long THEN LONG ELSE INT), job.back[1].long)
      = IF s.got = <<>> THEN Words(0, job.back[1].long) ELSE s.got

(* A character is given back only after one was taken: the one place that    *)
(* ungetc has is enough for scanf (SCAN.C, UNGETC.C).                        *)
PushOne == ~s.twice

(* Numbers, strings and characters are printed so that they can be read      *)
(* back, by both formats alike (FORMAT.C, PRINTF.C, FMTCVT.ASM).             *)
PrintsRight == RoundTrip /\ TinySame

(* The scanning functions take the same number from a text, and never need   *)
(* to give back more than one character (SCAN.C, ATOI.C, ATOL.C).            *)
ScansRight == ScanReads /\ AtoiAgrees /\ PushOne
============================================================================
