------------------------------ MODULE MCLibrary ----------------------------
(* qsort on arrays of up to ten elements, and conversions: every sort of   *)
(* field around the ends of the range of a number, and short texts of      *)
(* blanks, signs, digits and letters.  A long has 20 bits.  A heap of      *)
(* twelve units, three calls of sbrk, with areas of two and of six units.  *)
EXTENDS Qsort, Convert, Malloc

Arrays ==
  UNION {[1..n -> 1..3] : n \in 1..5}
    \cup {<<4, 2, a, b, 4, c, d, 2, e, 4>> : a, b, c, d, e \in 1..3}

Num(k, w, p, m, z, l) ==
  [op |-> "num", k |-> k, width |-> w, prec |-> p, minus |-> m, zero |-> z, long |-> l]
Other(op, w, p) == [op |-> op, width |-> w, prec |-> p, minus |-> FALSE, zero |-> FALSE]
Lit(c) == [op |-> "lit", c |-> c]

Get1(b, w, q, l) == [op |-> "num", base |-> b, width |-> w, suppress |-> q, long |-> l]
Chars1(op, S, n, w, q) == [op |-> op, set |-> S, not |-> n, width |-> w, suppress |-> q]

BaseOf(k) == IF k = -10 THEN 10 ELSE k

(* A number in a field, a character that separates, and a number or a word. *)
Printed ==
  {[fmt |-> <<Num(k, w, p, m, z, l), Lit(c), Num(-10, 0, NoPrec, FALSE, FALSE, FALSE)>>,
    star |-> IF w = Star THEN <<<<5>>>> ELSE <<>>,
    args |-> Words(v, l) \o <<<<INT \div 2>>>>,
    room |-> rm, text |-> <<>>,
    back |-> <<Get1(BaseOf(k), 127, FALSE, l), Lit(c), Get1(10, 127, FALSE, FALSE)>>] :
     k \in {8, 10, -10, 16}, w \in {0, 3, Star}, p \in {NoPrec, 2}, m, z, l \in BOOLEAN,
     c \in {Blank, 44}, v \in {0, 10, INT \div 2, INT - 1, LONG \div 2, LONG - 1}, rm \in {4, 99}}
Word == {<<97>>, <<97, 45, 48>>}
Strings ==
  {[fmt |-> <<Other("str", w, p), Lit(Blank), Other("chr", 0, NoPrec), Other("str", 0, NoPrec)>>,
    star |-> IF p = Star THEN <<<<1>>>> ELSE <<>>, args |-> <<a, <<b>>, c>>, room |-> 99, text |-> <<>>,
    back |-> <<Chars1("str", {Blank, 9, 10}, TRUE, 127, FALSE), Lit(Blank),
               Chars1("chr", {}, TRUE, 5, FALSE), Chars1("str", {97, Minus, 48}, FALSE, 127, FALSE)>>] :
     w \in {0, 3}, p \in {NoPrec, Star}, a, c \in Word, b \in {Minus, 97}}
Texts ==
  UNION {[1..n -> {Blank, Minus, Plus, 48, 57, 97, 120}] : n \in 0..3}
    \cup [1..4 -> {Blank, Minus, 48, 57}]
Scans ==
  {<<Get1(b, w, FALSE, l)>> : b \in {8, 10, 16}, w \in {2, 127}, l \in BOOLEAN}
  \cup {<<Get1(10, 0, FALSE, FALSE)>>}
  \cup {<<Get1(10, 127, TRUE, FALSE), Chars1("str", {48, 57}, n, 2, q), Lit(Minus)>> : n, q \in BOOLEAN}
TextJobs ==
  {[fmt |-> <<>>, star |-> <<>>, args |-> <<>>, room |-> 99, text |-> t, back |-> g] :
     t \in Texts, g \in Scans}
Jobs == Printed \cup Strings \cup TextJobs

(* One call of qsort, one conversion, or a program that allocates. *)
NoSort ==
  /\ given = <<>> /\ arr = given /\ base = 1 /\ r = 1 /\ i = 1 /\ j = 1 /\ x = 1
  /\ stack = <<>> /\ pc = "done"

Init ==
  /\ MInit
  /\ (QInit /\ CIdle) \/ (NoSort /\ CInit) \/ (NoSort /\ CIdle)

Next ==
  \/ QNext /\ UNCHANGED <<cvars, mvars>>
  \/ CNext /\ UNCHANGED <<qvars, mvars>>
  \/ given = <<>> /\ stage = "idle" /\ MNext /\ UNCHANGED <<qvars, cvars>>

(* A call of qsort does not wait for anything. *)
Spec == Init /\ [][Next]_<<qvars, cvars, mvars>> /\ WF_qvars(QNext)
============================================================================
