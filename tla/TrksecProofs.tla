--------------------------- MODULE TrksecProofs ----------------------------
(***************************************************************************)
(* The walk of TRKSEC, its 16-bit arithmetic and the one-byte ports        *)
(* included, addresses the right sector on a drive of any geometry that    *)
(* satisfies TrksecAssumption.  Then, for RandomRec: sequential and random *)
(* record numbers agree, and RANSIZE gives the end of a file.              *)
(***************************************************************************)
EXTENDS Trksec, RandomRec, SequenceTheorems, TLAPS

(* de is always the first sector of track hl, on the drive; and the drive's  *)
(* own pair of them likewise.                                                *)
FirstOf(sector, track) == sector = track * SECTORS /\ sector <= LAST

IInv ==
  /\ TypeOK
  /\ FirstOf(de, hl)
  /\ FirstOf(SCRATCH3, SCRATCH2)
  /\ pc \in {"TRKSEC3", "TRKSEC4"} => de <= BLKNMBR
  /\ pc = "TRKSEC4" => BLKNMBR < de + SECTORS
  /\ RightSector

(* Remainders of small numbers. *)
LEMMA ModSmall ==
  ASSUME NEW n \in Nat \ {0}, NEW k \in 0..n - 1
  PROVE  k % n = k
OBVIOUS

(* A track that begins on the drive has a number the port can hold. *)
LEMMA TrackFits ==
  ASSUME NEW t \in Nat, t * SECTORS <= LAST
  PROVE  t + OFFSET < BYTE
<1>1. SUFFICES ASSUME BYTE - OFFSET <= t PROVE FALSE
  BY TrksecAssumption
<1>2. (BYTE - OFFSET) * SECTORS <= t * SECTORS
  <2> DEFINE k == BYTE - OFFSET
  <2>1. k \in Nat /\ k <= t
    BY <1>1, TrksecAssumption
  <2>2. \A a, b, c \in Nat : a <= b => a * c <= b * c
    OBVIOUS
  <2> QED BY <2>1, <2>2, TrksecAssumption
<1>3. t * SECTORS \in Nat /\ (BYTE - OFFSET) * SECTORS \in Int
  BY TrksecAssumption
<1> QED BY <1>2, <1>3, TrksecAssumption

(* The retranslation table undoes the translate table. *)
LEMMA Unskewed ==
  ASSUME NEW i \in 0..SECTORS - 1
  PROVE  smap_(XLATE[i]) = i + 1
<1>1. i + 1 \in 1..SECTORS /\ XLATE[(i + 1) - 1] = XLATE[i]
  BY TrksecAssumption
<1>2. \A k \in 1..SECTORS : XLATE[k - 1] = XLATE[i] => k = i + 1
  BY TrksecAssumption
<1> QED BY <1>1, <1>2 DEF smap_

(* The invariant holds at the start ... *)
LEMMA Start == Init => IInv
<1>1. 0 = 0 * SECTORS
  BY TrksecAssumption
<1> QED BY <1>1, TrksecAssumption DEF Init, IInv, TypeOK, FirstOf, RightSector

(* A step back: there is a track before, and it begins SECTORS earlier. *)
LEMMA StepBack == IInv /\ TRKSEC2 => IInv'
<1> SUFFICES ASSUME IInv, TRKSEC2 PROVE IInv'
  OBVIOUS
<1>0. UNCHANGED <<BLKNMBR, SCRATCH2, SCRATCH3, FDCT, FDCS>> /\ pc = "TRKSEC2"
  BY DEF TRKSEC2
<1>1. CASE BLKNMBR < de
  <2>1. de' = (de - SECTORS) % WORD /\ hl' = (hl - 1) % WORD /\ pc' = pc
    BY <1>1 DEF TRKSEC2
  <2>2. hl # 0
    BY <1>1, TrksecAssumption DEF IInv, TypeOK, FirstOf
  <2>3. (hl - 1) * SECTORS = de - SECTORS
    BY TrksecAssumption DEF IInv, TypeOK, FirstOf
  <2>4. hl - 1 \in Nat /\ (hl - 1) * SECTORS \in Nat
    BY <2>2, TrksecAssumption DEF IInv, TypeOK
  <2>5. de - SECTORS \in 0..WORD - 1 /\ hl - 1 \in 0..WORD - 1
    <3>1. de - SECTORS \in Nat
      BY <2>3, <2>4
    <3> QED BY <2>4, <3>1, TrksecAssumption DEF IInv, TypeOK
  <2>6. de' = de - SECTORS /\ hl' = hl - 1
    <3>1. WORD \in Nat \ {0}
      BY TrksecAssumption
    <3> QED BY <2>1, <2>5, <3>1, ModSmall
  <2>7. TypeOK'
    BY <1>0, <2>1, <2>5, <2>6 DEF IInv, TypeOK
  <2>8. FirstOf(de, hl)'
    <3>1. de - SECTORS <= LAST
      BY TrksecAssumption DEF IInv, TypeOK, FirstOf
    <3> QED BY <2>3, <2>6, <3>1 DEF FirstOf
  <2> QED BY <1>0, <2>1, <2>7, <2>8 DEF IInv, FirstOf, RightSector
<1>2. CASE ~(BLKNMBR < de)
  <2>1. pc' = "TRKSEC3" /\ de' = de /\ hl' = hl
    BY <1>2 DEF TRKSEC2
  <2> QED BY <1>0, <1>2, <2>1, TrksecAssumption DEF IInv, TypeOK, FirstOf, RightSector
<1> QED BY <1>1, <1>2

(* A step on: the next track begins before the sector, so on the drive. *)
LEMMA StepOn == IInv /\ TRKSEC3 => IInv'
<1> SUFFICES ASSUME IInv, TRKSEC3 PROVE IInv'
  OBVIOUS
<1>0. UNCHANGED <<BLKNMBR, SCRATCH2, SCRATCH3, FDCT, FDCS>> /\ pc = "TRKSEC3"
  BY DEF TRKSEC3
<1>1. CASE de + SECTORS >= WORD \/ BLKNMBR < de + SECTORS
  <2>1. pc' = "TRKSEC4" /\ de' = de /\ hl' = hl
    BY <1>1 DEF TRKSEC3
  <2>2. BLKNMBR < de + SECTORS
    BY <1>1, TrksecAssumption DEF IInv, TypeOK
  <2> QED BY <1>0, <2>1, <2>2, TrksecAssumption DEF IInv, TypeOK, FirstOf, RightSector
<1>2. CASE ~(de + SECTORS >= WORD \/ BLKNMBR < de + SECTORS)
  <2>1. de' = de + SECTORS /\ hl' = (hl + 1) % WORD /\ pc' = pc
    BY <1>2 DEF TRKSEC3
  <2>2. (hl + 1) * SECTORS = de + SECTORS
    BY TrksecAssumption DEF IInv, TypeOK, FirstOf
  <2>3. de + SECTORS <= BLKNMBR /\ de + SECTORS <= LAST
    BY <1>2, TrksecAssumption DEF IInv, TypeOK
  <2>4. hl + 1 + OFFSET < BYTE
    <3>1. hl + 1 \in Nat /\ (hl + 1) * SECTORS <= LAST
      BY <2>2, <2>3, TrksecAssumption DEF IInv, TypeOK
    <3> QED BY <3>1, TrackFits
  <2>5. hl' = hl + 1
    <3>1. hl + 1 \in 0..WORD - 1 /\ WORD \in Nat \ {0}
      BY <2>4, TrksecAssumption DEF IInv, TypeOK
    <3> QED BY <2>1, <3>1, ModSmall
  <2>6. de + SECTORS \in 0..WORD - 1 /\ hl + 1 \in 0..WORD - 1
    <3>1. de \in Nat /\ hl \in Nat /\ SECTORS \in Nat /\ LAST < WORD /\ WORD \in Nat
            /\ LAST \in Nat /\ BYTE \in Nat /\ OFFSET \in Nat /\ BYTE <= WORD
      BY TrksecAssumption DEF IInv, TypeOK
    <3> QED BY <2>3, <2>4, <3>1
  <2>7. TypeOK'
    BY <1>0, <2>1, <2>5, <2>6 DEF IInv, TypeOK
  <2>8. FirstOf(de, hl)'
    BY <2>1, <2>2, <2>3, <2>5 DEF FirstOf
  <2> QED BY <1>0, <2>1, <2>3, <2>7, <2>8 DEF IInv, FirstOf, RightSector
<1> QED BY <1>1, <1>2

(* The ports get the track and the skewed sector whole. *)
LEMMA StepSet == IInv /\ TRKSEC4 => IInv'
<1> SUFFICES ASSUME IInv, TRKSEC4 PROVE IInv'
  OBVIOUS
<1> DEFINE i == BLKNMBR - de
<1>1. /\ FDCT' = ((hl + OFFSET) % WORD) % BYTE /\ FDCS' = XLATE[i] % BYTE
      /\ SCRATCH2' = hl /\ SCRATCH3' = de /\ pc' = "set" /\ pc = "TRKSEC4"
      /\ UNCHANGED <<BLKNMBR, de, hl>>
  BY DEF TRKSEC4
<1>2. hl + OFFSET < BYTE
  BY TrackFits, TrksecAssumption DEF IInv, TypeOK, FirstOf
<1>3. FDCT' = hl + OFFSET
  <2>1. hl + OFFSET \in 0..WORD - 1 /\ hl + OFFSET \in 0..BYTE - 1
    BY <1>2, TrksecAssumption DEF IInv, TypeOK
  <2>2. WORD \in Nat \ {0} /\ BYTE \in Nat \ {0}
    BY <1>2, TrksecAssumption
  <2>3. (hl + OFFSET) % WORD = hl + OFFSET /\ (hl + OFFSET) % BYTE = hl + OFFSET
    BY <2>1, <2>2, ModSmall
  <2> QED BY <1>1, <2>3
<1>4. i \in 0..SECTORS - 1
  BY <1>1, TrksecAssumption DEF IInv, TypeOK
<1>5. XLATE[i] \in 1..SECTORS
  BY <1>4, TrksecAssumption
<1>6. FDCS' = XLATE[i]
  <2>1. XLATE[i] \in 0..BYTE - 1 /\ BYTE \in Nat \ {0}
    BY <1>5, TrksecAssumption
  <2> QED BY <1>1, <2>1, ModSmall
<1>7. TypeOK' /\ FirstOf(de, hl)' /\ FirstOf(SCRATCH3, SCRATCH2)'
  <2>1. FDCT' \in 0..BYTE - 1 /\ FDCS' \in 0..BYTE - 1
    <3>1. hl \in Nat /\ OFFSET \in Nat /\ BYTE \in Nat /\ SECTORS \in Nat /\ SECTORS < BYTE
      BY TrksecAssumption DEF IInv, TypeOK
    <3> HIDE DEF i
    <3> QED BY <1>2, <1>3, <1>5, <1>6, <3>1
  <2>2. TypeOK'
    BY <1>1, <2>1 DEF IInv, TypeOK
  <2> QED BY <1>1, <2>2 DEF IInv, FirstOf
<1>8. RightSector'
  <2>1. smap_(XLATE[i]) = i + 1
    BY <1>4, Unskewed
  <2>2. GetAbsSector(hl + OFFSET, XLATE[i]) = (hl + OFFSET) * SECTORS + i
    <3>1. hl + OFFSET >= OFFSET
      BY TrksecAssumption DEF IInv, TypeOK
    <3>2. (hl + OFFSET) * SECTORS \in Int /\ i \in Int
      BY <1>4, TrksecAssumption DEF IInv, TypeOK
    <3> HIDE DEF i
    <3> QED BY <2>1, <3>1, <3>2 DEF GetAbsSector
  <2>3. (hl + OFFSET) * SECTORS = hl * SECTORS + OFFSET * SECTORS
    BY TrksecAssumption DEF IInv, TypeOK
  <2>4. (hl + OFFSET) * SECTORS + i = OFFSET * SECTORS + BLKNMBR
    BY <2>3, TrksecAssumption DEF IInv, TypeOK, FirstOf
  <2>5. GetAbsSector(FDCT, FDCS)' = GetAbsSector(FDCT', FDCS')
    BY DEF GetAbsSector, smap_
  <2> HIDE DEF i
  <2> QED BY <1>1, <1>3, <1>6, <2>2, <2>4, <2>5 DEF RightSector
<1> QED BY <1>1, <1>7, <1>8 DEF IInv

(* ... and every step keeps it. *)
LEMMA Inductive == IInv /\ [Next]_vars => IInv'
<1> SUFFICES ASSUME IInv, [Next]_vars PROVE IInv'
  OBVIOUS
<1>1. CASE HOMEDRV
  <2>1. 0 = 0 * SECTORS
    BY TrksecAssumption
  <2> QED BY <1>1, <2>1, TrksecAssumption
          DEF HOMEDRV, IInv, TypeOK, FirstOf, RightSector
<1>2. ASSUME NEW b \in 0..LAST, TRKSEC1(b) PROVE IInv'
  BY <1>2 DEF TRKSEC1, IInv, TypeOK, FirstOf, RightSector
<1>3. CASE TRKSEC2
  BY <1>3, StepBack
<1>4. CASE TRKSEC3
  BY <1>4, StepOn
<1>5. CASE TRKSEC4
  BY <1>5, StepSet
<1>6. CASE Transfer
  BY <1>6 DEF Transfer, IInv, TypeOK, FirstOf, RightSector
<1>7. CASE UNCHANGED vars
  BY <1>7 DEF vars, IInv, TypeOK, FirstOf, RightSector, GetAbsSector, smap_
<1> QED BY <1>1, <1>2, <1>3, <1>4, <1>5, <1>6, <1>7 DEF Next

(* Whatever sectors were accessed before, TRKSEC sets the track and sector   *)
(* registers so that disk::GetAbsSector returns the sector asked for.        *)
THEOREM TrksecCorrect == Spec => []RightSector
<1>1. IInv => RightSector
  BY DEF IInv
<1> QED BY <1>1, Start, Inductive, PTL DEF Spec

(* No register of the walk and no port overflows. *)
THEOREM TrksecTypeCorrect == Spec => []TypeOK
<1>1. IInv => TypeOK
  BY DEF IInv
<1> QED BY <1>1, Start, Inductive, PTL DEF Spec

----------------------------------------------------------------------------
(* The number of a record, from the fields of the FCB and from its bytes. *)
Place(c, e, h) == (h * 32 + e) * 128 + c
PAGE == 256
LIMIT == 65536
Value(n) == n.r0 + PAGE * n.r1 + LIMIT * n.r2
Three == [r0 : 0..255, r1 : 0..255, r2 : 0..1]

(* A byte and its carry. *)
LEMMA Carried ==
  ASSUME NEW x \in 0..256
  PROVE  (x % 256) + 256 * (IF x > 255 THEN 1 ELSE 0) = x
OBVIOUS

(* COMPRAND computes that number, whatever the mark in s2. *)
LEMMA CompValue ==
  ASSUME NEW c \in 0..128, NEW e \in 0..31, NEW h \in 0..15
  PROVE  /\ COMPRAND(c, e, h) \in Three
         /\ COMPRAND(c, e, h + MARK) = COMPRAND(c, e, h)
         /\ Value(COMPRAND(c, e, h)) = Place(c, e, h)
<1> DEFINE low == c + (e % 2) * 128
           mid == low \div 256 + ((e \div 2) % 16)
           high == ((h * 16) % 256) + mid
           n == COMPRAND(c, e, h)
<1>1. (h * 16) % 256 = h * 16 /\ ((h + MARK) * 16) % 256 = h * 16
  BY DEF MARK
<1>2. (h \div 16) % 2 = 0 /\ ((h + MARK) \div 16) % 2 = 0
  BY DEF MARK
<1>3. low \in 0..256 /\ mid \in 0..16 /\ high \in 0..256
  BY <1>1
<1>4. e = 2 * (e \div 2) + (e % 2) /\ (e \div 2) % 16 = e \div 2
  OBVIOUS
<1>5. n = [r0 |-> low % 256, r1 |-> high % 256, r2 |-> IF high > 255 THEN 1 ELSE 0]
  BY <1>2 DEF COMPRAND
<1>6. COMPRAND(c, e, h + MARK) = n
  BY <1>1, <1>2 DEF COMPRAND
<1>7. n \in Three
  BY <1>3, <1>5 DEF Three
<1>8. low + 256 * (high - low \div 256) = Place(c, e, h)
  BY <1>1, <1>3, <1>4 DEF Place
<1> HIDE DEF low, high
<1>9. (low % 256) + 256 * (low \div 256) = low
  BY <1>3
<1>10. (high % 256) + 256 * (IF high > 255 THEN 1 ELSE 0) = high
  BY <1>3, Carried
<1>11. Value(n) = (low % 256) + 256 * (high % 256) + 65536 * (IF high > 255 THEN 1 ELSE 0)
  BY <1>5 DEF Value, PAGE, LIMIT
<1> QED BY <1>3, <1>6, <1>7, <1>8, <1>9, <1>10, <1>11

(* Fields that lead to the record with number v. *)
Leads(to, v) ==
  /\ to.cr \in 0..127 /\ to.ex \in 0..31 /\ to.s2 \in 0..15
  /\ Place(to.cr, to.ex, to.s2) = v

(* Split takes the bytes r0 and r1 apart without loss. *)
LEMMA SplitValue ==
  ASSUME NEW a \in 0..255, NEW b \in 0..255
  PROVE  Leads(Split(a, b), a + PAGE * b)
<1> DEFINE x == (((b * 2) % 256) + a \div 128) % 32
<1>1. a = 128 * (a \div 128) + (a % 128) /\ a \div 128 \in 0..1 /\ a % 128 \in 0..127
  OBVIOUS
<1>2. b = 16 * (b \div 16) + (b % 16) /\ b \div 16 \in 0..15 /\ b % 16 \in 0..15
  OBVIOUS
<1>3. x = 2 * (b % 16) + a \div 128
  OBVIOUS
<1> HIDE DEF x
<1>4. Split(a, b) = [cr |-> a % 128, ex |-> x, s2 |-> b \div 16]
  BY DEF Split, x
<1>5. Place(a % 128, x, b \div 16) = a + PAGE * b /\ x \in 0..31
  BY <1>1, <1>2, <1>3 DEF Place, PAGE
<1> QED BY <1>1, <1>2, <1>4, <1>5 DEF Leads

(* Numbers of records and their fields determine each other. *)
LEMMA PlaceUnique ==
  ASSUME NEW c \in 0..127, NEW e \in 0..31, NEW h \in 0..15,
         NEW d \in 0..127, NEW k \in 0..31, NEW j \in 0..15,
         Place(c, e, h) = Place(d, k, j)
  PROVE  c = d /\ e = k /\ h = j
BY DEF Place

(* Two numbers of three bytes with one value are the same. *)
LEMMA ValueUnique ==
  ASSUME NEW n \in Three, NEW m \in Three, Value(n) = Value(m)
  PROVE  n.r0 = m.r0 /\ n.r1 = m.r1 /\ n.r2 = m.r2
<1> DEFINE E(a, b, c, x, y, z) ==
             a + PAGE * b + LIMIT * c = x + PAGE * y + LIMIT * z
           G(a, b, c, x, y, z) == a = x /\ b = y /\ c = z
<1>1. \A a, b, x, y \in 0..255 : \A c, z \in 0..1 :
        E(a, b, c, x, y, z) => G(a, b, c, x, y, z)
  BY DEF PAGE, LIMIT
<1>2. /\ n.r0 \in 0..255 /\ n.r1 \in 0..255 /\ n.r2 \in 0..1
      /\ m.r0 \in 0..255 /\ m.r1 \in 0..255 /\ m.r2 \in 0..1
  BY DEF Three
<1>3. E(n.r0, n.r1, n.r2, m.r0, m.r1, m.r2)
  BY DEF Value
<1> HIDE DEF E, G
<1>4. G(n.r0, n.r1, n.r2, m.r0, m.r1, m.r2)
  BY Zenon, <1>1, <1>2, <1>3
<1> QED BY <1>4 DEF G

(* The borrow tells the larger number. *)
LEMMA Borrows ==
  ASSUME NEW n \in Three, NEW f,
         f.r0 \in 0..255, f.r1 \in 0..255, f.r2 \in 0..1
  PROVE  SUBTRACT(n, f) = 1 <=> Value(n) < Value(f)
<1> DEFINE V(a, b, c) == a + PAGE * b + LIMIT * c
           L(a, b, c, x, y, z) ==
             c < z + IF b < y + IF a < x THEN 1 ELSE 0 THEN 1 ELSE 0
<1>1. \A a, b, x, y \in 0..255 : \A c, z \in 0..1 :
        L(a, b, c, x, y, z) <=> V(a, b, c) < V(x, y, z)
  BY DEF PAGE, LIMIT
<1>2. n.r0 \in 0..255 /\ n.r1 \in 0..255 /\ n.r2 \in 0..1
  BY DEF Three
<1>3. SUBTRACT(n, f) = 1 <=> L(n.r0, n.r1, n.r2, f.r0, f.r1, f.r2)
  BY DEF SUBTRACT
<1>4. Value(n) = V(n.r0, n.r1, n.r2) /\ Value(f) = V(f.r0, f.r1, f.r2)
  BY DEF Value
<1> HIDE DEF V, L
<1>5. L(n.r0, n.r1, n.r2, f.r0, f.r1, f.r2)
        <=> V(n.r0, n.r1, n.r2) < V(f.r0, f.r1, f.r2)
  BY Zenon, <1>1, <1>2
<1> QED BY <1>3, <1>4, <1>5

(* s2 with or without its mark. *)
Marked == {s \in 0..255 : s % MARK \in 0..15}

(* The mark in s2 does not reach the number COMPRAND makes. *)
LEMMA CompMarked ==
  ASSUME NEW c \in 0..128, NEW e \in 0..31, NEW s \in Marked
  PROVE  /\ COMPRAND(c, e, s) \in Three
         /\ Value(COMPRAND(c, e, s)) = Place(c, e, s % MARK)
<1> DEFINE h == s % MARK
<1>1. h \in 0..15 /\ (s = h \/ s = h + MARK)
  BY DEF Marked, MARK
<1> QED BY Zenon, <1>1, CompValue

(* The record with number p is the next, if there is such a record. *)
Goes(next, p) ==
  /\ next.ok <=> p < LIMIT
  /\ next.ok => \E d \in 0..127, x \in 0..31, y \in 0..15 :
                  /\ next = [ok |-> TRUE, cr |-> d, ex |-> x, s2 |-> y]
                  /\ Place(d, x, y) = p

(* The record with these fields is the next, if its number is below 65536. *)
LEMMA GoesTo ==
  ASSUME NEW d \in 0..127, NEW x \in 0..31, NEW y \in 0..15, NEW next,
         next = [ok |-> TRUE, cr |-> d, ex |-> x, s2 |-> y],
         NEW p, p < LIMIT, Place(d, x, y) = p
  PROVE  Goes(next, p)
<1>1. next.ok = TRUE
  OBVIOUS
<1> QED BY Zenon, <1>1 DEF Goes

(* GETNEXT goes to the record that has the number of the place, as far as    *)
(* there are such records.                                                   *)
LEMMA NextRead ==
  ASSUME NEW f, NEW c \in 0..128, NEW e \in 0..31, NEW h \in 0..15, NEW s \in {h, h + 128},
         f.cr = c, f.ex = e, f.s2 = s
  PROVE  Goes(ReadsNext(f), Place(c, e, h))
<1> DEFINE x == (e + 1) % 32
           t == IF x = 0 THEN (s + 1) % 256 ELSE s
<1>1. ReadsNext(f) = IF c < 128 THEN [ok |-> TRUE, cr |-> c, ex |-> e, s2 |-> s % 16]
                     ELSE [ok |-> x # 0 \/ t % 16 # 0, cr |-> 0, ex |-> x, s2 |-> t % 16]
  BY Zenon DEF ReadsNext
<1>2. s % 16 = h /\ (e < 31 => x = e + 1) /\ (e = 31 => x = 0)
  OBVIOUS
<1>3. e < 31 => x # 0 /\ t % 16 = h
  BY <1>2
<1>4. e = 31 /\ h < 15 => t % 16 = h + 1 /\ t % 16 # 0
  BY <1>2
<1>5. e = 31 /\ h = 15 => t % 16 = 0
  BY <1>2
<1> HIDE DEF x, t
<1>6. CASE c < 128
  <2>1. ReadsNext(f) = [ok |-> TRUE, cr |-> c, ex |-> e, s2 |-> h]
    BY Zenon, <1>1, <1>2, <1>6
  <2>2. Place(c, e, h) < LIMIT /\ c \in 0..127
    BY <1>6 DEF Place, LIMIT
  <2> QED BY Zenon, <2>1, <2>2, GoesTo
<1>7. CASE c = 128
  <2>1. ReadsNext(f) = [ok |-> x # 0 \/ t % 16 # 0, cr |-> 0, ex |-> x, s2 |-> t % 16]
    BY <1>1, <1>7
  <2>2. CASE e < 31
    <3>1. ReadsNext(f) = [ok |-> TRUE, cr |-> 0, ex |-> e + 1, s2 |-> h]
      BY Zenon, <1>2, <1>3, <2>1, <2>2
    <3>2. /\ Place(c, e, h) < LIMIT /\ Place(0, e + 1, h) = Place(c, e, h)
          /\ e + 1 \in 0..31 /\ 0 \in 0..127
      BY <1>7, <2>2 DEF Place, LIMIT
    <3> QED BY Zenon, <3>1, <3>2, GoesTo
  <2>3. CASE e = 31 /\ h < 15
    <3>1. ReadsNext(f) = [ok |-> TRUE, cr |-> 0, ex |-> 0, s2 |-> h + 1]
      BY Zenon, <1>2, <1>4, <2>1, <2>3
    <3>2. /\ Place(c, e, h) < LIMIT /\ Place(0, 0, h + 1) = Place(c, e, h)
          /\ h + 1 \in 0..15 /\ 0 \in 0..127 /\ 0 \in 0..31
      BY <1>7, <2>3 DEF Place, LIMIT
    <3> QED BY Zenon, <3>1, <3>2, GoesTo
  <2>4. CASE e = 31 /\ h = 15
    <3>1. ReadsNext(f) = [ok |-> FALSE, cr |-> 0, ex |-> x, s2 |-> t % 16]
      BY Zenon, <1>2, <1>5, <2>1, <2>4
    <3>2. ~(Place(c, e, h) < LIMIT)
      BY <1>7, <2>4 DEF Place, LIMIT
    <3>3. ReadsNext(f).ok = FALSE
      BY <3>1
    <3> QED BY Zenon, <3>2, <3>3 DEF Goes
  <2> QED BY <2>2, <2>3, <2>4
<1> QED BY <1>6, <1>7

(* The FCBs programs begin with. *)
RFcb == [cr : 0..128, ex : 0..31, s2 : Marked, r0 : 0..255, r1 : 0..255, r2 : 0..1]

(* The number in the FCB is the largest of the first k entries' numbers. *)
Largest(k) ==
  /\ Value(fcb) \in {0} \cup {Records(dir[i]) : i \in 1..k}
  /\ \A i \in 1..k : Records(dir[i]) <= Value(fcb)

Positioned ==
  /\ was.r2 = 0 /\ fcb.r0 = was.r0 /\ fcb.r1 = was.r1 /\ fcb.r2 = was.r2
  /\ fcb.cr \in 0..127 /\ fcb.ex \in 0..31 /\ fcb.s2 \in Marked
  /\ Place(fcb.cr, fcb.ex, fcb.s2 % MARK) = was.r0 + PAGE * was.r1

(* What holds between the calls, and in the loop of RANSIZE. *)
RInv ==
  /\ was \in RFcb /\ dir \in Seq(Extent) /\ at \in 0..Len(dir) + 1
  /\ did \in Seq({"SETRAN", "POSITION", "RANSIZE"})
  /\ did = <<>> /\ at = 0 => fcb = was
  /\ did = <<"SETRAN">> => fcb = Stuffed(was, COMPRAND(was.cr, was.ex, was.s2))
  /\ did = <<"POSITION">> /\ status = 0 => Positioned
  /\ at # 0 => did = <<>> /\ Largest(at - 1) /\ fcb \in RFcb
  /\ did = <<"RANSIZE">> => Largest(Len(dir))
  /\ NumbersAgree

(* Calls are told apart by the last of them. *)
LEMMA Calls ==
  ASSUME NEW S, NEW d \in Seq(S), NEW x \in S
  PROVE  /\ Append(d, x) \in Seq(S)
         /\ Append(d, x) # <<>>
         /\ \A a : Append(d, x) = <<a>> => d = <<>> /\ x = a
         /\ \A a, b : Append(d, x) = <<a, b>> => d = <<a>> /\ x = b
<1>1. Len(Append(d, x)) = Len(d) + 1 /\ Append(d, x)[Len(d) + 1] = x
  OBVIOUS
<1>2. ASSUME NEW a, Append(d, x) = <<a>>
      PROVE  d = <<>> /\ x = a
  BY <1>1, <1>2
<1>3. ASSUME NEW a, NEW b, Append(d, x) = <<a, b>>
      PROVE  d = <<a>> /\ x = b
  <2> DEFINE t == <<a, b>>
  <2>0. Len(t) = 2 /\ t[1] = a /\ t[2] = b
    OBVIOUS
  <2>1. Append(d, x) = t
    BY <1>3
  <2> HIDE DEF t
  <2>2. Len(d) = 1 /\ x = b
    <3>1. Len(t) = Len(d) + 1 /\ t[Len(d) + 1] = x
      BY Zenon, <1>1, <2>1
    <3>2. Len(d) \in Nat /\ Len(d) + 1 = 2
      BY Zenon, <2>0, <3>1, LenProperties
    <3>3. x = b
      BY Zenon, <2>0, <3>1, <3>2
    <3>4. \A k \in Nat : k + 1 = 2 => k = 1
      OBVIOUS
    <3> QED BY Zenon, <3>2, <3>3, <3>4
  <2>3. Append(d, x)[1] = d[1]
    BY <2>2
  <2> QED BY <2>0, <2>1, <2>2, <2>3
<1> QED BY <1>1, <1>2, <1>3

(* The invariant holds when the program makes its first call. *)
LEMMA RStart == RInit => RInv
<1> SUFFICES ASSUME RInit PROVE RInv
  OBVIOUS
<1>1. \A h \in 0..15 : h \in Marked /\ h + MARK \in Marked /\ MARK \in Marked
  BY DEF Marked, MARK
<1>2. Sequential \subseteq RFcb
  <2> SUFFICES ASSUME NEW f \in Sequential PROVE f \in RFcb
    OBVIOUS
  <2>1. ASSUME NEW s \in Hi \cup {h + MARK : h \in Hi}
        PROVE  s \in Marked
    BY <1>1, <2>1, RandomAssumption
  <2>2. 0 \in 0..255 /\ 0 \in 0..1
    OBVIOUS
  <2> HIDE DEF Marked
  <2> QED BY <2>1, <2>2 DEF RFcb, Sequential
<1>3. Random \subseteq RFcb
  <2>1. 0 \in 0..128 /\ 0 \in 0..31 /\ {0, 1} \subseteq 0..1 /\ MARK \in Marked
    BY <1>1
  <2> SUFFICES ASSUME NEW f \in Random PROVE f \in RFcb
    OBVIOUS
  <2>2. /\ f = [cr |-> 0, ex |-> 0, s2 |-> MARK, r0 |-> f.r0, r1 |-> f.r1, r2 |-> f.r2]
        /\ f.r0 \in 0..255 /\ f.r1 \in 0..255 /\ f.r2 \in 0..1
    BY ZenonT(30), <2>1, RandomAssumption DEF Random
  <2> HIDE DEF Marked
  <2> QED BY <2>1, <2>2 DEF RFcb
<1>4. [cr |-> 0, ex |-> 0, s2 |-> MARK, r0 |-> 255, r1 |-> 255, r2 |-> 1] \in RFcb
  BY <1>1 DEF RFcb
<1>5. was \in RFcb
  BY <1>2, <1>3, <1>4 DEF RInit
<1>6. dir \in Seq(Extent)
  <2>1. CASE dir = <<>>
    BY <2>1
  <2>2. CASE dir \in Files
    <3>1. PICK n \in 0..Entries : dir \in [1..n -> Extent]
      BY <2>2 DEF Files
    <3>2. n \in Nat
      BY RandomAssumption
    <3> QED BY <3>1, <3>2
  <2> QED BY <2>1, <2>2 DEF RInit
<1>7. did = <<>> /\ at = 0 /\ fcb = was
  BY DEF RInit
<1>8. NumbersAgree
  BY <1>7 DEF NumbersAgree, SameRecord, PlaceKept
<1> QED BY <1>5, <1>6, <1>7, <1>8 DEF RInv

(* Below 65536 the third byte is 0. *)
LEMMA ValueLow ==
  ASSUME NEW m, m.r0 \in 0..255, m.r1 \in 0..255, m.r2 = 0
  PROVE  Value(m) = m.r0 + PAGE * m.r1
<1> SUFFICES ASSUME NEW a \in 0..255, NEW b \in 0..255, a = m.r0, b = m.r1
             PROVE  Value(m) = a + PAGE * b
  BY Zenon
<1>1. Value(m) = a + PAGE * b + LIMIT * 0
  BY Zenon DEF Value
<1> QED BY <1>1 DEF PAGE, LIMIT

(* A call that is not RANSIZE. *)
LEMMA Called ==
  ASSUME RInv, at = 0, UNCHANGED <<was, dir, at>>,
         NEW x \in {"SETRAN", "POSITION"}, did' = Append(did, x),
         did = <<>> /\ x = "SETRAN" =>
           fcb' = Stuffed(was, COMPRAND(was.cr, was.ex, was.s2)),
         did = <<>> /\ x = "POSITION" /\ status' = 0 => Positioned',
         NumbersAgree'
  PROVE  RInv'
<1>1. /\ did' \in Seq({"SETRAN", "POSITION", "RANSIZE"})
      /\ did' # <<>>
      /\ \A a : did' = <<a>> => did = <<>> /\ x = a
  BY Calls DEF RInv
<1>2. was' \in RFcb /\ dir' \in Seq(Extent) /\ at' \in 0..Len(dir') + 1 /\ at' = 0
  BY DEF RInv
<1>3. did' = <<"SETRAN">> => fcb' = Stuffed(was', COMPRAND(was'.cr, was'.ex, was'.s2))
  BY <1>1
<1>4. did' = <<"POSITION">> /\ status' = 0 => Positioned'
  BY Zenon, <1>1
<1>5. did' # <<"RANSIZE">>
  BY <1>1
<1> QED BY Zenon, <1>1, <1>2, <1>3, <1>4, <1>5 DEF RInv

(* SETRAN keeps the invariant. *)
LEMMA SetranKeeps == RInv /\ SETRAN => RInv'
<1> SUFFICES ASSUME RInv, SETRAN PROVE RInv'
  OBVIOUS
<1> DEFINE n == COMPRAND(fcb.cr, fcb.ex, fcb.s2)
<1>1. /\ at = 0 /\ UNCHANGED <<was, dir, at>> /\ status' = status
      /\ did' = Append(did, "SETRAN") /\ fcb' = Stuffed(fcb, n)
  BY DEF SETRAN
<1>2. \A a, b : did' = <<a, b>> => did = <<a>> /\ "SETRAN" = b
  <2> DEFINE S == {"SETRAN", "POSITION", "RANSIZE"}
  <2>1. did \in Seq(S) /\ "SETRAN" \in S
    BY DEF RInv
  <2> HIDE DEF S
  <2>2. \A a, b : Append(did, "SETRAN") = <<a, b>> => did = <<a>> /\ "SETRAN" = b
    BY <2>1, Calls
  <2> QED BY Zenon, <1>1, <2>2
<1>3. did = <<>> => fcb' = Stuffed(was, COMPRAND(was.cr, was.ex, was.s2))
  BY <1>1 DEF RInv
<1>4. ASSUME did' = <<"POSITION", "SETRAN">>, status' = 0
      PROVE  <<fcb'.r0, fcb'.r1, fcb'.r2>> = <<was'.r0, was'.r1, was'.r2>>
  <2>1. Positioned
    BY <1>1, <1>2, <1>4 DEF RInv
  <2>2. n \in Three /\ Value(n) = was.r0 + PAGE * was.r1
    <3>1. fcb.cr \in 0..128 /\ fcb.ex \in 0..31 /\ fcb.s2 \in Marked
      BY <2>1 DEF Positioned
    <3>2. n \in Three /\ Value(n) = Place(fcb.cr, fcb.ex, fcb.s2 % MARK)
      BY Zenon, <3>1, CompMarked
    <3> QED BY Zenon, <2>1, <3>2 DEF Positioned
  <2> HIDE DEF n
  <2> DEFINE w == [r0 |-> was.r0, r1 |-> was.r1, r2 |-> 0]
  <2>3. w \in Three /\ was.r0 \in 0..255 /\ was.r1 \in 0..255 /\ was.r2 = 0
    BY <2>1 DEF Three, RInv, RFcb, Positioned
  <2>4. Value(w) = was.r0 + PAGE * was.r1
    <3>1. Value(w) = Value(was)
      BY <2>3 DEF Value
    <3> QED BY <2>3, <3>1, ValueLow
  <2>5. n.r0 = w.r0 /\ n.r1 = w.r1 /\ n.r2 = w.r2
    BY <2>2, <2>3, <2>4, ValueUnique
  <2> QED BY <1>1, <2>3, <2>5 DEF Stuffed
<1>5. NumbersAgree'
  BY <1>2, <1>4 DEF NumbersAgree, SameRecord, PlaceKept
<1> QED BY <1>1, <1>3, <1>5, Called

(* Marks do not matter for the extent a program is in. *)
LEMMA SameExtent ==
  ASSUME NEW t \in 0..15, NEW s \in Marked
  PROVE  /\ (t - s) % MARK = 0 => s % MARK = t
         /\ t + MARK \in Marked /\ (t + MARK) % MARK = t
         /\ s % MARK = s % 16 /\ s % MARK \in 0..15 /\ s \in {s % MARK, (s % MARK) + 128}
BY DEF Marked, MARK

(* Where POSITION leads when it is not refused. *)
LEMMA Sought ==
  ASSUME fcb \in RFcb, POSITION, fcb.r2 = 0, NEW to, to = Split(fcb.r0, fcb.r1)
  PROVE  /\ status' = 0 /\ fcb'.cr = to.cr /\ fcb'.ex = to.ex
         /\ fcb'.s2 \in Marked /\ fcb'.s2 % MARK = to.s2
         /\ fcb'.r0 = fcb.r0 /\ fcb'.r1 = fcb.r1 /\ fcb'.r2 = fcb.r2
         /\ Leads(to, fcb.r0 + PAGE * fcb.r1)
<1>1. fcb.r0 \in 0..255 /\ fcb.r1 \in 0..255 /\ fcb.s2 \in Marked
  BY DEF RFcb
<1>2. Leads(to, fcb.r0 + PAGE * fcb.r1)
  BY Zenon, <1>1, SplitValue
<1>3. to.cr \in 0..127 /\ to.ex \in 0..31 /\ to.s2 \in 0..15
  BY Zenon, <1>2 DEF Leads
<1>4. status' = 0
  BY DEF POSITION
<1>5. CASE to.ex = fcb.ex /\ (to.s2 - fcb.s2) % MARK = 0
  <2>1. fcb' = [fcb EXCEPT !.cr = to.cr]
    BY Zenon, <1>5 DEF POSITION
  <2>2. /\ fcb'.cr = to.cr /\ fcb'.ex = fcb.ex /\ fcb'.s2 = fcb.s2
        /\ fcb'.r0 = fcb.r0 /\ fcb'.r1 = fcb.r1 /\ fcb'.r2 = fcb.r2
    BY <2>1 DEF RFcb
  <2>3. fcb.s2 % MARK = to.s2
    BY Zenon, <1>1, <1>3, <1>5, SameExtent
  <2> QED BY Zenon, <1>1, <1>2, <1>3, <1>4, <1>5, <2>2, <2>3
<1>6. CASE ~(to.ex = fcb.ex /\ (to.s2 - fcb.s2) % MARK = 0)
  <2>1. fcb' = [fcb EXCEPT !.cr = to.cr, !.ex = to.ex, !.s2 = to.s2 + MARK]
    BY Zenon, <1>6 DEF POSITION
  <2>2. /\ fcb'.cr = to.cr /\ fcb'.ex = to.ex /\ fcb'.s2 = to.s2 + MARK
        /\ fcb'.r0 = fcb.r0 /\ fcb'.r1 = fcb.r1 /\ fcb'.r2 = fcb.r2
    BY <2>1 DEF RFcb
  <2>3. to.s2 + MARK \in Marked /\ (to.s2 + MARK) % MARK = to.s2
    BY Zenon, <1>1, <1>3, SameExtent
  <2> QED BY Zenon, <1>1, <1>2, <1>3, <1>4, <2>2, <2>3
<1> QED BY <1>5, <1>6

(* What Stuffed does to the fields. *)
LEMMA Bytes ==
  ASSUME NEW c, NEW e, NEW s, NEW x, NEW y, NEW z, NEW a, NEW b, NEW k, NEW f,
         f = [cr |-> c, ex |-> e, s2 |-> s, r0 |-> x, r1 |-> y, r2 |-> z]
  PROVE  [f EXCEPT !.r0 = a, !.r1 = b, !.r2 = k]
           = [cr |-> c, ex |-> e, s2 |-> s, r0 |-> a, r1 |-> b, r2 |-> k]
<1>1. PICK g : g = [f EXCEPT !.r0 = a]
  BY Zenon
<1>2. g = [cr |-> c, ex |-> e, s2 |-> s, r0 |-> a, r1 |-> y, r2 |-> z]
  BY <1>1
<1>3. PICK i : i = [g EXCEPT !.r1 = b]
  BY Zenon
<1>4. i = [cr |-> c, ex |-> e, s2 |-> s, r0 |-> a, r1 |-> b, r2 |-> z]
  BY <1>2, <1>3
<1>5. [i EXCEPT !.r2 = k] = [cr |-> c, ex |-> e, s2 |-> s, r0 |-> a, r1 |-> b, r2 |-> k]
  BY <1>4
<1> QED BY Zenon, <1>1, <1>3, <1>5

(* What Stuffed leaves alone and what it stores. *)
LEMMA StuffedIs ==
  ASSUME NEW f \in RFcb, NEW n \in Three
  PROVE  /\ Stuffed(f, n) \in RFcb
         /\ Stuffed(f, n).r0 = n.r0 /\ Stuffed(f, n).r1 = n.r1 /\ Stuffed(f, n).r2 = n.r2
         /\ Value(Stuffed(f, n)) = Value(n)
<1>1. f = [cr |-> f.cr, ex |-> f.ex, s2 |-> f.s2, r0 |-> f.r0, r1 |-> f.r1, r2 |-> f.r2]
  BY DEF RFcb
<1>2. PICK g : g = Stuffed(f, n)
  OBVIOUS
<1>3. g = [cr |-> f.cr, ex |-> f.ex, s2 |-> f.s2, r0 |-> n.r0, r1 |-> n.r1, r2 |-> n.r2]
  BY Zenon, <1>1, <1>2, Bytes DEF Stuffed
<1>4. g.r0 = n.r0 /\ g.r1 = n.r1 /\ g.r2 = n.r2
  BY <1>3
<1>5. g \in RFcb
  <2>1. f.cr \in 0..128 /\ f.ex \in 0..31 /\ f.s2 \in Marked
    BY DEF RFcb
  <2>2. n.r0 \in 0..255 /\ n.r1 \in 0..255 /\ n.r2 \in 0..1
    BY DEF Three
  <2> QED BY <1>3, <2>1, <2>2 DEF RFcb
<1> QED BY Zenon, <1>2, <1>4, <1>5 DEF Value

(* SETRAN and POSITION lead where sequential access leads. *)
LEMMA SetranSeeks ==
  ASSUME was \in RFcb, POSITION,
         NEW m, m = COMPRAND(was.cr, was.ex, was.s2), fcb = Stuffed(was, m),
         NEW next, next = ReadsNext(was)
  PROVE  /\ next.ok <=> status' = 0
         /\ next.ok => fcb'.cr = next.cr /\ fcb'.ex = next.ex /\ fcb'.s2 % 16 = next.s2
<1>1. PICK c \in 0..128, e \in 0..31, s \in Marked : c = was.cr /\ e = was.ex /\ s = was.s2
  BY Zenon DEF RFcb
<1>2. PICK h \in 0..15 : h = s % MARK /\ s \in {h, h + 128}
  <2>1. 0 \in 0..15
    OBVIOUS
  <2>2. s % MARK \in 0..15 /\ s \in {s % MARK, (s % MARK) + 128}
    BY Zenon, <2>1, SameExtent
  <2> QED BY Zenon, <2>2
<1>3. m \in Three /\ Value(m) = Place(c, e, h)
  BY ZenonT(30), <1>1, <1>2, CompMarked
<1>4. PICK a \in 0..255, b \in 0..255, k \in 0..1 : a = m.r0 /\ b = m.r1 /\ k = m.r2
  BY Zenon, <1>3 DEF Three
<1>5. a + PAGE * b + LIMIT * k = Place(c, e, h)
  <2>1. Value(m) = a + PAGE * b + LIMIT * k
    BY Zenon, <1>4 DEF Value
  <2> QED BY <1>3, <2>1
<1>6. fcb \in RFcb /\ fcb.r0 = a /\ fcb.r1 = b /\ fcb.r2 = k
  BY Zenon, <1>3, <1>4, StuffedIs
<1>7. Goes(next, Place(c, e, h))
  BY Zenon, <1>1, <1>2, NextRead
<1>8. k = 0 <=> Place(c, e, h) < LIMIT
  BY <1>5 DEF PAGE, LIMIT
<1>9. CASE k = 0
  <2>1. PICK to : to = Split(a, b)
    OBVIOUS
  <2>2. /\ status' = 0 /\ fcb'.cr = to.cr /\ fcb'.ex = to.ex
        /\ fcb'.s2 \in Marked /\ fcb'.s2 % MARK = to.s2
        /\ Leads(to, a + PAGE * b)
    BY Zenon, <1>6, <1>9, <2>1, Sought
  <2>3. PICK i \in 0..127, j \in 0..31, l \in 0..15 : i = to.cr /\ j = to.ex /\ l = to.s2
    BY Zenon, <2>2 DEF Leads
  <2>4. PICK d \in 0..127, x \in 0..31, y \in 0..15 :
          /\ next = [ok |-> TRUE, cr |-> d, ex |-> x, s2 |-> y]
          /\ Place(d, x, y) = Place(c, e, h)
    BY Zenon, <1>7, <1>8, <1>9 DEF Goes
  <2>5. Place(i, j, l) = Place(d, x, y)
    <3>1. Place(i, j, l) = a + PAGE * b
      BY Zenon, <2>2, <2>3 DEF Leads
    <3> QED BY <1>5, <1>9, <2>4, <3>1 DEF PAGE, LIMIT
  <2>6. i = d /\ j = x /\ l = y
    BY <2>5 DEF Place
  <2>7. PICK z \in Marked : z = fcb'.s2
    BY <2>2
  <2>8. z % 16 = z % MARK
    BY DEF Marked, MARK
  <2> QED BY <2>2, <2>3, <2>4, <2>6, <2>7, <2>8
<1>10. CASE k = 1
  <2>1. status' = 6
    BY <1>6, <1>10 DEF POSITION
  <2>2. ~next.ok
    <3>1. ~(Place(c, e, h) < LIMIT)
      BY <1>8, <1>10
    <3> QED BY Zenon, <1>7, <3>1 DEF Goes
  <2> QED BY <2>1, <2>2
<1>11. k = 0 \/ k = 1
  OBVIOUS
<1> QED BY Zenon, <1>9, <1>10, <1>11

(* POSITION keeps the invariant. *)
LEMMA PositionKeeps == RInv /\ POSITION => RInv'
<1> SUFFICES ASSUME RInv, POSITION PROVE RInv'
  OBVIOUS
<1>1. /\ at = 0 /\ UNCHANGED <<was, dir, at>>
      /\ did' = Append(did, "POSITION") /\ status' \in {0, 6}
  BY DEF POSITION
<1>2. \A a, b : did' = <<a, b>> => did = <<a>> /\ "POSITION" = b
  <2> DEFINE S == {"SETRAN", "POSITION", "RANSIZE"}
  <2>1. did \in Seq(S) /\ "POSITION" \in S
    BY DEF RInv
  <2> HIDE DEF S
  <2>2. \A a, b : Append(did, "POSITION") = <<a, b>> => did = <<a>> /\ "POSITION" = b
    BY <2>1, Calls
  <2> QED BY Zenon, <1>1, <2>2
<1>3. ASSUME did = <<>>, status' = 0
      PROVE  Positioned'
  <2>1. fcb = was /\ fcb \in RFcb
    BY <1>1, <1>3 DEF RInv
  <2>2. fcb.r2 = 0
    BY <1>3 DEF POSITION
  <2>3. PICK to : to = Split(fcb.r0, fcb.r1)
    OBVIOUS
  <2>4. /\ fcb'.cr = to.cr /\ fcb'.ex = to.ex
        /\ fcb'.s2 \in Marked /\ fcb'.s2 % MARK = to.s2
        /\ fcb'.r0 = fcb.r0 /\ fcb'.r1 = fcb.r1 /\ fcb'.r2 = fcb.r2
        /\ Leads(to, fcb.r0 + PAGE * fcb.r1)
    BY Zenon, <2>1, <2>2, <2>3, Sought
  <2> QED BY ZenonT(30), <1>1, <2>1, <2>2, <2>4 DEF Positioned, Leads
<1>4. SameRecord'
  <2> SUFFICES ASSUME did' = <<"SETRAN", "POSITION">>
               PROVE  LET next == ReadsNext(was') IN
                      /\ next.ok <=> status' = 0
                      /\ next.ok => <<fcb'.cr, fcb'.ex, fcb'.s2 % 16>>
                                      = <<next.cr, next.ex, next.s2>>
    BY Zenon DEF SameRecord
  <2>1. PICK m : m = COMPRAND(was.cr, was.ex, was.s2)
    OBVIOUS
  <2>2. fcb = Stuffed(was, m) /\ was \in RFcb
    BY <1>2, <2>1 DEF RInv
  <2>3. PICK next : next = ReadsNext(was)
    OBVIOUS
  <2>4. /\ next.ok <=> status' = 0
        /\ next.ok => fcb'.cr = next.cr /\ fcb'.ex = next.ex /\ fcb'.s2 % 16 = next.s2
    BY Zenon, <2>1, <2>2, <2>3, SetranSeeks
  <2> QED BY <1>1, <2>3, <2>4
<1>5. PlaceKept'
  BY <1>2 DEF PlaceKept
<1>6. NumbersAgree'
  BY <1>4, <1>5 DEF NumbersAgree
<1> QED BY <1>1, <1>3, <1>6, Called

----------------------------------------------------------------------------
(* The number of an entry is that of the record behind its last one. *)
LEMMA EntryValue ==
  ASSUME NEW x \in Extent, NEW m, m = COMPRAND(x.rc, x.ex, x.s2)
  PROVE  m \in Three /\ Value(m) = Records(x) /\ Records(x) \in Nat
<1>1. PICK c \in 0..128, e \in 0..31, h \in 0..15 : c = x.rc /\ e = x.ex /\ h = x.s2
  <2> DEFINE T == [ex : 0..31, s2 : 0..15, rc : 0..128]
  <2>1. x \in T
    <3>1. Extent \subseteq T
      BY RandomAssumption
    <3> HIDE DEF T
    <3> QED BY <3>1
  <2> QED BY Zenon, <2>1
<1>2. m \in Three /\ Value(m) = Place(c, e, h)
  BY Zenon, <1>1, CompValue
<1>3. Place(c, e, h) \in Nat
  BY DEF Place
<1> QED BY Zenon, <1>1, <1>2, <1>3 DEF Records, Place

(* RANSIZE at any place. *)
LEMMA Sizing ==
  ASSUME RInv, did = <<>>, UNCHANGED <<was, dir, did>>, at' \in 1..Len(dir) + 1,
         fcb' \in RFcb, Largest(at - 1)'
  PROVE  RInv'
<1>1. at' \in 0..Len(dir') + 1 /\ at' # 0
  BY DEF RInv
<1>2. did' = <<>> /\ did' # <<"SETRAN">> /\ did' # <<"POSITION">> /\ did' # <<"RANSIZE">>
  OBVIOUS
<1>3. NumbersAgree'
  BY <1>2 DEF NumbersAgree, SameRecord, PlaceKept
<1>4. was' \in RFcb /\ dir' \in Seq(Extent)
      /\ did' \in Seq({"SETRAN", "POSITION", "RANSIZE"})
  BY DEF RInv
<1> QED BY Zenon, <1>1, <1>2, <1>3, <1>4 DEF RInv

(* RANSIZE keeps it: the number 0 is right when no entry has been seen. *)
LEMMA RansizeKeeps == RInv /\ RANSIZE => RInv'
<1> SUFFICES ASSUME RInv, RANSIZE PROVE RInv'
  OBVIOUS
<1>1. PICK z : z = [r0 |-> 0, r1 |-> 0, r2 |-> 0]
  BY Zenon
<1>2. /\ did = <<>> /\ at = 0 /\ at' = 1 /\ UNCHANGED <<was, dir, did>>
      /\ fcb' = Stuffed(fcb, z)
  BY <1>1 DEF RANSIZE
<1>3. z \in Three /\ Value(z) = 0
  BY <1>1 DEF Three, Value, PAGE, LIMIT
<1>4. fcb \in RFcb
  BY <1>2 DEF RInv
<1>5. fcb' \in RFcb /\ Value(fcb') = 0
  BY Zenon, <1>2, <1>3, <1>4, StuffedIs
<1>6. at' \in 1..Len(dir) + 1 /\ 1..at' - 1 = {}
  BY <1>2 DEF RInv
<1>7. Largest(at - 1)'
  BY Zenon, <1>5, <1>6 DEF Largest
<1> QED BY Zenon, <1>2, <1>5, <1>6, <1>7, Sizing

(* A round of RANSIZE's loop keeps it: the FCB has the larger number. *)
LEMMA Ransiz1Keeps == RInv /\ RANSIZ1 => RInv'
<1> SUFFICES ASSUME RInv, RANSIZ1 PROVE RInv'
  OBVIOUS
<1>1. at \in 1..Len(dir) /\ dir[at] \in Extent /\ at # 0
  BY DEF RInv, RANSIZ1
<1>2. PICK m : m = COMPRAND(dir[at].rc, dir[at].ex, dir[at].s2)
  OBVIOUS
<1>3. /\ fcb' = IF SUBTRACT(m, fcb) = 1 THEN fcb ELSE Stuffed(fcb, m)
      /\ at' = at + 1 /\ UNCHANGED <<was, dir, did>>
  BY Zenon, <1>2 DEF RANSIZ1
<1>4. did = <<>> /\ Largest(at - 1) /\ fcb \in RFcb
  BY <1>1 DEF RInv
<1>5. m \in Three /\ Value(m) = Records(dir[at]) /\ Records(dir[at]) \in Nat
  BY Zenon, <1>1, <1>2, EntryValue
<1>6. fcb.r0 \in 0..255 /\ fcb.r1 \in 0..255 /\ fcb.r2 \in 0..1
  BY <1>4 DEF RFcb
<1>7. SUBTRACT(m, fcb) = 1 <=> Value(m) < Value(fcb)
  BY Zenon, <1>5, <1>6, Borrows
<1>8. PICK v \in Nat, w \in Nat : v = Value(fcb) /\ w = Value(m)
  <2>1. \A a, b \in 0..255 : \A k \in 0..1 : a + PAGE * b + LIMIT * k \in Nat
    BY DEF PAGE, LIMIT
  <2>2. Value(fcb) \in Nat
    BY Zenon, <1>6, <2>1 DEF Value
  <2> QED BY <1>5, <2>2
<1>9. fcb' \in RFcb /\ Value(fcb') = IF w < v THEN v ELSE w
  BY Zenon, <1>3, <1>4, <1>5, <1>7, <1>8, StuffedIs
<1> DEFINE R(i) == Records(dir[i])
<1>10. v \in {0} \cup {R(i) : i \in 1..at - 1} /\ \A i \in 1..at - 1 : R(i) <= v
  BY Zenon, <1>4, <1>8 DEF Largest
<1>11. R(at) = w
  BY <1>5, <1>8
<1>12. ASSUME NEW i \in 1..at
       PROVE  R(i) \in Nat
  <2>1. dir[i] \in Extent
    BY <1>1 DEF RInv
  <2> QED BY Zenon, <2>1, EntryValue
<1> HIDE DEF R
<1>13. (IF w < v THEN v ELSE w) \in {0} \cup {R(i) : i \in 1..at}
  <2>1. 1..at = (1..at - 1) \cup {at}
    BY <1>1
  <2> QED BY <1>10, <1>11, <2>1
<1>14. ASSUME NEW i \in 1..at
       PROVE  R(i) <= (IF w < v THEN v ELSE w)
  BY <1>1, <1>10, <1>11, <1>12
<1>15. at' - 1 = at /\ at' \in 1..Len(dir) + 1
  BY <1>1, <1>3 DEF RInv
<1>16. Largest(at - 1)'
  <2>1. Value(fcb') \in {0} \cup {R(i) : i \in 1..at}
    BY Zenon, <1>9, <1>13
  <2>2. \A i \in 1..at : R(i) <= Value(fcb')
    BY Zenon, <1>9, <1>14
  <2> QED BY Zenon, <1>3, <1>15, <2>1, <2>2 DEF Largest, R
<1> QED BY Zenon, <1>3, <1>4, <1>9, <1>15, <1>16, Sizing

(* When no entry is left the FCB has the largest number of all. *)
LEMMA Ransiz3Keeps == RInv /\ RANSIZ3 => RInv'
<1> SUFFICES ASSUME RInv, RANSIZ3 PROVE RInv'
  OBVIOUS
<1>1. at = Len(dir) + 1 /\ did' = <<"RANSIZE">> /\ at' = 0 /\ UNCHANGED <<fcb, was, dir>>
  BY DEF RANSIZ3
<1>2. at # 0 /\ at - 1 = Len(dir) /\ at' \in 0..Len(dir') + 1
  BY <1>1 DEF RInv
<1>3. Largest(Len(dir))
  BY Zenon, <1>2 DEF RInv
<1>4. Largest(Len(dir))'
  BY Zenon, <1>1, <1>3 DEF Largest
<1>5. /\ did' # <<>> /\ did' # <<"SETRAN">> /\ did' # <<"POSITION">>
      /\ did' # <<"SETRAN", "POSITION">> /\ did' # <<"POSITION", "SETRAN">>
      /\ did' \in Seq({"SETRAN", "POSITION", "RANSIZE"})
  BY <1>1
<1>6. NumbersAgree'
  BY <1>5 DEF NumbersAgree, SameRecord, PlaceKept
<1>7. was' \in RFcb /\ dir' \in Seq(Extent)
  BY <1>1 DEF RInv
<1> QED BY Zenon, <1>1, <1>2, <1>4, <1>5, <1>6, <1>7 DEF RInv

(* The invariant holds throughout. *)
LEMMA RandomInvariant == RSpec => []RInv
<1>1. RInv /\ [RNext]_rvars => RInv'
  <2> SUFFICES ASSUME RInv, [RNext]_rvars PROVE RInv'
    OBVIOUS
  <2>1. CASE UNCHANGED rvars
    BY Zenon, <2>1 DEF rvars, RInv, Positioned, Largest, NumbersAgree, SameRecord, PlaceKept
  <2> QED BY <2>1, SetranKeeps, PositionKeeps, RansizeKeeps, Ransiz1Keeps, Ransiz3Keeps
          DEF RNext
<1> QED BY <1>1, RStart, PTL DEF RSpec

(* Sequential access and random access number the records alike: what SETRAN *)
(* computes leads POSITION to the record GETNEXT would read next, and the    *)
(* other way round, for every FCB a program can have.                        *)
THEOREM RandomNumbersAgree == RSpec => []NumbersAgree
<1>1. RInv => NumbersAgree
  BY DEF RInv
<1> QED BY <1>1, RandomInvariant, PTL

(* RANSIZE reports the end of the file for any number of extents in any      *)
(* order.                                                                    *)
THEOREM RansizeIsEnd == RSpec => []SizeIsEnd
<1>1. ASSUME RInv PROVE SizeIsEnd
  <2> SUFFICES ASSUME did = <<"RANSIZE">>
               PROVE  fcb.r0 + 256 * fcb.r1 + 65536 * fcb.r2
                        = Max({0} \cup {Records(dir[i]) : i \in DOMAIN dir})
    BY DEF SizeIsEnd
  <2> DEFINE S == {0} \cup {Records(dir[i]) : i \in DOMAIN dir}
  <2>1. DOMAIN dir = 1..Len(dir) /\ \A i \in DOMAIN dir : dir[i] \in Extent
    BY <1>1 DEF RInv
  <2>2. Largest(Len(dir))
    BY <1>1 DEF RInv
  <2>3. \A i \in DOMAIN dir : Records(dir[i]) \in Nat
    BY Zenon, <2>1, EntryValue
  <2>4. S \subseteq Nat
    BY <2>3
  <2>5. Value(fcb) \in S
    BY Zenon, <2>1, <2>2 DEF Largest
  <2>6. \A y \in S : y <= Value(fcb)
    <3>1. 0 <= Value(fcb)
      BY <2>4, <2>5
    <3>2. \A i \in DOMAIN dir : Records(dir[i]) <= Value(fcb)
      BY Zenon, <2>1, <2>2 DEF Largest
    <3> QED BY Zenon, <3>1, <3>2
  <2> HIDE DEF S
  <2>7. PICK v \in S : v = Value(fcb)
    BY <2>5
  <2>8. Max(S) = Value(fcb)
    <3>1. \A y \in S : v >= y
      BY <2>4, <2>6, <2>7
    <3>2. \A x \in S : (\A y \in S : x >= y) => x = v
      BY <2>4, <3>1
    <3> QED BY <2>7, <3>1, <3>2 DEF Max
  <2>9. Value(fcb) = fcb.r0 + 256 * fcb.r1 + 65536 * fcb.r2
    BY DEF Value, PAGE, LIMIT
  <2> QED BY <2>8, <2>9 DEF S
<1>2. RInv => SizeIsEnd
  BY <1>1
<1> QED BY <1>2, RandomInvariant, PTL
============================================================================
