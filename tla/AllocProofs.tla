----------------------------- MODULE AllocProofs ---------------------------
(***************************************************************************)
(* Where the blocks of a disk come from.  FNDSPACE finds the nearest free  *)
(* block on a disk of any size, whatever its allocation map; after the     *)
(* import of a host directory, for any number of host files on a disk of   *)
(* any size, the map the BDOS builds is exact and every record of an       *)
(* imported file is found where it is.                                     *)
(***************************************************************************)
EXTENDS FndSpace, Import, FiniteSetTheorems, NaturalsInduction, WellFoundedInduction,
        TLAPS

----------------------------------------------------------------------------
(* FNDSPACE. *)


(* What the loop has established: the blocks between the two pointers are    *)
(* in use, and the two walks are level unless one has reached its end.       *)
Looked ==
  /\ bc <= target /\ target <= de
  /\ alv = alv0 /\ hl = 0
  /\ \A b \in bc..de : b = target \/ b \in alv0

Level ==
  /\ pc = "FNDSPA1" => /\ bc > 0 => target - bc >= de - target
                       /\ de < DSKSIZE => de - target >= target - bc
  /\ pc = "FNDSPA2" => /\ bc > 0 => target - bc >= de - target + 1
                       /\ de < DSKSIZE => de - target + 1 >= target - bc

IInv ==
  /\ TypeOK
  /\ pc # "done" => Looked /\ Level
  /\ FindsNearest

(* A free block that FNDSPACE looks at before all the other free blocks is   *)
(* the one Nearest denotes: no two blocks have the same turn.                *)
LEMMA NearestUnique ==
  ASSUME NEW a \in SUBSET Block, NEW t \in Block, NEW b \in Unmarked(a, t),
         \A c \in Unmarked(a, t) : Turn(b, t) <= Turn(c, t)
  PROVE  Nearest(a, t) = b
<1> DEFINE Best(x) == \A c \in Unmarked(a, t) : Turn(x, t) <= Turn(c, t)
<1>1. ASSUME NEW x \in Unmarked(a, t), Best(x)
      PROVE  x = b
  <2>1. Turn(x, t) = Turn(b, t)
    <3>1. Turn(x, t) <= Turn(b, t) /\ Turn(b, t) <= Turn(x, t)
      BY <1>1
    <3>2. Turn(x, t) \in Int /\ Turn(b, t) \in Int
      BY AllocAssumption DEF Turn, Unmarked, Block
    <3> QED BY <3>1, <3>2
  <2> QED BY <2>1, AllocAssumption DEF Turn, Unmarked, Block
<1>2. b = CHOOSE x \in Unmarked(a, t) : Best(x)
  BY <1>1
<1>3. Unmarked(a, t) # {}
  OBVIOUS
<1> QED BY <1>2, <1>3 DEF Nearest

(* One step of the walk down keeps the invariant. *)
LEMMA StepDown == IInv /\ FNDSPA1 => IInv'
<1> SUFFICES ASSUME IInv, FNDSPA1 PROVE IInv'
  OBVIOUS
<1>0. Looked /\ Level /\ pc = "FNDSPA1"
  BY DEF IInv, FNDSPA1
<1>1. CASE bc = 0
  <2>1. pc' = "FNDSPA2" /\ UNCHANGED <<target, bc, de, alv0, alv, hl>>
    BY <1>1 DEF FNDSPA1
  <2>2. TypeOK'
    BY <2>1 DEF IInv, TypeOK
  <2>3. Looked' /\ Level'
    BY <1>0, <1>1, <2>1, AllocAssumption DEF IInv, TypeOK, Looked, Level, Block
  <2> QED BY <2>1, <2>2, <2>3 DEF IInv, FindsNearest
<1>2. CASE bc # 0 /\ bc - 1 \in alv
  <2>1. /\ pc' = "FNDSPA2" /\ bc' = bc - 1
        /\ UNCHANGED <<target, de, alv0, alv, hl>>
    BY <1>2 DEF FNDSPA1
  <2>2. TypeOK'
    BY <1>2, <2>1, AllocAssumption DEF IInv, TypeOK, Block
  <2>3. Looked' /\ Level'
    BY <1>0, <1>2, <2>1, AllocAssumption DEF IInv, TypeOK, Looked, Level, Block
  <2> QED BY <2>1, <2>2, <2>3 DEF IInv, FindsNearest
<1>3. CASE bc # 0 /\ bc - 1 \notin alv
  <2>1. /\ pc' = "done" /\ bc' = bc - 1 /\ hl' = bc - 1
        /\ alv' = alv \cup {bc - 1} /\ UNCHANGED <<target, de, alv0>>
    BY <1>3 DEF FNDSPA1, Take
  <2>2. TypeOK'
    BY <1>3, <2>1, AllocAssumption DEF IInv, TypeOK, Block
  <2>3. bc - 1 \in Unmarked(alv0, target)
    BY <1>0, <1>3, AllocAssumption DEF IInv, TypeOK, Looked, Unmarked, Block
  <2>4. \A c \in Unmarked(alv0, target) : Turn(bc - 1, target) <= Turn(c, target)
    BY <1>0, <1>3, AllocAssumption
       DEF IInv, TypeOK, Looked, Level, Unmarked, Turn, Block
  <2>5. Nearest(alv0, target) = bc - 1
    BY <2>3, <2>4, NearestUnique DEF IInv, TypeOK
  <2>6. hl' # 0
    BY <1>0, <1>3, <2>1, AllocAssumption DEF IInv, TypeOK, Looked
  <2> QED BY <1>0, <2>1, <2>2, <2>5, <2>6 DEF IInv, FindsNearest, Looked
<1> QED BY <1>1, <1>2, <1>3

(* One step of the walk up keeps it too, the end of the search included. *)
LEMMA StepUp == IInv /\ FNDSPA2 => IInv'
<1> SUFFICES ASSUME IInv, FNDSPA2 PROVE IInv'
  OBVIOUS
<1>0. Looked /\ Level /\ pc = "FNDSPA2"
  BY DEF IInv, FNDSPA2
<1>1. CASE de >= DSKSIZE /\ bc # 0
  <2>1. pc' = "FNDSPA1" /\ UNCHANGED <<target, bc, de, alv0, alv, hl>>
    BY <1>1 DEF FNDSPA2
  <2>2. TypeOK'
    BY <2>1 DEF IInv, TypeOK
  <2>3. Looked' /\ Level'
    BY <1>0, <1>1, <2>1, AllocAssumption DEF IInv, TypeOK, Looked, Level, Block
  <2> QED BY <2>1, <2>2, <2>3 DEF IInv, FindsNearest
<1>2. CASE de >= DSKSIZE /\ bc = 0
  <2>1. pc' = "done" /\ UNCHANGED <<target, bc, de, alv0, alv, hl>>
    BY <1>2 DEF FNDSPA2
  <2>2. Unmarked(alv0, target) = {}
    BY <1>0, <1>2, AllocAssumption DEF IInv, TypeOK, Looked, Unmarked, Block
  <2> QED BY <1>0, <2>1, <2>2 DEF IInv, TypeOK, FindsNearest, Looked, Nearest
<1>3. CASE de < DSKSIZE /\ de + 1 \in alv
  <2>1. /\ pc' = "FNDSPA1" /\ de' = de + 1
        /\ UNCHANGED <<target, bc, alv0, alv, hl>>
    BY <1>3, AllocAssumption DEF FNDSPA2, IInv, TypeOK, Block
  <2>2. TypeOK'
    BY <1>3, <2>1, AllocAssumption DEF IInv, TypeOK, Block
  <2>3. Looked' /\ Level'
    BY <1>0, <1>3, <2>1, AllocAssumption DEF IInv, TypeOK, Looked, Level, Block
  <2> QED BY <2>1, <2>2, <2>3 DEF IInv, FindsNearest
<1>4. CASE de < DSKSIZE /\ de + 1 \notin alv
  <2>1. /\ pc' = "done" /\ de' = de + 1 /\ hl' = de + 1
        /\ alv' = alv \cup {de + 1} /\ UNCHANGED <<target, bc, alv0>>
    BY <1>4, AllocAssumption DEF FNDSPA2, Take, IInv, TypeOK, Block
  <2>2. TypeOK'
    BY <1>4, <2>1, AllocAssumption DEF IInv, TypeOK, Block
  <2>3. de + 1 \in Unmarked(alv0, target)
    BY <1>0, <1>4, AllocAssumption DEF IInv, TypeOK, Looked, Unmarked, Block
  <2>4. \A c \in Unmarked(alv0, target) : Turn(de + 1, target) <= Turn(c, target)
    BY <1>0, <1>4, AllocAssumption
       DEF IInv, TypeOK, Looked, Level, Unmarked, Turn, Block
  <2>5. Nearest(alv0, target) = de + 1
    BY <2>3, <2>4, NearestUnique DEF IInv, TypeOK
  <2>6. hl' # 0
    BY <1>0, <1>4, <2>1, AllocAssumption DEF IInv, TypeOK, Block
  <2> QED BY <1>0, <2>1, <2>2, <2>5, <2>6 DEF IInv, FindsNearest, Looked
<1> QED BY <1>1, <1>2, <1>3, <1>4, AllocAssumption DEF IInv, TypeOK, Block

(* FNDSPACE returns the free block nearest to its target, or 0 when every    *)
(* block of the disk is in use, and marks only that block.                   *)
THEOREM FndSpaceCorrect == Spec => []FindsNearest
<1>1. Init => IInv
  BY AllocAssumption DEF Init, IInv, TypeOK, Looked, Level, FindsNearest, Block
<1>2. IInv /\ [Next]_vars => IInv'
  <2> SUFFICES ASSUME IInv, [Next]_vars PROVE IInv'
    OBVIOUS
  <2>1. CASE FNDSPA1
    BY <2>1, StepDown
  <2>2. CASE FNDSPA2
    BY <2>2, StepUp
  <2>3. CASE UNCHANGED vars
    BY <2>3 DEF vars, IInv, TypeOK, Looked, Level, FindsNearest
  <2> QED BY <2>1, <2>2, <2>3 DEF Next, Done
<1>3. IInv => FindsNearest
  BY DEF IInv
<1> QED BY <1>1, <1>2, <1>3, PTL DEF Spec

----------------------------------------------------------------------------
(* The import of a host directory. *)

(* What the two disk parameter blocks of the BIOS and the code have in       *)
(* common: the pointers of an entry cover its extent (16 blocks of 8 records *)
(* or 8 of 16, 128 records), neither the BDOS (32) nor GetExtNumber (256)    *)
(* counts fewer extents in the low byte than addfile (16), and the directory *)
(* is at the beginning of the disk.                                          *)
Geometry ==
  /\ RPE = Pointers * RPB
  /\ LOW <= EXTS /\ LOW <= XH
  /\ DirBlocks = 0..Cardinality(DirBlocks) - 1

(* The d-th extent of host file u, which has n blocks from block b on. *)
ExtentFrom(u, d, n, b) ==
  LET k == Least(n - d * Pointers, Pointers)
  IN [name |-> CpmName[u], ro |-> FALSE, ex |-> d % LOW, s2 |-> (d \div LOW) % 32,
      rc |-> k * RPB, al |-> [i \in Ptr |-> IF i < k THEN b + d * Pointers + i ELSE 0]]

ExtentsOf(n) == 0..(n \div Pointers)

(* The directory d describes the files I, where file u has n[u] blocks from  *)
(* st[u] on: every entry is an extent of one of them, every extent has an    *)
(* entry, and the files take up the blocks below f, each block once.         *)
Laid(d, I, n, st, f) ==
  /\ \A u \in I : /\ Cardinality(DirBlocks) <= st[u]
                  /\ st[u] + n[u] <= f
  /\ \A p \in Used(d) : \E u \in I : \E x \in ExtentsOf(n[u]) :
       d[p] = ExtentFrom(u, x, n[u], st[u])
  /\ \A u \in I : \A x \in ExtentsOf(n[u]) : \E p \in Used(d) :
       d[p] = ExtentFrom(u, x, n[u], st[u])
  /\ \A u, w \in I : u = w \/ st[u] + n[u] <= st[w] \/ st[w] + n[w] <= st[u]
  /\ \A b \in Block : Cardinality(DirBlocks) <= b /\ b < f =>
       \E u \in I : st[u] <= b /\ b < st[u] + n[u]

FileBlocks == [u \in Host |-> BlocksOf(size[u])]

(* The inductive invariant. *)
ImportInv ==
  /\ size \in [Host -> 0..MaxSize] /\ todo \subseteq Host
  /\ h = [dir |-> h.dir, cpm2unix |-> h.cpm2unix, cache |-> <<>>,
          files |-> [u \in Host |-> Content(u)], path_ |-> "drive", up |-> h.up]
  /\ h.dir = [p \in Pos |-> h.dir[p]]
  /\ \A k \in DOMAIN h.cpm2unix : /\ h.cpm2unix[k] \in Host
                                  /\ k = <<CpmName[h.cpm2unix[k]], FALSE>>
  /\ freeblock_ \in 0..DSKSIZE + 1 /\ Cardinality(DirBlocks) <= freeblock_
  /\ \E st \in [Host -> 0..DSKSIZE + 1] : Laid(h.dir, Imported, FileBlocks, st, freeblock_)

----------------------------------------------------------------------------
(* A nonempty set of numbers has a least element, which First denotes. *)
LEMMA Lowest ==
  ASSUME NEW S \in SUBSET Nat, S # {}
  PROVE  First(S) \in S /\ \A y \in S : First(S) <= y
<1>1. PICK R : IsWellFoundedOn(R, Nat) /\ \A x, y \in Nat : y < x => <<y, x>> \in R
  <2>1. \A x, y \in Nat : y < x => <<y, x>> \in OpToRel(<, Nat)
    BY DEF OpToRel
  <2> QED BY Zenon, <2>1, NatLessThanWellFounded
<1>2. PICK x \in S : \A y \in S : ~(<<y, x>> \in R)
  BY Zenon, <1>1, WFMin
<1>3. ASSUME NEW y \in S
      PROVE  x <= y
  <2>1. x \in Nat /\ y \in Nat
    OBVIOUS
  <2>2. ~(y < x)
    BY Zenon, <1>1, <1>2, <2>1
  <2> QED BY <2>1, <2>2
<1> QED BY Zenon, <1>3 DEF First

(* An entry has at least one pointer. *)
LEMMA Pointed == 0 \in Ptr /\ Ptr \subseteq Nat
<1>1. RPB \in Nat \ {0} /\ RPE \in Nat \ {0}
  BY BdosAssumption
<1>2. (RPE - 1) \div RPB \in Nat
  BY <1>1
<1> QED BY <1>1, <1>2 DEF Ptr

(* NewDir hands out the free entries in order: the d-th extent of a file     *)
(* gets the entry with d free ones before it.                                *)
Rank(S, p) == Cardinality({q \in S : q < p})

(* Every number below that of the free entries is the rank of one. *)
LEMMA RankOf ==
  ASSUME NEW N \in Nat, NEW S, IsFiniteSet(S), \A x \in S : x \in Nat /\ x <= N,
         NEW d \in Nat, d < Cardinality(S)
  PROVE  \E p \in S : Rank(S, p) = d
<1> DEFINE L(n) == {q \in S : q < n}
           T == {n \in Nat : Rank(S, n) > d}
<1>2. \A n \in Nat : IsFiniteSet(L(n)) /\ Cardinality(L(n)) \in Nat
  BY FS_Subset, FS_CardinalityType
<1>3. L(N + 1) = S
  OBVIOUS
<1>4. N + 1 \in T
  BY <1>3 DEF Rank
<1>5. PICK n \in T : \A y \in T : ~(y < n)
  <2>1. T \in SUBSET Nat /\ T # {}
    BY <1>4
  <2> HIDE DEF T
  <2>2. First(T) \in T /\ \A y \in T : First(T) <= y
    BY <2>1, Lowest
  <2>3. First(T) \in Nat /\ \A y \in T : y \in Nat
    BY Zenon, <2>1, <2>2
  <2>4. ASSUME NEW y \in T
        PROVE  ~(y < First(T))
    BY <2>2, <2>3
  <2> QED BY <2>2, <2>4
<1>6. n # 0
  <2>1. L(0) = {}
    OBVIOUS
  <2>2. Rank(S, 0) = 0
    BY <2>1, FS_EmptySet DEF Rank
  <2> QED BY <1>5, <2>2
<1>7. n - 1 \in Nat /\ n \in Nat
  BY <1>5, <1>6
<1>8. ~(Rank(S, n - 1) > d)
  <2>1. n - 1 \notin T
    BY <1>5, <1>7
  <2> QED BY <1>7, <2>1
<1>9. CASE n - 1 \notin S
  <2>1. L(n) = L(n - 1)
    BY <1>7, <1>9
  <2> QED BY Zenon, <1>5, <1>8, <2>1 DEF Rank
<1>10. CASE n - 1 \in S
  <2>1. L(n) = L(n - 1) \cup {n - 1} /\ n - 1 \notin L(n - 1)
    BY <1>7, <1>10
  <2>2. IsFiniteSet(L(n - 1)) /\ Cardinality(L(n - 1)) \in Nat
    BY <1>2, <1>7
  <2>3. Cardinality(L(n)) = Cardinality(L(n - 1)) + 1
    BY Zenon, <2>1, <2>2, FS_AddElement
  <2>4. Rank(S, n) = Rank(S, n - 1) + 1 /\ Rank(S, n - 1) \in Nat
    BY <2>2, <2>3 DEF Rank
  <2>5. Rank(S, n) > d
    BY <1>5
  <2>6. Rank(S, n - 1) = d
    BY <1>8, <2>4, <2>5
  <2> QED BY <1>10, <2>6
<1> QED BY <1>9, <1>10

----------------------------------------------------------------------------
(* Sizes. *)

(* The directory has a block, and an entry a pointer. *)
LEMMA Sizes ==
  /\ Cardinality(DirBlocks) \in Nat \ {0} /\ Cardinality(DirBlocks) <= DSKSIZE + 1
  /\ Pointers \in Nat \ {0} /\ Ptr = 0..Pointers - 1
  /\ DSKSIZE \in Nat /\ RPB \in Nat \ {0} /\ RPE \in Nat \ {0}
  /\ EXTS \in Nat \ {0} /\ LOW \in Nat \ {0} /\ XH \in Nat \ {0}
<1>1. /\ DSKSIZE \in Nat /\ RPB \in Nat \ {0} /\ RPE \in Nat \ {0}
      /\ EXTS \in Nat \ {0} /\ LOW \in Nat \ {0} /\ XH \in Nat \ {0}
  BY AllocAssumption, BdosAssumption, ImportAssumption, HostAssumption
<1>2. IsFiniteSet(0..DSKSIZE) /\ Cardinality(0..DSKSIZE) = DSKSIZE + 1
  <2>1. 0 \in Int /\ DSKSIZE \in Int /\ 0 <= DSKSIZE
    BY <1>1
  <2> QED BY <2>1, <1>1, FS_Interval
<1>3. IsFiniteSet(DirBlocks) /\ Cardinality(DirBlocks) <= DSKSIZE + 1
  BY Zenon, <1>2, FS_Subset, AllocAssumption
<1>4. Cardinality(DirBlocks) \in Nat /\ Cardinality(DirBlocks) # 0
  BY <1>3, FS_CardinalityType, FS_EmptySet, AllocAssumption
<1> DEFINE t == (RPE - 1) \div RPB
<1>5. t \in Nat /\ Ptr = 0..t
  BY <1>1 DEF Ptr
<1> HIDE DEF t
<1>6. Cardinality(0..t) = t + 1
  <2>1. 0 \in Int /\ t \in Int /\ 0 <= t
    BY <1>5
  <2> QED BY <2>1, <1>5, FS_Interval
<1>7. Pointers = t + 1
  BY <1>5, <1>6 DEF Pointers
<1> QED BY <1>1, <1>3, <1>4, <1>5, <1>7

(* Division, with the quotient and the remainder named. *)
LEMMA Quotient ==
  ASSUME NEW n \in Nat, NEW k \in Nat \ {0}
  PROVE  /\ n \div k \in Nat /\ n % k \in Nat /\ n % k < k
         /\ n = k * (n \div k) + (n % k)
<1>1. n \div k \in Nat
  OBVIOUS
<1>2. n % k \in Nat /\ n % k < k
  OBVIOUS
<1>3. n = k * (n \div k) + (n % k)
  OBVIOUS
<1> QED BY <1>1, <1>2, <1>3

(* The quotient is the only one. *)
LEMMA QuotientIs ==
  ASSUME NEW k \in Nat \ {0}, NEW q \in Nat, NEW r \in Nat, r < k
  PROVE  (q * k + r) \div k = q /\ (q * k + r) % k = r
<1>1. (q * k + r) \div k = q
  OBVIOUS
<1>2. (q * k + r) % k = r
  OBVIOUS
<1> QED BY <1>1, <1>2

(* The extents of a file begin inside it, and the last but one is full. *)
LEMMA ExtentCount ==
  ASSUME NEW n \in Nat, NEW d \in ExtentsOf(n)
  PROVE  /\ d \in Nat /\ d * Pointers \in Nat /\ d * Pointers <= n
         /\ Least(n - d * Pointers, Pointers) \in 0..Pointers
         /\ d * Pointers + Least(n - d * Pointers, Pointers) <= n
<1> DEFINE P == Pointers
           q == n \div P
           e == d * P
<1>0. P \in Nat \ {0}
  BY Sizes
<1>1. q \in Nat /\ n % P \in Nat /\ n = P * q + (n % P)
  BY <1>0, Quotient
<1>2. d \in Nat /\ d <= q
  BY <1>1 DEF ExtentsOf
<1>3. e \in Nat
  BY <1>0, <1>2
<1>4. e <= n
  <2> HIDE DEF P, q
  <2>1. d * P <= q * P /\ q * P = P * q /\ P * q \in Nat
    BY <1>0, <1>1, <1>2
  <2>2. P * q <= n
    BY <1>1, <2>1
  <2> QED BY <1>3, <2>1, <2>2
<1> HIDE DEF P, e
<1>5. Least(n - e, P) \in 0..P /\ e + Least(n - e, P) <= n
  BY <1>0, <1>3, <1>4 DEF Least
<1> QED BY <1>2, <1>3, <1>4, <1>5 DEF P, e

(* An extent is an entry in use. *)
LEMMA ExtentIs ==
  ASSUME Geometry, NEW u \in Host, NEW n \in Nat, NEW d \in ExtentsOf(n),
         NEW b \in Nat, b + n <= DSKSIZE + 1
  PROVE  ExtentFrom(u, d, n, b) # Unused
<1> DEFINE x == d * Pointers
           k == Least(n - x, Pointers)
           e == ExtentFrom(u, d, n, b)
<1>1. /\ d \in Nat /\ x \in Nat /\ k \in 0..Pointers /\ x + k <= n
  BY ExtentCount
<1>2. /\ e = [name |-> CpmName[u], ro |-> FALSE, ex |-> d % LOW, s2 |-> (d \div LOW) % 32,
              rc |-> k * RPB, al |-> [i \in Ptr |-> IF i < k THEN b + x + i ELSE 0]]
  BY DEF ExtentFrom
<1>3. CpmName[u] \in Name
  BY ImportAssumption
<1>4. d % LOW \in 0..EXTS - 1
  <2>1. d % LOW \in 0..LOW - 1
    BY <1>1, Sizes
  <2> QED BY <2>1, Sizes DEF Geometry
<1>5. (d \div LOW) % 32 \in 0..127
  <2>1. d \div LOW \in Nat
    BY <1>1, Sizes
  <2> DEFINE y == d \div LOW
  <2> HIDE DEF y
  <2>2. y \in Nat
    BY <2>1 DEF y
  <2>3. y % 32 \in 0..127
    BY <2>2
  <2> QED BY <2>3 DEF y
<1>6. k * RPB \in 0..RPE
  <2>1. k \in Nat /\ k <= Pointers /\ Pointers \in Nat /\ RPB \in Nat
    BY <1>1, Sizes
  <2>2. k * RPB <= Pointers * RPB /\ k * RPB \in Nat
    BY <2>1
  <2>3. RPE = Pointers * RPB
    BY DEF Geometry
  <2>4. k * RPB <= RPE /\ RPE \in Nat
    BY <2>2, <2>3, Sizes
  <2> QED BY <2>2, <2>4
<1> HIDE DEF x, k
<1>7. [i \in Ptr |-> IF i < k THEN b + x + i ELSE 0] \in [Ptr -> Block]
  <2>1. \A i \in Ptr : (IF i < k THEN b + x + i ELSE 0) \in 0..DSKSIZE
    BY <1>1, Sizes, Pointed
  <2> QED BY <2>1 DEF Block
<1>8. e \in Entry
  BY <1>2, <1>3, <1>4, <1>5, <1>6, <1>7 DEF Entry
<1> QED BY <1>8, UnusedAssumption

(* An empty cache has no sectors. *)
LEMMA NothingIn == DOMAIN <<>> = {}
OBVIOUS

(* The blocks of a file are the ones its extents point to. *)
LEMMA InExtent ==
  ASSUME Geometry, NEW u \in Host, NEW n \in Nat, NEW b \in Nat, b + n <= DSKSIZE + 1, b # 0
  PROVE  /\ \A d \in ExtentsOf(n) : \A i \in Ptr :
              LET e == ExtentFrom(u, d, n, b) IN
              e.al[i] # 0 => /\ e.al[i] = b + d * Pointers + i
                             /\ b <= e.al[i] /\ e.al[i] < b + n
         /\ \A c \in Nat : b <= c /\ c < b + n =>
              \E d \in ExtentsOf(n) : \E i \in Ptr : ExtentFrom(u, d, n, b).al[i] = c
<1>1. ASSUME NEW d \in ExtentsOf(n), NEW i \in Ptr, NEW e, e = ExtentFrom(u, d, n, b),
             e.al[i] # 0
      PROVE  /\ e.al[i] = b + d * Pointers + i
             /\ b <= e.al[i] /\ e.al[i] < b + n
  <2> DEFINE k == Least(n - d * Pointers, Pointers)
             x == d * Pointers
  <2>1. x \in Nat /\ k \in 0..Pointers /\ x + k <= n
    BY ExtentCount
  <2>2. e.al[i] = IF i < k THEN b + x + i ELSE 0
    BY <1>1 DEF ExtentFrom
  <2>3. i \in Nat
    BY Pointed
  <2> HIDE DEF k, x
  <2>4. e.al[i] = b + x + i /\ b <= e.al[i] /\ e.al[i] < b + n
    BY <1>1, <2>1, <2>2, <2>3, Sizes
  <2> QED BY <2>4 DEF x
<1>2. ASSUME NEW c \in Nat, b <= c, c < b + n
      PROVE  \E d \in ExtentsOf(n) : \E i \in Ptr : ExtentFrom(u, d, n, b).al[i] = c
  <2> DEFINE j == c - b
             P == Pointers
             d == j \div P
             i == j % P
             k == Least(n - d * P, P)
  <2>1. j \in Nat /\ j < n /\ P \in Nat \ {0}
    BY <1>2, Sizes
  <2>2. d \in Nat /\ i \in Nat /\ i < P /\ j = P * d + i
    BY <2>1, Quotient
  <2>3. n \div P \in Nat /\ n % P \in Nat /\ n % P < P /\ n = P * (n \div P) + (n % P)
    BY <2>1, Quotient
  <2>4. d <= n \div P
    <3> DEFINE q == n \div P
    <3> HIDE DEF q, P, d, i, j
    <3>1. SUFFICES ASSUME q < d PROVE FALSE
      BY <2>2, <2>3 DEF q
    <3>2. q + 1 <= d /\ q \in Nat
      BY <2>2, <2>3, <3>1 DEF q
    <3>3. P * (q + 1) <= P * d /\ P * (q + 1) = P * q + P /\ P * q \in Nat /\ P * d \in Nat
      BY <2>1, <2>2, <3>2
    <3>4. n < P * q + P
      BY <2>1, <2>3, <3>3 DEF q
    <3> QED BY <2>1, <2>2, <3>3, <3>4
  <2>5. d \in ExtentsOf(n)
    BY <2>2, <2>3, <2>4 DEF ExtentsOf
  <2>6. i \in Ptr
    BY <2>1, <2>2, Sizes
  <2>7. ExtentFrom(u, d, n, b).al[i] = IF i < k THEN b + d * P + i ELSE 0
    BY <2>6 DEF ExtentFrom
  <2>8. d * P = P * d /\ d * P \in Nat
    <3> HIDE DEF P, d
    <3> QED BY <2>1, <2>2
  <2>9. i < k /\ b + d * P + i = c
    <3> DEFINE x == d * P
    <3>1. x \in Nat /\ j = x + i
      BY <2>2, <2>8
    <3> HIDE DEF x
    <3>2. i < Least(n - x, P)
      <4> HIDE DEF j, i, P
      <4> QED BY <2>1, <2>2, <3>1 DEF Least
    <3>3. b + x + i = c
      BY <1>2, <2>2, <3>1
    <3> QED BY <3>2, <3>3 DEF x
  <2> QED BY <2>5, <2>6, <2>7, <2>9
<1> QED BY <1>1, <1>2

----------------------------------------------------------------------------
(* The invariant. *)

(* An empty disk describes no file. *)
LEMMA ImportBegins == IInit => ImportInv
<1> SUFFICES ASSUME IInit PROVE ImportInv
  OBVIOUS
<1>1. h = [dir |-> [p \in Pos |-> Unused], cpm2unix |-> <<>>, cache |-> <<>>,
           files |-> [u \in Host |-> Content(u)], path_ |-> "drive", up |-> TRUE]
  BY Zenon DEF IInit, EmptyHost
<1>2. h.dir = [p \in Pos |-> Unused] /\ h.cpm2unix = <<>>
  BY <1>1
<1>3. Used(h.dir) = {}
  BY <1>2 DEF Used
<1>4. DOMAIN h.cpm2unix = {} /\ Imported = {}
  BY <1>2 DEF Imported
<1>5. freeblock_ = Cardinality(DirBlocks) /\ freeblock_ \in 0..DSKSIZE + 1
  BY Sizes DEF IInit
<1>6. Laid(h.dir, Imported, FileBlocks, [u \in Host |-> 0], freeblock_)
  <2>1. \A b \in Block : ~(Cardinality(DirBlocks) <= b /\ b < freeblock_)
    BY <1>5, Sizes DEF Block
  <2> QED BY <1>3, <1>4, <2>1 DEF Laid
<1>7. [u \in Host |-> 0] \in [Host -> 0..DSKSIZE + 1]
  BY Sizes
<1>8. h = [dir |-> h.dir, cpm2unix |-> h.cpm2unix, cache |-> <<>>,
           files |-> [u \in Host |-> Content(u)], path_ |-> "drive", up |-> h.up]
  BY <1>1
<1>9. h.dir = [p \in Pos |-> h.dir[p]]
  BY <1>2
<1>10. size \in [Host -> 0..MaxSize] /\ todo \subseteq Host
  BY DEF IInit
<1>11. \A k \in DOMAIN h.cpm2unix : /\ h.cpm2unix[k] \in Host
                                    /\ k = <<CpmName[h.cpm2unix[k]], FALSE>>
  BY <1>4
<1>12. \E st \in [Host -> 0..DSKSIZE + 1] : Laid(h.dir, Imported, FileBlocks, st, freeblock_)
  BY <1>6, <1>7
<1>13. Cardinality(DirBlocks) <= freeblock_
  BY <1>5, Sizes
<1> QED BY Zenon, <1>5, <1>8, <1>9, <1>10, <1>11, <1>12, <1>13 DEF ImportInv

(* A number of blocks. *)
LEMMA BlocksType ==
  ASSUME ImportInv, NEW u \in Host
  PROVE  /\ size[u] \in Nat /\ size[u] <= MaxSize /\ BlocksOf(size[u]) \in Nat
         /\ FileBlocks[u] = BlocksOf(size[u])
<1>1. size[u] \in Nat /\ size[u] <= MaxSize
  BY ImportAssumption DEF ImportInv
<1>2. size[u] + RPB - 1 \in Nat /\ RPB \in Nat \ {0}
  BY <1>1, Sizes
<1>3. (size[u] + RPB - 1) \div RPB \in Nat
  BY <1>2
<1> QED BY <1>1, <1>3 DEF FileBlocks, BlocksOf

(* The file u joins the files I: its extents take the first free entries,    *)
(* its blocks the first free blocks.                                         *)
LEMMA Joins ==
  ASSUME Geometry, NEW I \in SUBSET Host, NEW u \in Host \ I, NEW n \in [Host -> Nat],
         NEW d, NEW d1, NEW f \in 0..DSKSIZE + 1, Cardinality(DirBlocks) <= f,
         f + n[u] <= DSKSIZE + 1, NEW st \in [Host -> 0..DSKSIZE + 1],
         Laid(d, I, n, st, f), NEW F, F = {p \in Pos : d[p] = Unused},
         (n[u] \div Pointers) < Cardinality(F),
         \A p \in Pos : d1[p] = IF p \in F /\ Rank(F, p) < 1 + (n[u] \div Pointers)
                                THEN ExtentFrom(u, Rank(F, p), n[u], f) ELSE d[p]
  PROVE  Laid(d1, I \cup {u}, n, [st EXCEPT ![u] = f], f + n[u])
<1> DEFINE t == [st EXCEPT ![u] = f]
           q == n[u] \div Pointers
           K == Cardinality(DirBlocks)
<1>0. n[u] \in Nat /\ q \in Nat
  BY Sizes, Quotient
<1>1. t[u] = f /\ \A w \in I : t[w] = st[w] /\ t[w] \in Nat /\ n[w] \in Nat
  OBVIOUS
<1>2. K \in Nat \ {0} /\ f \in Nat /\ DSKSIZE \in Nat
  BY Sizes
<1> HIDE DEF t, K
<1>3. ASSUME NEW x \in ExtentsOf(n[u])
      PROVE  x \in Nat /\ x <= q /\ ExtentFrom(u, x, n[u], f) # Unused
  <2>1. x \in Nat /\ x <= q
    BY <1>0, <1>3 DEF ExtentsOf
  <2> QED BY <1>0, <1>2, <2>1, ExtentIs
<1>4. IsFiniteSet(F) /\ \A p \in F : p \in Pos /\ p \in Nat /\ p <= DIRSIZE
  <2>1. DIRSIZE \in Nat
    BY BdosAssumption
  <2>2. IsFiniteSet(0..DIRSIZE)
    <3>1. 0 \in Int /\ DIRSIZE \in Int
      BY <2>1
    <3> QED BY <3>1, FS_Interval
  <2>3. F \in SUBSET (0..DIRSIZE)
    BY DEF Pos
  <2>4. IsFiniteSet(F)
    BY Zenon, <2>2, <2>3, FS_Subset
  <2> QED BY <2>1, <2>4 DEF Pos
<1>5. \A p \in F : Rank(F, p) \in Nat
  BY <1>4, FS_Subset, FS_CardinalityType DEF Rank
<1>6. \A p \in F : Rank(F, p) < 1 + q => Rank(F, p) \in ExtentsOf(n[u])
  BY <1>0, <1>5 DEF ExtentsOf
<1>7. Used(d) = Pos \ F
  BY DEF Used
<1>8. \A p \in Used(d) : p \in Used(d1) /\ d1[p] = d[p]
  BY Zenon, <1>7 DEF Used
<1>9. \A w \in I \cup {u} : K <= t[w] /\ t[w] + n[w] <= f + n[u]
  BY <1>0, <1>1, <1>2 DEF Laid, K
<1>10. ASSUME NEW p \in Used(d1)
       PROVE  \E w \in I \cup {u} : \E x \in ExtentsOf(n[w]) :
                d1[p] = ExtentFrom(w, x, n[w], t[w])
  <2>0. p \in Pos /\ d1[p] # Unused
    BY <1>10 DEF Used
  <2>1. CASE p \in F
    <3>1. Rank(F, p) < 1 + q /\ d1[p] = ExtentFrom(u, Rank(F, p), n[u], f)
      BY <2>0, <2>1
    <3> QED BY Zenon, <1>1, <1>6, <2>1, <3>1
  <2>2. CASE p \notin F
    <3>1. p \in Used(d) /\ d1[p] = d[p]
      BY <1>7, <1>8, <2>0, <2>2
    <3>2. PICK w \in I : \E x \in ExtentsOf(n[w]) : d[p] = ExtentFrom(w, x, n[w], st[w])
      BY <3>1 DEF Laid
    <3> QED BY Zenon, <1>1, <3>1, <3>2
  <2> QED BY <2>1, <2>2
<1>11. ASSUME NEW w \in I \cup {u}, NEW x \in ExtentsOf(n[w])
       PROVE  \E p \in Used(d1) : d1[p] = ExtentFrom(w, x, n[w], t[w])
  <2>1. CASE w = u
    <3>1. x \in Nat /\ x <= q /\ ExtentFrom(u, x, n[u], f) # Unused
      BY <1>3, <2>1
    <3>2. Cardinality(F) \in Nat
      BY <1>4, FS_CardinalityType
    <3>3. x < Cardinality(F)
      BY <1>0, <3>1, <3>2
    <3>4. PICK p \in F : Rank(F, p) = x
      BY Zenon, <1>4, <3>1, <3>3, RankOf, BdosAssumption
    <3>5. p \in Pos /\ d1[p] = ExtentFrom(u, x, n[u], f)
      BY <1>0, <3>1, <3>4
    <3> QED BY <1>1, <2>1, <3>1, <3>5 DEF Used
  <2>2. CASE w \in I
    <3>1. PICK p \in Used(d) : d[p] = ExtentFrom(w, x, n[w], st[w])
      BY Zenon, <2>2 DEF Laid
    <3> QED BY <1>1, <1>8, <2>2, <3>1
  <2> QED BY <2>1, <2>2
<1>12. \A v, w \in I \cup {u} : v = w \/ t[v] + n[v] <= t[w] \/ t[w] + n[w] <= t[v]
  BY <1>1 DEF Laid
<1>13. ASSUME NEW b \in Block, K <= b, b < f + n[u]
       PROVE  \E w \in I \cup {u} : t[w] <= b /\ b < t[w] + n[w]
  <2>1. CASE b < f
    <3>1. PICK w \in I : st[w] <= b /\ b < st[w] + n[w]
      BY <1>13, <2>1 DEF Laid, K
    <3> QED BY <1>1, <3>1
  <2>2. CASE ~(b < f)
    BY <1>1, <1>2, <1>13, <2>2 DEF Block
  <2> QED BY <2>1, <2>2
<1> QED BY Zenon, <1>9, <1>10, <1>11, <1>12, <1>13 DEF Laid, t, K

(* The invariant does not depend on more than this. *)
LEMMA ImportStays ==
  ASSUME ImportInv, size' = size, todo' \subseteq Host, h' = [h EXCEPT !.up = h'.up],
         freeblock_' = freeblock_
  PROVE  ImportInv'
<1>0. PICK D, M, U : h = [dir |-> D, cpm2unix |-> M, cache |-> <<>>,
                          files |-> [u \in Host |-> Content(u)], path_ |-> "drive", up |-> U]
  BY DEF ImportInv
<1>1. /\ h'.dir = h.dir /\ h'.cpm2unix = h.cpm2unix
      /\ h' = [dir |-> h'.dir, cpm2unix |-> h'.cpm2unix, cache |-> <<>>,
               files |-> [u \in Host |-> Content(u)], path_ |-> "drive", up |-> h'.up]
  BY <1>0
<1>2. \A u \in Host : Content(u)' = Content(u)
  BY DEF Content
<1>3. FileBlocks' = FileBlocks /\ Imported' = Imported
  BY <1>1 DEF FileBlocks, Imported
<1> QED BY Zenon, <1>1, <1>2, <1>3 DEF ImportInv

(* addfile keeps it. *)
LEMMA ImportKeeps ==
  ASSUME Geometry, ImportInv, NEW u \in todo, addfile(u), size' = size
  PROVE  ImportInv'
<1> DEFINE n == BlocksOf(size[u])
           F == NewDir(h)
           key == <<CpmName[u], FALSE>>
<1>0. u \in Host /\ todo' \subseteq Host /\ h = [h EXCEPT !.up = h.up]
  BY DEF ImportInv, addfile
<1>1. n \in Nat /\ FileBlocks[u] = n /\ FileBlocks \in [Host -> Nat]
  <2>1. \A w \in Host : FileBlocks[w] \in Nat
    BY BlocksType
  <2> QED BY <1>0, <2>1, BlocksType DEF FileBlocks
<1>2. CASE h' = h /\ freeblock_' = freeblock_
  BY <1>0, <1>2, ImportStays
<1>3. CASE h' = Throw(h) /\ freeblock_' = freeblock_
  <2>1. h' = [h EXCEPT !.up = h'.up]
    BY <1>3 DEF Throw, ImportInv
  <2> QED BY <1>0, <1>3, <2>1, ImportStays
<1>4. CASE /\ key \notin DOMAIN h.cpm2unix
           /\ ~(1 + (n \div Pointers) > Cardinality(F))
           /\ ~(n > 0 /\ freeblock_ + n >= DSKSIZE + 1)
           /\ h' = [h EXCEPT
                      !.dir = [p \in Pos |->
                                 IF p \in F /\ Rank(F, p) < 1 + (n \div Pointers)
                                 THEN Extent(u, Rank(F, p), n) ELSE h.dir[p]],
                      !.cpm2unix = With1(@, key, u)]
           /\ freeblock_' = freeblock_ + n
  <2>0. PICK D, M, U : h = [dir |-> D, cpm2unix |-> M, cache |-> <<>>,
                            files |-> [w \in Host |-> Content(w)], path_ |-> "drive",
                            up |-> U]
    BY DEF ImportInv
  <2>1. /\ h'.cpm2unix = With1(h.cpm2unix, key, u)
        /\ h'.dir = [p \in Pos |-> IF p \in F /\ Rank(F, p) < 1 + (n \div Pointers)
                                   THEN Extent(u, Rank(F, p), n) ELSE h.dir[p]]
        /\ h' = [dir |-> h'.dir, cpm2unix |-> h'.cpm2unix, cache |-> <<>>,
                 files |-> [w \in Host |-> Content(w)], path_ |-> "drive", up |-> h'.up]
    <3> DEFINE D1 == [p \in Pos |-> IF p \in F /\ Rank(F, p) < 1 + (n \div Pointers)
                                    THEN Extent(u, Rank(F, p), n) ELSE h.dir[p]]
    <3>1. h' = [h EXCEPT !.dir = D1, !.cpm2unix = With1(h.cpm2unix, key, u)]
      BY <1>4, <2>0
    <3> HIDE DEF D1
    <3>2. /\ h'.cpm2unix = With1(h.cpm2unix, key, u) /\ h'.dir = D1
          /\ h' = [dir |-> h'.dir, cpm2unix |-> h'.cpm2unix, cache |-> <<>>,
                   files |-> [w \in Host |-> Content(w)], path_ |-> "drive", up |-> h'.up]
      BY Zenon, <2>0, <3>1
    <3> QED BY <3>2 DEF D1
  <2>2. /\ DOMAIN h'.cpm2unix = DOMAIN h.cpm2unix \cup {key}
        /\ h'.cpm2unix[key] = u
        /\ \A k \in DOMAIN h.cpm2unix : h'.cpm2unix[k] = h.cpm2unix[k]
    BY Zenon, <1>4, <2>1 DEF With1
  <2>3. Imported' = Imported \cup {u} /\ u \notin Imported /\ Imported \in SUBSET Host
    <3>1. Imported' = Imported \cup {u}
      BY Zenon, <2>2 DEF Imported
    <3>2. u \notin Imported /\ Imported \in SUBSET Host
      BY Zenon, <1>4 DEF Imported, ImportInv
    <3> QED BY <3>1, <3>2
  <2>4. \A k \in DOMAIN h'.cpm2unix : /\ h'.cpm2unix[k] \in Host
                                      /\ k = <<CpmName[h'.cpm2unix[k]], FALSE>>
    BY Zenon, <1>0, <2>2 DEF ImportInv
  <2>5. PICK st \in [Host -> 0..DSKSIZE + 1] :
          Laid(h.dir, Imported, FileBlocks, st, freeblock_)
    BY DEF ImportInv
  <2> DEFINE f == freeblock_
             t == [st EXCEPT ![u] = f]
  <2>6. /\ f \in 0..DSKSIZE + 1 /\ Cardinality(DirBlocks) <= f /\ f + n <= DSKSIZE + 1
    BY <1>1, <1>4, Sizes DEF ImportInv
  <2>7. (n \div Pointers) < Cardinality(F)
    <3>1. n \div Pointers \in Nat
      BY <1>1, Sizes, Quotient
    <3>2. IsFiniteSet(0..DIRSIZE)
      <4>1. 0 \in Int /\ DIRSIZE \in Int
        BY BdosAssumption
      <4> QED BY <4>1, FS_Interval
    <3>3. F \in SUBSET (0..DIRSIZE)
      BY DEF NewDir, Pos
    <3>4. Cardinality(F) \in Nat
      BY Zenon, <3>2, <3>3, FS_Subset, FS_CardinalityType
    <3> QED BY <1>4, <3>1, <3>4
  <2>8. \A p \in Pos :
          h'.dir[p] = IF p \in F /\ Rank(F, p) < 1 + (FileBlocks[u] \div Pointers)
                      THEN ExtentFrom(u, Rank(F, p), FileBlocks[u], f) ELSE h.dir[p]
    BY <1>1, <2>1 DEF Extent, ExtentFrom
  <2>9. F = {p \in Pos : h.dir[p] = Unused}
    BY DEF NewDir
  <2> HIDE DEF F, n, f
  <2>10. Laid(h'.dir, Imported \cup {u}, FileBlocks, t, f + n)
    <3>1. u \in Host \ Imported /\ Laid(h.dir, Imported, FileBlocks, st, f)
      BY <1>0, <2>3, <2>5 DEF f
    <3>2. ASSUME NEW d, NEW d1, Laid(d, Imported, FileBlocks, st, f),
                 F = {p \in Pos : d[p] = Unused},
                 \A p \in Pos :
                   d1[p] = IF p \in F /\ Rank(F, p) < 1 + (FileBlocks[u] \div Pointers)
                           THEN ExtentFrom(u, Rank(F, p), FileBlocks[u], f) ELSE d[p]
          PROVE  Laid(d1, Imported \cup {u}, FileBlocks, t, f + n)
      BY Zenon, <1>1, <2>3, <2>6, <2>7, <3>1, <3>2, Joins
    <3> HIDE DEF t
    <3> QED BY Zenon, <2>8, <2>9, <3>1, <3>2
  <2>11. t \in [Host -> 0..DSKSIZE + 1]
    BY Zenon, <2>6
  <2>12. FileBlocks' = FileBlocks
    BY DEF FileBlocks
  <2>13. \E s \in [Host -> 0..DSKSIZE + 1] :
           Laid(h'.dir, Imported', FileBlocks', s, freeblock_')
    BY Zenon, <1>4, <2>3, <2>10, <2>11, <2>12 DEF f
  <2>14. freeblock_' \in 0..DSKSIZE + 1 /\ Cardinality(DirBlocks) <= freeblock_'
    BY <1>1, <1>4, <2>6, Sizes DEF f
  <2>15. \A w \in Host : Content(w)' = Content(w)
    BY DEF Content
  <2>16. h'.dir = [p \in Pos |-> h'.dir[p]]
    BY <2>1
  <2> QED BY ZenonT(30), <1>0, <2>1, <2>4, <2>13, <2>14, <2>15, <2>16 DEF ImportInv
<1> QED BY <1>2, <1>3, <1>4 DEF addfile, Rank

(* The import keeps it, on any disk and for any host directory. *)
LEMMA ImportInvariant ==
  ASSUME Geometry
  PROVE  ISpec => []ImportInv
<1>1. ImportInv /\ [readhost]_ivars => ImportInv'
  <2> SUFFICES ASSUME ImportInv, [readhost]_ivars PROVE ImportInv'
    OBVIOUS
  <2>1. CASE readhost
    BY <2>1, ImportKeeps DEF readhost
  <2>2. CASE UNCHANGED ivars
    <3>1. size' = size /\ todo' = todo /\ h' = h /\ freeblock_' = freeblock_
      BY <2>2 DEF ivars
    <3>2. h' = [h EXCEPT !.up = h'.up] /\ todo' \subseteq Host
      BY <3>1 DEF ImportInv
    <3> QED BY <3>1, <3>2, ImportStays
  <2> QED BY <2>1, <2>2
<1> QED BY <1>1, ImportBegins, PTL DEF ISpec

(* The map the BDOS builds from the imported directory has the blocks of     *)
(* the imported files and no others.                                         *)
LEMMA MapIsExact ==
  ASSUME Geometry, ImportInv
  PROVE  BITMAP(h.dir) = 0..freeblock_ - 1
<1> DEFINE K == Cardinality(DirBlocks)
           n == FileBlocks
           f == freeblock_
<1>1. PICK st \in [Host -> 0..DSKSIZE + 1] : Laid(h.dir, Imported, n, st, f)
  BY DEF ImportInv
<1>2. /\ Imported \in SUBSET Host /\ f \in 0..DSKSIZE + 1 /\ K <= f
      /\ K \in Nat \ {0} /\ DSKSIZE \in Nat
  BY Zenon, Sizes DEF ImportInv, Imported
<1>3. \A b : b \in DirBlocks <=> b \in Nat /\ b < K
  <2>1. DirBlocks = 0..K - 1
    BY DEF Geometry
  <2> HIDE DEF K
  <2> QED BY <1>2, <2>1
<1>4. ASSUME NEW u \in Imported
      PROVE  /\ u \in Host /\ n[u] \in Nat /\ st[u] \in Nat /\ st[u] # 0
             /\ K <= st[u] /\ st[u] + n[u] <= f /\ st[u] + n[u] <= DSKSIZE + 1
  <2>1. u \in Host /\ n[u] \in Nat /\ st[u] \in Nat
    BY <1>2, <1>4, BlocksType
  <2>2. K <= st[u] /\ st[u] + n[u] <= f
    BY <1>1, <1>4 DEF Laid
  <2> HIDE DEF K, n, f
  <2> QED BY <1>2, <2>1, <2>2
<1>5. ASSUME NEW p \in Used(h.dir), NEW b \in Blocks(h.dir[p])
      PROVE  b \in Nat /\ b < f
  <2>0. PICK u \in Imported :
          \E x \in ExtentsOf(n[u]) : h.dir[p] = ExtentFrom(u, x, n[u], st[u])
    BY <1>1, <1>5 DEF Laid
  <2>1. PICK x \in ExtentsOf(n[u]) : h.dir[p] = ExtentFrom(u, x, n[u], st[u])
    BY <2>0
  <2>2. PICK i \in Ptr : h.dir[p].al[i] = b /\ b # 0
    BY <1>5 DEF Blocks
  <2>3. b = st[u] + x * Pointers + i /\ st[u] <= b /\ b < st[u] + n[u]
    BY <1>4, <2>1, <2>2, InExtent
  <2>4. x * Pointers \in Nat /\ i \in Nat
    BY <1>4, ExtentCount, Pointed
  <2> HIDE DEF n, f, K
  <2>5. b \in Nat
    BY <1>4, <2>3, <2>4
  <2> QED BY <1>2, <1>4, <2>3, <2>5
<1>6. ASSUME NEW b \in Nat, K <= b, b < f
      PROVE  \E p \in Used(h.dir) : b \in Blocks(h.dir[p])
  <2>1. b \in Block
    BY <1>2, <1>6 DEF Block
  <2>2. PICK u \in Imported : st[u] <= b /\ b < st[u] + n[u]
    BY <1>1, <1>6, <2>1 DEF Laid
  <2>3. PICK x \in ExtentsOf(n[u]), i \in Ptr : ExtentFrom(u, x, n[u], st[u]).al[i] = b
    BY <1>4, <2>2, InExtent
  <2>4. PICK p \in Used(h.dir) : h.dir[p] = ExtentFrom(u, x, n[u], st[u])
    BY <1>1, <2>3 DEF Laid
  <2>5. b # 0
    BY <1>2, <1>6
  <2> QED BY <2>3, <2>4, <2>5 DEF Blocks
<1>7. \A b : b \in BITMAP(h.dir) <=> b \in DirBlocks \/ \E p \in Used(h.dir) : b \in Blocks(h.dir[p])
  BY DEF BITMAP
<1> HIDE DEF K, n, f
<1>8. \A b : b \in BITMAP(h.dir) <=> b \in Nat /\ b < f
  BY <1>2, <1>3, <1>5, <1>6, <1>7
<1>9. \A b : b \in BITMAP(h.dir) <=> b \in 0..f - 1
  BY <1>2, <1>8
<1> QED BY Zenon, <1>9 DEF f

(* An import leaves free exactly the blocks addfile has not given to a file, *)
(* for any host directory and any disk with the geometry of the BIOS's.      *)
THEOREM ImportFreeIsFree ==
  ASSUME Geometry
  PROVE  ISpec => []FreeIsFree
<1>1. ImportInv => FreeIsFree
  BY MapIsExact DEF FreeIsFree
<1> QED BY <1>1, ImportInvariant, PTL

----------------------------------------------------------------------------
(* A product of three. *)
LEMMA Regrouped ==
  ASSUME NEW a \in Nat, NEW b \in Nat, NEW c \in Nat
  PROVE  (a * b) * c = a * (b * c)
OBVIOUS

(* Record r of a file of s records: its extent x, the place c in the extent, *)
(* the pointer i and the sector t of the block.                              *)
LEMMA RecordPlace ==
  ASSUME Geometry, NEW s \in Nat, NEW r \in Nat, r < s, NEW n, n = BlocksOf(s),
         NEW x, x = r \div RPE, NEW c, c = r % RPE, NEW i, i = c \div RPB,
         NEW t, t = c % RPB, NEW k, k = Least(n - x * Pointers, Pointers)
  PROVE  /\ n \in Nat /\ x \in ExtentsOf(n) /\ i \in Ptr /\ i < k /\ c < k * RPB
         /\ c \in Nat /\ c < RPE /\ t \in Nat /\ t < RPB
         /\ x \in Nat /\ (x * Pointers + i) * RPB + t = r
<1> DEFINE P == Pointers
           B == RPB
           j == x * P + i
<1>0. P \in Nat \ {0} /\ B \in Nat \ {0} /\ RPE \in Nat \ {0} /\ RPE = P * B
  BY Sizes DEF Geometry
<1>1. x \in Nat /\ c \in Nat /\ c < RPE /\ r = RPE * x + c
  BY Zenon, <1>0, Quotient
<1>2. i \in Nat /\ t \in Nat /\ t < B /\ c = B * i + t
  BY Zenon, <1>0, <1>1, Quotient
<1>3. n \in Nat /\ s <= n * B
  <2> DEFINE z == s + B - 1
  <2>1. z \in Nat /\ n = z \div B
    BY <1>0 DEF BlocksOf
  <2> HIDE DEF z
  <2>2. n \in Nat /\ z % B \in Nat /\ z % B < B /\ z = B * n + (z % B)
    BY <1>0, <2>1, Quotient
  <2>3. n * B = B * n /\ B * n \in Nat
    BY <1>0, <2>2
  <2> QED BY <1>0, <2>2, <2>3 DEF z
<1> HIDE DEF P, B
<1>4. i < P
  <2>1. SUFFICES ASSUME P <= i PROVE FALSE
    BY <1>0, <1>2
  <2>2. P * B <= i * B /\ i * B = B * i /\ B * i \in Nat
    BY <1>0, <1>2, <2>1
  <2> QED BY <1>0, <1>1, <1>2, <2>2
<1>5. x * P \in Nat /\ j \in Nat
  BY SMTT(30), <1>0, <1>1, <1>2
<1>6. j * B + t = r
  <2>1. j * B = (x * P) * B + i * B
    BY <1>0, <1>1, <1>2
  <2>2. (x * P) * B = x * (P * B)
    <3>1. x \in Nat /\ P \in Nat /\ B \in Nat
      BY <1>0, <1>1
    <3> QED BY <3>1, Regrouped
  <2>3. x * (P * B) = RPE * x /\ i * B = B * i /\ B * i \in Nat /\ RPE * x \in Nat
    BY <1>0, <1>1, <1>2
  <2> QED BY <1>1, <1>2, <2>1, <2>2, <2>3
<1> HIDE DEF j
<1>7. j < n
  <2>1. SUFFICES ASSUME n <= j PROVE FALSE
    BY <1>3, <1>5
  <2>2. n * B <= j * B /\ n * B \in Nat /\ j * B \in Nat
    BY <1>0, <1>3, <1>5, <2>1
  <2> QED BY <1>2, <1>3, <1>6, <2>2
<1>8. x * P < n /\ i < n - x * P
  BY <1>2, <1>3, <1>5, <1>7 DEF j
<1>9. x \in ExtentsOf(n)
  <2> DEFINE q == n \div P
  <2>1. q \in Nat /\ n % P \in Nat /\ n % P < P /\ n = P * q + (n % P)
    BY SMTT(30), <1>0, <1>3, Quotient
  <2> HIDE DEF q
  <2>2. x <= q
    <3>1. SUFFICES ASSUME q < x PROVE FALSE
      BY <1>1, <2>1
    <3>2. q + 1 <= x
      BY <1>1, <2>1, <3>1
    <3>3. (q + 1) * P <= x * P /\ (q + 1) * P = P * q + P /\ P * q \in Nat
      BY <1>0, <1>1, <2>1, <3>2
    <3> QED BY <1>0, <1>3, <1>5, <1>8, <2>1, <3>3
  <2> QED BY <1>1, <2>1, <2>2 DEF ExtentsOf, q, P
<1>10. i < k /\ k \in Nat
  <2>1. k = Least(n - x * P, P)
    BY DEF P
  <2> DEFINE y == x * P
  <2>2. y \in Nat /\ i < n - y /\ k = Least(n - y, P)
    BY <1>5, <1>8, <2>1
  <2> HIDE DEF y
  <2> QED BY <1>0, <1>2, <1>3, <1>4, <2>2 DEF Least
<1>11. c < k * B
  <2>1. (i + 1) * B <= k * B /\ (i + 1) * B = B * i + B /\ B * i \in Nat /\ k * B \in Nat
    BY <1>0, <1>2, <1>10
  <2> QED BY <1>0, <1>1, <1>2, <2>1
<1>12. i \in Ptr
  BY <1>0, <1>2, <1>4, Sizes DEF P
<1> QED BY <1>1, <1>2, <1>3, <1>6, <1>9, <1>10, <1>11, <1>12 DEF j, P, B

(* The BDOS, addfile and GetExtNumber agree on the number of an extent. *)
LEMMA NumbersOfExtent ==
  ASSUME Geometry, MaxSize <= LOW * RPE, NEW s \in Nat, s <= MaxSize, NEW r \in Nat, r < s,
         NEW x, x = r \div RPE
  PROVE  /\ x \in Nat /\ x < LOW
         /\ x % LOW = x /\ (x \div LOW) % 32 = 0
         /\ x % EXTS = x /\ r \div (RPE * EXTS) = 0
         /\ (0 * XH + x) % (2 * XH) = x
<1>0. /\ RPE \in Nat \ {0} /\ EXTS \in Nat \ {0} /\ LOW \in Nat \ {0} /\ XH \in Nat \ {0}
      /\ LOW <= EXTS /\ LOW <= XH /\ MaxSize \in Nat
  BY Sizes, ImportAssumption DEF Geometry
<1>1. x \in Nat /\ r % RPE \in Nat /\ r % RPE < RPE /\ r = RPE * x + (r % RPE)
  BY <1>0, Quotient
<1>2. r < LOW * RPE
  <2>1. LOW * RPE \in Nat
    BY <1>0
  <2> QED BY <1>0, <2>1
<1>3. x < LOW
  <2>1. SUFFICES ASSUME LOW <= x PROVE FALSE
    BY <1>0, <1>1
  <2>2. LOW * RPE <= x * RPE /\ x * RPE = RPE * x /\ RPE * x \in Nat /\ LOW * RPE \in Nat
    BY <1>0, <1>1, <2>1
  <2> QED BY <1>1, <1>2, <2>2
<1>4. x % LOW = x /\ x \div LOW = 0
  BY <1>0, <1>1, <1>3
<1>5. x % EXTS = x
  BY <1>0, <1>1, <1>3
<1>6. (0 * XH + x) % (2 * XH) = x
  <2>1. 0 * XH + x = x
    BY <1>0, <1>1
  <2>2. 2 * XH \in Nat \ {0} /\ x < 2 * XH
    BY <1>0, <1>1, <1>3
  <2> DEFINE y == 2 * XH
  <2> HIDE DEF y
  <2>3. x % y = x
    BY <1>1, <2>2 DEF y
  <2> QED BY <2>1, <2>3 DEF y
<1>7. r \div (RPE * EXTS) = 0
  <2> DEFINE y == RPE * EXTS
  <2>1. y \in Nat \ {0} /\ LOW * RPE <= EXTS * RPE /\ EXTS * RPE = y /\ LOW * RPE \in Nat
    BY <1>0
  <2> HIDE DEF y
  <2>2. r < y
    BY <1>0, <1>2, <2>1
  <2>3. r \div y = 0
    BY <2>1, <2>2
  <2> QED BY <2>3 DEF y
<1>8. (x \div LOW) % 32 = 0
  BY <1>4
<1> QED BY <1>1, <1>3, <1>4, <1>5, <1>6, <1>7, <1>8

(* A file of LOW full extents has one entry more, with no blocks. *)
LEMMA ExtentNumbers ==
  ASSUME Geometry, MaxSize <= LOW * RPE, NEW s \in Nat, s <= MaxSize,
         NEW y \in ExtentsOf(BlocksOf(s)), (y \div LOW) % 32 = 0
  PROVE  y \in Nat /\ y % LOW = y
<1> DEFINE P == Pointers
           B == RPB
           z == s + B - 1
           n == z \div B
           L == LOW * P
<1>0. /\ P \in Nat \ {0} /\ B \in Nat \ {0} /\ LOW \in Nat \ {0} /\ RPE = P * B
      /\ MaxSize \in Nat
  BY Sizes, ImportAssumption DEF Geometry
<1>1. z \in Nat /\ n = BlocksOf(s)
  BY <1>0 DEF BlocksOf
<1>2. n \in Nat /\ z % B \in Nat /\ z = B * n + (z % B)
  <2> HIDE DEF z
  <2> QED BY <1>0, <1>1, Quotient
<1>3. y \in Nat /\ y * P \in Nat /\ y * P <= n
  BY <1>1, <1>2, ExtentCount
<1>4. s <= L * B /\ L \in Nat /\ L * B \in Nat
  <2>1. LOW \in Nat /\ P \in Nat /\ B \in Nat
    BY <1>0
  <2>2. (LOW * P) * B = LOW * (P * B)
    BY <2>1, Regrouped
  <2>3. LOW * P \in Nat
    BY <2>1
  <2>4. L * B \in Nat
    <3> HIDE DEF P, B, L
    <3> QED BY <2>1, <2>3 DEF L
  <2> HIDE DEF P, B
  <2> QED BY <1>0, <2>2, <2>3, <2>4
<1> HIDE DEF n, z, P, B, L
<1>5. n <= L
  <2>1. SUFFICES ASSUME L + 1 <= n PROVE FALSE
    BY <1>2, <1>4
  <2>2. B * (L + 1) <= B * n /\ B * (L + 1) = L * B + B /\ B * n \in Nat
    BY <1>0, <1>2, <1>4, <2>1
  <2>3. z < L * B + B
    BY <1>0, <1>4 DEF z
  <2> QED BY <1>0, <1>1, <1>2, <1>4, <2>2, <2>3
<1>6. y <= LOW
  <2>1. SUFFICES ASSUME LOW + 1 <= y PROVE FALSE
    BY <1>0, <1>3
  <2>2. (LOW + 1) * P <= y * P /\ (LOW + 1) * P = LOW * P + P /\ LOW * P \in Nat
    BY <1>0, <1>3, <2>1
  <2> QED BY <1>0, <1>2, <1>3, <1>4, <1>5, <2>2 DEF L
<1>7. y # LOW
  <2>1. SUFFICES ASSUME y = LOW PROVE FALSE
    OBVIOUS
  <2>2. y \div LOW = 1
    BY <1>0, <2>1
  <2> QED BY <2>2
<1>8. y < LOW
  BY <1>0, <1>3, <1>6, <1>7
<1>9. y % LOW = y
  BY SMTT(30), <1>0, <1>3, <1>8
<1> QED BY <1>3, <1>9

(* A record of an imported file, in one directory that describes it. *)
LEMMA Readable ==
  ASSUME Geometry, MaxSize <= LOW * RPE, ImportInv, NEW key \in DOMAIN h.cpm2unix,
         NEW u, u = h.cpm2unix[key], NEW r \in DOMAIN Content(u)
  PROVE  BdosReads(key[1], r) = <<u, r>>
<1> DEFINE n == FileBlocks
           m == n[u]
           P == Pointers
           x == r \div RPE
           c == r % RPE
           i == c \div RPB
           t == c % RPB
           k == Least(m - x * P, P)
<1>1. /\ u \in Host /\ key = <<CpmName[u], FALSE>> /\ key[1] = CpmName[u] /\ u \in Imported
      /\ Imported \in SUBSET Host
  <2>1. u \in Host /\ key = <<CpmName[u], FALSE>>
    BY Zenon DEF ImportInv
  <2>2. u \in Imported /\ Imported \in SUBSET Host
    BY ZenonT(30) DEF ImportInv, Imported
  <2>3. key[1] = CpmName[u]
    BY <2>1
  <2> QED BY <2>1, <2>2, <2>3
<1>2. /\ size[u] \in Nat /\ size[u] <= MaxSize /\ m = BlocksOf(size[u])
      /\ \A w \in Host : n[w] \in Nat
  BY <1>1, BlocksType
<1>3. r \in Nat /\ r < size[u]
  BY SMTT(30), <1>2 DEF Content
<1>4. /\ m \in Nat /\ x \in ExtentsOf(m) /\ i \in Ptr /\ i < k /\ c < k * RPB
      /\ c \in Nat /\ c < RPE /\ t \in Nat /\ t < RPB
      /\ x \in Nat /\ (x * P + i) * RPB + t = r
  <2> HIDE DEF n
  <2> QED BY <1>2, <1>3, RecordPlace
<1>5. /\ x < LOW /\ x % LOW = x /\ (x \div LOW) % 32 = 0
      /\ x % EXTS = x /\ r \div (RPE * EXTS) = 0 /\ (0 * XH + x) % (2 * XH) = x
  BY <1>2, <1>3, NumbersOfExtent
<1>6. PICK st \in [Host -> 0..DSKSIZE + 1] : Laid(h.dir, Imported, n, st, freeblock_)
  BY SMTT(30) DEF ImportInv
<1>7. ASSUME NEW w \in Imported
      PROVE  /\ w \in Host /\ n[w] \in Nat /\ st[w] \in Nat /\ st[w] # 0
             /\ st[w] + n[w] <= DSKSIZE + 1
  <2>1. w \in Host /\ n[w] \in Nat /\ st[w] \in Nat
    BY <1>1, <1>2, <1>7
  <2>2. Cardinality(DirBlocks) <= st[w] /\ st[w] + n[w] <= freeblock_
    BY <1>6, <1>7 DEF Laid
  <2>3. freeblock_ \in 0..DSKSIZE + 1
    BY SMTT(30) DEF ImportInv
  <2> HIDE DEF n
  <2> QED BY <2>1, <2>2, <2>3, Sizes
<1> DEFINE e == ExtentFrom(u, x, m, st[u])
           b == st[u] + x * P + i
           S == LOGICAL(b, c)
<1>8. /\ e.name = CpmName[u] /\ e.ro = FALSE /\ e.ex = x /\ e.s2 = 0 /\ e.rc = k * RPB
      /\ \A z \in Ptr : e.al[z] = IF z < k THEN st[u] + x * P + z ELSE 0
  BY <1>5 DEF ExtentFrom
<1>9. e.al[i] = b
  BY Zenon, <1>4, <1>8
<1> HIDE DEF n, m, x, c, i, t, k, e
<1>10. x * P \in Nat /\ b \in Nat /\ b # 0
  <2>1. x * P \in Nat
    BY <1>4, Sizes
  <2>2. st[u] \in Nat /\ st[u] # 0 /\ i \in Nat
    BY <1>1, <1>4, <1>7, Pointed
  <2> DEFINE y == x * P
  <2> HIDE DEF y
  <2>3. y \in Nat /\ b = st[u] + y + i
    BY <2>1 DEF y
  <2> HIDE DEF b
  <2>4. b \in Nat /\ b # 0
    BY <2>2, <2>3
  <2> QED BY <2>1, <2>4
<1>11. PICK p \in Used(h.dir) : h.dir[p] = e
  BY Zenon, <1>1, <1>4, <1>6 DEF Laid, e, m
(* Every entry is an extent of some file. *)
<1>12. ASSUME NEW q \in Used(h.dir)
       PROVE  \E w \in Imported : \E y \in ExtentsOf(n[w]) :
                h.dir[q] = ExtentFrom(w, y, n[w], st[w])
  BY <1>6, <1>12 DEF Laid
(* The entry FINDFST finds. *)
<1>13. /\ Lookup(key[1], r) # {} /\ \A q \in Lookup(key[1], r) : h.dir[q] = e
  <2>1. p \in Lookup(key[1], r)
    BY SMTT(30), <1>1, <1>5, <1>8, <1>11 DEF Lookup, Matches, Used, x
  <2>2. ASSUME NEW q \in Lookup(key[1], r)
        PROVE  h.dir[q] = e
    <3>1. /\ q \in Used(h.dir) /\ h.dir[q].name = CpmName[u] /\ h.dir[q].ex = x
          /\ h.dir[q].s2 = 0
      BY SMTT(30), <1>1, <1>5, <2>2 DEF Lookup, Matches, Used, x
    <3>2. PICK w \in Imported : \E y \in ExtentsOf(n[w]) :
            h.dir[q] = ExtentFrom(w, y, n[w], st[w])
      BY <1>12, <3>1
    <3>3. PICK y \in ExtentsOf(n[w]) : h.dir[q] = ExtentFrom(w, y, n[w], st[w])
      BY SMTT(30), <3>2
    <3>4. /\ h.dir[q].name = CpmName[w] /\ h.dir[q].ex = y % LOW
          /\ h.dir[q].s2 = (y \div LOW) % 32
      BY SMTT(30), <3>3 DEF ExtentFrom
    <3>5. w = u
      <4>1. PICK j \in DOMAIN h.cpm2unix : w = h.cpm2unix[j]
        BY DEF Imported
      <4>2. j = <<CpmName[w], FALSE>>
        BY Zenon, <4>1 DEF ImportInv
      <4>3. j = key
        BY SMTT(30), <1>1, <3>1, <3>4, <4>2
      <4> QED BY <4>1, <4>3
    <3>6. y = x
      <4>1. y % LOW = x /\ (y \div LOW) % 32 = 0
        BY SMTT(30), <3>1, <3>4
      <4>2. y \in ExtentsOf(BlocksOf(size[u]))
        BY SMTT(30), <1>2, <3>3, <3>5 DEF m
      <4>3. y % LOW = y
        BY <1>2, <4>1, <4>2, ExtentNumbers
      <4> QED BY <4>1, <4>3
    <3> QED BY <3>3, <3>5, <3>6 DEF e, m
  <2> QED BY SMTT(30), <2>1, <2>2
(* The place of the sector in the host file. *)
<1>14. S \div RPB = b /\ S % RPB = t
  <2>1. S = b * RPB + t
    BY DEF LOGICAL, t
  <2>2. RPB \in Nat \ {0}
    BY Sizes
  <2> HIDE DEF b, S
  <2> QED BY Zenon, <1>4, <1>10, <2>1, <2>2, QuotientIs
<1>15. FindBlockIndex(e, b) = x * P + i /\ x * P + i \in Nat
  <2>1. \A z \in Ptr : e.al[z] = b => z = i
    <3> DEFINE y == x * P
    <3>1. y \in Nat /\ b = st[u] + y + i
      BY <1>10
    <3>2. \A z \in Ptr : e.al[z] = IF z < k THEN st[u] + y + z ELSE 0
      BY <1>8
    <3>3. st[u] \in Nat /\ i \in Nat /\ \A z \in Ptr : z \in Nat
      BY <1>1, <1>4, <1>7, Pointed
    <3> HIDE DEF y, b
    <3> QED BY <1>10, <3>1, <3>2, <3>3
  <2>2. {z \in Ptr : e.al[z] = b} = {i}
    BY <1>4, <1>9, <2>1
  <2>3. i \in Nat
    BY <1>4, Pointed
  <2>4. First({i}) = i
    BY <2>3 DEF First
  <2>5. GetExtNumber(e) = x
    BY <1>5, <1>8 DEF GetExtNumber
  <2>6. {i} # {}
    OBVIOUS
  <2>7. FindBlockIndex(e, b) = x * P + i
    BY Zenon, <2>2, <2>4, <2>5, <2>6 DEF FindBlockIndex, Pointers
  <2> QED BY <1>10, <2>3, <2>7
<1> HIDE DEF b, S
<1>16. /\ Owners(h, S) # {} /\ \A q \in Owners(h, S) : h.dir[q] = e
  <2>1. p \in Owners(h, S)
    BY SMTT(30), <1>11, <1>14, <1>15 DEF Owners, Used
  <2>2. ASSUME NEW q \in Owners(h, S)
        PROVE  h.dir[q] = e
    <3>1. q \in Used(h.dir) /\ FindBlockIndex(h.dir[q], b) >= 0
      BY <1>14, <2>2 DEF Owners, Used
    <3>2. PICK z \in Ptr : h.dir[q].al[z] = b
      BY <3>1 DEF FindBlockIndex
    <3>3. PICK w \in Imported : \E y \in ExtentsOf(n[w]) :
            h.dir[q] = ExtentFrom(w, y, n[w], st[w])
      BY <1>12, <3>1
    <3>4. PICK y \in ExtentsOf(n[w]) : h.dir[q] = ExtentFrom(w, y, n[w], st[w])
      BY <3>3
    <3>5. b = st[w] + y * P + z /\ st[w] <= b /\ b < st[w] + n[w]
      <4>1. ExtentFrom(w, y, n[w], st[w]).al[z] = b
        BY Zenon, <3>2, <3>4
      <4>2. w \in Host /\ n[w] \in Nat /\ st[w] \in Nat /\ st[w] # 0 /\ st[w] + n[w] <= DSKSIZE + 1
        BY Zenon, <1>7
      <4>3. b # 0
        BY Zenon, <1>10
      <4> QED BY Zenon, <4>1, <4>2, <4>3, InExtent
    <3>6. st[u] <= b /\ b < st[u] + n[u]
      <4>1. e.al[i] # 0 /\ e = ExtentFrom(u, x, n[u], st[u])
        BY Zenon, <1>9, <1>10 DEF e, m
      <4> QED BY Zenon, <1>1, <1>4, <1>7, <1>9, <4>1, InExtent DEF m
    <3>7. w = u
      <4>1. st[u] \in Nat /\ n[u] \in Nat /\ st[w] \in Nat /\ n[w] \in Nat
        BY Zenon, <1>1, <1>7, <3>3
      <4>2. u = w \/ st[u] + n[u] <= st[w] \/ st[w] + n[w] <= st[u]
        BY Zenon, <1>1, <1>6, <3>3 DEF Laid
      <4> QED BY <1>10, <3>5, <3>6, <4>1, <4>2
    <3>8. y = x
      <4>1. z \in Nat /\ z < P /\ i \in Nat /\ i < P /\ P \in Nat \ {0}
        BY <1>4, Sizes
      <4>2. y \in Nat /\ y * P \in Nat /\ st[u] \in Nat
        BY Zenon, <1>1, <1>7, <3>7, ExtentCount
      <4>3. y * P + z = x * P + i
        <5>1. st[u] + y * P + z = st[u] + x * P + i
          BY Zenon, <3>5, <3>7 DEF b
        <5> DEFINE f == y * P
                   g == x * P
                   a == st[u]
        <5>2. a \in Nat /\ f \in Nat /\ g \in Nat /\ z \in Nat /\ i \in Nat /\ a + f + z = a + g + i
          BY Zenon, <1>10, <4>1, <4>2, <5>1
        <5> HIDE DEF f, g, a
        <5>3. f + z = g + i
          BY <5>2
        <5> QED BY Zenon, <5>3 DEF f, g
      <4>4. (y * P + z) \div P = y /\ (x * P + i) \div P = x
        BY Zenon, <1>4, <4>1, <4>2, QuotientIs
      <4> QED BY <4>3, <4>4
    <3> QED BY <3>4, <3>7, <3>8 DEF e, m
  <2> QED BY <2>1, <2>2
<1>17. Offset(e, S) = r
  BY SMTT(30), <1>4, <1>14, <1>15 DEF Offset
<1>18. Read(h, S) = <<u, r>>
  <2>1. Owners(h, S) \in SUBSET Nat
    BY BdosAssumption DEF Owners, Pos
  <2>2. h.dir[First(Owners(h, S))] = e
    BY Zenon, <1>16, <2>1, Lowest
  <2>3. GetName(e) = key
    BY Zenon, <1>1, <1>8 DEF GetName
  <2>4. DOMAIN h.cache = {} /\ h.files = [w \in Host |-> Content(w)]
    <3>1. h.cache = <<>> /\ h.files = [w \in Host |-> Content(w)]
      BY DEF ImportInv
    <3> QED BY Zenon, <3>1, NothingIn
  <2>5. u \in DOMAIN h.files /\ h.files[u] = Content(u) /\ Content(u)[r] = <<u, r>>
    <3>1. Content(u)[r] = <<u, r>>
      BY <1>3, <1>2 DEF Content
    <3> QED BY SMTT(30), <1>1, <2>4, <3>1
  <2> QED BY <1>16, <1>17, <2>2, <2>3, <2>4, <2>5 DEF Read
<1>19. /\ Lookup(key[1], r) \in SUBSET Nat
  BY BdosAssumption DEF Lookup, Pos
<1>20. h.dir[First(Lookup(key[1], r))] = e
  BY <1>13, <1>19, Lowest
<1>21. COMBLK(e, r % RPE) = b /\ ~(r % RPE >= e.rc)
  <2>1. COMBLK(e, c) = b
    BY <1>9 DEF COMBLK, i
  <2>2. k * RPB \in Int
    BY <1>4, Sizes, ExtentCount DEF k
  <2> QED BY <1>4, <1>8, <2>1, <2>2 DEF c
<1> QED BY <1>10, <1>13, <1>18, <1>20, <1>21 DEF BdosReads, S, c

(* CP/M reads every record of an imported file where the host file has it,   *)
(* if no host file has more than LOW extents (256 KB): the three numberings  *)
(* of extents agree as far as that.                                          *)
THEOREM ImportedReadable ==
  ASSUME Geometry, MaxSize <= LOW * RPE
  PROVE  ISpec => []ImportedIsReadable
<1>1. ImportInv => ImportedIsReadable
  BY Readable DEF ImportedIsReadable
<1> QED BY <1>1, ImportInvariant, PTL
============================================================================
