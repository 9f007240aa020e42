-------------------------- MODULE BdosFilesProofs --------------------------
(***************************************************************************)
(* What the file routines of the BDOS keep, on a disk of any size: each    *)
(* routine leaves a directory in which no two entries share a block or     *)
(* describe one extent, and FCBs that share blocks only with the entry of  *)
(* their own extent.  One lemma per routine, in the order of the calls;    *)
(* it also says what the routine adds to the directory and transfers.      *)
(***************************************************************************)
EXTENDS BdosTerms, NaturalsInduction, WellFoundedInduction, TLAPS

----------------------------------------------------------------------------
(* Sizes and searches. *)

(* A nonempty set of numbers has a least element, which First denotes. *)
LEMMA LeastIn ==
  ASSUME NEW S \in SUBSET Nat, S # {}, NEW R, IsWellFoundedOn(R, Nat),
         \A x, y \in Nat : y < x => <<y, x>> \in R
  PROVE  First(S) \in S /\ \A y \in S : First(S) <= y
<1>1. PICK x \in S : \A y \in S : ~(<<y, x>> \in R)
  BY Zenon, WFMin
<1>2. ASSUME NEW y \in S
      PROVE  x <= y
  <2>1. x \in Nat /\ y \in Nat
    OBVIOUS
  <2>2. ~(y < x)
    BY Zenon, <1>1, <2>1
  <2> QED BY <2>1, <2>2
<1> QED BY Zenon, <1>2 DEF First

(* The same without naming the order. *)
LEMMA FirstIn ==
  ASSUME NEW S \in SUBSET Nat, S # {}
  PROVE  First(S) \in S /\ \A y \in S : First(S) <= y
<1>1. \A x, y \in Nat : y < x => <<y, x>> \in OpToRel(<, Nat)
  BY DEF OpToRel
<1> QED BY Zenon, <1>1, LeastIn, NatLessThanWellFounded

(* COMBLK picks one of the pointers of an entry. *)
LEMMA PtrOf ==
  ASSUME NEW c \in 0..RPE - 1
  PROVE  c \div RPB \in Ptr
<1>1. RPB \in Nat \ {0} /\ RPE \in Nat \ {0}
  BY BdosAssumption
<1>2. c \div RPB \in Nat /\ (RPE - 1) \div RPB \in Nat
  BY <1>1
<1>3. c \div RPB <= (RPE - 1) \div RPB
  BY <1>1
<1> QED BY <1>2, <1>3 DEF Ptr

(* An entry has at least one pointer, and no more than records. *)
LEMMA PtrZero == 0 \in Ptr /\ Ptr \subseteq Nat /\ \A i \in Ptr : i < RPE
<1>1. RPB \in Nat \ {0} /\ RPE \in Nat \ {0}
  BY BdosAssumption
<1>2. (RPE - 1) \div RPB \in Nat /\ (RPE - 1) \div RPB <= RPE - 1
  BY <1>1
<1> QED BY <1>1, <1>2 DEF Ptr

(* FNDSPACE returns a free block, or 0 when there is none. *)
LEMMA NearestFree ==
  ASSUME NEW a \in SUBSET Block, NEW t \in Block, Nearest(a, t) # 0
  PROVE  Nearest(a, t) \in Block \ a
<1> DEFINE U == Unmarked(a, t)
           T == {Turn(b, t) : b \in U}
<1>1. U # {}
  BY DEF Nearest
<1>2. T \in SUBSET Nat /\ T # {}
  BY <1>1, AllocAssumption DEF Turn, Unmarked, Block
<1>3. First(T) \in T /\ \A y \in T : First(T) <= y
  BY Zenon, <1>2, FirstIn
<1>4. \E b \in U : \A c \in U : Turn(b, t) <= Turn(c, t)
  BY Zenon, <1>3
<1>5. Nearest(a, t) \in U
  BY <1>1, <1>4 DEF Nearest
<1> QED BY <1>5 DEF Unmarked

----------------------------------------------------------------------------
(* What the routines do to the directory d, the map a and an FCB f. *)

(* What is saved stays saved while entries keep their pointers. *)
LEMMA StaysSaved ==
  ASSUME NEW d, NEW d1, Extends(d, d1), NEW f, Saved(d, f)
  PROVE  Saved(d1, f)
<1>1. PICK p \in Used(d) : /\ SameKey(d[p], f)
                           /\ f.unmod => \A i \in Ptr : f.al[i] \in {0, d[p].al[i]}
  BY DEF Saved
<1>2. p \in Used(d1) /\ SameKey(d1[p], f)
  BY <1>1 DEF Extends, SameKey
<1>3. f.unmod => \A i \in Ptr : f.al[i] \in {0, d1[p].al[i]}
  BY <1>1 DEF Extends
<1> QED BY <1>2, <1>3 DEF Saved

(* The steps of a move, one after the other. *)
LEMMA MovesOn ==
  ASSUME NEW F, NEW m, NEW k, NEW n, Moves(m, F, k), Moves(k, {}, n)
  PROVE  Moves(m, F, n)
<1>1. Extends(m.dir, n.dir)
  BY DEF Moves, Extends, SameKey
<1>2. Grown(m.dir, F, n.dir)
  <2> SUFFICES ASSUME NEW p \in Used(n.dir), NEW i \in Ptr, n.dir[p].al[i] # 0
               PROVE  \/ /\ p \in Used(m.dir) /\ SameKey(n.dir[p], m.dir[p])
                         /\ n.dir[p].al[i] = m.dir[p].al[i]
                      \/ \E f \in F : /\ Live(f) /\ SameKey(n.dir[p], f)
                                      /\ n.dir[p].al[i] = f.al[i]
    BY DEF Grown
  <2>1. p \in Used(k.dir) /\ SameKey(n.dir[p], k.dir[p]) /\ n.dir[p].al[i] = k.dir[p].al[i]
    BY DEF Moves, Grown
  <2>2. \/ /\ p \in Used(m.dir) /\ SameKey(k.dir[p], m.dir[p])
           /\ k.dir[p].al[i] = m.dir[p].al[i]
        \/ \E f \in F : Live(f) /\ SameKey(k.dir[p], f) /\ k.dir[p].al[i] = f.al[i]
    BY <2>1 DEF Moves, Grown
  <2> QED BY <2>1, <2>2 DEF SameKey
<1> QED BY <1>1, <1>2 DEF Moves

(* A block that an extended directory does not list was not listed. *)
LEMMA StaysListed ==
  ASSUME NEW d, NEW d1, Extends(d, d1), NEW k, NEW i \in Ptr, NEW b, b # 0, Listed(d, k, i, b)
  PROVE  Listed(d1, k, i, b)
<1>1. PICK p \in Used(d) : SameKey(d[p], k) /\ d[p].al[i] = b
  BY DEF Listed
<1>2. p \in Used(d1) /\ SameKey(d1[p], k) /\ d1[p].al[i] = b
  BY <1>1 DEF Extends, SameKey
<1> QED BY <1>2 DEF Listed

(* Whatever a move adds to the directory was in the FCB. *)
LEMMA MovesShow ==
  ASSUME NEW m, NEW n, Moves(m, {m.fcb}, n), NEW k, NEW i \in Ptr, NEW b, b # 0,
         Listed(n.dir, k, i, b)
  PROVE  Shown(m.dir, m.fcb, k, i, b)
<1>1. PICK p \in Used(n.dir) : SameKey(n.dir[p], k) /\ n.dir[p].al[i] = b
  BY DEF Listed
<1>2. CASE p \in Used(m.dir) /\ SameKey(n.dir[p], m.dir[p]) /\ n.dir[p].al[i] = m.dir[p].al[i]
  <2>1. SameKey(m.dir[p], k)
    BY <1>1, <1>2 DEF SameKey
  <2> QED BY <1>1, <1>2, <2>1 DEF Shown, Listed
<1>3. CASE Live(m.fcb) /\ SameKey(n.dir[p], m.fcb) /\ n.dir[p].al[i] = m.fcb.al[i]
  <2>1. SameKey(m.fcb, k)
    BY <1>1, <1>3 DEF SameKey
  <2> QED BY <1>1, <1>3, <2>1 DEF Shown, Points
<1> QED BY <1>1, <1>2, <1>3 DEF Moves, Grown

(* A move concerns the entries of the FCB's file only. *)
LEMMA MovesConfined ==
  ASSUME NEW m, NEW n, Moves(m, {m.fcb}, n)
  PROVE  Extends(m.dir, n.dir) /\ Confined(m.dir, m.fcb.name, n.dir)
BY DEF Moves, Grown, Confined, SameKey

(* An unmodified FCB is in the directory. *)
LEMMA UnmodRecorded ==
  ASSUME NEW d, NEW a, NEW f, FcbOk(d, a, f), f.unmod
  PROVE  Recorded(d, f)
<1> SUFFICES ASSUME Live(f), NEW i \in Ptr, f.al[i] # 0
             PROVE  Listed(d, f, i, f.al[i])
  BY DEF Recorded
<1>1. PICK p \in Used(d) : SameKey(d[p], f) /\ \A j \in Ptr : f.al[j] \in {0, d[p].al[j]}
  BY DEF FcbOk, Saved
<1> QED BY <1>1 DEF Listed

(* FCB and directory are as they were. *)
LEMMA TellsSame ==
  ASSUME NEW m, NEW n, n.dir = m.dir, n.wp = m.wp, n.data = m.data, Similar(n.fcb, m.fcb)
  PROVE  Tells(m, n)
<1>1. Extends(m.dir, n.dir) /\ Confined(m.dir, m.fcb.name, n.dir)
  BY DEF Extends, Confined, SameKey
<1>2. Covers(m.dir, m.fcb) => Covers(n.dir, n.fcb)
  BY DEF Covers, Similar, SameKey
<1>3. \A k, i, b : Points(n.fcb, k, i, b) <=> Points(m.fcb, k, i, b)
  BY DEF Points, Similar, SameKey
<1>4. Keeps(m, n)
  BY <1>3 DEF Keeps, Shown
<1> QED BY <1>1, <1>2, <1>4 DEF Tells, Similar, SameKey

(* The FCB is closed and stays at its extent. *)
LEMMA TellsClosed ==
  ASSUME NEW m, NEW n, Moves(m, {m.fcb}, n), n.fcb.name = m.fcb.name,
         Covers(m.dir, m.fcb) => Similar(n.fcb, m.fcb) /\ Covers(n.dir, n.fcb)
  PROVE  Tells(m, n)
<1>1. Extends(m.dir, n.dir) /\ Confined(m.dir, m.fcb.name, n.dir)
  BY MovesConfined
<1>2. ASSUME Covers(m.dir, m.fcb)
      PROVE  Keeps(m, n)
  <2>1. \A k, i, b : Points(n.fcb, k, i, b) <=> Points(m.fcb, k, i, b)
    BY <1>2 DEF Points, Similar, SameKey
  <2>2. \A k : \A i \in Ptr : \A b :
          b # 0 /\ Listed(n.dir, k, i, b) => Shown(m.dir, m.fcb, k, i, b)
    BY Zenon, MovesShow
  <2>3. \A k : \A i \in Ptr : \A b :
          b # 0 /\ Listed(m.dir, k, i, b) => Listed(n.dir, k, i, b)
    BY <1>1, StaysListed
  <2> QED BY <2>1, <2>2, <2>3 DEF Keeps, Shown
<1> QED BY <1>1, <1>2 DEF Tells, Moves

(* The FCB goes to another extent, or gets lost on the way. *)
LEMMA TellsMoved ==
  ASSUME NEW m, NEW n, Moves(m, {m.fcb}, n), Fresh(m, n), Stored(m, n),
         Recorded(n.dir, n.fcb)
  PROVE  Tells(m, n)
<1>1. Extends(m.dir, n.dir) /\ Confined(m.dir, m.fcb.name, n.dir)
  BY MovesConfined
<1>2. ASSUME Covers(m.dir, m.fcb)
      PROVE  Keeps(m, n)
  <2>1. ASSUME NEW k, NEW i \in Ptr, NEW b, Shown(n.dir, n.fcb, k, i, b)
        PROVE  Shown(m.dir, m.fcb, k, i, b)
    <3>1. Listed(n.dir, k, i, b)
      BY <2>1 DEF Shown, Points, Recorded, Listed, SameKey
    <3> QED BY Zenon, <2>1, <3>1, MovesShow DEF Shown
  <2>2. ASSUME NEW k, NEW i \in Ptr, NEW b, ~m.wp, Shown(m.dir, m.fcb, k, i, b)
        PROVE  Shown(n.dir, n.fcb, k, i, b)
    <3>1. CASE Listed(m.dir, k, i, b)
      BY <1>1, <2>2, <3>1, StaysListed DEF Shown
    <3>2. CASE Points(m.fcb, k, i, b)
      <4>1. Listed(n.dir, m.fcb, i, b)
        BY <1>2, <2>2, <3>2 DEF Stored, Recorded, Points, Shown
      <4>2. Listed(n.dir, k, i, b)
        BY <3>2, <4>1 DEF Listed, Points, SameKey
      <4> QED BY <2>2, <4>2 DEF Shown
    <3> QED BY <2>2, <3>1, <3>2 DEF Shown
  <2> QED BY <2>1, <2>2 DEF Keeps
<1> QED BY <1>1, <1>2 DEF Tells, Moves, Fresh

(* One routine after the other. *)
LEMMA TellsOn ==
  ASSUME NEW m, NEW k, NEW n, Tells(m, k), Tells(k, n)
  PROVE  Tells(m, n)
<1>1. Extends(m.dir, n.dir)
  BY DEF Tells, Extends, SameKey
<1>2. Confined(m.dir, m.fcb.name, n.dir)
  <2> SUFFICES ASSUME NEW p \in Used(n.dir), NEW i \in Ptr, n.dir[p].al[i] # 0,
                      n.dir[p].name # m.fcb.name
               PROVE  /\ p \in Used(m.dir) /\ SameKey(n.dir[p], m.dir[p])
                      /\ n.dir[p].al[i] = m.dir[p].al[i]
    BY DEF Confined
  <2>1. p \in Used(k.dir) /\ SameKey(n.dir[p], k.dir[p]) /\ n.dir[p].al[i] = k.dir[p].al[i]
    BY DEF Tells, Confined
  <2>2. p \in Used(m.dir) /\ SameKey(k.dir[p], m.dir[p]) /\ k.dir[p].al[i] = m.dir[p].al[i]
    BY <2>1 DEF Tells, Confined, SameKey
  <2> QED BY <2>1, <2>2 DEF SameKey
<1>3. Covers(m.dir, m.fcb) => Covers(n.dir, n.fcb) /\ Keeps(m, n)
  <2> SUFFICES ASSUME Covers(m.dir, m.fcb)
               PROVE  Covers(n.dir, n.fcb) /\ Keeps(m, n)
    OBVIOUS
  <2>1. Keeps(m, k) /\ Keeps(k, n) /\ Covers(n.dir, n.fcb) /\ k.wp = m.wp
    BY DEF Tells
  <2> QED BY <2>1 DEF Keeps
<1> QED BY <1>1, <1>2, <1>3 DEF Tells

(* A warm boot after a routine that wrote no record. *)
LEMMA TellsDrops ==
  ASSUME NEW m, NEW k, NEW n, Tells(m, k), Drops(k, n)
  PROVE  Drops(m, n)
<1>1. Covers(m.dir, m.fcb) => Covers(k.dir, k.fcb) /\ Keeps(m, k)
  BY DEF Tells
<1> QED BY <1>1 DEF Drops, Keeps, Tells

(* A warm boot in the middle of a move. *)
LEMMA MovesDrops ==
  ASSUME NEW m, NEW n, Moves(m, {m.fcb}, n)
  PROVE  Drops(m, n)
BY Zenon, MovesShow DEF Drops, Moves

(* An FCB filled from the entry of its extent. *)
LEMMA OpenCore ==
  ASSUME NEW d \in [Pos -> Entry \cup {Unused}], NEW k, NEW a, DirOk(d, k, a),
         NEW p \in Used(d), NEW f \in Fcb, SameKey(d[p], f), f.al = d[p].al
  PROVE  /\ Fits(d, a, f) /\ Saved(d, f)
         /\ \A g \in Fcb : FcbOk(d, a, g) => Apart(f, g)
<1>1. Fits(d, a, f) /\ Saved(d, f)
  BY DEF DirOk, Fits, Owned, Saved
<1>2. ASSUME NEW g \in Fcb, FcbOk(d, a, g)
      PROVE  Apart(f, g)
  BY <1>2 DEF Apart, FcbOk, Fits, SameKey
<1> QED BY <1>1, <1>2

(* A new entry of an extent that had none, without blocks. *)
LEMMA EmptyCore ==
  ASSUME NEW d \in [Pos -> Entry \cup {Unused}], NEW k \in Nat, NEW a, DirOk(d, k, a),
         NEW p \in Pos, d[p] = Unused, NEW e \in Entry, e.al = NoBlocks,
         \A q \in Used(d) : ~SameKey(d[q], e), NEW h \in Nat, k <= h, p < h
  PROVE  /\ DirOk([d EXCEPT ![p] = e], h, a)
         /\ \A g : FcbOk(d, a, g) => FcbOk([d EXCEPT ![p] = e], a, g)
         /\ Extends(d, [d EXCEPT ![p] = e]) /\ Grown(d, {}, [d EXCEPT ![p] = e])
         /\ p \in Used([d EXCEPT ![p] = e])
<1> DEFINE d1 == [d EXCEPT ![p] = e]
<1>1. Used(d1) = Used(d) \cup {p} /\ p \notin Used(d)
  BY UnusedAssumption DEF Used
<1>2. d1[p] = e /\ \A q \in Used(d) : d1[q] = d[q]
  BY <1>1 DEF Used
<1>3. \A i \in Ptr : e.al[i] = 0
  BY DEF NoBlocks
<1> HIDE DEF d1
<1>a. Extends(d, d1) /\ Grown(d, {}, d1)
  BY <1>1, <1>2, <1>3 DEF Extends, Grown, SameKey
<1>4. DirOk(d1, h, a)
  <2>1. DirBlocks \subseteq a
    BY DEF DirOk
  <2>2. \A q \in Used(d1) : q < h /\ Owned(d1[q], a)
    BY <1>1, <1>2, <1>3 DEF DirOk, Owned, Used, Pos
  <2>3. \A q, r \in Used(d1) : SameKey(d1[q], d1[r]) => q = r
    BY <1>1, <1>2 DEF DirOk, SameKey
  <2>4. \A q, r \in Used(d1) : \A i, j \in Ptr :
          d1[q].al[i] # 0 /\ d1[q].al[i] = d1[r].al[j] => q = r /\ i = j
    BY <1>1, <1>2, <1>3 DEF DirOk
  <2> QED BY <2>1, <2>2, <2>3, <2>4 DEF DirOk
<1>5. ASSUME NEW g, FcbOk(d, a, g)
      PROVE  FcbOk(d1, a, g)
  <2>1. Live(g) => Saved(d1, g)
    BY <1>5, <1>a, StaysSaved DEF FcbOk
  <2> QED BY <1>1, <1>2, <1>3, <1>5, <2>1 DEF FcbOk, Fits
<1> QED BY Zenon, <1>1, <1>4, <1>5, <1>a DEF d1

(* A free block b for pointer i of an FCB. *)
LEMMA FreshCore ==
  ASSUME NEW d \in [Pos -> Entry \cup {Unused}], NEW k, NEW a, DirOk(d, k, a),
         NEW b, b \notin a, NEW i \in Ptr,
         NEW f \in Fcb, Fits(d, a, f), NEW f1 \in Fcb,
         SameKey(f1, f), f1.al = [f.al EXCEPT ![i] = b]
  PROVE  /\ DirOk(d, k, a \cup {b})
         /\ Fits(d, a \cup {b}, f1)
         /\ \A g \in Fcb : FcbOk(d, a, g) => FcbOk(d, a \cup {b}, g)
         /\ \A g \in Fcb : FcbOk(d, a, g) /\ Apart(f, g) /\ Live(f) => Apart(f1, g)
<1>1. f1.al[i] = b /\ \A j \in Ptr \ {i} : f1.al[j] = f.al[j]
  BY DEF Fcb
<1>2. b \notin DirBlocks
  BY DEF DirOk
<1>3. DirOk(d, k, a \cup {b})
  BY DEF DirOk, Owned
<1>4. Fits(d, a \cup {b}, f1)
  <2>1. Owned(f1, a \cup {b})
    BY <1>1, <1>2 DEF Fits, Owned
  <2>2. \A p \in Used(d) : \A j \in Ptr : d[p].al[j] # 0 => d[p].al[j] # b
    BY DEF DirOk, Owned
  <2>3. \A x, y \in Ptr : f1.al[x] # 0 /\ f1.al[x] = f1.al[y] => x = y
    BY <1>1 DEF Fits, Owned
  <2> QED BY <1>1, <2>1, <2>2, <2>3 DEF Fits, SameKey
<1>5. ASSUME NEW g \in Fcb, FcbOk(d, a, g)
      PROVE  FcbOk(d, a \cup {b}, g)
  BY <1>5 DEF FcbOk, Fits, Owned
<1>6. ASSUME NEW g \in Fcb, FcbOk(d, a, g), Apart(f, g), Live(f)
      PROVE  Apart(f1, g)
  <2> SUFFICES ASSUME Live(g) PROVE Apart(f1, g)
    BY DEF Apart
  <2>1. \A j \in Ptr : g.al[j] # 0 => g.al[j] # b
    BY <1>6 DEF FcbOk, Fits, Owned
  <2> QED BY <1>1, <1>6, <2>1 DEF Apart, SameKey
<1> QED BY <1>3, <1>4, <1>5, <1>6

(* CLOSEIT1 on the entry p of the FCB's extent: up to the first clash, or to *)
(* the end, the FCB takes the pointers it does not have from the entry.      *)
LEMMA MergeCore ==
  ASSUME NEW d \in [Pos -> Entry \cup {Unused}], NEW k, NEW a, DirOk(d, k, a),
         NEW p \in Used(d), NEW f \in Fcb, SameKey(d[p], f), Fits(d, a, f), Live(f),
         NEW f1 \in Fcb, SameKey(f1, f),
         \A i \in Ptr : f1.al[i] = d[p].al[i] \/ f1.al[i] = f.al[i]
  PROVE  /\ Fits(d, a, f1)
         /\ \A g \in Fcb : FcbOk(d, a, g) /\ Apart(f, g) => Apart(f1, g)
<1>1. Fits(d, a, f1)
  <2>1. Owned(f1, a)
    BY DEF Fits, Owned, DirOk
  <2>2. ASSUME NEW q \in Used(d), NEW i \in Ptr, NEW j \in Ptr,
               f1.al[i] # 0, f1.al[i] = d[q].al[j]
        PROVE  SameKey(d[q], f1) /\ i = j
    <3>1. CASE f1.al[i] = f.al[i]
      <4>1. f.al[i] # 0 /\ f.al[i] = d[q].al[j]
        BY <2>2, <3>1
      <4>2. SameKey(d[q], f) /\ i = j
        BY <4>1 DEF Fits
      <4> QED BY <4>2 DEF SameKey
    <3>2. CASE f1.al[i] = d[p].al[i]
      <4>1. d[p].al[i] # 0 /\ d[p].al[i] = d[q].al[j]
        BY <2>2, <3>2
      <4>2. p = q /\ i = j
        BY <4>1 DEF DirOk
      <4> QED BY <4>2 DEF SameKey
    <3> QED BY <3>1, <3>2
  <2>3. \A x, y \in Ptr : f1.al[x] # 0 /\ f1.al[x] = f1.al[y] => x = y
    BY DEF Fits, DirOk
  <2> QED BY <2>1, <2>2, <2>3 DEF Fits
<1>2. ASSUME NEW g \in Fcb, FcbOk(d, a, g), Apart(f, g)
      PROVE  Apart(f1, g)
  <2> SUFFICES ASSUME Live(g), NEW i \in Ptr, NEW j \in Ptr,
                      f1.al[i] # 0, f1.al[i] = g.al[j]
               PROVE  SameKey(f1, g) /\ i = j
    BY DEF Apart
  <2>1. CASE f1.al[i] = f.al[i]
    BY Zenon, <1>2, <2>1 DEF Apart, SameKey
  <2>2. CASE f1.al[i] = d[p].al[i]
    <3>1. g.al[j] # 0 /\ g.al[j] = d[p].al[i]
      BY <2>2
    <3>2. SameKey(d[p], g) /\ i = j
      BY <1>2, <3>1 DEF FcbOk, Fits
    <3> QED BY <3>2 DEF SameKey
  <2> QED BY <2>1, <2>2
<1> QED BY <1>1, <1>2

(* An entry e takes over the pointers of an FCB f1 of its extent, which has  *)
(* all of the entry's own.                                                   *)
LEMMA WriteCore ==
  ASSUME NEW d \in [Pos -> Entry \cup {Unused}], NEW k, NEW a, DirOk(d, k, a),
         NEW p \in Used(d), NEW f \in Fcb, SameKey(d[p], f), Fits(d, a, f), Live(f),
         NEW e \in Entry, SameKey(e, f), e.al = f.al,
         \A i \in Ptr : d[p].al[i] # 0 => e.al[i] = d[p].al[i]
  PROVE  /\ DirOk([d EXCEPT ![p] = e], k, a)
         /\ Fits([d EXCEPT ![p] = e], a, f) /\ Saved([d EXCEPT ![p] = e], f)
         /\ Extends(d, [d EXCEPT ![p] = e])
         /\ \A g \in Fcb : FcbOk(d, a, g) /\ Apart(f, g)
                             => FcbOk([d EXCEPT ![p] = e], a, g)
<1> DEFINE d1 == [d EXCEPT ![p] = e]
<1>1. Used(d1) = Used(d)
  BY UnusedAssumption DEF Used
<1>2. d1[p] = e /\ \A q \in Used(d) : q # p => d1[q] = d[q]
  BY DEF Used
<1> HIDE DEF d1
<1>a. Extends(d, d1)
  BY <1>1, <1>2 DEF Extends, SameKey
<1>b. Saved(d1, f)
  BY <1>1, <1>2 DEF Saved
<1>3. DirOk(d1, k, a)
  <2>1. DirBlocks \subseteq a
    BY DEF DirOk
  <2>2. \A q \in Used(d1) : q < k /\ Owned(d1[q], a)
    BY <1>1, <1>2 DEF DirOk, Owned, Fits
  <2>3. \A q, r \in Used(d1) : SameKey(d1[q], d1[r]) => q = r
    BY <1>1, <1>2 DEF DirOk, SameKey
  <2>4. ASSUME NEW q \in Used(d1), NEW r \in Used(d1), NEW i \in Ptr, NEW j \in Ptr,
               d1[q].al[i] # 0, d1[q].al[i] = d1[r].al[j]
        PROVE  q = r /\ i = j
    <3>0. \A s \in Used(d) : \A x, y \in Ptr :
            f.al[x] # 0 /\ f.al[x] = d[s].al[y] => s = p /\ x = y
      BY DEF Fits, DirOk, SameKey
    <3>1. CASE q # p /\ r # p
      BY <1>1, <1>2, <2>4, <3>1 DEF DirOk
    <3>2. CASE q = p /\ r # p
      BY <1>1, <1>2, <2>4, <3>0, <3>2
    <3>3. CASE q # p /\ r = p
      BY <1>1, <1>2, <2>4, <3>0, <3>3
    <3>4. CASE q = p /\ r = p
      BY <1>2, <2>4, <3>4 DEF Fits
    <3> QED BY <3>1, <3>2, <3>3, <3>4
  <2> QED BY <2>1, <2>2, <2>3, <2>4 DEF DirOk
<1>4. Fits(d1, a, f)
  <2>1. ASSUME NEW q \in Used(d1), NEW i \in Ptr, NEW j \in Ptr,
               f.al[i] # 0, f.al[i] = d1[q].al[j]
        PROVE  SameKey(d1[q], f) /\ i = j
    <3>1. CASE q = p
      BY <1>2, <2>1, <3>1 DEF Fits
    <3>2. CASE q # p
      BY <1>1, <1>2, <2>1, <3>2 DEF Fits
    <3> QED BY <3>1, <3>2
  <2> QED BY <2>1 DEF Fits
<1>5. ASSUME NEW g \in Fcb, FcbOk(d, a, g), Apart(f, g)
      PROVE  FcbOk(d1, a, g)
  <2>1. ASSUME Live(g), NEW q \in Used(d1), NEW i \in Ptr, NEW j \in Ptr,
               g.al[i] # 0, g.al[i] = d1[q].al[j]
        PROVE  SameKey(d1[q], g) /\ i = j
    <3>1. CASE q = p
      <4>1. f.al[j] # 0 /\ f.al[j] = g.al[i]
        BY <1>2, <2>1, <3>1
      <4>2. SameKey(f, g) /\ i = j
        BY <1>5, <2>1, <4>1 DEF Apart
      <4> QED BY <1>2, <3>1, <4>2 DEF SameKey
    <3>2. CASE q # p
      BY <1>1, <1>2, <1>5, <2>1, <3>2 DEF FcbOk, Fits
    <3> QED BY <3>1, <3>2
  <2>2. Live(g) => Saved(d1, g)
    BY <1>5, <1>a, StaysSaved DEF FcbOk
  <2> QED BY <1>5, <2>1, <2>2 DEF FcbOk, Fits
<1> QED BY Zenon, <1>3, <1>4, <1>5, <1>a, <1>b DEF d1

----------------------------------------------------------------------------
(* The routines. *)

(* Machines that differ in nothing but status and position are as good. *)
LEMMA AlikeKeeps ==
  ASSUME NEW O, NEW m, NEW n, IsMachine(n), Alike(m, n)
  PROVE  /\ Base(m, O) => Base(n, O)
         /\ Whole(m, O) /\ n.fcb = m.fcb => Whole(n, O)
<1>1. Base(m, O) => Base(n, O)
  BY DEF Alike, Base
<1>2. Whole(m, O) /\ n.fcb = m.fcb => Whole(n, O)
  BY <1>1 DEF Alike, Whole
<1> QED BY <1>1, <1>2

(* They also move nothing. *)
LEMMA AlikeMoves ==
  ASSUME NEW m, NEW n, Alike(m, n), NEW F
  PROVE  Moves(m, F, n)
BY DEF Alike, Moves, Extends, Grown, SameKey

(* And tell the same. *)
LEMMA AlikeTells ==
  ASSUME NEW m, NEW n, Alike(m, n), Similar(n.fcb, m.fcb)
  PROVE  Tells(m, n)
BY TellsSame DEF Alike

(* The same FCB shows the same. *)
LEMMA SimilarSelf ==
  ASSUME NEW f
  PROVE  Similar(f, f)
BY DEF Similar, SameKey

(* Status, position and the boot flag keep the types of a machine. *)
LEMMA StatusSet ==
  ASSUME NEW m, IsMachine(m), NEW s \in 0..255, NEW p \in Pos \cup {NoPos}
  PROVE  /\ IsMachine([m EXCEPT !.pos = p, !.st = s])
         /\ IsMachine([m EXCEPT !.st = s, !.pos = p])
         /\ IsMachine([m EXCEPT !.st = s])
         /\ IsMachine([m EXCEPT !.boot = TRUE])
BY ZenonT(30) DEF IsMachine

(* At only sets position and status. *)
LEMMA Searched ==
  ASSUME NEW m, IsMachine(m), NEW S \in SUBSET Pos
  PROVE  /\ IsMachine(At(m, S)) /\ Alike(m, At(m, S)) /\ At(m, S).fcb = m.fcb
         /\ At(m, S).io = m.io
         /\ S = {} => At(m, S).pos = NoPos /\ At(m, S).st = NotFound
         /\ S # {} => At(m, S).pos \in S
<1>0. NotFound \in 0..255 /\ NoPos \in Pos \cup {NoPos} /\ DIRSIZE \in Nat
  BY BdosAssumption DEF NotFound
<1>1. CASE S = {}
  <2> DEFINE n == [m EXCEPT !.pos = NoPos, !.st = NotFound]
  <2>1. At(m, S) = n
    BY <1>1 DEF At
  <2>2. IsMachine(n)
    BY Zenon, <1>0, StatusSet
  <2>3. /\ Alike(m, n) /\ n.fcb = m.fcb /\ n.io = m.io
        /\ n.pos = NoPos /\ n.st = NotFound
    BY DEF IsMachine, Alike
  <2> QED BY Zenon, <1>1, <2>1, <2>2, <2>3
<1>2. CASE S # {}
  <2> DEFINE p == First(S)
             n == [m EXCEPT !.pos = p, !.st = p % 4]
  <2>1. At(m, S) = n
    BY <1>2 DEF At, Found1
  <2>a. S \in SUBSET Nat
    BY <1>0 DEF Pos
  <2>b. p \in S
    BY <1>2, <2>a, FirstIn
  <2>2. p \in S /\ p \in Pos /\ p \in Nat
    BY Zenon, <2>a, <2>b
  <2>3. p % 4 \in 0..255
    BY <2>2
  <2> HIDE DEF p
  <2>4. IsMachine(n)
    BY Zenon, <2>2, <2>3, StatusSet
  <2>5. /\ Alike(m, n) /\ n.fcb = m.fcb /\ n.io = m.io /\ n.pos = p
    BY DEF IsMachine, Alike
  <2> QED BY <1>2, <2>1, <2>2, <2>4, <2>5
<1> QED BY <1>1, <1>2

(* FINDFST finds the entry of the FCB's extent if there is one. *)
LEMMA FindFst ==
  ASSUME NEW O, NEW m, Base(m, O)
  PROVE  /\ IsMachine(FINDFST(m)) /\ Alike(m, FINDFST(m)) /\ FINDFST(m).fcb = m.fcb
         /\ FINDFST(m).pos = NoPos =>
              FINDFST(m).st = NotFound /\ \A q \in Used(m.dir) : ~SameKey(m.dir[q], m.fcb)
         /\ FINDFST(m).pos # NoPos =>
              /\ FINDFST(m).pos \in Used(m.dir)
              /\ SameKey(m.dir[FINDFST(m).pos], m.fcb)
<1> DEFINE S == {p \in Pos : p < m.mark /\ Matches(m.dir[p], m.fcb.name, m.fcb.ex, m.fcb.s2)}
<1>1. S \in SUBSET Pos /\ NoPos \notin S
  BY DEF Pos, NoPos
<1>2. \A q \in Used(m.dir) : SameKey(m.dir[q], m.fcb) => q \in S
  BY DEF Base, DirOk, Used, SameKey, Matches
<1>3. \A q \in S : q \in Used(m.dir) /\ SameKey(m.dir[q], m.fcb)
  BY DEF Used, SameKey, Matches
<1>4. FINDFST(m) = At(m, S)
  BY DEF FINDFST
<1> HIDE DEF S
<1>5. IsMachine(m)
  BY DEF Base
<1> QED BY <1>1, <1>2, <1>3, <1>4, <1>5, Searched

(* What changes when the FCB or an entry does. *)
LEMMA FcbSet ==
  ASSUME NEW m, IsMachine(m), NEW f \in Fcb
  PROVE  /\ IsMachine([m EXCEPT !.fcb = f])
         /\ Alike(m, [m EXCEPT !.fcb = f])
         /\ [m EXCEPT !.fcb = f].fcb = f
         /\ [m EXCEPT !.fcb = f].pos = m.pos
         /\ [m EXCEPT !.fcb = f].st = m.st
<1>1. IsMachine([m EXCEPT !.fcb = f])
  BY DEF IsMachine
<1> QED BY <1>1 DEF IsMachine, Alike

(* DIRWRITE stores a directory that is in order. *)
LEMMA DirWrite ==
  ASSUME NEW m, IsMachine(m), m.pos \in Pos, NEW e \in Entry
  PROVE  /\ IsMachine(DIRWRITE(m, e))
         /\ DIRWRITE(m, e).dir = [m.dir EXCEPT ![m.pos] = e]
         /\ DIRWRITE(m, e).mark = m.mark /\ DIRWRITE(m, e).alv = m.alv
         /\ DIRWRITE(m, e).wp = m.wp /\ DIRWRITE(m, e).boot = m.boot
         /\ DIRWRITE(m, e).fcb = m.fcb /\ DIRWRITE(m, e).pos = m.pos
         /\ DIRWRITE(m, e).data = m.data /\ DIRWRITE(m, e).xfer = m.xfer
<1> DEFINE x == Note(m, DirWritten(m.pos, e))
           d == [m.dir EXCEPT ![m.pos] = e]
<1>1. DIRWRITE(m, e) = [m EXCEPT !.dir = d, !.io = x]
  BY DEF DIRWRITE, IsMachine
<1>2. d \in [Pos -> Entry \cup {Unused}]
  BY DEF IsMachine
<1> HIDE DEF x, d
<1>3. IsMachine([m EXCEPT !.dir = d, !.io = x])
  BY Zenon, <1>2 DEF IsMachine
<1>4. \A n : n = [m EXCEPT !.dir = d, !.io = x] =>
        /\ n.dir = d /\ n.mark = m.mark /\ n.alv = m.alv /\ n.wp = m.wp /\ n.boot = m.boot
        /\ n.fcb = m.fcb /\ n.pos = m.pos /\ n.data = m.data /\ n.xfer = m.xfer
  BY DEF IsMachine
<1> QED BY <1>1, <1>3, <1>4 DEF d

(* OPENIT1 makes an FCB fit again, whatever extent it came from. *)
LEMMA OpenIt ==
  ASSUME NEW O \in SUBSET Fcb, NEW m, Base(m, O), m.pos \in Used(m.dir),
         SameKey(m.dir[m.pos], m.fcb)
  PROVE  /\ Whole(OPENIT1(m), O) /\ Alike(m, OPENIT1(m))
         /\ OPENIT1(m).pos = m.pos /\ OPENIT1(m).st = m.st
         /\ ~OPENIT1(m).fcb.stuck /\ OPENIT1(m).fcb.cr = m.fcb.cr
         /\ SameKey(OPENIT1(m).fcb, m.fcb) /\ Fresh(m, OPENIT1(m))
<1> DEFINE e == m.dir[m.pos]
           f == [m.fcb EXCEPT !.ro = e.ro, !.rc = e.rc, !.al = e.al,
                              !.unmod = TRUE, !.stuck = FALSE]
<1>0. IsMachine(m) /\ m.fcb \in Fcb /\ m.dir \in [Pos -> Entry \cup {Unused}]
  BY DEF Base, IsMachine
<1>1. e \in Entry
  BY <1>0 DEF Used
<1>2. OPENIT1(m) = [m EXCEPT !.fcb = f]
  BY <1>0 DEF OPENIT1, Opened, IsMachine
<1> HIDE DEF e
<1>3. f \in Fcb /\ f.al = e.al /\ f.unmod /\ ~f.stuck /\ f.cr = m.fcb.cr
  BY ZenonT(30), <1>0, <1>1 DEF Entry, Fcb
<1>4. SameKey(f, m.fcb)
  BY <1>0 DEF SameKey, Fcb
<1> HIDE DEF f
<1>5. SameKey(e, f)
  BY <1>4 DEF SameKey, e
<1>6. /\ Fits(m.dir, m.alv, f) /\ Saved(m.dir, f)
      /\ \A g \in Fcb : FcbOk(m.dir, m.alv, g) => Apart(f, g)
  BY <1>0, <1>3, <1>5, OpenCore DEF Base, e
<1>7. FcbOk(m.dir, m.alv, f)
  BY <1>3, <1>6 DEF FcbOk
<1>8. /\ IsMachine(OPENIT1(m)) /\ Alike(m, OPENIT1(m)) /\ OPENIT1(m).fcb = f
      /\ OPENIT1(m).pos = m.pos /\ OPENIT1(m).st = m.st
  BY <1>0, <1>2, <1>3, FcbSet
<1>9. Base(OPENIT1(m), O)
  BY <1>8, AlikeKeeps
<1>10. Whole(OPENIT1(m), O)
  BY Zenon, <1>6, <1>7, <1>8, <1>9 DEF Whole, Base, Alike
<1>11. Covers(m.dir, f)
  <2>1. \A p \in Used(m.dir) : SameKey(m.dir[p], f) => p = m.pos
    BY <1>4 DEF Base, DirOk, SameKey
  <2> QED BY <1>3, <2>1 DEF Covers, e
<1>12. Fresh(m, OPENIT1(m))
  BY <1>3, <1>4, <1>8, <1>11 DEF Fresh, Alike, SameKey
<1> QED BY <1>3, <1>4, <1>8, <1>10, <1>12

(* CHKNMBR moves the search limit up, never down. *)
LEMMA ChkNmbr ==
  ASSUME NEW m, IsMachine(m), m.pos \in Pos
  PROVE  /\ IsMachine(CHKNMBR(m))
         /\ m.mark <= CHKNMBR(m).mark /\ m.pos < CHKNMBR(m).mark /\ CHKNMBR(m).mark \in Nat
         /\ CHKNMBR(m).dir = m.dir /\ CHKNMBR(m).alv = m.alv /\ CHKNMBR(m).wp = m.wp
         /\ CHKNMBR(m).boot = m.boot /\ CHKNMBR(m).fcb = m.fcb /\ CHKNMBR(m).pos = m.pos
         /\ CHKNMBR(m).data = m.data /\ CHKNMBR(m).xfer = m.xfer
<1> DEFINE k == IF m.pos < m.mark THEN m.mark ELSE m.pos + 1
<1>1. m.mark \in 0..DIRSIZE + 4
  BY DEF IsMachine
<1>2. k \in 0..DIRSIZE + 4 /\ m.mark <= k /\ m.pos < k /\ k \in Nat
  BY <1>1, BdosAssumption DEF Pos
<1>3. CHKNMBR(m) = [m EXCEPT !.mark = k]
  BY DEF CHKNMBR, IsMachine
<1> HIDE DEF k
<1>4. IsMachine([m EXCEPT !.mark = k])
  BY <1>2 DEF IsMachine
<1>5. \A n : n = [m EXCEPT !.mark = k] =>
        /\ n.mark = k /\ n.dir = m.dir /\ n.alv = m.alv /\ n.wp = m.wp
        /\ n.boot = m.boot /\ n.fcb = m.fcb /\ n.pos = m.pos
        /\ n.data = m.data /\ n.xfer = m.xfer
  BY DEF IsMachine
<1> QED BY <1>2, <1>3, <1>4, <1>5

(* GETEMPTY makes an entry for an extent that has none, or changes nothing   *)
(* of the disk.                                                              *)
LEMMA GetEmpty ==
  ASSUME NEW O \in SUBSET Fcb, NEW m, Base(m, O), m.pos = NoPos,
         \A q \in Used(m.dir) : ~SameKey(m.dir[q], m.fcb)
  PROVE  /\ Base(GETEMPTY(m), O)
         /\ Moves(m, {}, GETEMPTY(m))
         /\ GETEMPTY(m).boot = (m.boot \/ m.wp)
         /\ GETEMPTY(m).pos = NoPos => GETEMPTY(m).fcb = m.fcb
         /\ GETEMPTY(m).pos # NoPos =>
              /\ Whole(GETEMPTY(m), O)
              /\ ~GETEMPTY(m).fcb.stuck /\ GETEMPTY(m).fcb.cr = m.fcb.cr
              /\ SameKey(GETEMPTY(m).fcb, m.fcb) /\ Fresh(m, GETEMPTY(m))
<1>0. IsMachine(m) /\ m.fcb \in Fcb /\ m.wp \in BOOLEAN /\ m.boot \in BOOLEAN
  BY DEF Base, IsMachine
<1>1. CASE m.wp
  <2> DEFINE n == [m EXCEPT !.boot = TRUE]
  <2>1. GETEMPTY(m) = n
    BY <1>1 DEF GETEMPTY, Boot
  <2>2. /\ n.dir = m.dir /\ n.mark = m.mark /\ n.alv = m.alv /\ n.boot = TRUE
        /\ n.fcb = m.fcb /\ n.pos = m.pos /\ n.data = m.data /\ n.wp = m.wp /\ n.xfer = m.xfer
    BY <1>0 DEF IsMachine
  <2>3. IsMachine(n)
    BY ZenonT(30), <1>0 DEF IsMachine
  <2> HIDE DEF n
  <2>4. Base(n, O) /\ Moves(m, {}, n)
    BY <2>2, <2>3 DEF Base, Moves, Extends, Grown, SameKey
  <2> QED BY Zenon, <1>0, <1>1, <2>1, <2>2, <2>4
<1>2. CASE ~m.wp
  <2> DEFINE S == {p \in Pos : m.dir[p] = Unused}
             a == At(m, S)
             f == Cleared(m.fcb)
             b == [a EXCEPT !.fcb = f]
             c == CHKNMBR(b)
             e == [name |-> f.name, ro |-> f.ro, ex |-> f.ex, s2 |-> f.s2,
                   rc |-> f.rc, al |-> f.al]
             n == DIRWRITE(c, e)
  <2>1. S \in SUBSET Pos
    OBVIOUS
  <2>2. /\ IsMachine(a) /\ Alike(m, a) /\ a.fcb = m.fcb
        /\ S = {} => a.pos = NoPos
        /\ S # {} => a.pos \in S
    BY Zenon, <1>0, <2>1, Searched
  <2>3. GETEMPTY(m) = GETMT1(a)
    BY <1>2 DEF GETEMPTY
  <2>4. \A p \in S : p \in Pos /\ p # NoPos /\ m.dir[p] = Unused
    BY BdosAssumption DEF Pos, NoPos
  <2> HIDE DEF S, a
  <2>5. CASE S = {}
    <3>1. GETEMPTY(m) = a /\ a.pos = NoPos
      BY <2>2, <2>3, <2>5 DEF GETMT1
    <3>2. Base(a, O) /\ Moves(m, {}, a)
      BY <2>2, AlikeKeeps, AlikeMoves
    <3> QED BY <1>0, <1>2, <2>2, <3>1, <3>2 DEF Alike
  <2>6. CASE S # {}
    <3>1. a.pos \in Pos /\ a.pos # NoPos /\ m.dir[a.pos] = Unused
      BY Zenon, <2>2, <2>4, <2>6
    <3>2. f \in Fcb /\ f.al = NoBlocks /\ f.unmod /\ ~f.stuck /\ f.cr = m.fcb.cr
      <4>1. NoBlocks \in [Ptr -> Block] /\ 0 \in 0..RPE
        BY AllocAssumption, BdosAssumption DEF NoBlocks, Block
      <4> QED BY Zenon, <1>0, <4>1 DEF Cleared, Fcb
    <3>3. SameKey(f, m.fcb)
      BY <1>0 DEF Cleared, SameKey, Fcb
    <3> HIDE DEF f
    <3>4. e \in Entry /\ e.al = NoBlocks /\ SameKey(e, m.fcb)
      BY <3>2, <3>3 DEF Entry, Fcb, SameKey
    <3>5. IsMachine(b) /\ Alike(a, b) /\ b.fcb = f /\ b.pos = a.pos
      BY <2>2, <3>2, FcbSet
    <3>6. GETEMPTY(m) = n
      <4>a. [a EXCEPT !.fcb = Cleared(@)] = b
        BY <2>2 DEF f
      <4>1. GETMT1(a) = FCBSET(c)
        BY <3>1, <4>a DEF GETMT1
      <4>2. c.fcb = f
        BY Zenon, <3>1, <3>5, ChkNmbr
      <4>3. FCBSET(c) = n
        BY <4>2 DEF FCBSET
      <4> QED BY <2>3, <4>1, <4>3
    <3> HIDE DEF b
    <3>7. /\ IsMachine(c) /\ m.mark <= c.mark /\ a.pos < c.mark /\ c.mark \in Nat
          /\ c.dir = m.dir /\ c.alv = m.alv /\ c.wp = m.wp /\ c.boot = m.boot
          /\ c.fcb = f /\ c.pos = a.pos /\ c.data = m.data /\ c.xfer = m.xfer
      BY <2>2, <3>1, <3>5, ChkNmbr DEF Alike
    <3> HIDE DEF c, e
    <3>8. /\ IsMachine(n) /\ n.dir = [m.dir EXCEPT ![a.pos] = e] /\ n.mark = c.mark
          /\ n.alv = m.alv /\ n.wp = m.wp /\ n.boot = m.boot /\ n.fcb = f /\ n.pos = a.pos
          /\ n.data = m.data /\ n.xfer = m.xfer
      BY <3>1, <3>4, <3>7, DirWrite
    <3> HIDE DEF n
    <3>9. \A q \in Used(m.dir) : ~SameKey(m.dir[q], e)
      BY SMTT(30), <3>4 DEF SameKey
    <3>10. /\ DirOk(n.dir, n.mark, n.alv)
           /\ \A g : FcbOk(m.dir, m.alv, g) => FcbOk(n.dir, n.alv, g)
           /\ Extends(m.dir, n.dir) /\ Grown(m.dir, {}, n.dir) /\ a.pos \in Used(n.dir)
      <4>1. m.mark \in Nat /\ m.dir \in [Pos -> Entry \cup {Unused}]
        BY <1>0 DEF IsMachine
      <4> QED BY <3>1, <3>4, <3>7, <3>8, <3>9, <4>1, EmptyCore DEF Base
    <3>11. Base(n, O)
      BY <3>8, <3>10 DEF Base
    <3>12. Owned(f, n.alv) /\ \A i \in Ptr : f.al[i] = 0
      BY <3>2 DEF Owned, NoBlocks
    <3>a. Saved(n.dir, f)
      <4>1. n.dir[a.pos] = e
        BY <1>0, <3>1, <3>8 DEF IsMachine
      <4>2. SameKey(e, f)
        BY <3>3, <3>4 DEF SameKey
      <4> QED BY Zenon, <3>10, <3>12, <4>1, <4>2 DEF Saved
    <3>13. FcbOk(n.dir, n.alv, f)
      BY SMTT(30), <3>2, <3>12, <3>a DEF FcbOk, Fits
    <3>14. Whole(n, O) /\ Moves(m, {}, n)
      BY Zenon, <1>2, <3>8, <3>10, <3>11, <3>12, <3>13 DEF Whole, Apart, Moves
    <3>15. Fresh(m, n)
      <4>1. Covers(n.dir, f)
        BY Zenon, <3>3, <3>10 DEF Covers, Grown, SameKey
      <4> QED BY Zenon, <3>2, <3>3, <3>8, <4>1 DEF Fresh, SameKey
    <3> QED BY Zenon, <1>0, <1>2, <3>1, <3>2, <3>3, <3>6, <3>8, <3>11, <3>14, <3>15
  <2> QED BY Zenon, <2>5, <2>6
<1> QED BY Zenon, <1>0, <1>1, <1>2

(* The FCB with the pointers that a merge as far as l gives it. *)
LEMMA MergedFcb ==
  ASSUME NEW f \in Fcb, NEW e \in Entry, NEW l \in Nat
  PROVE  /\ [f EXCEPT !.al = Merged(f, e, l)] \in Fcb
         /\ SameKey([f EXCEPT !.al = Merged(f, e, l)], f)
         /\ \A i \in Ptr : \/ [f EXCEPT !.al = Merged(f, e, l)].al[i] = e.al[i]
                           \/ [f EXCEPT !.al = Merged(f, e, l)].al[i] = f.al[i]
         /\ [f EXCEPT !.al = Merged(f, e, l)].al = Merged(f, e, l)
         /\ [f EXCEPT !.al = Merged(f, e, l)].cr = f.cr
         /\ [f EXCEPT !.al = Merged(f, e, l)].stuck = f.stuck
         /\ [f EXCEPT !.al = Merged(f, e, l)].unmod = f.unmod
         /\ Merged(f, e, l) \in [Ptr -> Block]
<1> DEFINE x == Merged(f, e, l)
<1>1. x \in [Ptr -> Block]
  BY DEF Merged, Fcb, Entry
<1>2. \A i \in Ptr : x[i] = e.al[i] \/ x[i] = f.al[i]
  BY DEF Merged
<1> HIDE DEF x
<1>3. [f EXCEPT !.al = x] \in Fcb /\ [f EXCEPT !.al = x].al = x
  BY <1>1 DEF Fcb
<1>4. SameKey([f EXCEPT !.al = x], f)
  BY DEF Fcb, SameKey
<1>5. /\ [f EXCEPT !.al = x].cr = f.cr /\ [f EXCEPT !.al = x].stuck = f.stuck
      /\ [f EXCEPT !.al = x].unmod = f.unmod
  BY DEF Fcb
<1> QED BY <1>1, <1>2, <1>3, <1>4, <1>5 DEF x

(* CLOSEIT1 writes the merged entry back. *)
LEMMA CloseIt1 ==
  ASSUME NEW O \in SUBSET Fcb, NEW m, Whole(m, O), m.pos \in Used(m.dir),
         SameKey(m.dir[m.pos], m.fcb), ~m.fcb.unmod
  PROVE  /\ Whole(CLOSEIT1(m, m.dir[m.pos]), O)
         /\ ~m.wp => Moves(m, {m.fcb}, CLOSEIT1(m, m.dir[m.pos]))
         /\ CLOSEIT1(m, m.dir[m.pos]).wp = m.wp
         /\ CLOSEIT1(m, m.dir[m.pos]).boot = m.boot
         /\ CLOSEIT1(m, m.dir[m.pos]).pos = m.pos
         /\ SameKey(CLOSEIT1(m, m.dir[m.pos]).fcb, m.fcb)
         /\ CLOSEIT1(m, m.dir[m.pos]).fcb.cr = m.fcb.cr
         /\ CLOSEIT1(m, m.dir[m.pos]).fcb.stuck = m.fcb.stuck
         /\ Covers(m.dir, m.fcb) =>
              /\ CLOSEIT1(m, m.dir[m.pos]).fcb.al = m.fcb.al
              /\ Covers(CLOSEIT1(m, m.dir[m.pos]).dir, CLOSEIT1(m, m.dir[m.pos]).fcb)
              /\ Recorded(CLOSEIT1(m, m.dir[m.pos]).dir, m.fcb)
<1> DEFINE e == m.dir[m.pos]
           f == m.fcb
           C == Clash(f, e)
           l == IF C # {} THEN First(C) ELSE RPE
           x == Merged(f, e, l)
           f1 == [f EXCEPT !.al = x]
<1>0. /\ IsMachine(m) /\ Base(m, O) /\ f \in Fcb /\ m.dir \in [Pos -> Entry \cup {Unused}]
      /\ m.pos \in Pos
  BY DEF Whole, Base, IsMachine, Used
<1>1. e \in Entry
  BY <1>0 DEF Used
<1>2. Live(f) /\ Fits(m.dir, m.alv, f) /\ Saved(m.dir, f)
  BY DEF Whole, FcbOk
<1>3. l \in Nat
  <2>1. C \in SUBSET Nat /\ RPE \in Nat
    BY Zenon, PtrZero, BdosAssumption DEF Clash
  <2>2. C # {} => First(C) \in C
    BY <2>1, FirstIn
  <2> QED BY <2>1, <2>2
<1> HIDE DEF l
<1>4. /\ f1 \in Fcb /\ SameKey(f1, f) /\ f1.al = x /\ x \in [Ptr -> Block]
      /\ \A i \in Ptr : f1.al[i] = e.al[i] \/ f1.al[i] = f.al[i]
      /\ f1.cr = f.cr /\ f1.stuck = f.stuck /\ f1.unmod = f.unmod
  BY SMTT(30), <1>0, <1>1, <1>3, MergedFcb
<1> HIDE DEF x, f1
<1>5. /\ Fits(m.dir, m.alv, f1)
      /\ \A g \in Fcb : FcbOk(m.dir, m.alv, g) /\ Apart(f, g) => Apart(f1, g)
  BY ZenonT(30), <1>0, <1>2, <1>4, MergeCore DEF Base
<1>6. FcbOk(m.dir, m.alv, f1) /\ Live(f1)
  <2>1. Saved(m.dir, f1)
    BY Zenon, <1>2, <1>4 DEF Saved, SameKey
  <2> QED BY Zenon, <1>2, <1>4, <1>5, <2>1 DEF FcbOk, Live, SameKey
<1>7. \A g \in O : Apart(f, g) /\ Apart(f1, g) /\ FcbOk(m.dir, m.alv, g)
  BY <1>5 DEF Whole, Base
<1>a. Covers(m.dir, f) => \A i \in Ptr : e.al[i] # 0 => f.al[i] = e.al[i]
  BY SMTT(30), <1>2 DEF Covers
<1>8. CASE C # {}
  <2> DEFINE s == (m.st + 255) % 256
             n == [m EXCEPT !.fcb = f1, !.st = s]
  <2>1. s \in 0..255
    BY <1>0 DEF IsMachine
  <2>2. CLOSEIT1(m, e) = n
    BY <1>0, <1>8 DEF CLOSEIT1, IsMachine, f1, x, l
  <2> HIDE DEF s
  <2>3. IsMachine(n)
    BY Zenon, <1>0, <1>4, <2>1 DEF IsMachine
  <2>4. Alike(m, n) /\ n.fcb = f1 /\ n.pos = m.pos
    BY <1>0 DEF IsMachine, Alike
  <2> HIDE DEF n
  <2>5. Base(n, O) /\ Moves(m, {f}, n)
    BY <1>0, <2>3, <2>4, AlikeKeeps, AlikeMoves
  <2>6. Whole(n, O)
    BY <1>6, <1>7, <2>4, <2>5 DEF Whole, Alike
  <2>7. ~Covers(m.dir, f)
    BY SMTT(30), <1>8, <1>a DEF Clash
  <2> QED BY Zenon, <1>4, <2>2, <2>4, <2>5, <2>6, <2>7 DEF Alike
<1>9. CASE C = {}
  <2> DEFINE b == [m EXCEPT !.fcb = f1]
             e1 == [e EXCEPT !.al = x, !.rc = f.rc]
             n == DIRWRITE(b, e1)
  <2>1. CLOSEIT1(m, e) = n
    BY <1>0, <1>9 DEF CLOSEIT1, f1, x, l
  <2>2. e1 \in Entry /\ e1.al = x
    BY Zenon, <1>0, <1>1, <1>4 DEF Entry, Fcb
  <2>3. SameKey(e1, f1)
    <3>1. SameKey(e1, e)
      BY <1>1 DEF Entry, SameKey
    <3> QED BY <1>4, <3>1 DEF SameKey
  <2> HIDE DEF e1
  <2>4. IsMachine(b) /\ Alike(m, b) /\ b.fcb = f1 /\ b.pos = m.pos
    BY SMTT(30), <1>0, <1>4, FcbSet
  <2> HIDE DEF b
  <2>5. /\ IsMachine(n) /\ n.dir = [m.dir EXCEPT ![m.pos] = e1] /\ n.mark = m.mark
        /\ n.alv = m.alv /\ n.wp = m.wp /\ n.boot = m.boot /\ n.fcb = f1
        /\ n.pos = m.pos /\ n.data = m.data /\ n.xfer = m.xfer
    BY <1>0, <2>2, <2>4, DirWrite DEF Alike
  <2> HIDE DEF n
  <2>6. SameKey(e, f1) /\ e1.al = f1.al
    BY Zenon, <1>4, <2>2 DEF SameKey
  <2>a. \A i \in Ptr : e.al[i] # 0 => x[i] = e.al[i]
    <3> SUFFICES ASSUME NEW i \in Ptr, e.al[i] # 0
                 PROVE  x[i] = e.al[i]
      OBVIOUS
    <3>1. i < RPE /\ l = RPE
      BY <1>9, PtrZero DEF l
    <3>2. f.al[i] = 0 \/ f.al[i] = e.al[i]
      BY SMTT(30), <1>9 DEF Clash
    <3> QED BY Zenon, <3>1, <3>2 DEF x, Merged
  <2>7. /\ DirOk(n.dir, n.mark, n.alv) /\ Fits(n.dir, n.alv, f1) /\ Saved(n.dir, f1)
        /\ \A g \in Fcb : FcbOk(m.dir, m.alv, g) /\ Apart(f1, g) => FcbOk(n.dir, n.alv, g)
        /\ Extends(m.dir, n.dir)
    <3> DEFINE d1 == [m.dir EXCEPT ![m.pos] = e1]
    <3>1. /\ DirOk(m.dir, m.mark, m.alv) /\ SameKey(m.dir[m.pos], f1) /\ e1.al = f1.al
          /\ \A i \in Ptr : m.dir[m.pos].al[i] # 0 => e1.al[i] = m.dir[m.pos].al[i]
      BY Zenon, <1>0, <1>4, <2>2, <2>6, <2>a DEF Base
    <3>2. /\ DirOk(d1, m.mark, m.alv) /\ Fits(d1, m.alv, f1) /\ Saved(d1, f1)
          /\ Extends(m.dir, d1)
          /\ \A g \in Fcb : FcbOk(m.dir, m.alv, g) /\ Apart(f1, g) => FcbOk(d1, m.alv, g)
      BY Zenon, <1>0, <1>4, <1>5, <1>6, <2>2, <2>3, <3>1, WriteCore
    <3> QED BY Zenon, <2>5, <3>2
  <2>b. Grown(m.dir, {f}, n.dir)
    <3> SUFFICES ASSUME NEW p \in Used(n.dir), NEW i \in Ptr, n.dir[p].al[i] # 0
                 PROVE  \/ /\ p \in Used(m.dir) /\ SameKey(n.dir[p], m.dir[p])
                           /\ n.dir[p].al[i] = m.dir[p].al[i]
                        \/ SameKey(n.dir[p], f) /\ n.dir[p].al[i] = f.al[i]
      BY Zenon, <1>2 DEF Grown
    <3>1. CASE p # m.pos
      BY Zenon, <1>0, <2>5, <3>1 DEF Used, SameKey
    <3>2. CASE p = m.pos
      <4>1. n.dir[p] = e1
        BY Zenon, <1>0, <2>5, <3>2
      <4>2. SameKey(e1, f) /\ SameKey(e1, e)
        BY Zenon, <1>4, <2>3 DEF SameKey
      <4> QED BY <1>4, <2>6, <3>2, <4>1, <4>2
    <3> QED BY Zenon, <3>1, <3>2
  <2>c. ~m.wp => Moves(m, {f}, n)
    BY Zenon, <2>5, <2>7, <2>b DEF Moves
  <2>8. Base(n, O)
    BY Zenon, <1>7, <2>5, <2>7 DEF Base
  <2>9. Whole(n, O)
    BY Zenon, <1>6, <1>7, <2>5, <2>7, <2>8 DEF Whole, FcbOk
  <2>d. ASSUME Covers(m.dir, f)
        PROVE  f1.al = f.al /\ Covers(n.dir, f1) /\ Recorded(n.dir, f)
    <3>1. \A i \in Ptr : x[i] = f.al[i]
      BY <1>a, <2>d DEF x, Merged
    <3>2. f1.al = f.al
      BY <1>0, <1>4, <3>1 DEF Fcb
    <3>3. n.dir[m.pos] = e1 /\ m.pos \in Used(n.dir) /\ e1.al = f.al
      <4>1. n.dir[m.pos] = e1
        BY Zenon, <1>0, <2>5
      <4> QED BY SMTT(30), <1>0, <2>2, <2>6, <3>2, <4>1, UnusedAssumption DEF Used
    <3>4. Recorded(n.dir, f)
      <4>1. SameKey(e1, f)
        BY Zenon, <1>4, <2>3 DEF SameKey
      <4> QED BY <3>3, <4>1 DEF Recorded, Listed
    <3>5. Covers(n.dir, f1)
      <4>1. \A p \in Used(n.dir) : SameKey(n.dir[p], f1) => p = m.pos
        BY Zenon, <2>3, <2>7, <3>3 DEF DirOk, SameKey
      <4> QED BY <3>2, <3>3, <4>1 DEF Covers
    <3> QED BY <3>2, <3>4, <3>5
  <2> QED BY Zenon, <1>4, <2>1, <2>5, <2>9, <2>c, <2>d
<1> QED BY Zenon, <1>8, <1>9

(* CLOSEIT leaves everything in order, whether it writes the entry or stops  *)
(* at a clash; an extent that was modified has an entry.                     *)
LEMMA CloseIt ==
  ASSUME NEW O \in SUBSET Fcb, NEW m, Whole(m, O)
  PROVE  /\ Whole(CLOSEIT(m), O)
         /\ Moves(m, {m.fcb}, CLOSEIT(m)) /\ CLOSEIT(m).boot = m.boot
         /\ SameKey(CLOSEIT(m).fcb, m.fcb)
         /\ CLOSEIT(m).fcb.cr = m.fcb.cr /\ CLOSEIT(m).fcb.stuck = m.fcb.stuck
         /\ CLOSEIT(m).pos # NoPos
         /\ Stored(m, CLOSEIT(m)) /\ Tells(m, CLOSEIT(m))
<1>0. IsMachine(m) /\ m.fcb \in Fcb /\ Base(m, O)
  BY DEF Whole, Base, IsMachine
<1>1. CASE m.wp \/ m.fcb.unmod
  <2> DEFINE n == [m EXCEPT !.st = 0, !.pos = 0]
  <2>1. CLOSEIT(m) = n
    BY <1>1 DEF CLOSEIT
  <2>2. 0 \in 0..255 /\ 0 \in Pos \cup {NoPos}
    BY BdosAssumption DEF Pos
  <2>3. IsMachine(n)
    BY Zenon, <1>0, <2>2, StatusSet
  <2>4. Alike(m, n) /\ n.fcb = m.fcb
    BY <1>0 DEF IsMachine, Alike
  <2>5. Whole(n, O) /\ Moves(m, {m.fcb}, n)
    BY Zenon, <2>3, <2>4, AlikeKeeps, AlikeMoves
  <2>6. n.pos # NoPos
    BY <1>0 DEF IsMachine, NoPos
  <2> HIDE DEF n
  <2>7. Tells(m, n)
    BY <2>4, TellsSame DEF Alike, Similar, SameKey
  <2>8. Stored(m, n)
    <3>1. ~m.wp => Recorded(m.dir, m.fcb)
      BY <1>1, UnmodRecorded DEF Whole
    <3> QED BY <2>4, <3>1 DEF Stored, Alike
  <2> QED BY <2>1, <2>4, <2>5, <2>6, <2>7, <2>8 DEF Alike, SameKey
<1>2. CASE ~m.wp /\ ~m.fcb.unmod
  <2> DEFINE a == FINDFST(m)
             e == a.dir[a.pos]
  <2>1. CLOSEIT(m) = CloseFound(a)
    BY <1>2 DEF CLOSEIT
  <2>2. \E q \in Used(m.dir) : SameKey(m.dir[q], m.fcb)
    BY Zenon, <1>2 DEF Whole, FcbOk, Saved
  <2>3. /\ IsMachine(a) /\ Alike(m, a) /\ a.fcb = m.fcb
        /\ a.pos # NoPos /\ a.pos \in Used(a.dir) /\ SameKey(e, a.fcb)
    BY Zenon, <1>0, <2>2, FindFst DEF Alike
  <2>4. CLOSEIT(m) = CLOSEIT1(a, e)
    BY Zenon, <2>1, <2>3 DEF CloseFound
  <2> HIDE DEF a
  <2>5. Whole(a, O) /\ ~a.fcb.unmod /\ ~a.wp
    BY Zenon, <1>2, <2>3, AlikeKeeps DEF Alike
  <2>6. /\ Whole(CLOSEIT1(a, e), O) /\ Moves(a, {a.fcb}, CLOSEIT1(a, e))
        /\ CLOSEIT1(a, e).boot = a.boot /\ SameKey(CLOSEIT1(a, e).fcb, a.fcb)
        /\ CLOSEIT1(a, e).fcb.cr = a.fcb.cr /\ CLOSEIT1(a, e).fcb.stuck = a.fcb.stuck
        /\ CLOSEIT1(a, e).pos = a.pos
        /\ Covers(a.dir, a.fcb) => /\ CLOSEIT1(a, e).fcb.al = a.fcb.al
                                   /\ Covers(CLOSEIT1(a, e).dir, CLOSEIT1(a, e).fcb)
                                   /\ Recorded(CLOSEIT1(a, e).dir, a.fcb)
    BY Zenon, <2>3, <2>5, CloseIt1
  <2>7. Moves(m, {m.fcb}, CLOSEIT1(a, e))
    BY Zenon, <1>2, <2>3, <2>6 DEF Moves, Alike
  <2> DEFINE n == CLOSEIT1(a, e)
  <2> HIDE DEF n
  <2>8. /\ SameKey(n.fcb, m.fcb) /\ n.fcb.stuck = m.fcb.stuck /\ Moves(m, {m.fcb}, n)
        /\ Covers(m.dir, m.fcb) => /\ n.fcb.al = m.fcb.al /\ Covers(n.dir, n.fcb)
                                   /\ Recorded(n.dir, m.fcb)
    BY Zenon, <2>3, <2>6, <2>7 DEF n, Alike
  <2>9. Stored(m, n)
    BY <2>8 DEF Stored
  <2>10. Tells(m, n)
    <3>1. Live(n.fcb) <=> Live(m.fcb)
      BY Zenon, <2>8 DEF Live, SameKey
    <3>2. n.fcb.name = m.fcb.name
      BY <2>8 DEF SameKey
    <3>3. Covers(m.dir, m.fcb) => Similar(n.fcb, m.fcb) /\ Covers(n.dir, n.fcb)
      BY <2>8, <3>1 DEF Similar
    <3> QED BY Zenon, <2>8, <3>2, <3>3, TellsClosed
  <2> QED BY Zenon, <2>3, <2>4, <2>6, <2>7, <2>9, <2>10 DEF Alike, n
<1> QED BY Zenon, <1>0, <1>1, <1>2 DEF IsMachine, Fcb

(* Setting the status keeps a machine whole. *)
LEMMA SetStat ==
  ASSUME NEW O, NEW m, NEW s \in 0..255
  PROVE  /\ Base(m, O) => Base([m EXCEPT !.st = s], O)
         /\ Whole(m, O) => Whole([m EXCEPT !.st = s], O)
         /\ IsMachine(m) => /\ [m EXCEPT !.st = s].fcb = m.fcb
                            /\ [m EXCEPT !.st = s].st = s
                            /\ [m EXCEPT !.st = s].pos = m.pos
                            /\ Alike(m, [m EXCEPT !.st = s])
<1> SUFFICES ASSUME IsMachine(m)
             PROVE  /\ Base(m, O) => Base([m EXCEPT !.st = s], O)
                    /\ Whole(m, O) => Whole([m EXCEPT !.st = s], O)
                    /\ [m EXCEPT !.st = s].fcb = m.fcb
                    /\ [m EXCEPT !.st = s].st = s
                    /\ [m EXCEPT !.st = s].pos = m.pos
                    /\ Alike(m, [m EXCEPT !.st = s])
  BY DEF Whole, Base
<1> DEFINE n == [m EXCEPT !.st = s]
<1>1. IsMachine(n)
  BY DEF IsMachine
<1>2. n.fcb = m.fcb /\ n.st = s /\ n.pos = m.pos /\ Alike(m, n)
  BY DEF IsMachine, Alike
<1> HIDE DEF n
<1>3. (Base(m, O) => Base(n, O)) /\ (Whole(m, O) => Whole(n, O))
  BY <1>1, <1>2, AlikeKeeps
<1> QED BY <1>2, <1>3 DEF n

(* GTNEXT5: an FCB that no later write or close can use. *)
LEMMA GtNext5 ==
  ASSUME NEW O, NEW m, Base(m, O), m.fcb.cr = RPE
  PROVE  /\ Whole(GTNEXT5(m), O) /\ Moves(m, {}, GTNEXT5(m))
         /\ GTNEXT5(m).fcb.cr = RPE /\ GTNEXT5(m).st = 1 /\ GTNEXT5(m).boot = m.boot
         /\ Fresh(m, GTNEXT5(m))
<1> DEFINE f == [m.fcb EXCEPT !.unmod = TRUE, !.stuck = TRUE]
           a == [m EXCEPT !.st = 1]
           n == [a EXCEPT !.fcb = f]
<1>0. IsMachine(m) /\ m.fcb \in Fcb
  BY DEF Base, IsMachine
<1>1. GTNEXT5(m) = n
  BY Zenon, <1>0 DEF GTNEXT5, IsMachine, Fcb
<1>2. f \in Fcb /\ f.unmod /\ f.stuck /\ f.cr = m.fcb.cr /\ f.name = m.fcb.name
  BY ZenonT(30), <1>0 DEF Fcb
<1> HIDE DEF f
<1>3. Base(a, O) /\ Alike(m, a) /\ a.st = 1
  <2>1. 1 \in 0..255
    OBVIOUS
  <2> QED BY <1>0, <2>1, SetStat, Zenon
<1> HIDE DEF a
<1>4. IsMachine(n) /\ Alike(a, n) /\ n.fcb = f /\ n.st = 1
  BY <1>2, <1>3, FcbSet DEF Base
<1> HIDE DEF n
<1>5. Base(n, O)
  BY <1>3, <1>4, AlikeKeeps
<1>6. FcbOk(n.dir, n.alv, f) /\ \A g \in O : Apart(f, g)
  BY <1>2 DEF FcbOk, Apart, Live
<1>7. Whole(n, O)
  BY <1>4, <1>5, <1>6 DEF Whole
<1>8. Moves(m, {}, n)
  <2>1. Alike(m, n)
    BY <1>3, <1>4 DEF Alike
  <2> QED BY <2>1, AlikeMoves
<1>9. Fresh(m, n)
  BY <1>2, <1>4 DEF Fresh, Covers, Live
<1> QED BY Zenon, <1>1, <1>2, <1>3, <1>4, <1>7, <1>8, <1>9 DEF Alike

(* The s2 byte of a record number, or of an FCB used for sequential access. *)
Counted(f) == f.s2 <= 16

(* The FCB of the next extent, and the search for it. *)
LEMMA NextFcb ==
  ASSUME NEW f \in Fcb
  PROVE  /\ NextExtent(f) \in Fcb /\ NextExtent(f).cr = f.cr /\ NextExtent(f).name = f.name
         /\ Counted(f) => NextExtent(f).s2 # Lost
<1>1. CASE f.ex + 1 < EXTS
  <2>1. f.ex + 1 \in 0..EXTS - 1
    BY <1>1, BdosAssumption DEF Fcb
  <2>2. Counted(f) => f.s2 # Lost
    BY DEF Fcb, Counted, Lost
  <2> QED BY <1>1, <2>1, <2>2 DEF NextExtent, Fcb
<1>2. CASE ~(f.ex + 1 < EXTS)
  <2>1. (f.s2 + 1) % 128 \in 0..127 /\ 0 \in 0..EXTS - 1
    BY BdosAssumption DEF Fcb
  <2>2. Counted(f) => (f.s2 + 1) % 128 # Lost
    BY DEF Fcb, Counted, Lost
  <2> QED BY Zenon, <1>2, <2>1, <2>2 DEF NextExtent, Fcb
<1> QED BY Zenon, <1>1, <1>2

(* The same for the status 0. *)
LEMMA SetStat0 ==
  ASSUME NEW O, NEW m, Whole(m, O)
  PROVE  /\ Whole(SETSTAT0(m), O) /\ Alike(m, SETSTAT0(m))
         /\ SETSTAT0(m).fcb = m.fcb /\ SETSTAT0(m).st = 0
<1>1. 0 \in 0..255
  OBVIOUS
<1>2. IsMachine(m)
  BY DEF Whole, Base
<1> QED BY <1>1, <1>2, SetStat, Zenon DEF SETSTAT0

(* GTNEXT3 opens the next extent if FINDFST has found it. *)
LEMMA GtNext3 ==
  ASSUME NEW O \in SUBSET Fcb, NEW m, Base(m, O), m.fcb.cr = RPE, NEW reading \in BOOLEAN
  PROVE  /\ Whole(GTNEXT3(FINDFST(m), reading), O)
         /\ Moves(m, {}, GTNEXT3(FINDFST(m), reading))
         /\ GTNEXT3(FINDFST(m), reading).fcb.cr = RPE
         /\ Fresh(m, GTNEXT3(FINDFST(m), reading))
         /\ ~m.wp => GTNEXT3(FINDFST(m), reading).boot = m.boot
         /\ GTNEXT3(FINDFST(m), reading).st = 0 =>
              /\ ~GTNEXT3(FINDFST(m), reading).fcb.stuck
              /\ SameKey(GTNEXT3(FINDFST(m), reading).fcb, m.fcb)
<1> DEFINE a == FINDFST(m)
           n == GTNEXT3(a, reading)
<1>0. SUFFICES /\ Whole(n, O) /\ n.fcb.cr = RPE /\ Moves(m, {}, n)
               /\ Fresh(m, n) /\ (~m.wp => n.boot = m.boot)
               /\ n.st = 0 => ~n.fcb.stuck /\ SameKey(n.fcb, m.fcb)
  BY Zenon
<1>1. /\ IsMachine(a) /\ Alike(m, a) /\ a.fcb = m.fcb
      /\ a.pos = NoPos => \A q \in Used(a.dir) : ~SameKey(a.dir[q], a.fcb)
      /\ a.pos # NoPos => a.pos \in Used(a.dir) /\ SameKey(a.dir[a.pos], a.fcb)
  BY Zenon, FindFst DEF Alike
<1> HIDE DEF a
<1>2. Base(a, O) /\ Moves(m, {}, a)
  BY Zenon, <1>1, AlikeKeeps, AlikeMoves
<1>3. CASE a.pos # NoPos
  <2> DEFINE o == OPENIT1(a)
  <2>1. /\ Whole(o, O) /\ ~o.fcb.stuck /\ o.fcb.cr = a.fcb.cr /\ Alike(a, o)
        /\ SameKey(o.fcb, a.fcb) /\ Fresh(a, o)
    BY Zenon, <1>1, <1>2, <1>3, OpenIt
  <2>2. n = SETSTAT0(o)
    BY <1>3 DEF GTNEXT3
  <2> HIDE DEF o
  <2>3. Whole(n, O) /\ Alike(o, n) /\ n.fcb = o.fcb
    BY <2>1, <2>2, SetStat0
  <2>4. Alike(m, n)
    BY Zenon, <1>1, <2>1, <2>3 DEF Alike
  <2>5. Moves(m, {}, n)
    BY <2>4, AlikeMoves
  <2>6. Fresh(m, n) /\ n.boot = m.boot
    BY Zenon, <1>1, <2>1, <2>3, <2>4 DEF Fresh, Alike
  <2> QED BY Zenon, <1>1, <2>1, <2>3, <2>5, <2>6
<1>4. CASE a.pos = NoPos /\ reading
  <2>1. n = GTNEXT5(a)
    BY <1>4 DEF GTNEXT3
  <2>2. /\ Whole(n, O) /\ Moves(a, {}, n) /\ n.fcb.cr = RPE /\ n.st = 1
        /\ Fresh(a, n) /\ n.boot = a.boot
    BY Zenon, <1>1, <1>2, <2>1, GtNext5
  <2> HIDE DEF n
  <2>3. Moves(m, {}, n)
    BY <1>2, <2>2, MovesOn
  <2>4. n.st # 0
    BY <2>2
  <2>5. n.boot = m.boot /\ Fresh(m, n)
    BY Zenon, <1>1, <2>2 DEF Alike, Fresh
  <2> QED BY Zenon, <1>1, <2>2, <2>3, <2>4, <2>5
<1>5. CASE a.pos = NoPos /\ ~reading
  <2> DEFINE g == GETEMPTY(a)
  <2>1. n = GTNEXT4(g)
    BY <1>5 DEF GTNEXT3
  <2>2. /\ Base(g, O) /\ Moves(a, {}, g)
        /\ g.pos = NoPos => g.fcb = a.fcb
        /\ g.pos # NoPos => /\ Whole(g, O) /\ ~g.fcb.stuck /\ g.fcb.cr = a.fcb.cr
                            /\ SameKey(g.fcb, a.fcb) /\ Fresh(a, g)
        /\ g.boot = (a.boot \/ a.wp)
    BY Zenon, <1>1, <1>2, <1>5, GetEmpty
  <2> HIDE DEF g
  <2>a. Moves(m, {}, g)
    BY <1>2, <2>2, MovesOn
  <2>b. ~m.wp => g.boot = m.boot
    <3>1. a.boot = m.boot /\ a.wp = m.wp /\ a.boot \in BOOLEAN
      BY <1>1 DEF Alike, IsMachine
    <3> QED BY <2>2, <3>1
  <2>3. CASE g.pos = NoPos
    <3>1. n = GTNEXT5(g)
      BY <2>1, <2>3 DEF GTNEXT4
    <3>2. /\ Whole(n, O) /\ Moves(g, {}, n) /\ n.fcb.cr = RPE /\ n.st = 1
          /\ Fresh(g, n) /\ n.boot = g.boot
      <4>1. Base(g, O) /\ g.fcb.cr = RPE
        BY Zenon, <1>1, <2>2, <2>3
      <4> QED BY Zenon, <3>1, <4>1, GtNext5
    <3> HIDE DEF n
    <3>3. Moves(m, {}, n)
      BY <2>a, <3>2, MovesOn
    <3>4. Fresh(m, n)
      BY Zenon, <1>1, <2>2, <2>3, <3>2 DEF Fresh
    <3> QED BY <2>b, <3>2, <3>3, <3>4
  <2>4. CASE g.pos # NoPos
    <3>1. n = SETSTAT0(g)
      BY <2>1, <2>4 DEF GTNEXT4
    <3>2. Whole(n, O) /\ Alike(g, n) /\ n.fcb = g.fcb
      BY Zenon, <2>2, <2>4, <3>1, SetStat0
    <3> HIDE DEF n
    <3>3. Moves(m, {}, n)
      BY <2>a, <3>2, AlikeMoves, MovesOn
    <3>4. Fresh(m, n) /\ n.boot = g.boot
      BY Zenon, <1>1, <2>2, <2>4, <3>2 DEF Fresh, Alike
    <3> QED BY Zenon, <1>1, <2>2, <2>4, <2>b, <3>2, <3>3, <3>4
  <2> QED BY Zenon, <2>3, <2>4
<1> QED BY Zenon, <1>3, <1>4, <1>5

(* GETNEXT ends with a whole FCB or one that is marked as lost. *)
LEMMA GetNext ==
  ASSUME NEW O \in SUBSET Fcb, NEW m, Whole(m, O), m.fcb.cr = RPE, NEW reading \in BOOLEAN
  PROVE  /\ Whole(GETNEXT(m, reading), O)
         /\ Moves(m, {m.fcb}, GETNEXT(m, reading)) /\ Tells(m, GETNEXT(m, reading))
         /\ GETNEXT(m, reading).fcb.cr = RPE
         /\ ~m.wp => GETNEXT(m, reading).boot = m.boot
         /\ GETNEXT(m, reading).st = 0 =>
              /\ ~GETNEXT(m, reading).fcb.stuck
              /\ Counted(m.fcb) => Live(GETNEXT(m, reading).fcb)
<1> DEFINE c == CLOSEIT(m)
           f == NextExtent(c.fcb)
           a == [c EXCEPT !.fcb = f]
           n == GETNEXT(m, reading)
<1>1. /\ Whole(c, O) /\ c.fcb.cr = RPE /\ Moves(m, {m.fcb}, c) /\ c.pos # NoPos
      /\ SameKey(c.fcb, m.fcb) /\ Stored(m, c) /\ c.boot = m.boot
  BY CloseIt
<1>2. n = GTNEXT1(c, reading)
  BY DEF GETNEXT
<1> HIDE DEF c
<1>3. IsMachine(c) /\ Base(c, O) /\ c.fcb \in Fcb
  BY <1>1 DEF Whole, Base, IsMachine
<1>4. f \in Fcb /\ f.cr = RPE /\ (Counted(m.fcb) => f.s2 # Lost) /\ f.name = m.fcb.name
  BY Zenon, <1>1, <1>3, NextFcb DEF Counted, SameKey
<1>5. n = GTNEXT2(a, reading)
  <2>1. [c EXCEPT !.fcb = NextExtent(@)] = a
    BY <1>3 DEF IsMachine
  <2> QED BY <1>1, <1>2, <2>1 DEF GTNEXT1
<1> HIDE DEF f
<1>6. IsMachine(a) /\ Alike(c, a) /\ a.fcb = f
  BY <1>3, <1>4, FcbSet
<1> HIDE DEF a
<1>7. Base(a, O) /\ a.fcb.cr = RPE /\ Moves(m, {m.fcb}, a)
  BY <1>1, <1>3, <1>4, <1>6, AlikeKeeps, AlikeMoves, MovesOn
<1>8. n = GTNEXT5(a) \/ n = GTNEXT3(FINDFST(a), reading)
  BY Zenon, <1>5 DEF GTNEXT2
<1>9. /\ Whole(n, O) /\ Moves(a, {}, n) /\ n.fcb.cr = RPE
      /\ Fresh(a, n) /\ (~a.wp => n.boot = a.boot)
      /\ n.st = 0 => ~n.fcb.stuck /\ SameKey(n.fcb, a.fcb)
  <2>1. CASE n = GTNEXT5(a)
    BY <1>7, <2>1, GtNext5
  <2>2. CASE n = GTNEXT3(FINDFST(a), reading)
    BY <1>7, <2>2, GtNext3
  <2> QED BY Zenon, <1>8, <2>1, <2>2
<1> HIDE DEF n
<1>10. Moves(m, {m.fcb}, n)
  BY <1>7, <1>9, MovesOn
<1>11. n.st = 0 => ~n.fcb.stuck /\ (Counted(m.fcb) => Live(n.fcb))
  BY Zenon, <1>4, <1>6, <1>9 DEF SameKey, Live
<1>12. Fresh(m, n) /\ (~m.wp => n.boot = m.boot)
  BY Zenon, <1>1, <1>4, <1>6, <1>9 DEF Fresh, Alike, Moves
<1>13. Tells(m, n)
  <2>1. Recorded(n.dir, n.fcb)
    BY Zenon, <1>9, <1>12, UnmodRecorded DEF Whole, Fresh
  <2>2. Stored(m, n)
    <3>1. Extends(c.dir, n.dir)
      BY Zenon, <1>6, <1>9 DEF Alike, Moves
    <3> QED BY SMTT(30), <1>1, <3>1, StaysListed DEF Stored, Recorded
  <2> QED BY Zenon, <1>10, <1>12, <2>1, <2>2, TellsMoved
<1> QED BY Zenon, <1>9, <1>10, <1>11, <1>12, <1>13 DEF n
============================================================================
