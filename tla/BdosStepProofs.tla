--------------------------- MODULE BdosStepProofs --------------------------
(***************************************************************************)
(* What the steps of the BDOS look like to a program: the files it reads   *)
(* through a directory, its FCBs and the sectors, before and after an      *)
(* open, a rename and a call that may write, and that these are steps of   *)
(* the file store.  Then the inductive invariant of the BDOS, and the      *)
(* steps that call none of the file routines.                              *)
(***************************************************************************)
EXTENDS Bdos, BdosTerms, TLAPS

(* COMBLK picks one of the pointers of an entry. *)
LEMMA PtrIn ==
  ASSUME NEW c \in 0..RPE - 1
  PROVE  c \div RPB \in Ptr
<1>1. RPB \in Nat \ {0} /\ RPE \in Nat \ {0}
  BY BdosAssumption
<1>2. c \div RPB \in Nat /\ (RPE - 1) \div RPB \in Nat
  BY <1>1
<1>3. c \div RPB <= (RPE - 1) \div RPB
  BY <1>1
<1> QED BY <1>2, <1>3 DEF Ptr

(* Zero is a status. *)
LEMMA ZeroStatus == 0 \in 0..255
  OBVIOUS

----------------------------------------------------------------------------
(* Erasing, renaming. *)

(* The entries S are erased and their blocks freed. *)
LEMMA EraseCore ==
  ASSUME NEW d \in [Pos -> Entry \cup {Unused}], NEW k, NEW a, DirOk(d, k, a),
         NEW S \in SUBSET Used(d), NEW d1, NEW a1, Erased(d, a, S, d1, a1)
  PROVE  /\ DirOk(d1, k, a1)
         /\ \A f \in Fcb : FcbOk(d, a, f) /\ (\A p \in S : d[p].name # f.name)
                             => FcbOk(d1, a1, f)
<1>1. Used(d1) = Used(d) \ S /\ \A p \in Used(d1) : d1[p] = d[p]
  BY DEF Used, Erased
<1>2. \A x : x \in a /\ (\A p \in S : \A i \in Ptr : d[p].al[i] # 0 => x # d[p].al[i])
               => x \in a1
  BY SMTT(30) DEF Blocks, Erased
<1>3. \A p \in Used(d) : Owned(d[p], a)
  BY SMTT(30) DEF DirOk
<1>4. DirBlocks \subseteq a1
  BY SMTT(30), <1>2, <1>3 DEF DirOk, Owned
<1>5. ASSUME NEW q \in Used(d1)
      PROVE  q < k /\ Owned(d1[q], a1)
  <2>1. \A i \in Ptr : d[q].al[i] # 0 => d[q].al[i] \in a1
    BY SMTT(30), <1>1, <1>2, <1>3 DEF DirOk, Owned
  <2> QED BY SMTT(30), <1>1, <1>3, <2>1 DEF DirOk, Owned
<1>6. DirOk(d1, k, a1)
  <2>1. \A p, q \in Used(d1) : SameKey(d1[p], d1[q]) => p = q
    BY SMTT(30), <1>1 DEF DirOk
  <2>2. \A p, q \in Used(d1) : \A i, j \in Ptr :
          d1[p].al[i] # 0 /\ d1[p].al[i] = d1[q].al[j] => p = q /\ i = j
    BY <1>1 DEF DirOk
  <2>3. \A q \in Used(d1) : q < k /\ Owned(d1[q], a1)
    BY SMTT(30), <1>5
  <2> QED BY Zenon, <1>4, <2>1, <2>2, <2>3 DEF DirOk
<1>7. ASSUME NEW f \in Fcb, FcbOk(d, a, f), \A p \in S : d[p].name # f.name
      PROVE  FcbOk(d1, a1, f)
  <2>1. ASSUME Live(f)
        PROVE  Owned(f, a1)
    BY <1>2, <1>7, <2>1 DEF FcbOk, Fits, Owned, SameKey
  <2>2. ASSUME Live(f)
        PROVE  Saved(d1, f)
    <3>1. PICK p \in Used(d) : /\ SameKey(d[p], f)
                               /\ f.unmod => \A i \in Ptr : f.al[i] \in {0, d[p].al[i]}
      BY Zenon, <1>7, <2>2 DEF FcbOk, Saved
    <3>2. p \in Used(d1) /\ d1[p] = d[p]
      BY SMTT(30), <1>1, <1>7, <3>1 DEF SameKey
    <3> QED BY <3>1, <3>2 DEF Saved
  <2> QED BY <1>1, <1>7, <2>1, <2>2 DEF FcbOk, Fits
<1> QED BY <1>6, <1>7

(* New names and attributes change no block and no number. *)
LEMMA RenameCore ==
  ASSUME NEW d \in [Pos -> Entry \cup {Unused}], NEW k, NEW a, DirOk(d, k, a),
         NEW S \in SUBSET Used(d), NEW n, NEW d1,
         Renames(d, d1, S, n)
  PROVE  /\ DirOk(d1, k, a)
         /\ \A f \in Fcb : FcbOk(d, a, f) /\ (\A p \in S : d[p].name = n \/ d[p].name # f.name)
                             => FcbOk(d1, a, f)
<1>1. \A p \in Used(d1) : p < k /\ Owned(d1[p], a)
  BY SMTT(30) DEF DirOk, Owned, Renames
<1>2. \A p, q \in Used(d1) : SameKey(d1[p], d1[q]) => p = q
  BY SMTT(30) DEF DirOk, SameKey, Renames
<1>3. \A p, q \in Used(d1) : \A i, j \in Ptr :
        d1[p].al[i] # 0 /\ d1[p].al[i] = d1[q].al[j] => p = q /\ i = j
  BY SMTT(30) DEF DirOk, Renames
<1>4. DirOk(d1, k, a)
  BY ZenonT(30), <1>1, <1>2, <1>3 DEF DirOk, Renames
<1>5. ASSUME NEW f \in Fcb, FcbOk(d, a, f),
             \A p \in S : d[p].name = n \/ d[p].name # f.name
      PROVE  FcbOk(d1, a, f)
  <2>1. ASSUME Live(f), NEW p \in Used(d1), NEW i \in Ptr, NEW j \in Ptr,
               f.al[i] # 0, f.al[i] = d1[p].al[j]
        PROVE  SameKey(d1[p], f) /\ i = j
    <3>1. f.al[i] = d[p].al[j]
      BY SMTT(30), <2>1 DEF Renames
    <3>2. SameKey(d[p], f) /\ i = j
      BY <1>5, <2>1, <3>1 DEF FcbOk, Fits, Renames
    <3>3. d1[p].name = f.name
      BY Zenon, <1>5, <2>1, <3>2 DEF SameKey, Renames
    <3> QED BY Zenon, <2>1, <3>2, <3>3 DEF SameKey, Renames
  <2>2. ASSUME Live(f)
        PROVE  Saved(d1, f)
    <3>1. PICK p \in Used(d) : /\ SameKey(d[p], f)
                               /\ f.unmod => \A i \in Ptr : f.al[i] \in {0, d[p].al[i]}
      BY ZenonT(30), <1>5, <2>2 DEF FcbOk, Saved
    <3>2. p \in Used(d1) /\ SameKey(d1[p], f) /\ d1[p].al = d[p].al
      BY SMTT(30), <1>5, <3>1 DEF SameKey, Renames
    <3> QED BY SMTT(30), <3>1, <3>2 DEF Saved
  <2> QED BY <1>5, <2>1, <2>2 DEF FcbOk, Fits
<1> QED BY SMTT(30), <1>4, <1>5

----------------------------------------------------------------------------
(* The files a program sees, in a directory d, FCBs F and sectors D. *)

(* The file of an FCB is in the directory. *)
Named(d, f) == \E p \in Used(d) : d[p].name = f.name

(* While no file is open twice, an FCB has all that the directory has of its *)
(* extent, and its file is in the directory.                                 *)
Sole(d, F) ==
  /\ \A f, g \in Slot : F[f] # Unused /\ F[g] # Unused /\ f # g => F[f].name # F[g].name
  /\ \A f \in Slot : F[f] # Unused => Covers(d, F[f]) /\ Named(d, F[f])

Typed(d, F) ==
  /\ d \in [Pos -> Entry \cup {Unused}] /\ F \in [Slot -> Fcb \cup {Unused}]
  /\ \A p, q \in Used(d) : SameKey(d[p], d[q]) => p = q

Seen(d, F, k, i, b) ==
  b # 0 /\ (Listed(d, k, i, b) \/ \E f \in Slot : F[f] # Unused /\ Points(F[f], k, i, b))

(* The extent and the pointer of a record. *)
Key(n, r) == [name |-> n, ex |-> (r \div RPE) % EXTS, s2 |-> (r \div RPE) \div EXTS]
Index(r) == (r % RPE) \div RPB

Holding(F, k) ==
  {F[f] : f \in {g \in Slot : F[g] # Unused /\ ~F[g].stuck /\ Matches(F[g], k.name, k.ex, k.s2)}}
Listing(d, k) == {d[p] : p \in {q \in Pos : Matches(d[q], k.name, k.ex, k.s2)}}

BlockAt(d, F, n, r) ==
  BlockOf(Either(Holding(F, Key(n, r)), Listing(d, Key(n, r))), r % RPE)

Files(d, F, D) ==
  [n \in Name |-> [r \in Record |->
     IF BlockAt(d, F, n, r) = 0 THEN Hole ELSE D[LOGICAL(BlockAt(d, F, n, r), r % RPE)]]]

(* They are the contents the store is compared with. *)
LEMMA ContentsFiles ==
  Contents = Files(dir, fcb, data) /\ Contents' = Files(dir', fcb', data')
<1>1. \A n, x : /\ Holders(n, x) = Holding(fcb, [name |-> n, ex |-> x % EXTS, s2 |-> x \div EXTS])
                /\ Entries(n, x) = Listing(dir, [name |-> n, ex |-> x % EXTS, s2 |-> x \div EXTS])
  BY DEF Holders, Entries, Holding, Listing, InUse
<1>2. \A n, x : /\ Holders(n, x)' = Holding(fcb', [name |-> n, ex |-> x % EXTS, s2 |-> x \div EXTS])
                /\ Entries(n, x)' = Listing(dir', [name |-> n, ex |-> x % EXTS, s2 |-> x \div EXTS])
  BY DEF Holders, Entries, Holding, Listing, InUse
<1>3. Contents = Files(dir, fcb, data)
  BY <1>1 DEF Contents, Files, BlockAt, Key, RecordIn
<1>4. Contents' = Files(dir', fcb', data')
  BY <1>2 DEF Contents, Files, BlockAt, Key, RecordIn
<1> QED BY <1>3, <1>4

(* Quotients and remainders. *)
LEMMA Division ==
  ASSUME NEW a \in Nat, NEW z \in Nat \ {0}
  PROVE  /\ a \div z \in Nat /\ a % z \in 0..z - 1 /\ a = (a \div z) * z + (a % z)
         /\ \A y \in Nat : a < y * z => a \div z < y
<1>1. a \div z \in Nat /\ a % z \in 0..z - 1
  OBVIOUS
<1>2. a = (a \div z) * z + (a % z)
  OBVIOUS
<1>3. ASSUME NEW y \in Nat, a < y * z, ~(a \div z < y)
      PROVE  FALSE
  <2> DEFINE q == a \div z
  <2>1. q \in Nat /\ y <= q /\ q * z <= a
    BY <1>1, <1>2, <1>3
  <2> HIDE DEF q
  <2>2. y * z <= q * z
    BY <2>1
  <2>3. y * z \in Nat /\ q * z \in Nat
    BY <2>1
  <2> QED BY <1>3, <2>1, <2>2, <2>3
<1> QED BY <1>1, <1>2, <1>3

(* Every record is in an extent the FCBs can count, short of the s2 byte a   *)
(* failed seek leaves.                                                       *)
LEMMA RecordKey ==
  ASSUME NEW n, NEW r \in Record
  PROVE  /\ r \in Nat /\ r % RPE \in 0..RPE - 1 /\ Index(r) \in Ptr
         /\ Key(n, r).name = n /\ Key(n, r).ex \in 0..EXTS - 1
         /\ Key(n, r).s2 \in 0..S2S - 1 /\ Key(n, r).s2 # Lost
         /\ r = (Key(n, r).s2 * EXTS + Key(n, r).ex) * RPE + (r % RPE)
<1>0. RPE \in Nat \ {0} /\ EXTS \in Nat \ {0} /\ S2S \in 1..16 /\ S2S \in Nat
  BY BdosAssumption
<1> DEFINE x == r \div RPE
           z == EXTS * S2S
           s == x \div EXTS
<1>1. z \in Nat /\ z * RPE \in Nat /\ MaxRec = z * RPE - 1
  <2>1. z \in Nat
    BY <1>0
  <2>2. MaxRec = z * RPE - 1
    BY DEF MaxRec
  <2> HIDE DEF z
  <2> QED BY <1>0, <2>1, <2>2
<1> HIDE DEF z
<1>2. r \in Nat /\ r < z * RPE
  <2> DEFINE y == z * RPE
  <2> HIDE DEF y
  <2>1. y \in Nat /\ r \in 0..y - 1
    BY <1>1 DEF y, Record
  <2> QED BY <2>1 DEF y
<1>3. x \in Nat /\ r % RPE \in 0..RPE - 1 /\ r = x * RPE + (r % RPE) /\ x < z
  BY Zenon, <1>0, <1>1, <1>2, Division
<1> HIDE DEF x
<1>4. s \in Nat /\ x % EXTS \in 0..EXTS - 1 /\ x = s * EXTS + (x % EXTS) /\ s < S2S
  <2>1. x < S2S * EXTS
    BY <1>0, <1>3 DEF z
  <2> QED BY Zenon, <1>0, <1>3, <2>1, Division
<1> HIDE DEF s
<1>5. s \in 0..S2S - 1 /\ s # Lost
  BY <1>0, <1>4 DEF Lost
<1>6. Key(n, r).name = n /\ Key(n, r).ex = x % EXTS /\ Key(n, r).s2 = s
  BY DEF Key, x, s
<1>7. Index(r) \in Ptr
  BY <1>3, PtrIn DEF Index
<1> QED BY <1>2, <1>3, <1>4, <1>5, <1>6, <1>7

(* A record of an extent that s2 may count. *)
LEMMA KeyRecord ==
  ASSUME NEW f \in Fcb, f.s2 < S2S, NEW c \in 0..RPE - 1
  PROVE  /\ RecordOf(f, c) \in Record /\ RecordOf(f, c) % RPE = c
         /\ SameKey(f, Key(f.name, RecordOf(f, c)))
<1>0. RPE \in Nat \ {0} /\ EXTS \in Nat \ {0} /\ S2S \in 1..16 /\ S2S \in Nat
  BY BdosAssumption
<1> DEFINE x == f.s2 * EXTS + f.ex
           r == x * RPE + c
           z == EXTS * S2S
<1>1. f.s2 \in Nat /\ f.ex \in 0..EXTS - 1 /\ c \in Nat /\ c < RPE
  BY <1>0 DEF Fcb
<1>2. x \in Nat /\ x < z /\ z \in Nat
  <2> DEFINE t == f.s2
             e == f.ex
  <2> HIDE DEF t, e
  <2>1. t \in Nat /\ e \in 0..EXTS - 1 /\ t + 1 <= S2S
    BY <1>0, <1>1 DEF t, e
  <2>2. (t + 1) * EXTS <= S2S * EXTS
    BY <1>0, <2>1
  <2>3. (t + 1) * EXTS = t * EXTS + EXTS /\ t * EXTS \in Nat /\ S2S * EXTS = EXTS * S2S
    BY <1>0, <2>1
  <2>4. EXTS * S2S \in Nat
    BY <1>0
  <2> QED BY <1>0, <2>1, <2>2, <2>3, <2>4 DEF t, e
<1>3. x \div EXTS = f.s2 /\ x % EXTS = f.ex
  <2> DEFINE t == f.s2
             e == f.ex
  <2> HIDE DEF t, e
  <2>1. t \in Nat /\ e \in Nat /\ e < EXTS
    BY <1>0, <1>1 DEF t, e
  <2>2. (t * EXTS + e) \div EXTS = t
    BY <1>0, <2>1
  <2>3. (t * EXTS + e) % EXTS = e
    BY <1>0, <2>1
  <2> QED BY <2>2, <2>3 DEF t, e
<1>4. RecordOf(f, c) = r /\ MaxRec = z * RPE - 1
  BY DEF RecordOf, MaxRec
<1> HIDE DEF x, z
<1>5. r \in Nat /\ r < z * RPE
  <2>1. (x + 1) * RPE <= z * RPE
    BY <1>0, <1>2
  <2>2. (x + 1) * RPE = x * RPE + RPE /\ x * RPE \in Nat /\ z * RPE \in Nat
    BY <1>0, <1>2
  <2> QED BY <1>0, <1>1, <2>1, <2>2
<1>6. r \div RPE = x /\ r % RPE = c
  <2>1. r \div RPE = x
    BY <1>0, <1>1, <1>2
  <2>2. r % RPE = c
    BY <1>0, <1>1, <1>2
  <2> QED BY <2>1, <2>2
<1> HIDE DEF r
<1>7. r \in Record
  <2>1. z * RPE \in Nat
    BY <1>0, <1>2
  <2> QED BY <1>4, <1>5, <2>1 DEF Record
<1>8. Key(f.name, r) = [name |-> f.name, ex |-> f.ex, s2 |-> f.s2]
  BY <1>3, <1>6 DEF Key
<1> QED BY <1>4, <1>6, <1>7, <1>8 DEF SameKey

(* The program reads a record through the block it has seen for it. *)
LEMMA BlockSeen ==
  ASSUME NEW d, NEW F, Typed(d, F), Sole(d, F), NEW n \in Name, NEW r \in Record
  PROVE  /\ BlockAt(d, F, n, r) \in Block
         /\ \A b : b # 0 => (BlockAt(d, F, n, r) = b <=> Seen(d, F, Key(n, r), Index(r), b))
<1> DEFINE k == Key(n, r)
           i == Index(r)
           H == Holding(F, k)
           E == Listing(d, k)
           x == BlockAt(d, F, n, r)
<1>0. i \in Ptr /\ k.s2 # Lost /\ i = (r % RPE) \div RPB /\ 0 \in Block
  BY RecordKey, AllocAssumption DEF Index, Block
<1>1. x = BlockOf(Either(H, E), r % RPE)
  BY DEF BlockAt
<1> HIDE DEF x, i, k
<1>2. \A e \in H : \E f \in Slot : F[f] # Unused /\ e = F[f] /\ SameKey(e, k) /\ Live(e)
  BY <1>0 DEF Holding, Matches, SameKey, Live
<1>3. \A f \in Slot : F[f] # Unused /\ SameKey(F[f], k) /\ Live(F[f]) => F[f] \in H
  BY DEF Holding, Matches, SameKey, Live
<1>4. \A e \in E : \E p \in Used(d) : e = d[p] /\ SameKey(e, k)
  BY DEF Listing, Matches, SameKey, Used
<1>5. \A p \in Used(d) : SameKey(d[p], k) => d[p] \in E
  BY DEF Listing, Matches, SameKey, Used
<1>6. \A e, g \in H : e = g
  BY <1>2 DEF Sole, SameKey
<1>7. \A e, g \in E : e = g
  BY <1>4 DEF Typed, SameKey
<1>8. CASE H # {}
  <2> DEFINE e == CHOOSE g \in H : TRUE
  <2>1. e \in H /\ x = e.al[i]
    BY <1>0, <1>1, <1>8 DEF Either, BlockOf, COMBLK
  <2> HIDE DEF e
  <2>2. PICK f \in Slot : F[f] # Unused /\ e = F[f] /\ SameKey(e, k) /\ Live(e)
    BY <1>2, <2>1
  <2>3. e \in Fcb /\ Covers(d, e)
    BY <2>2 DEF Typed, Sole
  <2>4. x \in Block
    BY <1>0, <2>1, <2>3 DEF Fcb
  <2>5. ASSUME NEW b, b # 0, x = b
        PROVE  Seen(d, F, k, i, b)
    BY <2>1, <2>2, <2>5 DEF Seen, Points
  <2>6. ASSUME NEW b, b # 0, Seen(d, F, k, i, b)
        PROVE  x = b
    <3>1. CASE Listed(d, k, i, b)
      <4>1. PICK p \in Used(d) : SameKey(d[p], k) /\ d[p].al[i] = b
        BY <3>1 DEF Listed
      <4>2. SameKey(d[p], e)
        BY <2>2, <4>1 DEF SameKey
      <4> QED BY <1>0, <2>1, <2>2, <2>3, <2>6, <4>1, <4>2 DEF Covers
    <3>2. ASSUME NEW g \in Slot, F[g] # Unused, Points(F[g], k, i, b)
          PROVE  x = b
      BY <1>3, <1>6, <2>1, <3>2 DEF Points
    <3> QED BY <2>6, <3>1, <3>2 DEF Seen
  <2> QED BY <2>4, <2>5, <2>6 DEF x, k, i
<1>9. CASE H = {} /\ E # {}
  <2> DEFINE e == CHOOSE g \in E : TRUE
  <2>1. e \in E /\ x = e.al[i]
    BY <1>0, <1>1, <1>9 DEF Either, BlockOf, COMBLK
  <2> HIDE DEF e
  <2>2. PICK p \in Used(d) : e = d[p] /\ SameKey(e, k)
    BY <1>4, <2>1
  <2>3. x \in Block
    BY <1>0, <2>1, <2>2 DEF Typed, Used, Entry
  <2>4. \A b : b # 0 => (x = b <=> Seen(d, F, k, i, b))
    BY <1>3, <1>5, <1>7, <1>9, <2>1, <2>2 DEF Seen, Listed, Points
  <2> QED BY <2>3, <2>4 DEF x, k, i
<1>10. CASE H = {} /\ E = {}
  <2>1. x = 0
    BY <1>1, <1>10 DEF Either, BlockOf
  <2>2. \A b : ~Seen(d, F, k, i, b)
    BY <1>3, <1>5, <1>10 DEF Seen, Listed, Points
  <2> QED BY <1>0, <2>1, <2>2 DEF x, k, i
<1> QED BY <1>8, <1>9, <1>10

(* The sector of a record. *)
LEMMA LogicalIn ==
  ASSUME NEW b \in Block, NEW c \in 0..RPE - 1
  PROVE  /\ LOGICAL(b, c) \in Sector /\ LOGICAL(b, c) \div RPB = b
         /\ \A a \in Block : \A e \in 0..RPE - 1 :
              LOGICAL(a, e) = LOGICAL(b, c) => a = b /\ e % RPB = c % RPB
<1>0. RPB \in Nat \ {0} /\ RPE \in Nat \ {0} /\ DSKSIZE \in Nat
  BY BdosAssumption, AllocAssumption
<1>1. ASSUME NEW a \in Block, NEW e \in 0..RPE - 1
      PROVE  /\ LOGICAL(a, e) \in Nat /\ LOGICAL(a, e) \div RPB = a
             /\ LOGICAL(a, e) % RPB = e % RPB /\ a \in Nat /\ a <= DSKSIZE
             /\ LOGICAL(a, e) < a * RPB + RPB
  <2> DEFINE t == e % RPB
  <2>1. t \in Nat /\ t < RPB /\ a \in Nat /\ a <= DSKSIZE
    BY <1>0 DEF Block
  <2>2. LOGICAL(a, e) = a * RPB + t
    BY DEF LOGICAL
  <2> HIDE DEF t
  <2>3. a * RPB \in Nat
    BY <1>0, <2>1
  <2>4. (a * RPB + t) \div RPB = a
    BY <1>0, <2>1
  <2>5. (a * RPB + t) % RPB = t
    BY <1>0, <2>1
  <2> QED BY <1>0, <2>1, <2>2, <2>3, <2>4, <2>5 DEF t
<1>2. LOGICAL(b, c) \in Sector
  <2>1. b * RPB + RPB <= (DSKSIZE + 1) * RPB
    <3>1. b + 1 <= DSKSIZE + 1 /\ b \in Nat
      BY <1>0, <1>1
    <3>2. (b + 1) * RPB <= (DSKSIZE + 1) * RPB
      BY <1>0, <3>1
    <3>3. (b + 1) * RPB = b * RPB + RPB
      BY <1>0, <3>1
    <3> QED BY <3>2, <3>3
  <2>2. (DSKSIZE + 1) * RPB \in Nat /\ b * RPB \in Nat
    BY <1>0, <1>1
  <2> QED BY <1>0, <1>1, <2>1, <2>2 DEF Sector
<1> QED BY <1>1, <1>2

(* What a record holds. *)
LEMMA FileSeen ==
  ASSUME NEW d, NEW F, Typed(d, F), Sole(d, F), NEW D, NEW n \in Name, NEW r \in Record
  PROVE  /\ \A b : Seen(d, F, Key(n, r), Index(r), b)
                     => /\ b \in Block /\ LOGICAL(b, r % RPE) \in Sector
                        /\ Files(d, F, D)[n][r] = D[LOGICAL(b, r % RPE)]
         /\ Files(d, F, D)[n][r] = Hole \/ \E b : Seen(d, F, Key(n, r), Index(r), b)
<1> DEFINE x == BlockAt(d, F, n, r)
<1>1. x \in Block /\ \A b : b # 0 => (x = b <=> Seen(d, F, Key(n, r), Index(r), b))
  BY BlockSeen
<1>2. Files(d, F, D)[n][r] = IF x = 0 THEN Hole ELSE D[LOGICAL(x, r % RPE)]
  BY DEF Files
<1> HIDE DEF x
<1>3. ASSUME NEW b, Seen(d, F, Key(n, r), Index(r), b)
      PROVE  /\ b \in Block /\ LOGICAL(b, r % RPE) \in Sector
             /\ Files(d, F, D)[n][r] = D[LOGICAL(b, r % RPE)]
  <2>1. b # 0 /\ x = b
    BY <1>1, <1>3 DEF Seen
  <2>2. LOGICAL(b, r % RPE) \in Sector
    BY <1>1, <2>1, LogicalIn, RecordKey
  <2> QED BY <1>1, <1>2, <2>1, <2>2
<1>4. Files(d, F, D)[n][r] = Hole \/ \E b : Seen(d, F, Key(n, r), Index(r), b)
  BY <1>1, <1>2
<1> QED BY <1>3, <1>4

(* What a program reads of every record of every file. *)
Shows(d, F, D) ==
  \A n \in Name : \A r \in Record :
    /\ \A b : Seen(d, F, Key(n, r), Index(r), b)
               => /\ LOGICAL(b, r % RPE) \in Sector
                  /\ Files(d, F, D)[n][r] = D[LOGICAL(b, r % RPE)]
    /\ Files(d, F, D)[n][r] = Hole \/ \E b : Seen(d, F, Key(n, r), Index(r), b)

(* FileSeen holds of them all. *)
LEMMA FilesShown ==
  ASSUME NEW d, NEW F, Typed(d, F), Sole(d, F), NEW D
  PROVE  Shows(d, F, D)
  BY FileSeen DEF Shows

(* Records are of the right kind. *)
LEMMA FilesType ==
  ASSUME NEW d, NEW F, Typed(d, F), Sole(d, F), NEW D \in [Sector -> Data]
  PROVE  Files(d, F, D) \in [Name -> [Record -> Data \cup {Hole}]]
<1>1. ASSUME NEW n \in Name, NEW r \in Record
      PROVE  Files(d, F, D)[n][r] \in Data \cup {Hole}
  BY FileSeen
<1>2. Files(d, F, D) = [n \in Name |-> [r \in Record |-> Files(d, F, D)[n][r]]]
  BY DEF Files
<1> QED BY <1>1, <1>2

(* A step that shows no record anew only drops records. *)
LEMMA DropStep ==
  ASSUME NEW d, NEW F, Typed(d, F), Sole(d, F), NEW D,
         NEW d1, NEW F1, Typed(d1, F1), Sole(d1, F1), NEW D1,
         \A n \in Name : \A r \in Record : \A b :
           Seen(d1, F1, Key(n, r), Index(r), b) =>
             /\ Seen(d, F, Key(n, r), Index(r), b)
             /\ D1[LOGICAL(b, r % RPE)] = D[LOGICAL(b, r % RPE)]
  PROVE  Store!Drop(Files(d, F, D), Files(d1, F1, D1))
<1>a. Shows(d, F, D)
  BY Zenon, FilesShown
<1>b. Shows(d1, F1, D1)
  BY Zenon, FilesShown
<1> SUFFICES ASSUME NEW n \in Name, NEW r \in Record
             PROVE  Files(d1, F1, D1)[n][r] \in {Files(d, F, D)[n][r], Hole}
  BY Zenon DEF Store!Drop, Store!Shrinks
<1>1. CASE \E b : Seen(d1, F1, Key(n, r), Index(r), b)
  <2>1. PICK b : Seen(d1, F1, Key(n, r), Index(r), b)
    BY Zenon, <1>1
  <2>2. Seen(d, F, Key(n, r), Index(r), b) /\ D1[LOGICAL(b, r % RPE)] = D[LOGICAL(b, r % RPE)]
    BY Zenon, <2>1
  <2>3. Files(d1, F1, D1)[n][r] = D1[LOGICAL(b, r % RPE)]
    BY ZenonT(30), <2>1, <1>b DEF Shows
  <2>4. Files(d, F, D)[n][r] = D[LOGICAL(b, r % RPE)]
    BY ZenonT(30), <2>2, <1>a DEF Shows
  <2> QED BY Zenon, <2>2, <2>3, <2>4
<1>2. CASE ~\E b : Seen(d1, F1, Key(n, r), Index(r), b)
  BY Zenon, <1>2, <1>b DEF Shows
<1> QED BY Zenon, <1>1, <1>2

(* A step that writes record m of the file x, whose other records may appear *)
(* with it.                                                                  *)
LEMMA PutStep ==
  ASSUME NEW d, NEW F, Typed(d, F), Sole(d, F), NEW D,
         NEW d1, NEW F1, Typed(d1, F1), Sole(d1, F1), NEW D1 \in [Sector -> Data],
         NEW x \in Name, NEW m \in Record,
         \E b : Seen(d1, F1, Key(x, m), Index(m), b),
         \A n \in Name : \A r \in Record : \A b :
           /\ Seen(d, F, Key(n, r), Index(r), b) =>
                /\ Seen(d1, F1, Key(n, r), Index(r), b)
                /\ D1[LOGICAL(b, r % RPE)] = D[LOGICAL(b, r % RPE)] \/ (n = x /\ r = m)
           /\ Seen(d1, F1, Key(n, r), Index(r), b) =>
                n = x \/ Seen(d, F, Key(n, r), Index(r), b)
  PROVE  Store!Put(Files(d, F, D), Files(d1, F1, D1), x, m)
<1>a. Shows(d, F, D)
  BY Zenon, FilesShown
<1>b. Shows(d1, F1, D1)
  BY Zenon, FilesShown
<1>1. Files(d1, F1, D1)[x][m] \in Data
  <2>1. PICK b : Seen(d1, F1, Key(x, m), Index(m), b)
    OBVIOUS
  <2>2. LOGICAL(b, m % RPE) \in Sector /\ Files(d1, F1, D1)[x][m] = D1[LOGICAL(b, m % RPE)]
    BY Zenon, <2>1, <1>b DEF Shows
  <2> QED BY Zenon, <2>2
<1>2. ASSUME NEW n \in Name, NEW r \in Record,
             Files(d, F, D)[n][r] # Files(d1, F1, D1)[n][r]
      PROVE  n = x /\ (r = m \/ Files(d, F, D)[n][r] = Hole)
  <2>1. CASE \E b : Seen(d, F, Key(n, r), Index(r), b)
    <3>1. PICK b : Seen(d, F, Key(n, r), Index(r), b)
      BY SMTT(30), <2>1
    <3>2. Files(d, F, D)[n][r] = D[LOGICAL(b, r % RPE)]
      BY Zenon, <3>1, <1>a DEF Shows
    <3>3. Seen(d1, F1, Key(n, r), Index(r), b)
      BY SMTT(30), <3>1
    <3>4. Files(d1, F1, D1)[n][r] = D1[LOGICAL(b, r % RPE)]
      BY Zenon, <3>3, <1>b DEF Shows
    <3> QED BY Zenon, <1>2, <3>1, <3>2, <3>4
  <2>2. CASE ~\E b : Seen(d, F, Key(n, r), Index(r), b)
    <3>1. Files(d, F, D)[n][r] = Hole
      BY Zenon, <2>2, <1>a DEF Shows
    <3>2. PICK b : Seen(d1, F1, Key(n, r), Index(r), b)
      BY Zenon, <1>2, <3>1, <1>b DEF Shows
    <3> QED BY Zenon, <2>2, <3>1, <3>2
  <2> QED BY Zenon, <2>1, <2>2
<1> QED BY Zenon, <1>1, <1>2 DEF Store!Put

(* A step that moves records from the file o to the file x, which has none. *)
LEMMA MoveStep ==
  ASSUME NEW d, NEW F, Typed(d, F), Sole(d, F), NEW D,
         NEW d1, NEW F1, Typed(d1, F1), Sole(d1, F1),
         NEW o \in Name, NEW x \in Name, o # x,
         \A r \in Record : \A b : ~Seen(d, F, Key(x, r), Index(r), b),
         \A n \in Name : \A r \in Record : \A b :
           Seen(d1, F1, Key(n, r), Index(r), b) =>
             \/ n # x /\ Seen(d, F, Key(n, r), Index(r), b)
             \/ /\ n = x /\ Seen(d, F, Key(o, r), Index(r), b)
                /\ \A a : ~Seen(d1, F1, Key(o, r), Index(r), a)
  PROVE  Store!Move(Files(d, F, D), Files(d1, F1, D), o, x)
<1>a. Shows(d, F, D)
  BY Zenon, FilesShown
<1>b. Shows(d1, F1, D)
  BY Zenon, FilesShown
<1>1. Files(d, F, D)[x] = Store!Holes
  <2>1. \A r \in Record : Files(d, F, D)[x][r] = Hole
    BY Zenon, <1>a DEF Shows
  <2>2. Files(d, F, D)[x] = [r \in Record |-> Files(d, F, D)[x][r]]
    BY DEF Files
  <2> QED BY Zenon, <2>1, <2>2 DEF Store!Holes
<1>2. ASSUME NEW n \in Name \ {x}, NEW r \in Record
      PROVE  Files(d1, F1, D)[n][r] \in {Files(d, F, D)[n][r], Hole}
  <2>1. CASE \E b : Seen(d1, F1, Key(n, r), Index(r), b)
    <3>1. PICK b : Seen(d1, F1, Key(n, r), Index(r), b)
      BY SMTT(30), <2>1
    <3>2. Seen(d, F, Key(n, r), Index(r), b)
      BY Zenon, <3>1
    <3>3. Files(d1, F1, D)[n][r] = D[LOGICAL(b, r % RPE)]
      BY Zenon, <3>1, <1>b DEF Shows
    <3>4. Files(d, F, D)[n][r] = D[LOGICAL(b, r % RPE)]
      BY Zenon, <3>2, <1>a DEF Shows
    <3> QED BY Zenon, <3>3, <3>4
  <2>2. CASE ~\E b : Seen(d1, F1, Key(n, r), Index(r), b)
    BY Zenon, <2>2, <1>b DEF Shows
  <2> QED BY Zenon, <2>1, <2>2
<1>3. ASSUME NEW r \in Record, Files(d1, F1, D)[x][r] # Hole
      PROVE  /\ Files(d1, F1, D)[x][r] = Files(d, F, D)[o][r]
             /\ Files(d1, F1, D)[o][r] = Hole
  <2>1. PICK b : Seen(d1, F1, Key(x, r), Index(r), b)
    BY Zenon, <1>3, <1>b DEF Shows
  <2>2. Files(d1, F1, D)[x][r] = D[LOGICAL(b, r % RPE)]
    BY Zenon, <2>1, <1>b DEF Shows
  <2>3. Seen(d, F, Key(o, r), Index(r), b) /\ \A a : ~Seen(d1, F1, Key(o, r), Index(r), a)
    BY SMTT(30), <2>1
  <2>4. Files(d, F, D)[o][r] = D[LOGICAL(b, r % RPE)]
    BY Zenon, <2>3, <1>a DEF Shows
  <2>5. Files(d1, F1, D)[o][r] = Hole
    BY Zenon, <2>3, <1>b DEF Shows
  <2> QED BY Zenon, <2>2, <2>4, <2>5
<1> QED BY Zenon, <1>1, <1>2, <1>3 DEF Store!Move, Store!Shrinks

(* A step in which the directory gets nothing new and the program keeps some *)
(* of its FCBs.                                                              *)
LEMMA LessStep ==
  ASSUME NEW d, NEW F, Typed(d, F), Sole(d, F), NEW D, NEW d1, NEW F1, Typed(d1, F1),
         \A k : \A i \in Ptr : \A b :
           b # 0 /\ Listed(d1, k, i, b) => Seen(d, F, k, i, b),
         \A f \in Slot : F1[f] # Unused => F1[f] = F[f] /\ Named(d1, F[f])
  PROVE  Sole(d1, F1) /\ Store!Drop(Files(d, F, D), Files(d1, F1, D))
<1>1. ASSUME NEW f \in Slot, F1[f] # Unused
      PROVE  Covers(d1, F1[f])
  <2>0. F1[f] = F[f] /\ F[f] # Unused
    BY <1>1
  <2> SUFFICES ASSUME Live(F[f]), NEW p \in Used(d1), SameKey(d1[p], F[f]),
                      NEW i \in Ptr, d1[p].al[i] # 0
               PROVE  F[f].al[i] = d1[p].al[i]
    BY Zenon, <2>0 DEF Covers
  <2>1. Listed(d1, F[f], i, d1[p].al[i])
    BY Zenon DEF Listed
  <2>2. Seen(d, F, F[f], i, d1[p].al[i])
    BY Zenon, <2>1
  <2>3. CASE Listed(d, F[f], i, d1[p].al[i])
    <3>1. PICK q \in Used(d) : SameKey(d[q], F[f]) /\ d[q].al[i] = d1[p].al[i]
      BY Zenon, <2>3 DEF Listed
    <3>2. Covers(d, F[f])
      BY Zenon, <2>0 DEF Sole
    <3> QED BY Zenon, <3>1, <3>2 DEF Covers
  <2>4. ASSUME NEW g \in Slot, F[g] # Unused, Points(F[g], F[f], i, d1[p].al[i])
        PROVE  F[f].al[i] = d1[p].al[i]
    <3>1. g = f
      BY Zenon, <2>0, <2>4 DEF Sole, Points, SameKey
    <3> QED BY Zenon, <2>4, <3>1 DEF Points
  <2> QED BY Zenon, <2>2, <2>3, <2>4 DEF Seen
<1>2. Sole(d1, F1)
  BY <1>1 DEF Sole
<1>3. \A k : \A i \in Ptr : \A b : Seen(d1, F1, k, i, b) => Seen(d, F, k, i, b)
  BY DEF Seen
<1>4. \A n \in Name : \A r \in Record : Index(r) \in Ptr
  BY RecordKey
<1> QED BY Zenon, <1>2, <1>3, <1>4, DropStep

(* The same as seen through one FCB f and the others, G. *)
View(d, f, G, k, i, b) ==
  b # 0 /\ (Listed(d, k, i, b) \/ Points(f, k, i, b) \/ \E g \in G : Points(g, k, i, b))

Alone(d, f, G) ==
  /\ Covers(d, f) /\ Named(d, f)
  /\ \A g \in G : g.name # f.name /\ Covers(d, g) /\ Named(d, g)

Rest(F, f) == {F[g] : g \in {h \in Slot \ {f} : F[h] # Unused}}

(* One FCB and the rest are all of them. *)
LEMMA SeenView ==
  ASSUME NEW d, NEW F, NEW f \in Slot, F[f] # Unused
  PROVE  /\ \A k, i, b : Seen(d, F, k, i, b) <=> View(d, F[f], Rest(F, f), k, i, b)
         /\ Sole(d, F) => Alone(d, F[f], Rest(F, f))
<1>1. \A k, i, b : Seen(d, F, k, i, b) <=> View(d, F[f], Rest(F, f), k, i, b)
  BY Zenon DEF Seen, View, Rest
<1>2. Sole(d, F) => Alone(d, F[f], Rest(F, f))
  BY DEF Sole, Alone, Rest
<1> QED BY <1>1, <1>2

(* Another FCB in the place of f. *)
LEMMA SoleAgain ==
  ASSUME NEW d, NEW F, Sole(d, F), NEW f \in Slot, NEW d1, NEW F1,
         \A g \in Slot \ {f} : F1[g] = F[g], Alone(d1, F1[f], Rest(F, f))
  PROVE  Sole(d1, F1) /\ Rest(F1, f) = Rest(F, f)
<1>1. \A g \in Slot \ {f} : F[g] # Unused => F[g] \in Rest(F, f)
  BY DEF Rest
<1>2. \A g \in Slot \ {f} : F1[g] # Unused =>
        F[g] # Unused /\ F1[g].name # F1[f].name /\ Covers(d1, F1[g]) /\ Named(d1, F1[g])
  BY Zenon, <1>1 DEF Alone
<1>3. Covers(d1, F1[f]) /\ Named(d1, F1[f])
  BY DEF Alone
<1>4. \A g, h \in Slot : F1[g] # Unused /\ F1[h] # Unused /\ g # h => F1[g].name # F1[h].name
  BY Zenon, <1>2 DEF Sole
<1>5. Sole(d1, F1)
  BY Zenon, <1>2, <1>3, <1>4 DEF Sole
<1>6. Rest(F1, f) = Rest(F, f)
  BY Zenon DEF Rest
<1> QED BY <1>5, <1>6

(* A routine that writes no record. *)
LEMMA ViewTells ==
  ASSUME NEW G, NEW m, NEW n, Tells(m, n), Alone(m.dir, m.fcb, G)
  PROVE  /\ Alone(n.dir, n.fcb, G)
         /\ \A k : \A i \in Ptr : \A b :
              /\ View(n.dir, n.fcb, G, k, i, b) => View(m.dir, m.fcb, G, k, i, b)
              /\ ~m.wp /\ View(m.dir, m.fcb, G, k, i, b) => View(n.dir, n.fcb, G, k, i, b)
<1>1. /\ n.fcb.name = m.fcb.name /\ Extends(m.dir, n.dir)
      /\ Confined(m.dir, m.fcb.name, n.dir) /\ Covers(n.dir, n.fcb) /\ Keeps(m, n)
  BY Zenon DEF Tells, Alone
<1>2. \A f : Named(m.dir, f) => Named(n.dir, f)
  BY Zenon, <1>1 DEF Named, Extends, SameKey
<1>3. ASSUME NEW g \in G
      PROVE  Covers(n.dir, g)
  <2>1. Covers(m.dir, g) /\ g.name # m.fcb.name
    BY SMTT(30) DEF Alone
  <2> QED BY ZenonT(30), <1>1, <2>1 DEF Confined, Covers, SameKey
<1>4. Alone(n.dir, n.fcb, G)
  BY Zenon, <1>1, <1>2, <1>3 DEF Alone, Named
<1>5. \A k : \A i \in Ptr : \A b :
        /\ View(n.dir, n.fcb, G, k, i, b) => View(m.dir, m.fcb, G, k, i, b)
        /\ ~m.wp /\ View(m.dir, m.fcb, G, k, i, b) => View(n.dir, n.fcb, G, k, i, b)
  BY ZenonT(30), <1>1 DEF Keeps, Shown, View
<1> QED BY Zenon, <1>4, <1>5

(* The view of k is the one of p with record c of its FCB's extent in block b. *)
Written(p, k, G, c, b) ==
  /\ Alone(k.dir, k.fcb, G) /\ View(k.dir, k.fcb, G, p.fcb, c \div RPB, b)
  /\ \A e : \A i \in Ptr : \A a :
       /\ View(p.dir, p.fcb, G, e, i, a) => View(k.dir, k.fcb, G, e, i, a) /\ a \in Block
       /\ View(k.dir, k.fcb, G, e, i, a) =>
            SameKey(p.fcb, e) \/ View(p.dir, p.fcb, G, e, i, a)
  /\ \A e : \A x \in 0..RPE - 1 : \A a : View(p.dir, p.fcb, G, e, x \div RPB, a) =>
       k.data[LOGICAL(a, x)] = p.data[LOGICAL(a, x)] \/ (SameKey(p.fcb, e) /\ x = c)

(* A record is written: the files get no other pointer than the one of its   *)
(* block, and no other record that they have changes.                        *)
LEMMA ViewWrites ==
  ASSUME NEW G \in SUBSET Fcb, NEW p, Whole(p, G), Alone(p.dir, p.fcb, G),
         NEW k, NEW c \in 0..RPE - 1, NEW b \in Block, Writes(p, k, c, b)
  PROVE  Written(p, k, G, c, b)
<1> DEFINE j == c \div RPB
<1>0. j \in Ptr /\ RPB \in Nat \ {0}
  BY SMTT(30), PtrIn, BdosAssumption
<1>1. /\ k.dir = p.dir /\ Live(p.fcb) /\ Live(k.fcb) /\ SameKey(k.fcb, p.fcb) /\ b # 0
      /\ k.fcb.al = [p.fcb.al EXCEPT ![j] = b]
      /\ p.fcb.al[j] = b \/ (p.fcb.al[j] = 0 /\ b \notin p.alv)
  BY Zenon DEF Writes
<1>2. \A s \in Sector : s # LOGICAL(b, c) /\ (p.fcb.al[j] = b \/ s \div RPB # b)
                          => k.data[s] = p.data[s]
  BY Zenon DEF Writes
<1> HIDE DEF j
<1>3. /\ p.fcb \in Fcb /\ p.dir \in [Pos -> Entry \cup {Unused}]
      /\ DirOk(p.dir, p.mark, p.alv) /\ Fits(p.dir, p.alv, p.fcb)
      /\ \A g \in G : FcbOk(p.dir, p.alv, g) /\ Apart(p.fcb, g)
  BY Zenon, <1>1 DEF Whole, Base, IsMachine, FcbOk
<1>4. p.fcb.al \in [Ptr -> Block]
  BY Zenon, <1>3 DEF Fcb
<1>5. k.fcb.al[j] = b /\ \A i \in Ptr : i # j => k.fcb.al[i] = p.fcb.al[i]
  BY Zenon, <1>0, <1>1, <1>4
<1>6. Covers(p.dir, p.fcb) /\ Named(p.dir, p.fcb)
  BY SMTT(30) DEF Alone
<1>7. Covers(k.dir, k.fcb)
  <2> SUFFICES ASSUME NEW q \in Used(p.dir), SameKey(p.dir[q], p.fcb), NEW i \in Ptr,
                      p.dir[q].al[i] # 0
               PROVE  k.fcb.al[i] = p.dir[q].al[i]
    BY SMTT(30), <1>1 DEF Covers, SameKey
  <2>1. p.fcb.al[i] = p.dir[q].al[i]
    BY Zenon, <1>1, <1>6 DEF Covers
  <2> QED BY ZenonT(30), <1>1, <1>5, <2>1
<1>8. Alone(k.dir, k.fcb, G)
  BY SMTT(30), <1>1, <1>7 DEF Alone, Named, SameKey
<1>9. View(k.dir, k.fcb, G, p.fcb, j, b)
  BY Zenon, <1>1, <1>5 DEF View, Points
(* What was there. *)
<1>10. ASSUME NEW e, NEW i \in Ptr, NEW a, View(p.dir, p.fcb, G, e, i, a)
       PROVE  /\ View(k.dir, k.fcb, G, e, i, a) /\ a \in Block /\ a \in p.alv
              /\ p.fcb.al[j] = a => SameKey(p.fcb, e) /\ i = j
  <2>0. a # 0
    BY SMTT(30), <1>10 DEF View
  <2>1. CASE Listed(p.dir, e, i, a)
    <3>1. PICK q \in Used(p.dir) : SameKey(p.dir[q], e) /\ p.dir[q].al[i] = a
      BY <2>1 DEF Listed
    <3>2. p.dir[q] \in Entry /\ a \in Block
      BY Zenon, <1>3, <3>1 DEF Used, Entry
    <3>3. a \in p.alv
      BY Zenon, <1>3, <2>0, <3>1 DEF DirOk, Owned
    <3>4. p.fcb.al[j] = a => SameKey(p.dir[q], p.fcb) /\ j = i
      BY Zenon, <1>0, <1>3, <2>0, <3>1 DEF Fits
    <3>5. View(k.dir, k.fcb, G, e, i, a)
      BY ZenonT(30), <1>1, <2>0, <2>1 DEF View
    <3> QED BY Zenon, <3>1, <3>2, <3>3, <3>4, <3>5 DEF SameKey
  <2>2. CASE Points(p.fcb, e, i, a)
    <3>1. SameKey(p.fcb, e) /\ p.fcb.al[i] = a
      BY SMTT(30), <2>2 DEF Points
    <3>2. a \in Block /\ a \in p.alv
      BY Zenon, <1>3, <1>4, <2>0, <3>1 DEF Fits, Owned
    <3>3. p.fcb.al[j] = a => i = j
      BY Zenon, <1>0, <1>3, <2>0, <3>1 DEF Fits
    <3>4. k.fcb.al[i] = a
      BY Zenon, <1>1, <1>5, <2>0, <3>1
    <3>5. View(k.dir, k.fcb, G, e, i, a)
      BY Zenon, <1>1, <2>0, <3>1, <3>4 DEF View, Points, SameKey
    <3> QED BY Zenon, <3>1, <3>2, <3>3, <3>5
  <2>3. ASSUME NEW g \in G, Points(g, e, i, a)
        PROVE  /\ View(k.dir, k.fcb, G, e, i, a) /\ a \in Block /\ a \in p.alv
               /\ p.fcb.al[j] = a => SameKey(p.fcb, e) /\ i = j
    <3>1. SameKey(g, e) /\ g.al[i] = a /\ Live(g) /\ g \in Fcb
      BY <2>3 DEF Points
    <3>2. a \in Block /\ a \in p.alv
      BY Zenon, <1>3, <2>0, <3>1 DEF FcbOk, Fits, Owned, Fcb
    <3>3. p.fcb.al[j] = a => SameKey(p.fcb, g) /\ j = i
      BY ZenonT(30), <1>0, <1>1, <1>3, <2>0, <3>1 DEF Apart
    <3>4. View(k.dir, k.fcb, G, e, i, a)
      BY Zenon, <2>0, <2>3 DEF View
    <3> QED BY Zenon, <3>1, <3>2, <3>3, <3>4 DEF SameKey
  <2> QED BY Zenon, <1>10, <2>1, <2>2, <2>3 DEF View
(* What is new. *)
<1>11. ASSUME NEW e, NEW i \in Ptr, NEW a, View(k.dir, k.fcb, G, e, i, a)
       PROVE  SameKey(p.fcb, e) \/ View(p.dir, p.fcb, G, e, i, a)
  BY Zenon, <1>1, <1>11 DEF View, Points, SameKey
(* The sectors. *)
<1>12. ASSUME NEW e, NEW x \in 0..RPE - 1, NEW a, View(p.dir, p.fcb, G, e, x \div RPB, a)
       PROVE  k.data[LOGICAL(a, x)] = p.data[LOGICAL(a, x)] \/ (SameKey(p.fcb, e) /\ x = c)
  <2>0. x \div RPB \in Ptr
    BY PtrIn
  <2>1. /\ a \in Block /\ a \in p.alv
        /\ p.fcb.al[j] = a => SameKey(p.fcb, e) /\ x \div RPB = j
    BY Zenon, <1>10, <1>12, <2>0
  <2>2. /\ LOGICAL(a, x) \in Sector /\ LOGICAL(a, x) \div RPB = a
        /\ LOGICAL(b, c) = LOGICAL(a, x) => b = a /\ c % RPB = x % RPB
    <3>1. /\ LOGICAL(a, x) \in Sector /\ LOGICAL(a, x) \div RPB = a
          /\ \A u \in Block : \A v \in 0..RPE - 1 :
               LOGICAL(u, v) = LOGICAL(a, x) => u = a /\ v % RPB = x % RPB
      BY Zenon, <2>1, LogicalIn
    <3> QED BY Zenon, <3>1
  <2>3. CASE p.fcb.al[j] = b
    <3>1. CASE LOGICAL(a, x) # LOGICAL(b, c)
      BY Zenon, <1>2, <2>2, <2>3, <3>1
    <3>2. CASE LOGICAL(a, x) = LOGICAL(b, c)
      <4>1. b = a /\ c % RPB = x % RPB
        BY <2>2, <3>2
      <4>2. SameKey(p.fcb, e) /\ x \div RPB = j
        BY Zenon, <2>1, <2>3, <4>1
      <4>3. x = (x \div RPB) * RPB + (x % RPB) /\ c = (c \div RPB) * RPB + (c % RPB)
        BY <1>0, BdosAssumption, Division
      <4>4. x = c
        BY Zenon, <4>1, <4>2, <4>3 DEF j
      <4> QED BY Zenon, <4>2, <4>4
    <3> QED BY Zenon, <3>1, <3>2
  <2>4. CASE b \notin p.alv
    <3>1. a # b
      BY Zenon, <2>1, <2>4
    <3> QED BY Zenon, <1>2, <2>2, <3>1
  <2> QED BY Zenon, <1>1, <2>3, <2>4
<1> QED BY Zenon, <1>8, <1>9, <1>10, <1>11, <1>12 DEF j, Written

(* What a call that writes does as a whole: record c of the extent of f is   *)
(* in block b.                                                               *)
Effect(m, n, G, f, c, b) ==
  /\ f \in Fcb /\ f.name = m.fcb.name /\ c \in 0..RPE - 1 /\ n.data \in [Sector -> Data]
  /\ View(n.dir, n.fcb, G, f, c \div RPB, b)
  /\ \A e : \A i \in Ptr : \A a :
       /\ View(m.dir, m.fcb, G, e, i, a) => View(n.dir, n.fcb, G, e, i, a)
       /\ View(n.dir, n.fcb, G, e, i, a) => SameKey(f, e) \/ View(m.dir, m.fcb, G, e, i, a)
  /\ \A e : \A x \in 0..RPE - 1 : \A a : View(m.dir, m.fcb, G, e, x \div RPB, a) =>
       n.data[LOGICAL(a, x)] = m.data[LOGICAL(a, x)] \/ (SameKey(f, e) /\ x = c)

(* It moves the FCB to the extent, writes, and may move it on. *)
LEMMA WroteView ==
  ASSUME NEW G \in SUBSET Fcb, NEW m, NEW n, Wrote(m, n, G), Alone(m.dir, m.fcb, G)
  PROVE  Alone(n.dir, n.fcb, G) /\ \E f, c, b : Effect(m, n, G, f, c, b)
<1>1. PICK p, k : \E c \in 0..RPE - 1, b \in Block :
        Tells(m, p) /\ Whole(p, G) /\ Writes(p, k, c, b) /\ Tells(k, n)
  BY DEF Wrote
<1>2. PICK c \in 0..RPE - 1, b \in Block :
        Tells(m, p) /\ Whole(p, G) /\ Writes(p, k, c, b) /\ Tells(k, n)
  BY SMTT(30), <1>1
<1>3. /\ p.data = m.data /\ n.data = k.data /\ p.fcb.name = m.fcb.name /\ k.data \in [Sector -> Data]
      /\ ~m.wp /\ ~k.wp /\ p.fcb \in Fcb
  BY Zenon, <1>2 DEF Tells, Writes, Whole, Base, IsMachine
<1>4. /\ Alone(p.dir, p.fcb, G)
      /\ \A e : \A i \in Ptr : \A a :
           View(p.dir, p.fcb, G, e, i, a) <=> View(m.dir, m.fcb, G, e, i, a)
  BY ZenonT(30), <1>2, <1>3, ViewTells
<1>5. Written(p, k, G, c, b)
  BY Zenon, <1>2, <1>4, ViewWrites
<1>6. /\ Alone(n.dir, n.fcb, G)
      /\ \A e : \A i \in Ptr : \A a :
           View(n.dir, n.fcb, G, e, i, a) <=> View(k.dir, k.fcb, G, e, i, a)
  BY Zenon, <1>2, <1>3, <1>5, ViewTells DEF Written
<1>7. \A x \in 0..RPE - 1 : x \div RPB \in Ptr
  BY PtrIn
<1>8. Effect(m, n, G, p.fcb, c, b)
  BY ZenonT(30), <1>3, <1>4, <1>5, <1>6, <1>7 DEF Effect, Written
<1> QED BY Zenon, <1>6, <1>8

(* A call with the FCB f that comes back: what it shows is what it showed,   *)
(* less what could not be saved, or it has written one record.               *)
LEMMA ActStep ==
  ASSUME NEW F, NEW f \in Slot, F[f] \in Fcb, F[f] # Unused, NEW m, m.fcb = F[f],
         Typed(m.dir, F), Sole(m.dir, F),
         NEW n, NEW F1, Typed(n.dir, F1), F1[f] = n.fcb, F1[f] # Unused,
         \A g \in Slot \ {f} : F1[g] = F[g],
         Tells(m, n) \/ Wrote(m, n, Rest(F, f))
  PROVE  /\ Sole(n.dir, F1)
         /\ Store!Step(Files(m.dir, F, m.data), Files(n.dir, F1, n.data))
<1> DEFINE G == Rest(F, f)
<1>0. /\ \A k, i, b : Seen(m.dir, F, k, i, b) <=> View(m.dir, m.fcb, G, k, i, b)
      /\ Alone(m.dir, m.fcb, G)
  BY Zenon, SeenView
<1>1. G \in SUBSET Fcb
  BY ZenonT(30) DEF Rest, Typed
<1>2. ASSUME Alone(n.dir, n.fcb, G)
      PROVE  /\ Sole(n.dir, F1)
             /\ \A k, i, b : Seen(n.dir, F1, k, i, b) <=> View(n.dir, n.fcb, G, k, i, b)
  <2>1. Sole(n.dir, F1) /\ Rest(F1, f) = G
    BY <1>2, SoleAgain
  <2> QED BY Zenon, <2>1, SeenView
<1>3. \A x \in Name : \A r \in Record : Index(r) \in Ptr /\ r % RPE \in 0..RPE - 1
  BY Zenon, RecordKey
<1> HIDE DEF G
<1>4. CASE Tells(m, n)
  <2>1. /\ Alone(n.dir, n.fcb, G)
        /\ \A k : \A i \in Ptr : \A b :
             View(n.dir, n.fcb, G, k, i, b) => View(m.dir, m.fcb, G, k, i, b)
    BY Zenon, <1>0, <1>4, ViewTells
  <2>2. /\ Sole(n.dir, F1)
        /\ \A k, i, b : Seen(n.dir, F1, k, i, b) <=> View(n.dir, n.fcb, G, k, i, b)
    BY Zenon, <1>2, <2>1
  <2>3. n.data = m.data
    BY Zenon, <1>4 DEF Tells
  <2>4. \A x \in Name : \A r \in Record : \A b :
          Seen(n.dir, F1, Key(x, r), Index(r), b) => Seen(m.dir, F, Key(x, r), Index(r), b)
    BY Zenon, <1>0, <1>3, <2>1, <2>2
  <2>5. Store!Drop(Files(m.dir, F, m.data), Files(n.dir, F1, n.data))
    BY Zenon, <2>2, <2>3, <2>4, DropStep
  <2> QED BY Zenon, <2>2, <2>5 DEF Store!Step
<1>5. CASE Wrote(m, n, G)
  <2>1. Alone(n.dir, n.fcb, G) /\ \E e, c, b : Effect(m, n, G, e, c, b)
    BY ZenonT(30), <1>0, <1>1, <1>5, WroteView
  <2>2. PICK e, c, b : Effect(m, n, G, e, c, b)
    BY Zenon, <2>1
  <2>3. /\ Sole(n.dir, F1)
        /\ \A k, i, a : Seen(n.dir, F1, k, i, a) <=> View(n.dir, n.fcb, G, k, i, a)
    BY Zenon, <1>2, <2>1
  <2>4. /\ e \in Fcb /\ e.name \in Name /\ c \in 0..RPE - 1 /\ n.data \in [Sector -> Data]
        /\ View(n.dir, n.fcb, G, e, c \div RPB, b)
    BY Zenon, <2>2 DEF Effect, Fcb
  (* What the records show before and after. *)
  <2>5. ASSUME NEW x \in Name, NEW r \in Record, NEW a
        PROVE  /\ Seen(m.dir, F, Key(x, r), Index(r), a) =>
                    /\ Seen(n.dir, F1, Key(x, r), Index(r), a)
                    /\ \/ n.data[LOGICAL(a, r % RPE)] = m.data[LOGICAL(a, r % RPE)]
                       \/ SameKey(e, Key(x, r)) /\ r % RPE = c
               /\ Seen(n.dir, F1, Key(x, r), Index(r), a) =>
                    SameKey(e, Key(x, r)) \/ Seen(m.dir, F, Key(x, r), Index(r), a)
    <3>1. Index(r) \in Ptr /\ r % RPE \in 0..RPE - 1 /\ Index(r) = (r % RPE) \div RPB
      BY Zenon, <1>3 DEF Index
    <3>2. /\ View(m.dir, m.fcb, G, Key(x, r), Index(r), a) =>
               View(n.dir, n.fcb, G, Key(x, r), Index(r), a)
          /\ View(n.dir, n.fcb, G, Key(x, r), Index(r), a) =>
               SameKey(e, Key(x, r)) \/ View(m.dir, m.fcb, G, Key(x, r), Index(r), a)
      BY Zenon, <2>2, <3>1 DEF Effect
    <3>3. View(m.dir, m.fcb, G, Key(x, r), Index(r), a) =>
            \/ n.data[LOGICAL(a, r % RPE)] = m.data[LOGICAL(a, r % RPE)]
            \/ SameKey(e, Key(x, r)) /\ r % RPE = c
      BY Zenon, <2>2, <3>1 DEF Effect
    <3> QED BY Zenon, <1>0, <2>3, <3>2, <3>3
  <2>6. CASE e.s2 < S2S
    <3> DEFINE w == RecordOf(e, c)
               y == e.name
    <3>1. w \in Record /\ w % RPE = c /\ SameKey(e, Key(y, w)) /\ y \in Name
      BY Zenon, <2>4, <2>6, KeyRecord
    <3> HIDE DEF w, y
    <3>2. Index(w) = c \div RPB
      BY Zenon, <3>1 DEF Index
    <3>3. View(n.dir, n.fcb, G, Key(y, w), Index(w), b)
      BY Zenon, <2>4, <3>1, <3>2 DEF View, Listed, Points, SameKey
    <3>4. \E a : Seen(n.dir, F1, Key(y, w), Index(w), a)
      BY Zenon, <2>3, <3>3
    <3>5. ASSUME NEW x \in Name, NEW r \in Record, SameKey(e, Key(x, r))
          PROVE  x = y /\ (r % RPE = c => r = w)
      <4>1. /\ Key(x, r).name = x /\ r = (Key(x, r).s2 * EXTS + Key(x, r).ex) * RPE + (r % RPE)
            /\ Key(y, w).name = y /\ w = (Key(y, w).s2 * EXTS + Key(y, w).ex) * RPE + (w % RPE)
        BY Zenon, <3>1, RecordKey
      <4>2. /\ Key(x, r).name = Key(y, w).name /\ Key(x, r).s2 = Key(y, w).s2
            /\ Key(x, r).ex = Key(y, w).ex
        BY Zenon, <3>1, <3>5 DEF SameKey
      <4> QED BY Zenon, <3>1, <4>1, <4>2
    <3>6. \A x \in Name : \A r \in Record : \A a :
            /\ Seen(m.dir, F, Key(x, r), Index(r), a) =>
                 /\ Seen(n.dir, F1, Key(x, r), Index(r), a)
                 /\ \/ n.data[LOGICAL(a, r % RPE)] = m.data[LOGICAL(a, r % RPE)]
                    \/ x = y /\ r = w
            /\ Seen(n.dir, F1, Key(x, r), Index(r), a) =>
                 x = y \/ Seen(m.dir, F, Key(x, r), Index(r), a)
      BY ZenonT(30), <2>5, <3>5
    <3>7. Store!Put(Files(m.dir, F, m.data), Files(n.dir, F1, n.data), y, w)
      BY Zenon, <2>3, <2>4, <3>1, <3>4, <3>6, PutStep
    <3> QED BY Zenon, <2>3, <3>1, <3>7 DEF Store!Step
  (* No record number counts the extent. *)
  <2>7. CASE ~(e.s2 < S2S)
    <3>1. ASSUME NEW x \in Name, NEW r \in Record
          PROVE  ~SameKey(e, Key(x, r))
      <4>1. Key(x, r).s2 \in 0..S2S - 1 /\ S2S \in Nat
        BY RecordKey, BdosAssumption
      <4> QED BY SMTT(30), <2>7, <4>1 DEF SameKey
    <3>2. \A x \in Name : \A r \in Record : \A a :
            Seen(n.dir, F1, Key(x, r), Index(r), a) =>
              /\ Seen(m.dir, F, Key(x, r), Index(r), a)
              /\ n.data[LOGICAL(a, r % RPE)] = m.data[LOGICAL(a, r % RPE)]
      BY Zenon, <2>5, <3>1
    <3>3. Store!Drop(Files(m.dir, F, m.data), Files(n.dir, F1, n.data))
      BY Zenon, <2>3, <3>2, DropStep
    <3> QED BY Zenon, <2>3, <3>3 DEF Store!Step
  <2> QED BY Zenon, <2>6, <2>7
<1> QED BY Zenon, <1>4, <1>5 DEF G

(* An FCB is opened, or a file is made: the directory gets no pointers, and  *)
(* the FCB has those of its entry.                                           *)
LEMMA OpenStep ==
  ASSUME NEW d, NEW F, Typed(d, F), Sole(d, F), NEW D, NEW d1, NEW F1, Typed(d1, F1),
         Extends(d, d1), Grown(d, {}, d1), NEW f \in Slot,
         \A g \in Slot \ {f} : F1[g] = F[g] /\ (F[g] # Unused => F[g].name # F1[f].name),
         F1[f] # Unused, Covers(d1, F1[f]), Recorded(d1, F1[f]), Named(d1, F1[f])
  PROVE  Sole(d1, F1) /\ Store!Drop(Files(d, F, D), Files(d1, F1, D))
<1>1. \A k : \A i \in Ptr : \A b : b # 0 /\ Listed(d1, k, i, b) => Listed(d, k, i, b)
  BY Zenon DEF Listed, Grown, SameKey
<1>2. ASSUME NEW g \in Slot \ {f}, F[g] # Unused
      PROVE  Covers(d1, F[g]) /\ Named(d1, F[g])
  <2>1. Covers(d, F[g]) /\ Named(d, F[g])
    BY Zenon, <1>2 DEF Sole
  <2>2. Covers(d1, F[g])
    <3> SUFFICES ASSUME Live(F[g]), NEW p \in Used(d1), SameKey(d1[p], F[g]), NEW i \in Ptr,
                        d1[p].al[i] # 0
                 PROVE  F[g].al[i] = d1[p].al[i]
      BY Zenon DEF Covers
    <3>1. p \in Used(d) /\ SameKey(d1[p], d[p]) /\ d1[p].al[i] = d[p].al[i]
      BY Zenon DEF Grown
    <3>2. SameKey(d[p], F[g])
      BY Zenon, <3>1 DEF SameKey
    <3> QED BY Zenon, <2>1, <3>1, <3>2 DEF Covers
  <2> QED BY Zenon, <2>1, <2>2 DEF Named, Extends, SameKey
<1>3. \A g, h \in Slot : F1[g] # Unused /\ F1[h] # Unused /\ g # h => F1[g].name # F1[h].name
  BY Zenon DEF Sole
<1>4. Sole(d1, F1)
  BY Zenon, <1>2, <1>3 DEF Sole
<1>5. ASSUME NEW k, NEW i \in Ptr, NEW b, Seen(d1, F1, k, i, b)
      PROVE  Seen(d, F, k, i, b)
  <2>1. CASE Listed(d1, k, i, b)
    BY Zenon, <1>1, <1>5, <2>1 DEF Seen
  <2>2. ASSUME NEW g \in Slot, F1[g] # Unused, Points(F1[g], k, i, b)
        PROVE  Seen(d, F, k, i, b)
    <3>1. CASE g = f
      <4>1. Listed(d1, F1[f], i, b)
        BY Zenon, <1>5, <2>2, <3>1 DEF Recorded, Points, Seen
      <4>2. Listed(d1, k, i, b)
        BY Zenon, <2>2, <3>1, <4>1 DEF Listed, Points, SameKey
      <4> QED BY Zenon, <1>1, <1>5, <4>2 DEF Seen
    <3>2. CASE g # f
      BY Zenon, <1>5, <2>2, <3>2 DEF Seen
    <3> QED BY Zenon, <3>1, <3>2
  <2> QED BY Zenon, <1>5, <2>1, <2>2 DEF Seen
<1>6. \A n \in Name : \A r \in Record : Index(r) \in Ptr
  BY Zenon, RecordKey
<1> QED BY Zenon, <1>4, <1>5, <1>6, DropStep

(* The entries S of the file o get the name x, which no entry has, and the   *)
(* FCBs of o are dropped.                                                    *)
LEMMA RenameStep ==
  ASSUME NEW d, NEW F, Typed(d, F), Sole(d, F), NEW D, NEW d1, NEW F1, Typed(d1, F1),
         NEW o \in Name, NEW x \in Name, \A p \in Used(d) : d[p].name # x,
         NEW S \in SUBSET Used(d), Renames(d, d1, S, x), \A p \in S : d[p].name = o,
         \A f \in Slot : F1[f] # Unused => F1[f] = F[f] /\ F[f].name # o
  PROVE  Sole(d1, F1) /\ Store!Step(Files(d, F, D), Files(d1, F1, D))
<1>1. ASSUME NEW f \in Slot, F1[f] # Unused
      PROVE  /\ F1[f] = F[f] /\ F[f] # Unused /\ F[f].name # o /\ F[f].name # x
             /\ Covers(d1, F[f]) /\ Named(d1, F[f])
  <2>1. /\ F1[f] = F[f] /\ F[f] # Unused /\ F[f].name # o
        /\ Covers(d, F[f]) /\ Named(d, F[f])
    BY Zenon, <1>1 DEF Sole
  <2>2. F[f].name # x
    BY Zenon, <2>1 DEF Named
  <2>3. Covers(d1, F[f])
    <3> SUFFICES ASSUME Live(F[f]), NEW p \in Used(d1), SameKey(d1[p], F[f]), NEW i \in Ptr,
                        d1[p].al[i] # 0
                 PROVE  F[f].al[i] = d1[p].al[i]
      BY Zenon DEF Covers
    <3>1. p \in Used(d) /\ p \notin S /\ SameKey(d1[p], d[p]) /\ d1[p].al = d[p].al
      BY Zenon, <2>2 DEF Renames, SameKey
    <3>2. SameKey(d[p], F[f])
      BY ZenonT(30), <3>1 DEF SameKey
    <3> QED BY Zenon, <2>1, <3>1, <3>2 DEF Covers
  <2>4. Named(d1, F[f])
    BY Zenon, <2>1, <2>2 DEF Named, Renames
  <2> QED BY Zenon, <2>1, <2>2, <2>3, <2>4
<1>2. Sole(d1, F1)
  BY Zenon, <1>1 DEF Sole
<1>3. ASSUME NEW k, NEW i, NEW b, Seen(d, F, k, i, b)
      PROVE  k.name # x
  <2>1. \A f \in Slot : F[f] # Unused => F[f].name # x
    BY Zenon DEF Sole, Named
  <2> QED BY Zenon, <1>3, <2>1 DEF Seen, Listed, Points, SameKey
<1>4. ASSUME NEW n \in Name, NEW r \in Record, NEW b, Seen(d1, F1, Key(n, r), Index(r), b)
      PROVE  \/ n # x /\ Seen(d, F, Key(n, r), Index(r), b)
             \/ /\ o # x /\ n = x /\ Seen(d, F, Key(o, r), Index(r), b)
                /\ \A a : ~Seen(d1, F1, Key(o, r), Index(r), a)
  <2>0. /\ Key(n, r).name = n /\ Key(o, r).name = o
        /\ Key(n, r).ex = Key(o, r).ex /\ Key(n, r).s2 = Key(o, r).s2
    BY Zenon DEF Key
  <2> DEFINE k == Key(n, r)
             l == Key(o, r)
             i == Index(r)
  <2> HIDE DEF k, l, i
  <2>1. ASSUME NEW f \in Slot, F1[f] # Unused, Points(F1[f], k, i, b)
        PROVE  n # x /\ Seen(d, F, k, i, b)
    <3>1. F1[f] = F[f] /\ F[f] # Unused /\ F[f].name # x
      BY Zenon, <1>1, <2>1
    <3>2. Seen(d, F, k, i, b)
      BY Zenon, <1>4, <2>1, <3>1 DEF Seen, k, i
    <3> QED BY Zenon, <2>0, <2>1, <3>1, <3>2 DEF Points, SameKey, k
  <2>2. ASSUME NEW p \in Used(d1), SameKey(d1[p], k), d1[p].al[i] = b, p \notin S
        PROVE  n # x /\ Seen(d, F, k, i, b)
    <3>1. p \in Used(d) /\ SameKey(d[p], k) /\ d[p].al[i] = b /\ d[p].name # x
      BY Zenon, <2>2 DEF Renames, SameKey
    <3>2. Seen(d, F, k, i, b)
      BY Zenon, <1>4, <3>1 DEF Seen, Listed, k, i
    <3> QED BY Zenon, <2>0, <3>1, <3>2 DEF SameKey, k
  <2>3. ASSUME NEW p \in Used(d1), SameKey(d1[p], k), d1[p].al[i] = b, p \in S
        PROVE  /\ o # x /\ n = x /\ Seen(d, F, l, i, b)
               /\ \A a : ~Seen(d1, F1, l, i, a)
    <3>1. p \in Used(d) /\ d[p].name = o /\ o # x /\ n = x
      BY ZenonT(30), <2>0, <2>3 DEF Renames, SameKey, k
    <3>2. SameKey(d[p], l) /\ d[p].al[i] = b
      BY Zenon, <2>0, <2>3, <3>1 DEF Renames, SameKey, k, l
    <3>3. Seen(d, F, l, i, b)
      BY Zenon, <1>4, <3>1, <3>2 DEF Seen, Listed
    <3>4. ASSUME NEW q \in Used(d1), SameKey(d1[q], l)
          PROVE  FALSE
      <4>1. q \in Used(d) /\ q \notin S
        BY ZenonT(30), <2>0, <3>1, <3>4 DEF Renames, SameKey, l
      <4>2. SameKey(d[q], d[p])
        BY Zenon, <3>2, <3>4, <4>1 DEF Renames, SameKey
      <4> QED BY Zenon, <2>3, <3>1, <4>1, <4>2 DEF Typed
    <3>5. ASSUME NEW f \in Slot, F1[f] # Unused, SameKey(F1[f], l)
          PROVE  FALSE
      BY Zenon, <1>1, <2>0, <3>5 DEF SameKey, l
    <3>6. \A a : ~Seen(d1, F1, l, i, a)
      BY Zenon, <3>4, <3>5 DEF Seen, Listed, Points
    <3> QED BY Zenon, <3>1, <3>3, <3>6
  <2> QED BY Zenon, <1>4, <2>1, <2>2, <2>3 DEF Seen, Listed, k, l, i
<1>5. CASE o # x
  <2>1. \A r \in Record : \A b : ~Seen(d, F, Key(x, r), Index(r), b)
    <3>1. \A r \in Record : Key(x, r).name = x
      BY Zenon DEF Key
    <3> QED BY Zenon, <1>3, <3>1
  <2>2. Store!Move(Files(d, F, D), Files(d1, F1, D), o, x)
    BY Zenon, <1>2, <1>4, <1>5, <2>1, MoveStep
  <2> QED BY Zenon, <1>2, <2>2 DEF Store!Step
<1>6. CASE o = x
  <2>1. Store!Drop(Files(d, F, D), Files(d1, F1, D))
    BY Zenon, <1>2, <1>4, <1>6, DropStep
  <2> QED BY Zenon, <1>2, <2>1 DEF Store!Step
<1> QED BY Zenon, <1>5, <1>6

----------------------------------------------------------------------------
(* The files of the program, step by step. *)

(* The inductive invariant: the directory is in order, every FCB of the      *)
(* program fits it and the other FCBs and is saved in it, and the last       *)
(* transfer stayed inside its file.                                          *)
Inv ==
  /\ TypeOK
  /\ DirOk(dir, mark, alv)
  /\ \A f \in Slot : InUse(f) => FcbOk(dir, alv, fcb[f])
  /\ \A f, g \in Slot : InUse(f) /\ InUse(g) /\ f # g => Apart(fcb[f], fcb[g])
  /\ Proper(dir, xfer)

(* What a step may do to a protected drive. *)
Untouched ==
  wp => /\ alv # alv' => wp' = FALSE
        /\ \A p \in Pos :
             dir[p] # dir'[p] => /\ dir[p] # Unused /\ dir'[p] # Unused
                                 /\ dir'[p] = [dir[p] EXCEPT !.ro = dir'[p].ro]

(* The machine m of a call that used an FCB, when the call is over. *)
Ends(m) == /\ m.wp = wp /\ (wp => m.dir = dir /\ m.alv = alv)
           /\ Proper(m.dir, m.xfer)

(* The FCBs that are open besides f. *)
Others(f) == {fcb[g] : g \in {h \in Slot \ {f} : InUse(h)}}

(* A step of a program that opens no file twice, as the file store sees it. *)
Stores ==
  ~Shared /\ Sole(dir, fcb) =>
    Sole(dir', fcb') /\ Store!Step(Files(dir, fcb, data), Files(dir', fcb', data'))

(* What the file store needs of the invariant. *)
LEMMA InOrderNow == (Inv => Typed(dir, fcb)) /\ (Inv' => Typed(dir', fcb'))
<1>1. Inv => Typed(dir, fcb)
  BY Zenon DEF Inv, TypeOK, DirOk, Typed
<1>2. Inv' => Typed(dir', fcb')
  BY Zenon DEF Inv, TypeOK, DirOk, Typed
<1> QED BY SMTT(30), <1>1, <1>2

(* A step that adds nothing to the directory, and after which the program    *)
(* holds FCBs it had, of files that are still there.                         *)
LEMMA LessStores ==
  ASSUME Inv, Inv', data' = data,
         Sole(dir, fcb) => \A k : \A i \in Ptr : \A b :
           b # 0 /\ Listed(dir', k, i, b) => Seen(dir, fcb, k, i, b),
         \A f \in Slot : fcb'[f] # Unused =>
           /\ fcb'[f] = fcb[f]
           /\ \A p \in Used(dir) : dir[p].name = fcb[f].name =>
                p \in Used(dir') /\ dir'[p].name = dir[p].name
  PROVE  Stores
<1> SUFFICES ASSUME Sole(dir, fcb)
             PROVE  /\ Sole(dir', fcb')
                    /\ Store!Step(Files(dir, fcb, data), Files(dir', fcb', data'))
  BY Zenon DEF Stores
<1>1. \A f \in Slot : fcb'[f] # Unused => fcb'[f] = fcb[f] /\ Named(dir', fcb[f])
  BY ZenonT(30) DEF Sole, Named
<1>2. Typed(dir, fcb) /\ Typed(dir', fcb')
  BY Zenon, InOrderNow
<1>3. Sole(dir', fcb') /\ Store!Drop(Files(dir, fcb, data), Files(dir', fcb', data))
  BY Zenon, <1>1, <1>2, LessStep
<1> QED BY ZenonT(30), <1>3 DEF Store!Step

(* The directory stays as it is. *)
LEMMA SameStores ==
  ASSUME Inv, Inv', data' = data, dir' = dir,
         \A f \in Slot : fcb'[f] # Unused => fcb'[f] = fcb[f]
  PROVE  Stores
<1>1. \A k : \A i \in Ptr : \A b : b # 0 /\ Listed(dir', k, i, b) => Seen(dir, fcb, k, i, b)
  BY Zenon DEF Seen
<1> QED BY Zenon, <1>1, LessStores

(* The directory gets no pointers. *)
LEMMA GrownSeen ==
  ASSUME Grown(dir, {}, dir')
  PROVE  \A k : \A i \in Ptr : \A b :
           b # 0 /\ Listed(dir', k, i, b) => Seen(dir, fcb, k, i, b)
BY ZenonT(30) DEF Grown, Listed, Seen, SameKey

(* A call that ends in a warm boot without writing. *)
LEMMA BootStores ==
  ASSUME Inv, Inv', NEW m, NEW fs, Return(m, fs), m.boot, m.data = data,
         Grown(dir, {}, m.dir)
  PROVE  Stores
<1>1. dir' = m.dir /\ data' = data /\ fcb' = [g \in Slot |-> Unused]
  BY Zenon DEF Return
<1>2. \A k : \A i \in Ptr : \A b : b # 0 /\ Listed(dir', k, i, b) => Seen(dir, fcb, k, i, b)
  BY <1>1, GrownSeen
<1> QED BY Zenon, <1>1, <1>2, LessStores

(* A call that opened no FCB. *)
LEMMA NoneStores ==
  ASSUME Inv, Inv', NEW m, Return(m, fcb), m.data = data,
         Extends(dir, m.dir), Grown(dir, {}, m.dir)
  PROVE  Stores
<1>1. CASE m.boot
  BY SMTT(30), <1>1, BootStores
<1>2. CASE ~m.boot
  <2>1. dir' = m.dir /\ data' = data /\ fcb' = fcb
    BY Zenon, <1>2 DEF Return
  <2>2. \A k : \A i \in Ptr : \A b : b # 0 /\ Listed(dir', k, i, b) => Seen(dir, fcb, k, i, b)
    BY SMTT(30), <2>1, GrownSeen
  <2>3. \A p \in Used(dir) : p \in Used(dir') /\ dir'[p].name = dir[p].name
    BY Zenon, <2>1 DEF Extends, SameKey
  <2> QED BY Zenon, <2>1, <2>2, <2>3, LessStores
<1> QED BY <1>1, <1>2

(* A call that opened an FCB for the file n, which no other FCB has open. *)
LEMMA OpenStores ==
  ASSUME Inv, Inv', NEW f \in Slot, NEW n \in Name, NEW m, Whole(m, Others(f)), Give(f, m),
         m.data = data, Extends(dir, m.dir), Grown(dir, {}, m.dir),
         Fresh(Enter(NewFcb(n)), m), SameKey(m.fcb, NewFcb(n)), ~m.fcb.stuck,
         ~Shared /\ Sole(dir, fcb) => \A g \in Slot \ {f} : InUse(g) => fcb[g].name # n
  PROVE  Stores
<1>1. CASE m.boot
  BY Zenon, <1>1, BootStores DEF Give
<1>2. CASE ~m.boot
  <2> SUFFICES ASSUME ~Shared, Sole(dir, fcb)
               PROVE  /\ Sole(dir', fcb')
                      /\ Store!Step(Files(dir, fcb, data), Files(dir', fcb', data'))
    BY Zenon DEF Stores
  <2>1. dir' = m.dir /\ data' = data /\ fcb' = [fcb EXCEPT ![f] = m.fcb]
    BY Zenon, <1>2 DEF Give, Return
  <2>2. fcb'[f] = m.fcb /\ \A g \in Slot \ {f} : fcb'[g] = fcb[g]
    BY Zenon, <2>1 DEF Inv, TypeOK
  <2>3. m.fcb \in Fcb /\ FcbOk(m.dir, m.alv, m.fcb)
    BY Zenon DEF Whole, Base, IsMachine
  <2>4. m.fcb.unmod /\ m.fcb.name = n /\ Covers(m.dir, m.fcb) /\ Live(m.fcb)
    <3>1. NewFcb(n).name = n /\ NewFcb(n).s2 = 0
      BY Zenon DEF NewFcb
    <3>2. m.fcb.name = n /\ m.fcb.s2 = 0
      BY Zenon, <3>1 DEF SameKey
    <3>3. 0 # Lost
      BY DEF Lost
    <3> QED BY Zenon, <3>2, <3>3 DEF Fresh, Live
  <2>5. Recorded(m.dir, m.fcb)
    <3>1. Saved(m.dir, m.fcb)
      BY ZenonT(30), <2>3, <2>4 DEF FcbOk
    <3> QED BY Zenon, <2>4, <3>1 DEF Saved, Recorded, Listed, SameKey
  <2>6. Named(m.dir, m.fcb)
    BY Zenon, <2>3, <2>4 DEF FcbOk, Saved, Named, SameKey
  <2>7. m.fcb # Unused
    BY Zenon, <2>3, UnusedAssumption
  <2>8. \A g \in Slot \ {f} : fcb'[g] = fcb[g] /\ (fcb[g] # Unused => fcb[g].name # fcb'[f].name)
    BY Zenon, <2>2, <2>4 DEF InUse
  <2>9. Typed(dir, fcb) /\ Typed(dir', fcb')
    BY Zenon, InOrderNow
  <2>10. Sole(dir', fcb') /\ Store!Drop(Files(dir, fcb, data), Files(dir', fcb', data))
    <3>1. /\ Extends(dir, dir') /\ Grown(dir, {}, dir') /\ fcb'[f] # Unused
          /\ Covers(dir', fcb'[f]) /\ Recorded(dir', fcb'[f]) /\ Named(dir', fcb'[f])
      BY Zenon, <2>1, <2>2, <2>4, <2>5, <2>6, <2>7
    <3> QED BY SMTT(30), <2>8, <2>9, <3>1, OpenStep
  <2> QED BY Zenon, <2>1, <2>10 DEF Store!Step
<1> QED BY <1>1, <1>2

(* A call with an FCB in use. *)
LEMMA ActStores ==
  ASSUME Inv, Inv', NEW f \in Slot, InUse(f), NEW n, Give(f, n), n.fcb \in Fcb,
         Outcome(Enter(fcb[f]), n, Others(f))
  PROVE  Stores
<1> DEFINE e == Enter(fcb[f])
<1>0. e.dir = dir /\ e.fcb = fcb[f] /\ e.data = data /\ dir' = n.dir /\ data' = n.data
  BY Zenon DEF Enter, Give, Return
<1>1. Typed(dir, fcb) /\ Typed(dir', fcb') /\ fcb[f] \in Fcb /\ fcb[f] # Unused
  BY Zenon, InOrderNow DEF InUse, Inv, TypeOK
<1> HIDE DEF e
<1>2. CASE n.boot
  <2>1. Drops(e, n) /\ fcb' = [g \in Slot |-> Unused]
    BY Zenon, <1>2 DEF Outcome, Give, Return, e
  <2>2. data' = data
    BY Zenon, <1>0, <2>1 DEF Drops
  <2>3. Sole(dir, fcb) => Covers(dir, fcb[f])
    BY Zenon, <1>1 DEF Sole
  <2>4. Sole(dir, fcb) => \A k : \A i \in Ptr : \A b :
          b # 0 /\ Listed(dir', k, i, b) => Seen(dir, fcb, k, i, b)
    BY Zenon, <1>0, <1>1, <2>1, <2>3 DEF Drops, Shown, Seen
  <2>5. \A g \in Slot : fcb'[g] = Unused
    BY Zenon, <2>1
  <2> QED BY Zenon, <2>2, <2>4, <2>5, LessStores
<1>3. CASE ~n.boot
  <2> SUFFICES ASSUME Sole(dir, fcb)
               PROVE  /\ Sole(dir', fcb')
                      /\ Store!Step(Files(dir, fcb, data), Files(dir', fcb', data'))
    BY Zenon DEF Stores
  <2>1. Tells(e, n) \/ Wrote(e, n, Rest(fcb, f))
    <3>1. Rest(fcb, f) = Others(f)
      BY Zenon DEF Rest, Others, InUse
    <3> QED BY Zenon, <1>3, <3>1 DEF Outcome, e
  <2>2. fcb' = [fcb EXCEPT ![f] = n.fcb]
    BY Zenon, <1>3 DEF Give, Return
  <2>3. fcb'[f] = n.fcb /\ n.fcb # Unused /\ \A g \in Slot \ {f} : fcb'[g] = fcb[g]
    BY Zenon, <2>2, UnusedAssumption DEF Inv, TypeOK
  <2>4. Typed(e.dir, fcb) /\ Sole(e.dir, fcb) /\ Typed(n.dir, fcb')
    BY Zenon, <1>0, <1>1
  <2>5. /\ Sole(n.dir, fcb')
        /\ Store!Step(Files(e.dir, fcb, e.data), Files(n.dir, fcb', n.data))
    BY ZenonT(30), <1>0, <1>1, <2>1, <2>3, <2>4, ActStep
  <2> QED BY Zenon, <1>0, <2>5
<1> QED BY Zenon, <1>2, <1>3

(* A call that wrote no record, as one that may write. *)
LEMMA TellsOutcome ==
  ASSUME NEW m, NEW n, NEW O, Tells(m, n)
  PROVE  Outcome(m, n, O)
BY Zenon DEF Tells, Keeps, Shown, Drops, Outcome

(* The entries S of the file o have been given the name n. *)
LEMMA RenameStores ==
  ASSUME Inv, Inv', NEW o \in Name, NEW n \in Name, ~Exists(n), data' = data,
         NEW S \in SUBSET Used(dir), Renames(dir, dir', S, n), \A p \in S : dir[p].name = o,
         \A f \in Slot : fcb'[f] # Unused => fcb'[f] = fcb[f] /\ fcb[f].name # o
  PROVE  Stores
<1> SUFFICES ASSUME Sole(dir, fcb)
             PROVE  /\ Sole(dir', fcb')
                    /\ Store!Step(Files(dir, fcb, data), Files(dir', fcb', data'))
  BY Zenon DEF Stores
<1>1. Typed(dir, fcb) /\ Typed(dir', fcb')
  BY Zenon, InOrderNow
<1>2. \A p \in Used(dir) : dir[p].name # n
  BY Zenon DEF Exists
<1>3. Sole(dir', fcb') /\ Store!Step(Files(dir, fcb, data), Files(dir', fcb', data))
  BY Zenon, <1>1, <1>2, RenameStep
<1> QED BY Zenon, <1>3

----------------------------------------------------------------------------
(* The state before and after a call. *)

(* A call begins with the machine in order ... *)
LEMMA Entered ==
  ASSUME Inv, NEW f \in Slot, NEW x \in Fcb
  PROVE  /\ Others(f) \in SUBSET Fcb
         /\ Base(Enter(x), Others(f)) /\ Enter(x).fcb = x /\ ~Enter(x).boot
         /\ Enter(x).pos = NoPos /\ Enter(x).dir = dir /\ Enter(x).data = data
         /\ Enter(x).xfer.op = "none"
         /\ \A m : Guarded(Enter(x), m) /\ Proper(m.dir, m.xfer) => Ends(m)
<1>1. Others(f) \in SUBSET Fcb
  BY Zenon DEF Inv, TypeOK, Others, InUse
<1>2. IsMachine(Enter(x))
  <2>1. 0 \in 0..255
    OBVIOUS
  <2> QED BY Zenon, <2>1 DEF Inv, TypeOK, Enter, IsMachine
<1>3. /\ Enter(x).dir = dir /\ Enter(x).mark = mark /\ Enter(x).alv = alv
      /\ Enter(x).fcb = x /\ Enter(x).boot = FALSE /\ Enter(x).pos = NoPos
      /\ Enter(x).wp = wp /\ Enter(x).xfer.op = "none" /\ Enter(x).data = data
  BY Zenon DEF Enter, NoXfer
<1>4. \A g \in Others(f) : FcbOk(dir, alv, g)
  BY Zenon DEF Inv, Others
<1>5. Base(Enter(x), Others(f))
  BY Zenon, <1>2, <1>3, <1>4 DEF Base, Inv
<1> QED BY Zenon, <1>1, <1>3, <1>5 DEF Guarded, Ends

(* The same for a call with an FCB in use. *)
LEMMA EnteredInUse ==
  ASSUME Inv, NEW f \in Slot, InUse(f)
  PROVE  /\ fcb[f] \in Fcb /\ Others(f) \in SUBSET Fcb
         /\ Whole(Enter(fcb[f]), Others(f)) /\ ~Enter(fcb[f]).boot
         /\ Enter(fcb[f]).fcb = fcb[f] /\ Enter(fcb[f]).xfer.op = "none"
         /\ \A m : Guarded(Enter(fcb[f]), m) /\ Proper(m.dir, m.xfer) => Ends(m)
<1>1. fcb[f] \in Fcb
  BY Zenon DEF Inv, TypeOK, InUse
<1>2. /\ Others(f) \in SUBSET Fcb /\ Base(Enter(fcb[f]), Others(f))
      /\ Enter(fcb[f]).fcb = fcb[f] /\ ~Enter(fcb[f]).boot /\ Enter(fcb[f]).dir = dir
      /\ Enter(fcb[f]).xfer.op = "none"
      /\ \A m : Guarded(Enter(fcb[f]), m) /\ Proper(m.dir, m.xfer) => Ends(m)
  BY Zenon, <1>1, Entered
<1>3. \A g \in Others(f) : Apart(fcb[f], g)
  BY Zenon DEF Inv, Others
<1>4. Enter(fcb[f]).alv = alv
  BY Zenon DEF Enter
<1>5. FcbOk(dir, alv, fcb[f])
  BY DEF Inv
<1> QED BY Zenon, <1>1, <1>2, <1>3, <1>4, <1>5 DEF Whole

(* A call that transfers nothing. *)
LEMMA NoTransfer ==
  ASSUME NEW d
  PROVE  Proper(d, NoXfer)
BY Zenon DEF Proper, NoXfer

(* The program keeps the FCBs it has, or some of them. *)
LEMMA Kept ==
  ASSUME Inv, TypeOK', DirOk(dir', mark', alv'), Proper(dir', xfer'),
         \A f \in Slot : \/ fcb'[f] = Unused
                         \/ fcb'[f] = fcb[f] /\ (InUse(f) => FcbOk(dir', alv', fcb[f]))
  PROVE  Inv'
<1>1. \A f \in Slot : InUse(f)' => FcbOk(dir', alv', fcb'[f])
  BY Zenon DEF InUse
<1>2. \A f, g \in Slot : InUse(f)' /\ InUse(g)' /\ f # g => Apart(fcb'[f], fcb'[g])
  BY Zenon DEF Inv, InUse
<1> QED BY Zenon, <1>1, <1>2 DEF Inv

(* What a program passes to open or create. *)
LEMMA NewFcbType ==
  ASSUME NEW n \in Name
  PROVE  NewFcb(n) \in Fcb
<1>1. NoBlocks \in [Ptr -> Block] /\ 0 \in 0..RPE /\ 0 \in 0..EXTS - 1 /\ 0 \in 0..127
  BY AllocAssumption, BdosAssumption DEF NoBlocks, Block
<1> QED BY Zenon, <1>1 DEF NewFcb, Fcb

(* The machine of a call without an FCB, after it has written entries. *)
Has(r, d, a) ==
  /\ r.dir = d /\ r.mark = mark /\ r.alv = a /\ r.data = data /\ r.wp = wp
  /\ r.st \in 0..255 /\ r.boot = FALSE /\ r.xfer = NoXfer
  /\ Boot(r).dir = d /\ Boot(r).data = data /\ Boot(r).boot /\ Boot(r).xfer = NoXfer

(* Entries are rewritten in place. *)
LEMMA Rewritten ==
  ASSUME NEW es, NEW m, m = Enter(Unused), NEW V
  PROVE  /\ Has(Rewrite(m, es),
                [p \in Pos |-> IF p \in DOMAIN es THEN es[p] ELSE dir[p]], alv)
         /\ Has([Rewrite(m, es) EXCEPT !.alv = V],
                [p \in Pos |-> IF p \in DOMAIN es THEN es[p] ELSE dir[p]], V)
<1> DEFINE d == [p \in Pos |-> IF p \in DOMAIN es THEN es[p] ELSE dir[p]]
           q == InOrder(DOMAIN es)
           x == IF "io" \in Watch
                THEN m.io \o [k \in DOMAIN q |-> DirWritten(q[k], es[q[k]])] ELSE m.io
           s == IF DOMAIN es = {} THEN NotFound ELSE 0
           r == [m EXCEPT !.dir = d, !.io = x, !.st = s]
<1>1. Rewrite(m, es) = r
  BY DEF Rewrite, Enter
<1>2. s \in 0..255
  BY DEF NotFound
<1> HIDE DEF d, x, s
<1>3. Has(r, d, alv)
  BY <1>2 DEF Has, Enter, Boot
<1>4. Has([r EXCEPT !.alv = V], d, V)
  BY <1>2 DEF Has, Enter, Boot
<1> HIDE DEF r
<1> QED BY <1>1, <1>3, <1>4 DEF d

(* The entries of the names N that ERAFILE and CHGNAMES reach. *)
LEMMA ReachedUsed ==
  ASSUME NEW m, NEW N
  PROVE  Reached(m, N) \subseteq {p \in Used(m.dir) : m.dir[p].name \in N}
BY Zenon DEF Reached, Found, Used

(* CHGNAMES and SAVEATTR write the entries es over the entries S, those of    *)
(* the file o: they give them the name n and keep their blocks and numbers.  *)
Relabels(S, es, o, n, d1) ==
  /\ S \in SUBSET Used(dir) /\ DOMAIN es = S
  /\ \A p \in S : /\ es[p] \in Entry /\ es[p].al = dir[p].al /\ es[p].ex = dir[p].ex
                  /\ es[p].s2 = dir[p].s2 /\ es[p].name = n
  /\ \A p \in S : dir[p].name = o
  /\ \A p \in Used(dir) \ S : dir[p].name # n
  /\ d1 = [p \in Pos |-> IF p \in DOMAIN es THEN es[p] ELSE dir[p]]

(* That is a renaming ... *)
LEMMA Relabeling ==
  ASSUME Inv, NEW S, NEW es, NEW o, NEW n \in Name, NEW d1, Relabels(S, es, o, n, d1)
  PROVE  /\ d1 \in [Pos -> Entry \cup {Unused}]
         /\ Renames(dir, d1, S, n) /\ S \in SUBSET Used(dir) /\ \A p \in S : dir[p].name = o
<1> USE DEF Relabels
<1>0. dir \in [Pos -> Entry \cup {Unused}]
  BY Zenon DEF Inv, TypeOK
<1>1. d1 \in [Pos -> Entry \cup {Unused}]
  BY Zenon, <1>0 DEF Used
<1>2. Used(d1) = Used(dir)
  BY Zenon, UnusedAssumption DEF Used
<1>3. \A p \in Used(dir) : d1[p] = IF p \in S THEN es[p] ELSE dir[p]
  BY Zenon DEF Used
<1>4. Renames(dir, d1, S, n) /\ S \in SUBSET Used(dir) /\ \A p \in S : dir[p].name = o
  BY ZenonT(30), <1>2, <1>3 DEF Renames
<1> QED BY Zenon, <1>1, <1>4

(* ... and keeps the directory in order, and the FCBs of the other files. *)
LEMMA Relabelled ==
  ASSUME Inv, NEW S, NEW es, NEW o, NEW n \in Name, NEW d1, Relabels(S, es, o, n, d1)
  PROVE  /\ d1 \in [Pos -> Entry \cup {Unused}] /\ DirOk(d1, mark, alv)
         /\ \A f \in Fcb : FcbOk(dir, alv, f) /\ (o = n \/ f.name # o) => FcbOk(d1, alv, f)
<1>1. dir \in [Pos -> Entry \cup {Unused}] /\ DirOk(dir, mark, alv)
  BY Zenon DEF Inv, TypeOK
<1>2. d1 \in [Pos -> Entry \cup {Unused}]
  BY Zenon, Relabeling
<1>3. Renames(dir, d1, S, n) /\ S \in SUBSET Used(dir) /\ \A p \in S : dir[p].name = o
  BY Zenon, Relabeling
<1>4. /\ DirOk(d1, mark, alv)
      /\ \A f \in Fcb :
           FcbOk(dir, alv, f) /\ (\A p \in S : dir[p].name = n \/ dir[p].name # f.name)
             => FcbOk(d1, alv, f)
  BY ZenonT(30), <1>1, <1>3, RenameCore
<1>5. ASSUME NEW f \in Fcb, FcbOk(dir, alv, f), o = n \/ f.name # o
      PROVE  FcbOk(d1, alv, f)
  <2>1. \A p \in S : dir[p].name = n \/ dir[p].name # f.name
    BY Zenon, <1>3, <1>5
  <2> QED BY Zenon, <1>4, <1>5, <2>1
<1> QED BY Zenon, <1>2, <1>4, <1>5

(* Function 30. *)
LEMMA SettingAttr ==
  ASSUME Inv, NEW n \in Name, NEW ro \in Attr, SETATTR(n, ro)
  PROVE  Inv' /\ Untouched /\ Stores
<1> DEFINE m == Enter(Unused)
           S == Found(m, {n})
           es == [p \in S |-> [m.dir[p] EXCEPT !.ro = ro]]
           d1 == [p \in Pos |-> IF p \in DOMAIN es THEN es[p] ELSE dir[p]]
           r == Rewrite(m, es)
<1>0. m.dir = dir /\ m.mark = mark /\ m = Enter(Unused)
  BY Zenon DEF Enter
<1>1. S = {p \in Used(dir) : dir[p].name = n}
  BY Zenon, <1>0 DEF Found, Used, Inv, DirOk
<1>2. Return(r, fcb) /\ ro \in BOOLEAN
  BY ProgramAssumption DEF SETATTR, SAVEATTR
<1> HIDE DEF S, m
<1>3. DOMAIN es = S /\ \A p \in S : es[p] = [dir[p] EXCEPT !.ro = ro]
  BY <1>0
<1> HIDE DEF es
<1>4. Has(r, d1, alv)
  BY Zenon, <1>0, Rewritten
<1> HIDE DEF r
<1>5. \A p \in S : /\ es[p] \in Entry /\ es[p].al = dir[p].al /\ es[p].ex = dir[p].ex
                   /\ es[p].s2 = dir[p].s2 /\ es[p].name = n
  <2> SUFFICES ASSUME NEW p \in S
               PROVE  /\ es[p] \in Entry /\ es[p].al = dir[p].al /\ es[p].ex = dir[p].ex
                      /\ es[p].s2 = dir[p].s2 /\ es[p].name = n
    BY Zenon
  <2>1. dir[p] \in Entry /\ dir[p].name = n
    BY Zenon, <1>1 DEF Inv, TypeOK, Used
  <2> QED BY SMTT(30), <1>2, <1>3, <2>1 DEF Entry
<1>6. /\ \A p \in Used(dir) \ S : dir[p].name # n
      /\ \A p \in S : dir[p].name = n
      /\ S \in SUBSET Used(dir)
  BY <1>1
<1>7a. Relabels(S, es, n, n, d1)
  BY <1>3, <1>5, <1>6 DEF Relabels
<1>7b. ASSUME NEW p \in Pos, dir[p] # d1[p]
       PROVE  /\ dir[p] # Unused /\ d1[p] # Unused
              /\ d1[p] = [dir[p] EXCEPT !.ro = d1[p].ro]
  <2>1. p \in S /\ d1[p] = es[p]
    BY Zenon, <1>3, <1>7b
  <2>2. dir[p] \in Entry /\ dir[p] # Unused /\ d1[p] = [dir[p] EXCEPT !.ro = ro]
    BY <1>1, <1>3, <2>1 DEF Inv, TypeOK, Used
  <2>3. d1[p].ro = ro
    BY SMTT(30), <2>2 DEF Entry
  <2> QED BY <1>5, <2>1, <2>2, <2>3, UnusedAssumption
<1> HIDE DEF d1
<1>7. /\ d1 \in [Pos -> Entry \cup {Unused}] /\ DirOk(d1, mark, alv)
      /\ \A f \in Fcb : FcbOk(dir, alv, f) /\ (n = n \/ f.name # n) => FcbOk(d1, alv, f)
  BY Zenon, <1>7a, Relabelled
<1>7c. Renames(dir, d1, S, n)
  BY Zenon, <1>7a, Relabeling
<1>8. /\ dir' = d1 /\ data' = data /\ status' \in 0..255 /\ fcb' = fcb
      /\ alv' = alv /\ mark' = mark /\ wp' = wp /\ xfer' = NoXfer
  <2>1. status' \in {r.st, 0} /\ r.st \in 0..255
    BY Zenon, <1>2, <1>4 DEF Return, Has
  <2>2. status' \in 0..255
    BY SMTT(30), <2>1
  <2> QED BY Zenon, <1>2, <1>4, <2>2 DEF Return, Has
<1>9. TypeOK' /\ DirOk(dir', mark', alv')
  BY Zenon, <1>7, <1>8 DEF Inv, TypeOK
<1>10. ASSUME NEW f \in Slot, InUse(f)
       PROVE  FcbOk(dir', alv', fcb[f])
  <2>1. fcb[f] \in Fcb /\ FcbOk(dir, alv, fcb[f])
    BY Zenon, <1>10 DEF Inv, TypeOK, InUse
  <2> QED BY Zenon, <1>7, <1>8, <2>1
<1>11. Inv'
  BY Zenon, <1>8, <1>9, <1>10, NoTransfer, Kept
<1>12. Stores
  <2>1. \A p \in Used(dir) : p \in Used(dir') /\ SameKey(dir'[p], dir[p]) /\ dir'[p].al = dir[p].al
    BY Zenon, <1>6, <1>7c, <1>8 DEF Renames, SameKey
  <2>2. Used(dir') = Used(dir)
    BY Zenon, <1>7c, <1>8 DEF Renames
  <2>3. \A k : \A i \in Ptr : \A b :
          b # 0 /\ Listed(dir', k, i, b) => Seen(dir, fcb, k, i, b)
    BY Zenon, <2>1, <2>2 DEF Listed, Seen, SameKey
  <2> QED BY Zenon, <1>8, <1>11, <2>1, <2>3, LessStores DEF SameKey
<1> QED BY SMTT(30), <1>7b, <1>8, <1>11, <1>12 DEF Untouched

(* Function 28. *)
LEMMA Protecting ==
  ASSUME Inv, WRTPRTD
  PROVE  Inv' /\ Untouched /\ Stores
<1>1. /\ dir' = dir /\ data' = data /\ fcb' = fcb /\ alv' = alv /\ mark' = DIRSIZE + 1
      /\ status' = 0 /\ wp' = TRUE /\ xfer' = NoXfer
  BY DEF WRTPRTD, Return, Enter
<1>2. TypeOK'
  <2>1. wp' \in BOOLEAN
    BY <1>1
  <2>2. DIRSIZE + 1 \in 0..DIRSIZE + 4 /\ 0 \in 0..255
    BY BdosAssumption
  <2> QED BY Zenon, <1>1, <2>1, <2>2 DEF Inv, TypeOK
<1>3. \A p \in Used(dir) : p < DIRSIZE + 1
  BY BdosAssumption DEF Used, Pos
<1>4. DirOk(dir', mark', alv')
  <2>1. DirOk(dir, mark, alv)
    BY Zenon DEF Inv
  <2>2. DirOk(dir, DIRSIZE + 1, alv)
    BY Zenon, <1>3, <2>1 DEF DirOk
  <2> QED BY Zenon, <1>1, <2>2
<1>5. Inv'
  BY Zenon, <1>1, <1>2, <1>4, NoTransfer, Kept DEF Inv
<1>6. Stores
  BY Zenon, <1>1, <1>5, SameStores
<1> QED BY <1>1, <1>5, <1>6 DEF Untouched

(* The program drops an FCB. *)
LEMMA Forgetting ==
  ASSUME Inv, NEW s \in Slot, Forget(s)
  PROVE  Inv' /\ Untouched /\ Stores
<1>1. /\ dir' = dir /\ data' = data /\ fcb' = [fcb EXCEPT ![s] = Unused] /\ alv' = alv
      /\ mark' = mark /\ status' = 0 /\ wp' = wp /\ xfer' = NoXfer
  BY Zenon DEF Forget, Return, Enter
<1>2. TypeOK'
  <2>1. 0 \in 0..255
    OBVIOUS
  <2> QED BY Zenon, <1>1, <2>1 DEF Inv, TypeOK
<1>3. \A f \in Slot : fcb'[f] = Unused \/ fcb'[f] = fcb[f]
  BY Zenon, <1>1 DEF Inv, TypeOK
<1>4. Inv'
  BY Zenon, <1>1, <1>2, <1>3, NoTransfer, Kept DEF Inv
<1>5. Stores
  BY Zenon, <1>1, <1>3, <1>4, SameStores
<1> QED BY SMTT(30), <1>1, <1>4, <1>5 DEF Untouched

(* The disk begins empty, with its first blocks kept for the directory.      *)
LEMMA Beginning == Init => Inv
<1> SUFFICES ASSUME Init PROVE Inv
  OBVIOUS
<1>1. Used(dir) = {}
  BY DEF Init, Used
<1>2. TypeOK
  <2>1. 3 \in 0..DIRSIZE + 4 /\ 0 \in 0..255
    BY BdosAssumption
  <2>2. wp \in BOOLEAN
    BY Zenon DEF Init
  <2>3. DirBlocks \subseteq Block
    BY AllocAssumption DEF Block
  <2>4. data \in [Sector -> Data]
    BY Zenon, BdosAssumption DEF Init
  <2> QED BY <2>1, <2>2, <2>3, <2>4 DEF Init, TypeOK
<1>3. DirOk(dir, mark, alv)
  BY Zenon, <1>1 DEF Init, DirOk
<1> QED BY Zenon, <1>2, <1>3, NoTransfer DEF Init, Inv, InUse

============================================================================
