----------------------------- MODULE BdosProofs ----------------------------
(***************************************************************************)
(* The BDOS keeps its files apart on a disk of any size, with any number   *)
(* of files, extents and FCBs, whatever calls a program that keeps the     *)
(* rules of Bdos makes; and to a program that opens no file twice it is    *)
(* the file store of FileStore.                                            *)
(***************************************************************************)
EXTENDS BdosRecordsProofs, BdosStepProofs

----------------------------------------------------------------------------
(* Logging in. *)

(* BITMAP and the search limit fit any directory whose entries are apart. *)
LEMMA LoggedIn ==
  ASSUME NEW d \in [Pos -> Entry \cup {Unused}], NEW k, NEW a, DirOk(d, k, a)
  PROVE  /\ DirOk(d, Limit(d), BITMAP(d))
         /\ Limit(d) \in 0..DIRSIZE + 4 /\ BITMAP(d) \in SUBSET Block
<1>0. DIRSIZE \in Nat
  BY Zenon, BdosAssumption
<1>1. Limit(d) \in 3..(DIRSIZE + 4) /\ \A p \in Used(d) : p < Limit(d)
  <2> DEFINE S == {h \in 3..(DIRSIZE + 4) : \A p \in Used(d) : p < h}
             l == First(S)
  <2>1. S \in SUBSET Nat /\ DIRSIZE + 4 \in S
    BY <1>0 DEF Used, Pos
  <2>2. l \in S /\ \A y \in S : l <= y
    BY Zenon, <2>1, FirstIn
  <2> HIDE DEF l
  <2>3. l = 3 \/ l - 1 \in Used(d)
    <3> SUFFICES ASSUME l # 3, l - 1 \notin Used(d) PROVE FALSE
      BY Zenon
    <3>1. l - 1 \in 3..(DIRSIZE + 4)
      BY <1>0, <2>2
    <3>2. \A p \in Used(d) : p < l - 1
      BY <1>0, <2>2 DEF Used, Pos
    <3>3. l - 1 \in S
      BY Zenon, <3>1, <3>2
    <3> QED BY <2>2, <3>1, <3>3
  <2>4. l \in 3..(DIRSIZE + 4) /\ \A p \in Used(d) : p < l
    BY Zenon, <2>2
  <2> HIDE DEF S
  <2> QED BY <2>3, <2>4 DEF Limit
<1>2. Limit(d) \in 0..DIRSIZE + 4
  BY <1>0, <1>1
<1>3. BITMAP(d) \in SUBSET Block
  <2>1. \A p \in Used(d) : Blocks(d[p]) \subseteq Block
    BY DEF Used, Blocks, Entry
  <2> QED BY Zenon, <2>1, AllocAssumption DEF BITMAP, Block
<1>4. \A p \in Used(d) : Owned(d[p], BITMAP(d))
  <2> SUFFICES ASSUME NEW p \in Used(d), NEW i \in Ptr, d[p].al[i] # 0
               PROVE  d[p].al[i] \in BITMAP(d) /\ d[p].al[i] \notin DirBlocks
    BY DEF Owned
  <2>1. d[p].al[i] \in Blocks(d[p])
    BY DEF Blocks
  <2>2. d[p].al[i] \in BITMAP(d)
    BY <2>1 DEF BITMAP
  <2> QED BY <2>2 DEF DirOk, Owned
<1>5. DirBlocks \subseteq BITMAP(d)
  BY DEF BITMAP
<1> QED BY Zenon, <1>1, <1>2, <1>3, <1>4, <1>5 DEF DirOk

(* ... and ends with the state in order. *)
LEMMA AfterBoot ==
  ASSUME Inv, NEW k, NEW a, DirOk(dir', k, a), dir' \in [Pos -> Entry \cup {Unused}],
         data' \in [Sector -> Data], status' \in 0..255, wp' = FALSE,
         fcb' = [f \in Slot |-> Unused], alv' = BITMAP(dir'), mark' = Limit(dir'),
         Proper(dir', xfer'), wp => dir' = dir
  PROVE  Inv' /\ Untouched
<1>1. /\ DirOk(dir', mark', alv') /\ mark' \in 0..DIRSIZE + 4 /\ alv' \in SUBSET Block
  BY Zenon, LoggedIn
<1>2. TypeOK'
  BY Zenon, <1>1 DEF TypeOK
<1>3. \A f \in Slot : ~InUse(f)'
  BY Zenon DEF InUse
<1>4. Inv'
  BY <1>1, <1>2, <1>3 DEF Inv
<1> QED BY <1>4 DEF Untouched

(* A call that returns an FCB in order leaves all of them in order. *)
LEMMA Given ==
  ASSUME Inv, NEW f \in Slot, NEW m, Over(m, Others(f)), Ends(m), Give(f, m)
  PROVE  Inv' /\ Untouched
<1>0. IsMachine(m)
  BY Zenon DEF Over, Base
<1>1. /\ m.dir \in [Pos -> Entry \cup {Unused}] /\ m.data \in [Sector -> Data]
      /\ m.st \in 0..255 /\ m.mark \in 0..DIRSIZE + 4 /\ m.alv \in SUBSET Block
      /\ m.wp \in BOOLEAN /\ m.fcb \in Fcb
  BY <1>0 DEF IsMachine
<1>2. dir' = m.dir /\ data' = m.data /\ status' \in 0..255
  BY <1>1 DEF Give, Return
<1>a. Proper(dir', xfer') /\ (wp => dir' = dir)
  BY Zenon, NoTransfer DEF Give, Return, Ends
<1>3. CASE m.boot
  <2>1. /\ wp' = FALSE /\ fcb' = [g \in Slot |-> Unused]
        /\ alv' = BITMAP(dir') /\ mark' = Limit(dir')
    BY Zenon, <1>2, <1>3 DEF Give, Return
  <2>2. DirOk(dir', m.mark, m.alv)
    BY Zenon, <1>2 DEF Over, Base
  <2> QED BY Zenon, <1>1, <1>2, <1>a, <2>1, <2>2, AfterBoot
<1>4. CASE ~m.boot
  <2>1. /\ wp' = m.wp /\ fcb' = [fcb EXCEPT ![f] = m.fcb]
        /\ alv' = m.alv /\ mark' = m.mark
    BY Zenon, <1>4 DEF Give, Return
  <2>2. Whole(m, Others(f))
    BY Zenon, <1>4 DEF Over
  <2>3. TypeOK'
    BY Zenon, <1>1, <1>2, <2>1 DEF Inv, TypeOK
  <2>4. DirOk(dir', mark', alv')
    BY Zenon, <1>2, <2>1, <2>2 DEF Whole, Base
  <2>5. fcb'[f] = m.fcb /\ \A g \in Slot \ {f} : fcb'[g] = fcb[g]
    BY Zenon, <2>1 DEF Inv, TypeOK
  <2>6. \A g \in Slot \ {f} : fcb[g] # Unused => fcb[g] \in Others(f)
    BY DEF Others, InUse
  <2>7. ASSUME NEW g \in Slot, InUse(g)'
        PROVE  FcbOk(dir', alv', fcb'[g])
    <3>1. CASE g = f
      BY Zenon, <1>2, <2>1, <2>2, <2>5, <3>1 DEF Whole
    <3>2. CASE g # f
      BY Zenon, <1>2, <2>1, <2>2, <2>5, <2>6, <2>7, <3>2 DEF Whole, Base, InUse
    <3> QED BY <3>1, <3>2
  <2>8. ASSUME NEW g \in Slot, NEW h \in Slot, InUse(g)', InUse(h)', g # h
        PROVE  Apart(fcb'[g], fcb'[h])
    <3>1. CASE g = f
      BY Zenon, <2>2, <2>5, <2>6, <2>8, <3>1 DEF Whole, InUse
    <3>2. CASE h = f
      <4>1. Apart(fcb'[h], fcb'[g])
        BY Zenon, <2>2, <2>5, <2>6, <2>8, <3>2 DEF Whole, InUse
      <4> QED BY Zenon, <4>1 DEF Apart, SameKey
    <3>3. CASE g # f /\ h # f
      BY Zenon, <2>5, <2>8, <3>3 DEF Inv, InUse
    <3> QED BY Zenon, <3>1, <3>2, <3>3
  <2>9. Inv'
    BY Zenon, <1>a, <2>3, <2>4, <2>7, <2>8 DEF Inv
  <2>10. Untouched
    BY Zenon, <1>a, <2>1 DEF Untouched, Ends
  <2> QED BY Zenon, <2>9, <2>10
<1> QED BY Zenon, <1>3, <1>4

(* An FCB that could not be opened is not used. *)
LEMMA NotGiven ==
  ASSUME Inv, NEW f \in Slot, ~InUse(f), NEW m, Base(m, Others(f)), Ends(m), Return(m, fcb)
  PROVE  Inv' /\ Untouched
<1>1. /\ m.dir \in [Pos -> Entry \cup {Unused}] /\ m.data \in [Sector -> Data]
      /\ m.st \in 0..255 /\ m.mark \in 0..DIRSIZE + 4 /\ m.alv \in SUBSET Block
      /\ m.wp \in BOOLEAN
  BY Zenon DEF Base, IsMachine
<1>2. dir' = m.dir /\ data' = m.data /\ status' \in 0..255
  BY <1>1 DEF Return
<1>a. Proper(dir', xfer') /\ (wp => dir' = dir)
  BY Zenon, NoTransfer DEF Return, Ends
<1>3. CASE m.boot
  <2>1. /\ wp' = FALSE /\ fcb' = [g \in Slot |-> Unused]
        /\ alv' = BITMAP(dir') /\ mark' = Limit(dir')
    BY Zenon, <1>2, <1>3 DEF Return
  <2>2. DirOk(dir', m.mark, m.alv)
    BY Zenon, <1>2 DEF Base
  <2> QED BY Zenon, <1>1, <1>2, <1>a, <2>1, <2>2, AfterBoot
<1>4. CASE ~m.boot
  <2>1. wp' = m.wp /\ fcb' = fcb /\ alv' = m.alv /\ mark' = m.mark
    BY Zenon, <1>4 DEF Return
  <2>2. TypeOK' /\ DirOk(dir', mark', alv')
    BY Zenon, <1>1, <1>2, <2>1 DEF Inv, TypeOK, Base
  <2>3. ASSUME NEW g \in Slot, InUse(g)
        PROVE  FcbOk(dir', alv', fcb[g])
    <3>1. fcb[g] \in Others(f)
      BY Zenon, <2>3 DEF Others
    <3> QED BY Zenon, <1>2, <2>1, <3>1 DEF Base
  <2>4. Inv'
    BY Zenon, <1>a, <2>1, <2>2, <2>3, Kept
  <2> QED BY Zenon, <1>a, <2>1, <2>4 DEF Untouched, Ends
<1> QED BY Zenon, <1>3, <1>4

----------------------------------------------------------------------------
(* The calls that use an FCB. *)

(* Function 15. *)
LEMMA Opening ==
  ASSUME Inv, NEW f \in Slot, NEW n \in Name, OPENFIL(f, n)
  PROVE  Inv' /\ Untouched /\ Stores
<1> DEFINE e == Enter(NewFcb(n))
           a == FINDFST(e)
           O == Others(f)
<1>1. /\ O \in SUBSET Fcb /\ Base(e, O) /\ e.xfer.op = "none"
      /\ e.dir = dir /\ e.data = data /\ e.fcb = NewFcb(n)
      /\ \A m : Guarded(e, m) /\ Proper(m.dir, m.xfer) => Ends(m)
  BY Zenon, NewFcbType, Entered
<1>2. ~InUse(f) /\ GiveFound(f, OpenFound(a))
  BY Zenon DEF OPENFIL, OPENIT
<1> HIDE DEF e, O
<1>3. /\ IsMachine(a) /\ Alike(e, a) /\ a.fcb = e.fcb
      /\ a.pos # NoPos => a.pos \in Used(a.dir) /\ SameKey(a.dir[a.pos], a.fcb)
  BY Zenon, <1>1, FindFst DEF Alike
<1> HIDE DEF a
<1>4. Base(a, O)
  BY Zenon, <1>1, <1>3, AlikeKeeps
<1>a. \A m : Alike(a, m) => Ends(m)
  BY Zenon, <1>1, <1>3 DEF Alike, Guarded, Proper
<1>b. Extends(dir, dir) /\ Grown(dir, {}, dir)
  BY Zenon DEF Extends, Grown, SameKey
<1>c. ~Shared => \A g \in Slot \ {f} : InUse(g) => fcb[g].name # n
  BY DEF OPENFIL
<1>5. CASE a.pos = NoPos
  <2>1. Return(a, fcb)
    BY Zenon, <1>2, <1>5 DEF OpenFound, GiveFound
  <2>2. Ends(a)
    BY Zenon, <1>a DEF Alike
  <2>3. Inv' /\ Untouched
    BY Zenon, <1>2, <1>4, <2>1, <2>2, NotGiven DEF O
  <2>4. a.dir = dir /\ a.data = data
    BY Zenon, <1>1, <1>3 DEF Alike
  <2>5. Stores
    BY Zenon, <1>b, <2>1, <2>3, <2>4, NoneStores
  <2> QED BY <2>3, <2>5
<1>6. CASE a.pos # NoPos
  <2>1. /\ Whole(OPENIT1(a), O) /\ OPENIT1(a).pos = a.pos /\ Ends(OPENIT1(a))
        /\ Alike(a, OPENIT1(a)) /\ ~OPENIT1(a).fcb.stuck
        /\ SameKey(OPENIT1(a).fcb, a.fcb) /\ Fresh(a, OPENIT1(a))
    BY Zenon, <1>1, <1>3, <1>4, <1>6, <1>a, OpenIt
  <2>2. Give(f, OPENIT1(a))
    BY Zenon, <1>2, <1>6, <2>1 DEF OpenFound, GiveFound
  <2>3. Over(OPENIT1(a), O)
    BY Zenon, <2>1 DEF Over, Whole
  <2>4. Inv' /\ Untouched
    BY Zenon, <2>1, <2>2, <2>3, Given DEF O
  <2>5. /\ OPENIT1(a).dir = dir /\ OPENIT1(a).data = data
        /\ SameKey(OPENIT1(a).fcb, NewFcb(n)) /\ Fresh(e, OPENIT1(a))
    BY Zenon, <1>1, <1>3, <2>1 DEF Alike, Fresh
  <2>6. Stores
    <3> DEFINE m == OPENIT1(a)
    <3> HIDE DEF m
    <3>1. /\ Extends(dir, m.dir) /\ Grown(dir, {}, m.dir) /\ Whole(m, Others(f))
          /\ Give(f, m) /\ m.data = data /\ Fresh(Enter(NewFcb(n)), m)
          /\ SameKey(m.fcb, NewFcb(n)) /\ ~m.fcb.stuck
      BY Zenon, <1>b, <2>1, <2>2, <2>5 DEF m, O, e
    <3> QED BY Zenon, <1>c, <2>4, <3>1, OpenStores
  <2> QED BY Zenon, <2>4, <2>6
<1> QED BY Zenon, <1>5, <1>6

(* Function 22. *)
LEMMA Creating ==
  ASSUME Inv, NEW f \in Slot, NEW n \in Name, FCREATE(f, n)
  PROVE  Inv' /\ Untouched /\ Stores
<1> DEFINE e == Enter(NewFcb(n))
           g == GETEMPTY(e)
           O == Others(f)
<1>1. /\ O \in SUBSET Fcb /\ Base(e, O) /\ e.pos = NoPos /\ e.dir = dir /\ e.data = data
      /\ e.fcb = NewFcb(n)
      /\ e.xfer.op = "none" /\ \A m : Guarded(e, m) /\ Proper(m.dir, m.xfer) => Ends(m)
  BY Zenon, NewFcbType, Entered
<1>2. ~InUse(f) /\ GiveFound(f, g) /\ ~Exists(n)
  BY Zenon DEF FCREATE
<1>3. \A q \in Used(e.dir) : ~SameKey(e.dir[q], e.fcb)
  BY <1>1, <1>2 DEF Exists, SameKey, NewFcb
<1> HIDE DEF e, O
<1>4. /\ Base(g, O) /\ Moves(e, {}, g)
      /\ g.pos # NoPos => /\ Whole(g, O) /\ ~g.fcb.stuck
                          /\ SameKey(g.fcb, e.fcb) /\ Fresh(e, g)
  BY ZenonT(30), <1>1, <1>3, GetEmpty
<1> HIDE DEF g
<1>a. Ends(g)
  BY Zenon, <1>1, <1>4 DEF Moves, Guarded, Proper
<1>b. Extends(dir, g.dir) /\ Grown(dir, {}, g.dir) /\ g.data = data
  BY Zenon, <1>1, <1>4 DEF Moves
<1>5. CASE g.pos = NoPos
  <2>1. Return(g, fcb)
    BY Zenon, <1>2, <1>5 DEF GiveFound
  <2>2. Inv' /\ Untouched
    BY Zenon, <1>2, <1>4, <1>a, <2>1, NotGiven DEF O
  <2>3. Stores
    BY Zenon, <1>b, <2>1, <2>2, NoneStores
  <2> QED BY Zenon, <2>2, <2>3
<1>6. CASE g.pos # NoPos
  <2>1. Give(f, g) /\ Over(g, O)
    BY Zenon, <1>2, <1>4, <1>6 DEF GiveFound, Over
  <2>2. Inv' /\ Untouched
    BY Zenon, <1>a, <2>1, Given DEF O
  <2>3. Sole(dir, fcb) => \A h \in Slot \ {f} : InUse(h) => fcb[h].name # n
    BY Zenon, <1>2 DEF Exists, Sole, Named, InUse
  <2>4. /\ Whole(g, Others(f)) /\ Fresh(Enter(NewFcb(n)), g) /\ SameKey(g.fcb, NewFcb(n))
        /\ ~g.fcb.stuck
    BY Zenon, <1>1, <1>4, <1>6 DEF O, e
  <2>5. Stores
    BY Zenon, <1>b, <2>1, <2>2, <2>3, <2>4, OpenStores
  <2> QED BY Zenon, <2>2, <2>5
<1> QED BY Zenon, <1>5, <1>6

(* Functions 16, 20 and 21. *)
LEMMA Sequentially ==
  ASSUME Inv, NEW f \in Slot, NEW v \in Data, CLOSEFIL(f) \/ READSEQ(f) \/ WRTSEQ(f, v)
  PROVE  Inv' /\ Untouched /\ Stores
<1> DEFINE e == Enter(fcb[f])
           O == Others(f)
<1>0. InUse(f)
  BY Zenon DEF CLOSEFIL, READSEQ, WRTSEQ, Sequential
<1>1. /\ O \in SUBSET Fcb /\ Whole(e, O) /\ e.fcb = fcb[f] /\ ~e.boot /\ e.xfer.op = "none"
      /\ \A m : Guarded(e, m) /\ Proper(m.dir, m.xfer) => Ends(m)
  BY Zenon, <1>0, EnteredInUse
<1>2. PICK n : Give(f, n) /\ \/ n = CLOSEIT(e)
                             \/ n = RDSEQ1(e, 1) /\ Sequential(f)
                             \/ n = WTSEQ1(e, 1, v) /\ Sequential(f)
  BY Zenon DEF CLOSEFIL, READSEQ, WRTSEQ
<1> HIDE DEF e, O
<1>3. Sequential(f) => e.fcb.s2 # Lost /\ Counted(e.fcb)
  <2>1. S2S \in 1..16 /\ fcb[f].s2 \in 0..127
    BY Zenon, <1>0, BdosAssumption DEF Inv, TypeOK, InUse, Fcb
  <2> QED BY SMTT(30), <1>1, <2>1 DEF Sequential, Counted
<1>4. Over(n, O) /\ Guarded(e, n) /\ Proper(n.dir, n.xfer) /\ Outcome(e, n, O)
  <2>1. CASE n = CLOSEIT(e)
    <3>1. Whole(n, O) /\ Moves(e, {e.fcb}, n) /\ Tells(e, n)
      BY Zenon, <1>1, <2>1, CloseIt
    <3> QED BY Zenon, <1>1, <3>1, TellsOutcome DEF Over, Whole, Moves, Guarded, Proper
  <2>2. CASE n = RDSEQ1(e, 1) /\ Sequential(f)
    <3>1. Whole(n, O) /\ Guarded(e, n) /\ Proper(n.dir, n.xfer) /\ Tells(e, n)
      BY ZenonT(30), <1>1, <1>3, <2>2, RdSeq1
    <3> QED BY Zenon, <3>1, TellsOutcome DEF Over, Whole
  <2>3. CASE n = WTSEQ1(e, 1, v) /\ Sequential(f)
    <3>1. 1 \in {0, 1, 2}
      BY Zenon
    <3> QED BY ZenonT(30), <1>1, <1>3, <2>3, <3>1, WtSeq1
  <2> QED BY Zenon, <1>2, <2>1, <2>2, <2>3
<1>5. Ends(n)
  BY Zenon, <1>1, <1>4
<1>6. Inv' /\ Untouched
  BY Zenon, <1>2, <1>4, <1>5, Given DEF O
<1>7. n.fcb \in Fcb /\ Give(f, n) /\ Outcome(Enter(fcb[f]), n, Others(f))
  BY Zenon, <1>2, <1>4 DEF Over, Base, IsMachine, O, e
<1>8. Stores
  BY Zenon, <1>0, <1>6, <1>7, ActStores
<1> QED BY Zenon, <1>6, <1>8

(* Functions 33, 34 and 40. *)
LEMMA Accessing ==
  ASSUME Inv, NEW f \in Slot, NEW r \in Random, NEW v \in Data,
         RDRANDOM(f, r) \/ WTRANDOM(f, r, v) \/ WTSPECL(f, r, v)
  PROVE  Inv' /\ Untouched /\ Stores
<1> DEFINE e == Enter(fcb[f])
           O == Others(f)
<1>0. InUse(f) /\ ~fcb[f].stuck /\ r \in 0..MaxRec
  BY Zenon, ProgramAssumption DEF RDRANDOM, WTRANDOM, WTSPECL, Randomly
<1>1. /\ O \in SUBSET Fcb /\ Whole(e, O) /\ e.fcb = fcb[f] /\ ~e.boot /\ e.xfer.op = "none"
      /\ \A m : Guarded(e, m) /\ Proper(m.dir, m.xfer) => Ends(m)
  BY Zenon, <1>0, EnteredInUse
<1>2. PICK n : Give(f, n) /\ \/ n = READRAN(e, r)
                             \/ \E mode \in {0, 1, 2} : n = WRITERAN(e, r, mode, v)
  BY Zenon DEF RDRANDOM, WTRANDOM, WTSPECL
<1> HIDE DEF e, O
<1>3. Over(n, O) /\ Guarded(e, n) /\ Proper(n.dir, n.xfer) /\ Outcome(e, n, O)
  <2>1. CASE n = READRAN(e, r)
    <3>1. Over(n, O) /\ Guarded(e, n) /\ Proper(n.dir, n.xfer) /\ Tells(e, n)
      BY Zenon, <1>0, <1>1, <2>1, RandomRead
    <3> QED BY Zenon, <3>1, TellsOutcome
  <2>2. ASSUME NEW mode \in {0, 1, 2}, n = WRITERAN(e, r, mode, v)
        PROVE  Over(n, O) /\ Guarded(e, n) /\ Proper(n.dir, n.xfer) /\ Outcome(e, n, O)
    BY ZenonT(30), <1>0, <1>1, <2>2, RandomWrite
  <2> QED BY SMTT(30), <1>2, <2>1, <2>2
<1>4. Ends(n)
  BY Zenon, <1>1, <1>3
<1>5. Inv' /\ Untouched
  BY Zenon, <1>2, <1>3, <1>4, Given DEF O
<1>6. n.fcb \in Fcb /\ Give(f, n) /\ Outcome(Enter(fcb[f]), n, Others(f))
  BY Zenon, <1>2, <1>3 DEF Over, Base, IsMachine, O, e
<1>7. Stores
  BY Zenon, <1>0, <1>5, <1>6, ActStores
<1> QED BY Zenon, <1>5, <1>7

----------------------------------------------------------------------------
(* The calls that go over the directory. *)

(* A warm boot forgets the FCBs and logs the drive in again. *)
LEMMA WarmBooted ==
  ASSUME Inv, NEW m, NEW fs, Return(m, fs), m.boot, m.data = data, NEW k, NEW a,
         DirOk(m.dir, k, a), m.dir \in [Pos -> Entry \cup {Unused}],
         m.xfer = NoXfer, wp => m.dir = dir
  PROVE  Inv' /\ Untouched
<1>1. /\ dir' = m.dir /\ data' = data /\ status' = 0 /\ wp' = FALSE
      /\ fcb' = [g \in Slot |-> Unused] /\ alv' = BITMAP(m.dir) /\ mark' = Limit(m.dir)
      /\ xfer' = NoXfer
  BY Zenon DEF Return
<1>2. status' \in 0..255 /\ data' \in [Sector -> Data]
  BY <1>1 DEF Inv, TypeOK
<1> QED BY Zenon, <1>1, <1>2, NoTransfer, AfterBoot

(* Control-C, and the error exits that change nothing. *)
LEMMA Booting ==
  ASSUME Inv, NEW fs, Return(Boot(Enter(Unused)), fs)
  PROVE  Inv' /\ Untouched /\ Stores
<1> DEFINE m == Boot(Enter(Unused))
<1>1. m.dir = dir /\ m.boot /\ m.data = data /\ m.xfer = NoXfer
  BY Zenon DEF Boot, Enter
<1>2. DirOk(m.dir, mark, alv) /\ m.dir \in [Pos -> Entry \cup {Unused}]
  BY Zenon, <1>1 DEF Inv, TypeOK
<1> HIDE DEF m
<1>3. Return(m, fs)
  BY Zenon DEF m
<1>4. Inv' /\ Untouched
  BY Zenon, <1>1, <1>2, <1>3, WarmBooted
<1>5. Stores
  <2>1. Grown(dir, {}, m.dir)
    BY Zenon, <1>1 DEF Grown, SameKey
  <2> QED BY Zenon, <1>1, <1>3, <1>4, <2>1, BootStores
<1> QED BY Zenon, <1>4, <1>5

(* Function 19. *)
LEMMA Erasing ==
  ASSUME Inv, NEW N \in SUBSET Name, DELFILE(N)
  PROVE  Inv' /\ Untouched /\ Stores
<1> DEFINE m == Enter(Unused)
           S == Reached(m, N)
           es == [p \in S |-> Unused]
           a1 == alv \ UNION {Blocks(dir[p]) : p \in S}
           d1 == [p \in Pos |-> IF p \in S THEN Unused ELSE dir[p]]
<1>0. m.dir = dir /\ m.wp = wp /\ m.alv = alv
  BY Zenon DEF Enter
<1>1. S \subseteq {p \in Used(dir) : dir[p].name \in N}
  BY Zenon, <1>0, ReachedUsed
<1> DEFINE r == [Rewrite(m, es) EXCEPT !.alv = a1]
<1>2. Has(r, d1, a1)
  <2>1. [p \in Pos |-> IF p \in DOMAIN es THEN es[p] ELSE dir[p]] = d1
    BY Zenon
  <2> HIDE DEF es, d1, a1
  <2>2. m = Enter(Unused)
    OBVIOUS
  <2> HIDE DEF m
  <2> QED BY Zenon, <2>1, <2>2, Rewritten
<1>3. ERAFILE(m, N) = Boot(m) \/ (ERAFILE(m, N) \in {Boot(r), r} /\ ~wp)
  <2>1. Rewrite(m, es).alv = alv
    <3> HIDE DEF es
    <3> QED BY ZenonT(30), Rewritten DEF Has
  <2>2. [Rewrite(m, es) EXCEPT !.alv = @ \ UNION {Blocks(m.dir[p]) : p \in S}] = r
    BY Zenon, <1>0, <2>1
  <2> DEFINE z == [Rewrite(m, es) EXCEPT !.alv = @ \ UNION {Blocks(m.dir[p]) : p \in S}]
  <2>3. ERAFILE(m, N) = Boot(m) \/ (ERAFILE(m, N) \in {Boot(z), z} /\ ~m.wp)
    BY Zenon DEF ERAFILE
  <2> QED BY <1>0, <2>2, <2>3
<1>4. Return(ERAFILE(m, N), Without(N))
  BY DEF DELFILE
<1> HIDE DEF m, S, es, r
<1>5. /\ DirOk(d1, mark, a1) /\ d1 \in [Pos -> Entry \cup {Unused}] /\ a1 \in SUBSET Block
      /\ \A f \in Fcb : FcbOk(dir, alv, f) /\ (\A p \in S : dir[p].name # f.name)
                          => FcbOk(d1, a1, f)
  <2>1. S \in SUBSET Used(dir)
    BY Zenon, <1>1
  <2>2. d1 \in [Pos -> Entry \cup {Unused}] /\ a1 \in SUBSET Block
    BY Zenon DEF Inv, TypeOK
  <2>3. DirOk(dir, mark, alv) /\ dir \in [Pos -> Entry \cup {Unused}]
    BY Zenon DEF Inv, TypeOK
  <2>4. Erased(dir, alv, S, d1, a1)
    BY DEF Erased
  <2> HIDE DEF d1, a1
  <2>5. /\ DirOk(d1, mark, a1)
        /\ \A f \in Fcb : FcbOk(dir, alv, f) /\ (\A p \in S : dir[p].name # f.name)
                            => FcbOk(d1, a1, f)
    BY <2>1, <2>3, <2>4, EraseCore, Zenon
  <2> QED BY Zenon, <2>2, <2>5
<1>b. /\ Grown(dir, {}, d1)
      /\ \A p \in Used(dir) : dir[p].name \notin N => p \in Used(d1) /\ d1[p].name = dir[p].name
  BY Zenon, <1>1 DEF Grown, Used, SameKey
<1> HIDE DEF d1, a1
<1>6. CASE ERAFILE(m, N) = Boot(m)
  BY Zenon, <1>4, <1>6, Booting DEF m
<1>7. CASE ERAFILE(m, N) = Boot(r) /\ ~wp
  <2>1. Boot(r).dir = d1 /\ Boot(r).boot /\ Boot(r).data = data /\ Boot(r).xfer = NoXfer
    BY Zenon, <1>2 DEF Has
  <2>2. Return(Boot(r), Without(N))
    BY Zenon, <1>4, <1>7
  <2>3. Inv' /\ Untouched
    BY Zenon, <1>5, <1>7, <2>1, <2>2, WarmBooted
  <2>4. Grown(dir, {}, Boot(r).dir)
    BY Zenon, <1>b, <2>1
  <2>5. Stores
    BY Zenon, <2>1, <2>2, <2>3, <2>4, BootStores
  <2> QED BY Zenon, <2>3, <2>5
<1>8. CASE ERAFILE(m, N) = r /\ ~wp
  <2>1. /\ dir' = d1 /\ data' = data /\ status' \in 0..255 /\ fcb' = Without(N)
        /\ alv' = a1 /\ mark' = mark /\ wp' = wp /\ xfer' = NoXfer
    <3>1. Return(r, Without(N))
      BY Zenon, <1>4, <1>8
    <3>2. status' \in {r.st, 0} /\ r.st \in 0..255
      BY Zenon, <1>2, <3>1 DEF Return, Has
    <3>3. status' \in 0..255
      BY Zenon, <3>2, ZeroStatus
    <3> QED BY Zenon, <1>2, <3>1, <3>3 DEF Return, Has
  <2>2. Without(N) \in [Slot -> Fcb \cup {Unused}]
    BY Zenon DEF Inv, TypeOK, Without
  <2>3. TypeOK' /\ DirOk(dir', mark', alv')
    BY Zenon, <1>5, <2>1, <2>2 DEF Inv, TypeOK
  <2>4. ASSUME NEW f \in Slot
        PROVE  \/ fcb'[f] = Unused
               \/ fcb'[f] = fcb[f] /\ (InUse(f) => FcbOk(dir', alv', fcb[f]))
    <3>1. CASE InUse(f) /\ fcb[f].name \in N
      BY Zenon, <2>1, <3>1 DEF Without
    <3>2. CASE ~InUse(f)
      BY Zenon, <2>1, <3>2 DEF Without, InUse
    <3>3. CASE InUse(f) /\ fcb[f].name \notin N
      <4>1. fcb'[f] = fcb[f]
        BY Zenon, <2>1, <3>3 DEF Without
      <4>2. fcb[f] \in Fcb /\ FcbOk(dir, alv, fcb[f])
        BY Zenon, <3>3 DEF Inv, TypeOK, InUse
      <4>3. \A p \in S : dir[p].name # fcb[f].name
        BY Zenon, <1>1, <3>3
      <4> QED BY Zenon, <1>5, <2>1, <4>1, <4>2, <4>3
    <3> QED BY Zenon, <3>1, <3>2, <3>3
  <2>5. Inv'
    BY Zenon, <2>1, <2>3, <2>4, NoTransfer, Kept
  <2>6. Stores
    <3>1. \A k : \A i \in Ptr : \A b :
            b # 0 /\ Listed(dir', k, i, b) => Seen(dir, fcb, k, i, b)
      BY Zenon, <1>b, <2>1, GrownSeen
    <3>2. ASSUME NEW f \in Slot, fcb'[f] # Unused
          PROVE  fcb'[f] = fcb[f] /\ fcb[f].name \notin N
      BY Zenon, <2>1, <3>2 DEF Without, InUse
    <3> QED BY Zenon, <1>b, <2>1, <2>5, <3>1, <3>2, LessStores
  <2> QED BY Zenon, <1>8, <2>5, <2>6 DEF Untouched
<1> QED BY Zenon, <1>3, <1>6, <1>7, <1>8

(* Function 23, to a name that is not in use. *)
LEMMA Renaming ==
  ASSUME Inv, NEW o \in Name, NEW n \in Name, RENFILE(o, n)
  PROVE  Inv' /\ Untouched /\ Stores
<1> DEFINE m == Enter(Unused)
           S == Reached(m, {o})
           es == [p \in S |-> [m.dir[p] EXCEPT !.name = n, !.ro = FALSE]]
           d1 == [p \in Pos |-> IF p \in DOMAIN es THEN es[p] ELSE dir[p]]
           r == Rewrite(m, es)
<1>0. m.dir = dir /\ m.wp = wp /\ m = Enter(Unused)
  BY Zenon DEF Enter
<1>1. S \subseteq {p \in Used(dir) : dir[p].name = o}
  BY <1>0, ReachedUsed
<1>2. CHGNAMES(m, o, n) = Boot(m) \/ (CHGNAMES(m, o, n) \in {Boot(r), r} /\ ~wp)
  BY Zenon, <1>0 DEF CHGNAMES
<1>3. Return(CHGNAMES(m, o, n), Without({o})) /\ ~Exists(n)
  BY Zenon DEF RENFILE
<1> HIDE DEF S, m
<1>4. DOMAIN es = S /\ \A p \in S : es[p] = [dir[p] EXCEPT !.name = n, !.ro = FALSE]
  BY <1>0
<1> HIDE DEF es
<1>5. Has(r, d1, alv)
  BY Zenon, <1>0, Rewritten
<1> HIDE DEF r
<1>6. \A p \in S : /\ es[p] \in Entry /\ es[p].al = dir[p].al /\ es[p].ex = dir[p].ex
                   /\ es[p].s2 = dir[p].s2 /\ es[p].name = n
  <2> SUFFICES ASSUME NEW p \in S
               PROVE  /\ es[p] \in Entry /\ es[p].al = dir[p].al /\ es[p].ex = dir[p].ex
                      /\ es[p].s2 = dir[p].s2 /\ es[p].name = n
    BY Zenon
  <2>1. dir[p] \in Entry
    BY Zenon, <1>1 DEF Inv, TypeOK, Used
  <2> QED BY ZenonT(30), <1>4, <2>1 DEF Entry
<1>7. /\ \A p \in Used(dir) \ S : dir[p].name # n
      /\ \A p \in S : dir[p].name = o
      /\ S \in SUBSET Used(dir)
  BY Zenon, <1>1, <1>3 DEF Exists
<1>8a. Relabels(S, es, o, n, d1)
  BY Zenon, <1>4, <1>6, <1>7 DEF Relabels
<1> HIDE DEF d1
<1>8. /\ d1 \in [Pos -> Entry \cup {Unused}] /\ DirOk(d1, mark, alv)
      /\ \A f \in Fcb : FcbOk(dir, alv, f) /\ (o = n \/ f.name # o) => FcbOk(d1, alv, f)
  BY Zenon, <1>8a, Relabelled
<1>8b. Renames(dir, d1, S, n)
  BY Zenon, <1>8a, Relabeling
<1>9. CASE CHGNAMES(m, o, n) = Boot(m)
  BY Zenon, <1>3, <1>9, Booting DEF m
<1>10. CASE CHGNAMES(m, o, n) = Boot(r) /\ ~wp
  <2>1. Boot(r).dir = d1 /\ Boot(r).boot /\ Boot(r).data = data /\ Boot(r).xfer = NoXfer
    BY Zenon, <1>5 DEF Has
  <2>2. Return(Boot(r), Without({o}))
    BY Zenon, <1>3, <1>10
  <2>3. Inv' /\ Untouched
    BY Zenon, <1>8, <1>10, <2>1, <2>2, WarmBooted
  <2>4. dir' = d1 /\ data' = data /\ fcb' = [g \in Slot |-> Unused]
    BY Zenon, <2>1, <2>2 DEF Return
  <2>5. Stores
    BY Zenon, <1>3, <1>7, <1>8b, <2>3, <2>4, RenameStores
  <2> QED BY Zenon, <2>3, <2>5
<1>11. CASE CHGNAMES(m, o, n) = r /\ ~wp
  <2>1. /\ dir' = d1 /\ data' = data /\ status' \in 0..255 /\ fcb' = Without({o})
        /\ alv' = alv /\ mark' = mark /\ wp' = wp /\ xfer' = NoXfer
    <3>1. Return(r, Without({o}))
      BY Zenon, <1>3, <1>11
    <3>2. status' \in {r.st, 0} /\ r.st \in 0..255
      BY Zenon, <3>1, <1>5 DEF Return, Has
    <3>3. status' \in 0..255
      BY Zenon, <3>2, ZeroStatus
    <3> QED BY Zenon, <3>1, <3>3, <1>5 DEF Return, Has
  <2>2. Without({o}) \in [Slot -> Fcb \cup {Unused}]
    BY Zenon DEF Inv, TypeOK, Without
  <2>3. TypeOK' /\ DirOk(dir', mark', alv')
    BY Zenon, <1>8, <2>1, <2>2 DEF Inv, TypeOK
  <2>4. ASSUME NEW f \in Slot
        PROVE  \/ fcb'[f] = Unused
               \/ fcb'[f] = fcb[f] /\ (InUse(f) => FcbOk(dir', alv', fcb[f]))
    <3>1. CASE InUse(f) /\ fcb[f].name = o
      BY Zenon, <2>1, <3>1 DEF Without
    <3>2. CASE ~InUse(f)
      BY Zenon, <2>1, <3>2 DEF Without, InUse
    <3>3. CASE InUse(f) /\ fcb[f].name # o
      <4>1. fcb'[f] = fcb[f]
        BY Zenon, <2>1, <3>3 DEF Without
      <4>2. fcb[f] \in Fcb /\ FcbOk(dir, alv, fcb[f])
        BY Zenon, <3>3 DEF Inv, TypeOK, InUse
      <4> QED BY Zenon, <1>8, <2>1, <3>3, <4>1, <4>2
    <3> QED BY Zenon, <3>1, <3>2, <3>3
  <2>5. Inv'
    BY Zenon, <2>1, <2>3, <2>4, NoTransfer, Kept
  <2>6. \A f \in Slot : fcb'[f] # Unused => fcb'[f] = fcb[f] /\ fcb[f].name # o
    BY Zenon, <2>1 DEF Without, InUse
  <2>7. Stores
    BY Zenon, <1>3, <1>7, <1>8b, <2>1, <2>5, <2>6, RenameStores
  <2> QED BY Zenon, <1>11, <2>5, <2>7 DEF Untouched
<1> QED BY Zenon, <1>2, <1>9, <1>10, <1>11

(* The allocation map made from the directory holds the blocks of an FCB     *)
(* whose pointers are all in its entry.                                      *)
LEMMA Resetting ==
  ASSUME Inv, RSTDSK
  PROVE  Inv' /\ Untouched /\ Stores
<1>1. /\ dir' = dir /\ data' = data /\ fcb' = fcb /\ alv' = BITMAP(dir)
      /\ mark' = Limit(dir) /\ status' = 0 /\ wp' = FALSE /\ xfer' = NoXfer
  BY Zenon DEF RSTDSK, Return, Enter
<1>2. dir \in [Pos -> Entry \cup {Unused}] /\ DirOk(dir, mark, alv)
  BY Zenon DEF Inv, TypeOK
<1>3. /\ DirOk(dir, Limit(dir), BITMAP(dir))
      /\ Limit(dir) \in 0..DIRSIZE + 4 /\ BITMAP(dir) \in SUBSET Block
  BY Zenon, <1>2, LoggedIn
<1>4. TypeOK'
  <2>1. wp' \in BOOLEAN
    BY Zenon, <1>1
  <2>2. 0 \in 0..255
    OBVIOUS
  <2> QED BY Zenon, <1>1, <1>3, <2>1, <2>2 DEF Inv, TypeOK
<1>5. ASSUME NEW f \in Slot, InUse(f)
      PROVE  FcbOk(dir, BITMAP(dir), fcb[f])
  <2>1. fcb[f] \in Fcb /\ FcbOk(dir, alv, fcb[f])
    BY Zenon, <1>5 DEF Inv, TypeOK, InUse
  <2>2. CASE ~Live(fcb[f])
    BY Zenon, <2>1, <2>2 DEF FcbOk
  <2>3. CASE Live(fcb[f])
    <3>0. InDirectory(f)
      BY Zenon, <1>5, <2>3 DEF RSTDSK, Live
    <3>1. PICK p \in Used(dir) : \A i \in Ptr : fcb[f].al[i] \in {0, dir[p].al[i]}
      BY Zenon, <3>0 DEF InDirectory
    <3>2. Owned(dir[p], BITMAP(dir))
      BY Zenon, <1>3 DEF DirOk
    <3>3. Owned(fcb[f], BITMAP(dir))
      BY Zenon, <3>1, <3>2 DEF Owned
    <3> QED BY Zenon, <2>1, <2>3, <3>3 DEF FcbOk, Fits
  <2> QED BY SMTT(30), <2>2, <2>3
<1>6. Inv'
  BY Zenon, <1>1, <1>3, <1>4, <1>5, NoTransfer, Kept
<1>7. Stores
  BY Zenon, <1>1, <1>6, SameStores
<1> QED BY Zenon, <1>1, <1>6, <1>7 DEF Untouched

(* Every call of the BDOS keeps the invariant, protected drives, and what    *)
(* the file store promises.                                                  *)
LEMMA Calls == Inv /\ [Next]_vars => Inv' /\ [Untouched]_vars /\ Stores
<1> SUFFICES ASSUME Inv, [Next]_vars PROVE Inv' /\ [Untouched]_vars /\ Stores
  BY Zenon
<1>1. ASSUME NEW f \in Slot, NEW n \in Name, OPENFIL(f, n)
      PROVE  Inv' /\ Untouched /\ Stores
  BY <1>1, Opening
<1>2. ASSUME NEW f \in Slot, NEW n \in Name, FCREATE(f, n)
      PROVE  Inv' /\ Untouched /\ Stores
  BY Zenon, <1>2, Creating
<1>3. ASSUME NEW f \in Slot, NEW v \in Data,
             CLOSEFIL(f) \/ READSEQ(f) \/ WRTSEQ(f, v)
      PROVE  Inv' /\ Untouched /\ Stores
  BY Zenon, <1>3, Sequentially
<1>4. ASSUME NEW f \in Slot, NEW r \in Random, NEW v \in Data,
             RDRANDOM(f, r) \/ WTRANDOM(f, r, v) \/ WTSPECL(f, r, v)
      PROVE  Inv' /\ Untouched /\ Stores
  BY Zenon, <1>4, Accessing
<1>5. CASE Access
  <2>1. \E v \in Data : TRUE
    BY Zenon, BdosAssumption
  <2> QED BY Zenon, <1>1, <1>2, <1>3, <1>4, <1>5, <2>1 DEF Access
<1>6. CASE Upkeep
  BY Zenon, <1>6, Forgetting, Erasing, Renaming, SettingAttr, Protecting, Resetting, Booting
     DEF Upkeep, WarmBoot
<1>7. CASE UNCHANGED vars
  <2>1. Inv'
    BY Zenon, <1>7 DEF vars, Inv, TypeOK, InUse
  <2>2. dir' = dir /\ data' = data /\ fcb' = fcb
    BY Zenon, <1>7 DEF vars
  <2> QED BY Zenon, <1>7, <2>1, <2>2, SameStores
<1> QED BY Zenon, <1>5, <1>6, <1>7 DEF Next

----------------------------------------------------------------------------
(* The invariant holds in every state the BDOS can reach. *)
THEOREM BdosInvariant == Spec => []Inv
<1>1. Init => Inv
  BY Zenon, Beginning
<1>2. Inv /\ [Next]_vars => Inv'
  BY Calls
<1> QED BY <1>1, <1>2, PTL DEF Spec

(* A record is read from, or written to, a block of its own extent, also     *)
(* when the call has moved on to the next one (RDSEQ1, WTSEQ1, GETNEXT).     *)
THEOREM BdosTransferInside == Spec => []TransferInside
<1>1. Inv => TransferInside
  BY Zenon DEF Inv, Proper, TransferInside
<1> QED BY <1>1, BdosInvariant, PTL

(* A read transfers only records of extents that have a directory entry,     *)
(* after every way GETNEXT and POSITION may end.                             *)
THEOREM BdosReadsWrittenSpace == Spec => []ReadsWrittenSpace
<1>1. Inv => ReadsWrittenSpace
  BY Zenon DEF Inv, Proper, ReadsWrittenSpace
<1> QED BY <1>1, BdosInvariant, PTL

(* CLOSEIT may return early on an FCB whose bit 7 of s2 is set: the entry of *)
(* its extent is in the directory, with all of its blocks, whatever was done *)
(* through the other FCBs since.                                             *)
THEOREM BdosUnmodifiedIsSaved == Spec => []UnmodifiedIsSaved
<1>1. Inv => UnmodifiedIsSaved
  <2> SUFFICES ASSUME Inv, NEW f \in Slot, InUse(f), fcb[f].unmod, ~fcb[f].stuck,
                      fcb[f].s2 # Lost
               PROVE  InDirectory(f)
    BY Zenon DEF UnmodifiedIsSaved
  <2>1. Saved(dir, fcb[f])
    BY Zenon DEF Inv, FcbOk, Live
  <2> QED BY Zenon, <2>1 DEF Saved, InDirectory, Matches, SameKey, Used
<1> QED BY <1>1, BdosInvariant, PTL

(* On a protected drive no call but SETATTR changes an entry, and that one   *)
(* its attribute only; the allocation map changes only with a reset that     *)
(* ends the protection (CLOSEIT, GETEMPTY, WTSEQ1, ERAFILE, CHGNAMES).       *)
THEOREM BdosProtectedUntouched == Spec => ProtectedUntouched
<1>1. Inv /\ [Next]_vars => [Untouched]_vars
  BY Zenon, Calls
<1> QED BY <1>1, BdosInvariant, PTL DEF Spec, ProtectedUntouched, Untouched

(* Every state of the BDOS is well formed: directory, allocation map and     *)
(* FCBs keep their types through every call.                                 *)
THEOREM BdosTypeCorrect == Spec => []TypeOK
<1>1. Inv => TypeOK
  BY Zenon DEF Inv
<1> QED BY <1>1, BdosInvariant, PTL

(* No two pointers of the directory name one block: whatever the program     *)
(* does with its FCBs, an erase frees the blocks of its own files only.      *)
THEOREM BdosNoSharedBlocks == Spec => []NoSharedBlocks
<1>1. Inv => NoSharedBlocks
  BY Zenon DEF Inv, DirOk, NoSharedBlocks
<1> QED BY <1>1, BdosInvariant, PTL

(* FNDSPACE never hands out a block of a file: the blocks of the directory's *)
(* entries and of the FCBs the program may write through are all marked.     *)
THEOREM BdosNothingUsedIsFree == Spec => []NothingUsedIsFree
<1>1. Inv => NothingUsedIsFree
  <2> SUFFICES ASSUME Inv PROVE NothingUsedIsFree
    BY Zenon
  <2>1. \A p \in Used(dir) : Blocks(dir[p]) \subseteq alv
    BY DEF Inv, DirOk, Owned, Blocks
  <2>2. ASSUME NEW f \in Slot, InUse(f), ~fcb[f].stuck, fcb[f].s2 # Lost
        PROVE  Blocks(fcb[f]) \subseteq alv
    <3>1. Owned(fcb[f], alv)
      BY Zenon, <2>2 DEF Inv, FcbOk, Fits, Live
    <3> QED BY <3>1 DEF Owned, Blocks
  <2>3. DirBlocks \subseteq alv
    BY Zenon DEF Inv, DirOk
  <2> QED BY Zenon, <2>1, <2>2, <2>3 DEF NothingUsedIsFree
<1> QED BY <1>1, BdosInvariant, PTL

(* An extent has one directory entry, below the limit at which FINDNXT ends  *)
(* its search, however often the drive was reset or protected in between.    *)
THEOREM BdosOneEntryPerExtent == Spec => []OneEntryPerExtent
<1>1. Inv => OneEntryPerExtent
  BY Zenon DEF Inv, DirOk, SameKey, Matches, OneEntryPerExtent, Used
<1> QED BY <1>1, BdosInvariant, PTL

(* While no file is open through two FCBs, the BDOS implements the file      *)
(* store: READSEQ, WRTSEQ, the random functions, CLOSEIT, GETNEXT, the       *)
(* erase, rename and attribute functions, resets and warm boots change no    *)
(* record that a file has but the one a write is about; the file written may *)
(* also get what the other sectors of a new block hold.  Whatever else they  *)
(* do, records only disappear or move to another name.                       *)
THEOREM BdosImplementsStore ==
  ASSUME ~Shared
  PROVE  Spec => StoreSpec
<1>1. Init => Sole(dir, fcb) /\ Store!Init
  <2> SUFFICES ASSUME Init PROVE Sole(dir, fcb) /\ Store!Init
    BY Zenon
  <2>1. Used(dir) = {} /\ \A f \in Slot : fcb[f] = Unused
    BY DEF Init, Used
  <2>2. Sole(dir, fcb)
    BY Zenon, <2>1 DEF Sole
  <2>3. Typed(dir, fcb)
    BY Zenon, Beginning, InOrderNow
  <2>4. \A n \in Name : \A r \in Record : Files(dir, fcb, data)[n][r] = Hole
    <3>1. \A k, i, b : ~Seen(dir, fcb, k, i, b)
      BY Zenon, <2>1 DEF Seen, Listed
    <3> SUFFICES ASSUME NEW n \in Name, NEW r \in Record
                 PROVE  Files(dir, fcb, data)[n][r] = Hole
      BY Zenon
    <3>2. \/ Files(dir, fcb, data)[n][r] = Hole
          \/ \E b : Seen(dir, fcb, Key(n, r), Index(r), b)
      BY Zenon, <2>2, <2>3, FileSeen
    <3> QED BY ZenonT(30), <3>1, <3>2
  <2>5. Files(dir, fcb, data) = [n \in Name |-> [r \in Record |-> Files(dir, fcb, data)[n][r]]]
    BY Zenon DEF Files
  <2>6. Contents = [n \in Name |-> [r \in Record |-> Hole]]
    BY Zenon, <2>4, <2>5, ContentsFiles
  <2> QED BY Zenon, <2>2, <2>6 DEF Store!Init, Store!Holes
<1>2. Inv /\ Sole(dir, fcb) /\ [Next]_vars => Sole(dir, fcb)' /\ [Store!Next]_Contents
  <2> SUFFICES ASSUME Inv, Sole(dir, fcb), [Next]_vars
               PROVE  Sole(dir', fcb') /\ Store!Next
    BY Zenon
  <2>1. Inv' /\ Stores
    BY Calls
  <2>2. Sole(dir', fcb') /\ Store!Step(Files(dir, fcb, data), Files(dir', fcb', data'))
    BY Zenon, <2>1 DEF Stores
  <2>3. Typed(dir', fcb') /\ data' \in [Sector -> Data]
    BY Zenon, <2>1, InOrderNow DEF Inv, TypeOK
  <2>4. Files(dir', fcb', data') \in [Name -> [Record -> Data \cup {Hole}]]
    BY Zenon, <2>2, <2>3, FilesType
  <2>5. Contents = Files(dir, fcb, data) /\ Contents' = Files(dir', fcb', data')
    BY Zenon, ContentsFiles
  <2>6. Contents' \in [Name -> [Record -> Data \cup {Hole}]] /\ Store!Step(Contents, Contents')
    BY Zenon, <2>2, <2>4, <2>5
  <2>7. Store!Next
    BY Zenon, <2>6 DEF Store!Next
  <2> QED BY Zenon, <2>2, <2>7
<1> QED BY <1>1, <1>2, BdosInvariant, PTL DEF Spec, StoreSpec, Store!Spec
============================================================================
