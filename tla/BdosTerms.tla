----------------------------- MODULE BdosTerms -----------------------------
(***************************************************************************)
(* The terms the proofs about the BDOS are stated in: when a directory, an *)
(* FCB and a machine are in order, and what a routine may do to them and   *)
(* to the files a program sees.                                            *)
(***************************************************************************)
EXTENDS BdosFiles

(* The extent an entry or an FCB describes. *)
SameKey(e, f) == e.name = f.name /\ e.ex = f.ex /\ e.s2 = f.s2

(* The pointers of an FCB belong to the extent it names, unless GETNEXT or   *)
(* POSITION has left it half way.                                            *)
Live(f) == ~f.stuck /\ f.s2 # Lost

Owned(e, a) == \A i \in Ptr : e.al[i] # 0 => e.al[i] \in a /\ e.al[i] \notin DirBlocks

(* The directory d, with search limit k and allocation map a: every entry is *)
(* below the limit and its blocks are allocated, no two entries describe one *)
(* extent or share a block.                                                  *)
DirOk(d, k, a) ==
  /\ DirBlocks \subseteq a
  /\ \A p \in Used(d) : p < k /\ Owned(d[p], a)
  /\ \A p, q \in Used(d) : SameKey(d[p], d[q]) => p = q
  /\ \A p, q \in Used(d) : \A i, j \in Ptr :
       d[p].al[i] # 0 /\ d[p].al[i] = d[q].al[j] => p = q /\ i = j

(* The pointers of an FCB differ, and it shares a block with an entry only   *)
(* at one place of one extent.                                               *)
Fits(d, a, f) ==
  /\ Owned(f, a)
  /\ \A i, j \in Ptr : f.al[i] # 0 /\ f.al[i] = f.al[j] => i = j
  /\ \A p \in Used(d) : \A i, j \in Ptr :
       f.al[i] # 0 /\ f.al[i] = d[p].al[j] => SameKey(d[p], f) /\ i = j

(* The extent has an entry, and if the FCB says it was not modified, the     *)
(* entry has all of its pointers.                                            *)
Saved(d, f) ==
  \E p \in Used(d) : /\ SameKey(d[p], f)
                     /\ f.unmod => \A i \in Ptr : f.al[i] \in {0, d[p].al[i]}

FcbOk(d, a, f) ==
  /\ Live(f) => Fits(d, a, f) /\ Saved(d, f)
  /\ ~Live(f) => f.unmod
  /\ f.stuck => f.cr = RPE

(* And so do two FCBs. *)
Apart(f, g) ==
  Live(f) /\ Live(g) => \A i, j \in Ptr :
    f.al[i] # 0 /\ f.al[i] = g.al[j] => SameKey(f, g) /\ i = j

(* What the calls that use an FCB do to the directory: entries stay and keep *)
(* their pointers ...                                                        *)
Extends(d, d1) ==
  \A p \in Used(d) : /\ p \in Used(d1) /\ SameKey(d1[p], d[p])
                     /\ \A i \in Ptr : d[p].al[i] # 0 => d1[p].al[i] = d[p].al[i]

(* ... and a pointer that is new to an entry comes from an FCB of F that has *)
(* the entry's extent.                                                       *)
Grown(d, F, d1) ==
  \A p \in Used(d1) : \A i \in Ptr : d1[p].al[i] # 0 =>
    \/ p \in Used(d) /\ SameKey(d1[p], d[p]) /\ d1[p].al[i] = d[p].al[i]
    \/ \E f \in F : Live(f) /\ SameKey(d1[p], f) /\ d1[p].al[i] = f.al[i]

(* The routines that move an FCB from one extent to another touch nothing    *)
(* else, and a protected drive not at all.                                   *)
Moves(m, F, n) ==
  /\ Extends(m.dir, n.dir) /\ Grown(m.dir, F, n.dir)
  /\ n.alv = m.alv /\ n.data = m.data /\ n.wp = m.wp /\ n.xfer = m.xfer
  /\ m.wp => n.dir = m.dir

(* What the program finds at pointer i of the extent k: block b, in the      *)
(* entry of the extent or in an FCB that is at the extent.                   *)
Listed(d, k, i, b) == \E p \in Used(d) : SameKey(d[p], k) /\ d[p].al[i] = b
Points(f, k, i, b) == Live(f) /\ SameKey(f, k) /\ f.al[i] = b
Shown(d, f, k, i, b) == b # 0 /\ (Listed(d, k, i, b) \/ Points(f, k, i, b))

(* The only FCB of a file has all the pointers of the entry it is at ...     *)
Covers(d, f) ==
  Live(f) => \A p \in Used(d) : SameKey(d[p], f) =>
               \A i \in Ptr : d[p].al[i] # 0 => f.al[i] = d[p].al[i]

(* ... and once it is closed, the entry has all of its own. *)
Recorded(d, f) == Live(f) => \A i \in Ptr : f.al[i] # 0 => Listed(d, f, i, f.al[i])

(* The machine n shows no block that m did not show, and if the drive is not *)
(* protected, it shows all of them.                                          *)
Keeps(m, n) ==
  \A k : \A i \in Ptr : \A b :
    /\ Shown(n.dir, n.fcb, k, i, b) => Shown(m.dir, m.fcb, k, i, b)
    /\ ~m.wp /\ Shown(m.dir, m.fcb, k, i, b) => Shown(n.dir, n.fcb, k, i, b)

(* The entries of files other than x get no pointers. *)
Confined(d, x, d1) ==
  \A p \in Used(d1) : \A i \in Ptr : d1[p].al[i] # 0 =>
    \/ p \in Used(d) /\ SameKey(d1[p], d[p]) /\ d1[p].al[i] = d[p].al[i]
    \/ d1[p].name = x

(* The routines that write no record show the program the same files. *)
Tells(m, n) ==
  /\ n.fcb.name = m.fcb.name /\ n.wp = m.wp /\ n.data = m.data
  /\ Extends(m.dir, n.dir) /\ Confined(m.dir, m.fcb.name, n.dir)
  /\ Covers(m.dir, m.fcb) => Covers(n.dir, n.fcb) /\ Keeps(m, n)

(* An FCB that was just opened, or was left half way. *)
Fresh(m, n) == n.fcb.unmod /\ n.fcb.name = m.fcb.name /\ Covers(n.dir, n.fcb)

(* What the FCB of m points to is in the directory of n. *)
Stored(m, n) == ~m.wp /\ Covers(m.dir, m.fcb) => Recorded(n.dir, m.fcb)

(* When the FCBs are forgotten, nothing new is left. *)
Drops(m, n) ==
  /\ n.data = m.data
  /\ Covers(m.dir, m.fcb) =>
       \A k : \A i \in Ptr : \A b :
         b # 0 /\ Listed(n.dir, k, i, b) => Shown(m.dir, m.fcb, k, i, b)

(* Two FCBs that show the same. *)
Similar(f, g) == SameKey(f, g) /\ f.al = g.al /\ (Live(f) <=> Live(g))

(* A record is written: record c of the FCB's extent, into block b, which    *)
(* the extent has or which was free.                                         *)
Writes(m, n, c, b) ==
  /\ n.dir = m.dir /\ n.wp = m.wp /\ ~m.wp
  /\ Live(m.fcb) /\ Live(n.fcb) /\ SameKey(n.fcb, m.fcb)
  /\ n.fcb.al = [m.fcb.al EXCEPT ![c \div RPB] = b] /\ b # 0
  /\ m.fcb.al[c \div RPB] = b \/ (m.fcb.al[c \div RPB] = 0 /\ b \notin m.alv)
  /\ n.data \in [Sector -> Data]
  /\ \A s \in Sector : /\ s # LOGICAL(b, c)
                       /\ m.fcb.al[c \div RPB] = b \/ s \div RPB # b
                       => n.data[s] = m.data[s]

IsMachine(m) ==
  m \in [dir : [Pos -> Entry \cup {Unused}], mark : 0..DIRSIZE + 4, alv : SUBSET Block,
         data : [Sector -> Data], wp : BOOLEAN, fcb : Fcb, st : 0..255,
         pos : Pos \cup {NoPos}, boot : BOOLEAN, io : {m.io}, xfer : {m.xfer}]

(* The directory is in order and fits the FCBs O; the caller's FCB may be on *)
(* its way from one extent to another.                                       *)
Base(m, O) ==
  /\ IsMachine(m)
  /\ DirOk(m.dir, m.mark, m.alv)
  /\ \A g \in O : FcbOk(m.dir, m.alv, g)

Whole(m, O) ==
  /\ Base(m, O)
  /\ FcbOk(m.dir, m.alv, m.fcb)
  /\ \A g \in O : Apart(m.fcb, g)

Alike(m, n) == /\ n.dir = m.dir /\ n.mark = m.mark /\ n.alv = m.alv /\ n.data = m.data
               /\ n.wp = m.wp /\ n.boot = m.boot /\ n.xfer = m.xfer

(* The transfer x of a call that leaves the directory d: its block is in no  *)
(* entry of another extent, and what is read has an entry.                   *)
Proper(d, x) ==
  /\ x.op # "none" =>
       \A p \in Used(d) : x.blk \in Blocks(d[p]) =>
         d[p].name = x.name /\ d[p].s2 * EXTS + d[p].ex = x.rec \div RPE
  /\ x.op = "read" =>
       \E p \in Used(d) : d[p].name = x.name /\ d[p].s2 * EXTS + d[p].ex = x.rec \div RPE

(* A call changes nothing of a protected drive. *)
Guarded(m, n) == n.wp = m.wp /\ (m.wp => n.dir = m.dir /\ n.alv = m.alv)

(* How a call ends: in order, or in a warm boot. *)
Over(m, O) == Base(m, O) /\ (m.boot \/ Whole(m, O))

(* A call that wrote a record, having moved to its extent and then perhaps   *)
(* on to the next.                                                           *)
Wrote(m, n, O) ==
  \E p, k : \E c \in 0..RPE - 1, b \in Block :
    Tells(m, p) /\ Whole(p, O) /\ Writes(p, k, c, b) /\ Tells(k, n)

(* What became of the files in a call that may write. *)
Outcome(m, n, O) ==
  IF n.boot THEN Drops(m, n) ELSE Tells(m, n) \/ Wrote(m, n, O)

(* d1 and a1 are the directory and the map with the entries S erased. *)
Erased(d, a, S, d1, a1) ==
  /\ d1 = [p \in Pos |-> IF p \in S THEN Unused ELSE d[p]]
  /\ a1 = a \ UNION {Blocks(d[p]) : p \in S}

(* The entries S of one name get the name n, which no other entry has. *)
Renames(d, d1, S, n) ==
  /\ Used(d1) = Used(d)
  /\ \A p \in Used(d) : /\ d1[p].al = d[p].al /\ d1[p].ex = d[p].ex /\ d1[p].s2 = d[p].s2
                        /\ p \in S => d1[p].name = n
                        /\ p \notin S => d1[p].name = d[p].name /\ d[p].name # n
  /\ \A p, q \in S : d[p].name = d[q].name

============================================================================
