-------------------------------- MODULE Bdos -------------------------------
(***************************************************************************)
(* The file functions of the BDOS (cpm22/bdos.asm) as a program uses them: *)
(* one action per function call, on one drive, by a program that holds     *)
(* several file control blocks.  The program keeps three rules the BDOS    *)
(* does not enforce and the CCP keeps: it creates a file, or renames one   *)
(* to, a name that is not in the directory (SAVE deletes first, REN looks  *)
(* first); it stops using the FCBs of a file it erases or renames; it      *)
(* resets the disk system only when its files are closed.  After a failed  *)
(* random access it does not go on sequentially, after running off the end *)
(* of a file it does not go on randomly, with the same FCB.                *)
(***************************************************************************)
EXTENDS BdosFiles

CONSTANTS
  Slot,     \* the FCBs a program may hold at a time
  Random,   \* bound: the records it accesses by number
  Attr,     \* bound: the read-only attributes it sets
  Hole,     \* what a file has where no block was allocated
  Shared    \* may one file be open through two FCBs?

ASSUME ProgramAssumption == Random \subseteq 0..MaxRec /\ Attr \subseteq BOOLEAN /\ Shared \in BOOLEAN

VARIABLES
  dir,    \* the directory
  mark,   \* SCRATCH1: where a search of the directory ends
  alv,    \* the allocation map
  data,   \* the data sectors
  wp,     \* the drive's bit in WRTPRT
  fcb,    \* the program's FCBs
  status, \* what the last call returned
  xfer,   \* observer: the record the last call transferred
  io      \* observer: the sectors the last call wrote

vars == <<dir, mark, alv, data, wp, fcb, status, xfer, io>>

NoXfer == [op |-> "none"]

Init ==
  /\ dir = [p \in Pos |-> Unused]
  /\ mark = 3
  /\ alv = DirBlocks
  /\ data = [s \in Sector |-> Zero]
  /\ wp = FALSE
  /\ fcb = [f \in Slot |-> Unused]
  /\ status = 0
  /\ xfer = NoXfer
  /\ io = <<>>

InUse(f) == fcb[f] # Unused
Exists(n) == \E p \in Used(dir) : dir[p].name = n

(* The machine at the entry of a call with FCB f (FBASE1). *)
Enter(f) == [dir |-> dir, mark |-> mark, alv |-> alv, data |-> data, wp |-> wp,
             fcb |-> f, st |-> 0, pos |-> NoPos, boot |-> FALSE, io |-> <<>>,
             xfer |-> NoXfer]

(* Back to the program, which then holds the FCBs fs; or a warm boot, after  *)
(* which the command processor resets the disk system.                       *)
Return(m, fs) ==
  /\ dir' = m.dir
  /\ data' = m.data
  /\ status' = IF "status" \in Watch /\ ~m.boot THEN m.st ELSE 0
  /\ xfer' = IF "xfer" \in Watch THEN m.xfer ELSE NoXfer
  /\ io' = m.io
  /\ IF m.boot
     THEN /\ fcb' = [f \in Slot |-> Unused]
          /\ alv' = BITMAP(m.dir) /\ mark' = Limit(m.dir) /\ wp' = FALSE
     ELSE /\ fcb' = fs
          /\ alv' = m.alv /\ mark' = m.mark /\ wp' = m.wp

Give(f, m) == Return(m, [fcb EXCEPT ![f] = m.fcb])

(* An FCB that was not opened is not used. *)
GiveFound(f, m) == IF m.pos = NoPos THEN Return(m, fcb) ELSE Give(f, m)

(* The program no longer uses its FCBs of the files N. *)
Without(N) == [f \in Slot |-> IF InUse(f) /\ fcb[f].name \in N THEN Unused ELSE fcb[f]]

Sequential(f) == InUse(f) /\ fcb[f].s2 # Lost /\ fcb[f].s2 <= S2S
Randomly(f) == InUse(f) /\ ~fcb[f].stuck

----------------------------------------------------------------------------
OPENFIL(f, n) ==
  /\ ~InUse(f)
  /\ Shared \/ \A g \in Slot : InUse(g) => fcb[g].name # n
  /\ GiveFound(f, OPENIT(Enter(NewFcb(n))))

CLOSEFIL(f) == InUse(f) /\ Give(f, CLOSEIT(Enter(fcb[f])))

FCREATE(f, n) ==
  /\ ~InUse(f) /\ ~Exists(n)
  /\ GiveFound(f, GETEMPTY(Enter(NewFcb(n))))

READSEQ(f) == Sequential(f) /\ Give(f, RDSEQ1(Enter(fcb[f]), 1))

WRTSEQ(f, v) == Sequential(f) /\ Give(f, WTSEQ1(Enter(fcb[f]), 1, v))

RDRANDOM(f, r) == Randomly(f) /\ Give(f, READRAN(Enter(fcb[f]), r))

WTRANDOM(f, r, v) == Randomly(f) /\ Give(f, WRITERAN(Enter(fcb[f]), r, 0, v))

WTSPECL(f, r, v) == Randomly(f) /\ Give(f, WRITERAN(Enter(fcb[f]), r, 2, v))

(* An ambiguous name stands for the set of the names it matches. *)
DELFILE(N) == Return(ERAFILE(Enter(Unused), N), Without(N))

RENFILE(o, n) ==
  /\ ~Exists(n)
  /\ Return(CHGNAMES(Enter(Unused), o, n), Without({o}))

SETATTR(n, ro) == Return(SAVEATTR(Enter(Unused), n, ro), fcb)

(* The search limit is opened as well. *)
WRTPRTD == Return([Enter(Unused) EXCEPT !.wp = TRUE, !.mark = DIRSIZE + 1], fcb)

(* Function 13: the drive is logged in anew. *)
InDirectory(f) ==
  \E p \in Used(dir) : /\ Matches(dir[p], fcb[f].name, fcb[f].ex, fcb[f].s2)
                       /\ \A i \in Ptr : fcb[f].al[i] \in {0, dir[p].al[i]}
RSTDSK ==
  /\ \A f \in Slot : InUse(f) => fcb[f].stuck \/ fcb[f].s2 = Lost \/ InDirectory(f)
  /\ Return([Enter(Unused) EXCEPT !.wp = FALSE, !.alv = BITMAP(dir), !.mark = Limit(dir)],
            fcb)

(* The program is done with an FCB, whether it closed it or not. *)
Forget(f) == InUse(f) /\ Return(Enter(Unused), [fcb EXCEPT ![f] = Unused])

(* The program ends, or is ended by control-C. *)
WarmBoot == Return(Boot(Enter(Unused)), fcb)

Access ==
  \E f \in Slot :
    \/ \E n \in Name : OPENFIL(f, n) \/ FCREATE(f, n)
    \/ CLOSEFIL(f)
    \/ READSEQ(f)
    \/ \E v \in Data : WRTSEQ(f, v)
    \/ \E r \in Random : RDRANDOM(f, r)
    \/ \E r \in Random, v \in Data : WTRANDOM(f, r, v) \/ WTSPECL(f, r, v)

Upkeep ==
  \/ \E f \in Slot : Forget(f)
  \/ \E N \in SUBSET Name : DELFILE(N)
  \/ \E o, n \in Name : RENFILE(o, n)
  \/ \E n \in Name, ro \in Attr : SETATTR(n, ro)
  \/ WRTPRTD
  \/ RSTDSK
  \/ WarmBoot

Next == Access \/ Upkeep

Spec == Init /\ [][Next]_vars

----------------------------------------------------------------------------
TypeOK ==
  /\ dir \in [Pos -> Entry \cup {Unused}]
  /\ mark \in 0..DIRSIZE + 4
  /\ alv \subseteq Block
  /\ data \in [Sector -> Data]
  /\ wp \in BOOLEAN
  /\ fcb \in [Slot -> Fcb \cup {Unused}]
  /\ status \in 0..255

(* No two pointers of the directory name the same block, however the program *)
(* interleaves its calls on several FCBs: an erase would otherwise free the  *)
(* blocks of another file (CLOSEIT, GETEMPTY, FNDSPACE, ERAFILE).            *)
NoSharedBlocks ==
  \A p, q \in Used(dir) : \A i, j \in Ptr :
    dir[p].al[i] # 0 /\ dir[p].al[i] = dir[q].al[j] => p = q /\ i = j

(* Whatever FNDSPACE may hand out next is in no file: every block of a       *)
(* directory entry and of an FCB the program may still write through is      *)
(* marked in the allocation map, also after a drive was logged in again.     *)
NothingUsedIsFree ==
  /\ \A p \in Used(dir) : Blocks(dir[p]) \subseteq alv
  /\ \A f \in Slot : InUse(f) /\ ~fcb[f].stuck /\ fcb[f].s2 # Lost
                       => Blocks(fcb[f]) \subseteq alv
  /\ DirBlocks \subseteq alv

(* An extent of a file has one directory entry, and the entry is below the   *)
(* limit at which FINDNXT stops looking: GETNEXT and POSITION never create a *)
(* second one because they missed the first.                                 *)
OneEntryPerExtent ==
  \A p \in Used(dir) :
    /\ p < mark
    /\ \A q \in Used(dir) :
         Matches(dir[p], dir[q].name, dir[q].ex, dir[q].s2) => p = q

(* A record is read from, or written to, a block of its own extent: never a  *)
(* block the directory gives to another file or to another extent.           *)
TransferInside ==
  xfer.op # "none" =>
    \A p \in Used(dir) : xfer.blk \in Blocks(dir[p]) =>
      /\ dir[p].name = xfer.name
      /\ dir[p].s2 * EXTS + dir[p].ex = xfer.rec \div RPE

(* A read "can not access unwritten disk space" (bdos.asm 1918): RDSEQ1      *)
(* transfers only a record of an extent that has a directory entry, also     *)
(* after GETNEXT or POSITION failed half way.                                *)
ReadsWrittenSpace ==
  xfer.op = "read" =>
    \E p \in Used(dir) : /\ dir[p].name = xfer.name
                         /\ dir[p].s2 * EXTS + dir[p].ex = xfer.rec \div RPE

(* CLOSEIT takes bit 7 of the s2 byte for "file unmodified" (bdos.asm 1578)  *)
(* and writes nothing: what such an FCB describes is in the directory.       *)
UnmodifiedIsSaved ==
  \A f \in Slot :
    InUse(f) /\ fcb[f].unmod /\ ~fcb[f].stuck /\ fcb[f].s2 # Lost => InDirectory(f)

(* While the drive is write protected only function 30 changes the           *)
(* directory, and it changes attributes only: CLOSEIT returns early and the  *)
(* others end in a warm boot with the directory as it was.                   *)
ProtectedUntouched ==
  [][wp => /\ alv # alv' => wp' = FALSE
           /\ \A p \in Pos :
                dir[p] # dir'[p] => /\ dir[p] # Unused /\ dir'[p] # Unused
                                    /\ dir'[p] = [dir[p] EXCEPT !.ro = dir'[p].ro]]_vars

(* The files as the program sees them: an extent is read through the FCB it  *)
(* is open in, else through its directory entry.                             *)
Record == 0..MaxRec

Holders(n, x) ==
  {fcb[f] : f \in {g \in Slot : /\ InUse(g) /\ ~fcb[g].stuck
                               /\ Matches(fcb[g], n, x % EXTS, x \div EXTS)}}
Entries(n, x) == {dir[p] : p \in {q \in Pos : Matches(dir[q], n, x % EXTS, x \div EXTS)}}

Either(H, E) == IF H # {} THEN H ELSE E
BlockOf(E, c) == IF E = {} THEN 0 ELSE COMBLK(CHOOSE e \in E : TRUE, c)
RecordIn(b, c) == IF b = 0 THEN Hole ELSE data[LOGICAL(b, c)]

Contents ==
  [n \in Name |-> [r \in Record |->
     RecordIn(BlockOf(Either(Holders(n, r \div RPE), Entries(n, r \div RPE)), r % RPE),
              r % RPE)]]

Store == INSTANCE FileStore WITH file <- Contents

(* The BDOS implements the file store when no file is open twice: over the   *)
(* whole of READSEQ, WRTSEQ, the random functions, CLOSEIT, GETNEXT, the     *)
(* erase, rename and attribute functions, resets and warm boots, a call      *)
(* changes no record but the one it writes.                                  *)
StoreSpec == Store!Spec
============================================================================
