------------------------------- MODULE Drives ------------------------------
(***************************************************************************)
(* Which disk a CP/M call reaches.  Four parts keep a notion of "the       *)
(* drive": the CCP (CDRIVE, and TDRIVE at address 4), the BDOS (ACTIVE,    *)
(* LOGIN, WRTPRT), the BIOS (the disk parameter header it returns, with    *)
(* its allocation and check vectors) and the host (currentdrive).  They    *)
(* change at different times, and the errors of one are not seen by all    *)
(* of the others.                                                          *)
(*                                                                         *)
(* An allocation or check vector is abstracted to the drive from whose     *)
(* directory it was computed, or to None.  A routine that may ask the      *)
(* operator what to do about a bad sector, or select a disk image, denotes *)
(* the set of machines it may leave; halt tells that it did not return:    *)
(* it jumped to address 0, or the emulator ended.                          *)
(***************************************************************************)
EXTENDS Naturals, FiniteSets

CONSTANTS
  Typed,    \* drives the operator types as a command
  Called,   \* drives programs select or name in an FCB
  Mounted,  \* drives whose host directory exists from the start
  Comes,    \* drives whose host directory may appear later
  Image     \* drives whose host object is a disk image, not a directory

Drive == 0..15
MAXDRIVE == 16
None == 17
Dph == 0..5

ASSUME DrivesAssumption ==
  /\ Typed \subseteq Drive /\ Called \subseteq Drive
  /\ Mounted \subseteq Drive /\ Comes \subseteq Drive /\ Image \subseteq Drive

VARIABLES
  m,       \* what BDOS, BIOS and host know of drives
  CDRIVE,  \* the CCP's current drive
  TDRIVE,  \* the drive a warm boot hands to the CCP
  pc,      \* who runs: "boot", "command", "prompt", "program" or nobody, "dead"
  present  \* drives whose host directory exists

vars == <<m, CDRIVE, TDRIVE, pc, present>>

Init ==
  /\ m = [ACTIVE |-> 0, LOGIN |-> {}, WRTPRT |-> {}, halt |-> "no", currentdrive |-> MAXDRIVE,
          diskptr |-> {}, locked |-> {}, again |-> {},
          alv |-> [h \in Dph |-> None], chk |-> [h \in Dph |-> None],
          io |-> [op |-> "none", asked |-> 0, at |-> 0, map |-> 0]]
  /\ CDRIVE = 0 /\ TDRIVE = 0 /\ pc = "boot"
  /\ present = Mounted

(* Run F on every machine of S whose routine has returned. *)
Then(S, F(_)) == UNION {IF g.halt = "no" THEN F(g) ELSE {g} : g \in S}

Boot(g) == [g EXCEPT !.halt = "boot"]
Dead(g) == [g EXCEPT !.halt = "dead"]

(* ERROR1: the operator types ^C, or the call goes on without the sector. *)
ERROR1(g) == {g, Boot(g)}

----------------------------------------------------------------------------
(* The header _SELDSK returns for a drive; None is HL = 0. *)
DphOf(id) == IF id < 4 THEN id ELSE IF id - 4 < 6 THEN id - 4 ELSE None

(* Only the floppies have a check vector. *)
Checked == 0..3

(* Mutant: the lock of the image stays. *)
unSelectLocked(g) ==
  [g EXCEPT !.currentdrive = MAXDRIVE, !.again = @ \cup (Image \cap {g.currentdrive})]

(* An image is unlocked when another drive is selected.  The observer again  *)
(* has the images that were selected before.                                 *)
unSelect(g) ==
  [g EXCEPT !.currentdrive = MAXDRIVE, !.locked = @ \ {g.currentdrive},
            !.again = @ \cup (Image \cap {g.currentdrive})]

(* The first time an image is opened for reading and writing, and not        *)
(* locked.  After that it is opened for the lock by path_, which points to a *)
(* string that is no more.  Where an open fails the emulator ends.           *)
SelectHost(g, id) ==
  LET sel == [g EXCEPT !.currentdrive = id]
  IN IF id \notin present THEN {g}
     ELSE {IF id \in Image \cap g.diskptr THEN [sel EXCEPT !.locked = @ \cup {id}]
           ELSE [sel EXCEPT !.diskptr = @ \cup {id}]}
          \cup IF id \in Image THEN {Dead(g)} ELSE {}

selectdisk(g, id) ==
  IF id \notin 0..3 \cup {7, 8} \/ id = g.currentdrive THEN {g}
  ELSE SelectHost(unSelect(g), id)

Readable(g) == g.currentdrive # MAXDRIVE

(* BITMAP reads the directory of the disk the host has selected into the     *)
(* vectors of the header the BIOS has returned.                              *)
BITMAP(g) ==
  LET h == DphOf(g.ACTIVE)
      from == IF Readable(g) THEN g.currentdrive ELSE None
      read == [g EXCEPT !.alv[h] = from, !.chk[h] = from]
  IN IF Readable(g) THEN {read} ELSE ERROR1(read)

(* Mutant: a drive that is logged in is not selected again. *)
LOGINDRVOnce(g) ==
  IF DphOf(g.ACTIVE) = None THEN {Boot(g)}
  ELSE IF g.ACTIVE \in g.LOGIN THEN {g}
  ELSE Then(selectdisk([g EXCEPT !.LOGIN = @ \cup {g.ACTIVE}], g.ACTIVE), BITMAP)

(* Mutant: the directory is read before the drive is selected. *)
LOGINDRVTooSoon(g) ==
  LET select(s) == selectdisk(s, s.ACTIVE)
  IN IF DphOf(g.ACTIVE) = None THEN {Boot(g)}
     ELSE IF g.ACTIVE \in g.LOGIN THEN select(g)
     ELSE Then(BITMAP([g EXCEPT !.LOGIN = @ \cup {g.ACTIVE}]), select)

(* The BDOS looks at HL only: what the host said is lost. *)
LOGINDRV(g) ==
  IF DphOf(g.ACTIVE) = None THEN {Boot(g)}
  ELSE IF g.ACTIVE \in g.LOGIN THEN selectdisk(g, g.ACTIVE)
  ELSE Then(selectdisk([g EXCEPT !.LOGIN = @ \cup {g.ACTIVE}], g.ACTIVE), BITMAP)

SETDSK(g, d) == IF d = g.ACTIVE THEN {g} ELSE LOGINDRV([g EXCEPT !.ACTIVE = d])

(* Mutant: the reset keeps the active drive. *)
RSTDSKKeepsDrive(g) == LOGINDRV([g EXCEPT !.WRTPRT = {}, !.LOGIN = {}])

RSTDSK(g) == LOGINDRV([g EXCEPT !.WRTPRT = {}, !.LOGIN = {}, !.ACTIVE = 0])

LOGOFF(g, D) == [g EXCEPT !.LOGIN = @ \ D, !.WRTPRT = @ \cap (g.LOGIN \ D)]

WRTPRTD(g) == [g EXCEPT !.WRTPRT = @ \cup {g.ACTIVE}]

(* A sector is read or written.  The observer io keeps the drive the BDOS    *)
(* meant, the one the host used and the owner of the allocation vector.      *)
Transfer(g, op) ==
  IF Readable(g)
  THEN {[g EXCEPT !.io = [op |-> op, asked |-> g.ACTIVE, at |-> g.currentdrive,
                          map |-> g.alv[DphOf(g.ACTIVE)]]]}
  ELSE ERROR1(g)

(* A search of the directory: a sector whose sum is not the one in the check *)
(* vector protects the drive, unless the sums agree by chance.               *)
CHECKDIR(g) ==
  IF DphOf(g.ACTIVE) \in Checked /\ g.chk[DphOf(g.ACTIVE)] # g.currentdrive
  THEN {g, WRTPRTD(g)} ELSE {g}

FINDFST(g) == Then(Transfer(g, "search"), CHECKDIR)

(* A write that needs a block, through an FCB opened before. *)
WTSEQ(g) ==
  IF g.ACTIVE \in g.WRTPRT THEN {Boot(g)}
  ELSE Transfer(g, "write")

(* Mutant: the drive of the FCB stays selected. *)
GOBACKForgets(g, old) == {g}

GOBACK(g, old) == SETDSK(g, old)

(* The drive an FCB names; a program that names none has the current one in  *)
(* mind.                                                                     *)
AUTOSEL(g, d) == SETDSK(g, d)

----------------------------------------------------------------------------
Becomes(S, next) ==
  \E g \in S : m' = [g EXCEPT !.halt = "no"] /\ pc' = IF g.halt = "no" THEN next ELSE g.halt

(* _WBOOT, which repeats itself until every sector of the CCP is read. *)
BOOTOS ==
  LET load(g) == IF Readable(g) THEN {g} ELSE {Boot(g)}
  IN /\ pc = "boot"
     /\ Becomes(Then(selectdisk(m, 0), load), "command")
     /\ UNCHANGED <<CDRIVE, TDRIVE, present>>

COMMAND ==
  LET select(g) == SETDSK(g, TDRIVE)
  IN /\ pc = "command"
     /\ Becomes(Then(RSTDSK(m), select), "prompt")
     /\ CDRIVE' = TDRIVE
     /\ UNCHANGED <<TDRIVE, present>>

(* The command "d:". *)
ChangeDrive(d) ==
  /\ pc = "prompt"
  /\ CDRIVE' = d /\ TDRIVE' = d
  /\ Becomes(SETDSK(m, d), "prompt")
  /\ UNCHANGED <<present>>

(* A command on drive d that searches its directory: DIR ends at the prompt, *)
(* a program that was found and loaded runs.                                 *)
Command(d, next) ==
  LET reset(g) == SETDSK(g, CDRIVE)
  IN /\ pc = "prompt"
     /\ Becomes(Then(Then(SETDSK(m, d), FINDFST), reset), next)
     /\ UNCHANGED <<CDRIVE, TDRIVE, present>>

(* Calls of a program. *)
Call(S) == pc = "program" /\ Becomes(S, "program") /\ UNCHANGED <<CDRIVE, TDRIVE, present>>

Select(d) == Call(SETDSK(m, d))
Reset == Call(RSTDSK(m))
Logoff(D) == Call({LOGOFF(m, D)})
Protect == Call({WRTPRTD(m)})

(* A file function on the drive of its FCB, which leaves through GOBACK. *)
FileCall(S) == LET back(g) == GOBACK(g, m.ACTIVE) IN Call(Then(S, back))
Search(d) == FileCall(Then(AUTOSEL(m, d), FINDFST))
Append(d) == FileCall(Then(AUTOSEL(m, d), WTSEQ))

(* RET to the CCP, which selects its drive again, or a jump to address 0. *)
Return ==
  /\ pc = "program"
  /\ TDRIVE' = CDRIVE
  /\ Becomes(SETDSK(m, CDRIVE), "prompt")
  /\ UNCHANGED <<CDRIVE, present>>

Exit == pc = "program" /\ pc' = "boot" /\ UNCHANGED <<m, CDRIVE, TDRIVE, present>>

(* Somebody makes the directory of a drive on the host. *)
Mount(d) ==
  /\ present' = present \cup {d} /\ present' # present
  /\ UNCHANGED <<m, CDRIVE, TDRIVE, pc>>

Console == \E d \in Typed : ChangeDrive(d) \/ Command(d, "prompt") \/ Command(d, "program")
Program ==
  \/ \E d \in Called : Select(d) \/ Search(d) \/ Append(d)
  \/ \E D \in SUBSET Called : Logoff(D)
  \/ Reset \/ Protect \/ Return \/ Exit

Next == BOOTOS \/ COMMAND \/ Console \/ Program \/ \E d \in Comes : Mount(d)

Spec == Init /\ [][Next]_vars

(* The boot and the CCP's start run by themselves. *)
FairSpec == Spec /\ WF_vars(BOOTOS) /\ WF_vars(COMMAND)

----------------------------------------------------------------------------
TypeOK ==
  /\ m \in [ACTIVE : Drive, LOGIN : SUBSET Drive, WRTPRT : SUBSET Drive, halt : {"no"},
            diskptr : SUBSET Drive, locked : SUBSET Image, again : SUBSET Image,
            currentdrive : Drive \cup {MAXDRIVE},
            alv : [Dph -> Drive \cup {None}], chk : [Dph -> Drive \cup {None}],
            io : [op : {"none", "search", "write"}, asked : Drive, at : Drive,
                  map : Drive \cup {None}]]
  /\ CDRIVE \in Drive /\ TDRIVE \in Drive
  /\ pc \in {"boot", "command", "prompt", "program", "dead"}
  /\ present \subseteq Drive

(* A transfer that succeeds reaches the drive the caller named: the host's   *)
(* currentdrive is the drive SETDSK or AUTOSEL made ACTIVE.                  *)
IoOnActive == m.io.at = m.io.asked

(* A block is allocated from a map that was built from the directory of the  *)
(* drive it is on (BITMAP): no other drive's login has taken the vector.     *)
MapOfDrive == m.io.op = "write" => m.io.map = m.io.at

(* A file function that names another drive in its FCB and returns leaves    *)
(* the program's drive selected, in the BDOS and on the host (GOBACK).       *)
ActiveRestored ==
  [][(\E d \in Called : Search(d) \/ Append(d)) /\ pc' = "program" =>
       m'.ACTIVE = m.ACTIVE /\ (Readable(m) => m'.currentdrive = m.currentdrive)]_vars

(* An emulator has a lock only on the image of its current drive, and gives  *)
(* it back before it asks for the next one (unSelect, Select): two of them   *)
(* never wait for each other.  An image selected again is locked.            *)
LockOfCurrent ==
  /\ m.locked \subseteq {m.currentdrive}
  /\ m.currentdrive \in m.again => m.currentdrive \in m.locked

(* Once drive A is there, a boot ends at the prompt (BOOTOS, COMMAND), or    *)
(* the emulator ends: the drive that address 4 hands to the CCP is one that  *)
(* can be selected.                                                          *)
BootEnds == (pc = "boot" /\ 0 \in present) ~> pc \in {"prompt", "dead"}
============================================================================
