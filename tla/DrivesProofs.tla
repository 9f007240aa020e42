---------------------------- MODULE DrivesProofs ---------------------------
(***************************************************************************)
(* Which disk a call reaches, for any set of drives that programs and      *)
(* operator use and any set of host objects behind them.  The argument     *)
(* follows the routines: each lemma says what every machine a routine may  *)
(* leave has in common, and the actions only put the routines together.    *)
(***************************************************************************)
EXTENDS Drives, TLAPS

Uses == Typed \cup Called \cup {0}

(* The drives for which _SELDSK has a header and selectdisk an object, and   *)
(* the ones neither knows.  Drives 4..6 and 9 have a header and no object.   *)
Selectable == 0..3 \cup {7, 8}
Served == Uses \subseteq Selectable \cup 10..15

(* No two drives in use share a header, and of the drives in use only A may  *)
(* appear after the start: _WBOOT waits for it.                              *)
OwnMaps ==
  /\ Served
  /\ \A d, e \in Uses : DphOf(d) = DphOf(e) /\ DphOf(d) # None => d = e
  /\ Comes \cap Uses \subseteq {0}

Machine ==
  [ACTIVE : Drive, LOGIN : SUBSET Drive, WRTPRT : SUBSET Drive,
   halt : {"no", "boot", "dead"},
   diskptr : SUBSET Drive, locked : SUBSET Image, again : SUBSET Image,
   currentdrive : Drive \cup {MAXDRIVE},
   alv : [Dph -> Drive \cup {None}], chk : [Dph -> Drive \cup {None}],
   io : [op : {"none", "search", "write"}, asked : Drive, at : Drive,
         map : Drive \cup {None}]]

(* The host: what is selected exists and has been opened, an image that was  *)
(* selected before has been opened before, and only the current drive is     *)
(* locked.                                                                   *)
Host(g) ==
  /\ g \in Machine
  /\ g.locked \subseteq {g.currentdrive}
  /\ g.currentdrive \in g.again => g.currentdrive \in g.locked
  /\ g.again \subseteq g.diskptr
  /\ Readable(g) => g.currentdrive \in present \cap g.diskptr

(* The drives the BDOS has logged in own the vector of their header. *)
OwnsMap(g, d) == d \in present => g.alv[DphOf(d)] = d
Maps(g) == g.LOGIN \subseteq Uses /\ \A d \in g.LOGIN : DphOf(d) # None /\ OwnsMap(g, d)

(* The last transfer went where it was meant to go. *)
Told(g) ==
  /\ Served => g.io.at = g.io.asked
  /\ OwnMaps => (g.io.op = "write" => g.io.map = g.io.at)

(* BDOS and host agree on the drive: so it is whenever a call may begin. *)
Agree(g) ==
  /\ DphOf(g.ACTIVE) # None
  /\ Served => /\ g.ACTIVE \in Selectable
               /\ g.currentdrive \in {g.ACTIVE, MAXDRIVE}
  /\ OwnMaps => OwnsMap(g, g.ACTIVE)

Inv ==
  /\ Host(m) /\ m.halt = "no" /\ m.ACTIVE \in Uses
  /\ Told(m)
  /\ CDRIVE \in Uses /\ TDRIVE \in Uses
  /\ pc \in {"boot", "command", "prompt", "program", "dead"}
  /\ present \subseteq Drive
  /\ OwnMaps /\ pc # "dead" => Maps(m)
  /\ pc \in {"prompt", "program"} => Agree(m)
  /\ 0 \in present \/ (pc \in {"boot", "dead"} /\ m.LOGIN = {})

----------------------------------------------------------------------------
(* The routines. *)

(* What selecting a disk on the host leaves alone. *)
Same(g, h) ==
  /\ h.ACTIVE = g.ACTIVE /\ h.LOGIN = g.LOGIN /\ h.WRTPRT = g.WRTPRT
  /\ h.alv = g.alv /\ h.chk = g.chk /\ h.io = g.io

(* The drive id is the host's, if it has an object for it. *)
Reached(h, id) ==
  h.halt = "no" => /\ h.currentdrive \in {id, MAXDRIVE}
                   /\ id \in present => h.currentdrive = id

(* unSelect gives the lock back. *)
LEMMA UnSelected ==
  ASSUME NEW g, Host(g)
  PROVE  /\ Host(unSelect(g)) /\ Same(g, unSelect(g)) /\ ~Readable(unSelect(g))
         /\ unSelect(g).halt = g.halt
<1> DEFINE L == g.locked \ {g.currentdrive}
           A == g.again \cup (Image \cap {g.currentdrive})
           h == [g EXCEPT !.currentdrive = MAXDRIVE, !.locked = L, !.again = A]
<1>1. unSelect(g) = h
  BY DEF unSelect, Host, Machine
<1>2. /\ L = {} /\ A \in SUBSET Image /\ A \subseteq g.diskptr
      /\ MAXDRIVE \notin A /\ MAXDRIVE \notin Drive
  BY DrivesAssumption DEF Host, Machine, Readable, MAXDRIVE, Drive
<1> HIDE DEF L, A
<1>3. h \in Machine
  BY <1>2 DEF Host, Machine
<1>4. /\ h.currentdrive = MAXDRIVE /\ h.locked = L /\ h.again = A /\ h.diskptr = g.diskptr
      /\ h.halt = g.halt /\ Same(g, h)
  BY DEF Host, Machine, Same
<1> HIDE DEF h
<1> QED BY <1>1, <1>2, <1>3, <1>4 DEF Host, Readable

(* Select of a drive of any kind: an image that was opened before is locked. *)
LEMMA HostSelected ==
  ASSUME NEW g, Host(g), ~Readable(g), g.halt = "no", NEW id \in Drive,
         NEW h \in SelectHost(g, id)
  PROVE  Host(h) /\ Same(g, h) /\ h.halt \in {"no", "dead"} /\ Reached(h, id)
<1>0. g \in Machine /\ g.currentdrive = MAXDRIVE /\ g.locked = {}
  <2>1. g \in Machine /\ g.currentdrive = MAXDRIVE
    BY DEF Host, Readable
  <2>2. MAXDRIVE \notin Image
    BY DrivesAssumption DEF MAXDRIVE, Drive
  <2> QED BY <2>1, <2>2 DEF Host, Machine
<1>1. CASE id \notin present
  BY <1>0, <1>1 DEF SelectHost, Same, Reached
<1>2. CASE id \in present /\ h = Dead(g)
  <2>1. h \in Machine /\ h.halt = "dead" /\ Same(g, h)
    BY <1>0, <1>2 DEF Dead, Machine, Same
  <2>2. /\ h.currentdrive = g.currentdrive /\ h.locked = g.locked /\ h.again = g.again
        /\ h.diskptr = g.diskptr
    BY <1>0, <1>2 DEF Dead, Machine
  <2> QED BY <2>1, <2>2 DEF Host, Readable, Reached
<1>3. CASE id \in present /\ id \in Image \cap g.diskptr /\ h # Dead(g)
  <2> DEFINE L == g.locked \cup {id}
             n == [g EXCEPT !.currentdrive = id, !.locked = L]
  <2>1. h = n
    BY <1>0, <1>3 DEF SelectHost, Machine
  <2>2. L \in SUBSET Image /\ L = {id}
    BY <1>0, <1>3
  <2> HIDE DEF L
  <2>3. n \in Machine
    BY <1>0, <2>2 DEF Machine
  <2>4. /\ n.currentdrive = id /\ n.locked = L /\ n.again = g.again /\ n.diskptr = g.diskptr
        /\ n.halt = "no" /\ Same(g, n)
    BY <1>0 DEF Machine, Same
  <2> HIDE DEF n
  <2> QED BY <1>0, <1>3, <2>1, <2>2, <2>3, <2>4 DEF Host, Readable, Reached
<1>4. CASE id \in present /\ id \notin Image \cap g.diskptr /\ h # Dead(g)
  <2> DEFINE D == g.diskptr \cup {id}
             n == [g EXCEPT !.currentdrive = id, !.diskptr = D]
  <2>1. h = n
    BY <1>0, <1>4 DEF SelectHost, Machine
  <2>2. D \in SUBSET Drive /\ g.again \subseteq D /\ id \in D /\ id \notin g.again
    BY <1>0, <1>4 DEF Host, Machine
  <2> HIDE DEF D
  <2>3. n \in Machine
    BY <1>0, <2>2 DEF Machine
  <2>4. /\ n.currentdrive = id /\ n.locked = g.locked /\ n.again = g.again /\ n.diskptr = D
        /\ n.halt = "no" /\ Same(g, n)
    BY <1>0 DEF Machine, Same
  <2> HIDE DEF n
  <2> QED BY <1>0, <1>4, <2>1, <2>2, <2>3, <2>4 DEF Host, Readable, Reached
<1> QED BY <1>1, <1>2, <1>3, <1>4

(* selectdisk does nothing for a drive the emulator has no object for. *)
LEMMA DiskSelected ==
  ASSUME NEW g, Host(g), g.halt = "no", NEW id \in Drive, NEW h \in selectdisk(g, id)
  PROVE  /\ Host(h) /\ Same(g, h) /\ h.halt \in {"no", "dead"}
         /\ id \in Selectable => Reached(h, id)
<1>1. CASE id \notin Selectable \/ id = g.currentdrive
  BY <1>1 DEF selectdisk, Selectable, Same, Reached
<1>2. CASE ~(id \notin Selectable \/ id = g.currentdrive)
  <2>1. h \in SelectHost(unSelect(g), id)
    BY <1>2 DEF selectdisk, Selectable
  <2>2. /\ Host(unSelect(g)) /\ Same(g, unSelect(g)) /\ ~Readable(unSelect(g))
        /\ unSelect(g).halt = "no"
    BY UnSelected
  <2>3. /\ Host(h) /\ Same(unSelect(g), h) /\ h.halt \in {"no", "dead"} /\ Reached(h, id)
    BY <2>1, <2>2, HostSelected
  <2> QED BY <2>2, <2>3 DEF Same
<1> QED BY <1>1, <1>2

(* A routine of the BDOS begins with Begun and ends with Ended. *)
Begun(g) ==
  /\ Host(g) /\ g.halt = "no" /\ g.ACTIVE \in Uses /\ Told(g)
  /\ OwnMaps => Maps(g)

Ended(g) ==
  /\ Host(g) /\ g.ACTIVE \in Uses /\ Told(g)
  /\ OwnMaps /\ g.halt # "dead" => Maps(g)
  /\ g.halt = "no" => Agree(g)

(* What the routines use of the headers. *)
LEMMA Headers ==
  ASSUME NEW d \in Drive
  PROVE  /\ DphOf(d) \in Dph \cup {None}
         /\ Served /\ d \in Uses /\ DphOf(d) # None => d \in Selectable
<1>1. DphOf(d) \in Dph \cup {None}
  BY DEF DphOf, Dph, None, Drive
<1>2. Served /\ d \in Uses /\ DphOf(d) # None => d \in Selectable
  BY DEF DphOf, Served, Selectable, None, Drive
<1> QED BY <1>1, <1>2

(* Every drive in use is a drive. *)
LEMMA UsesAreDrives == Uses \subseteq Drive /\ MAXDRIVE \notin Drive /\ None \notin Drive
BY DrivesAssumption DEF Uses, Drive, MAXDRIVE, None

(* A jump to address 0 leaves the rest as it is. *)
LEMMA Halted ==
  ASSUME NEW g, Host(g)
  PROVE  /\ Host(Boot(g)) /\ Same(g, Boot(g)) /\ Boot(g).halt = "boot"
         /\ Boot(g).currentdrive = g.currentdrive
<1>0. g \in Machine
  BY DEF Host
<1>1. Boot(g) \in Machine /\ Same(g, Boot(g)) /\ Boot(g).halt = "boot"
  BY <1>0 DEF Boot, Machine, Same
<1>2. /\ Boot(g).currentdrive = g.currentdrive /\ Boot(g).locked = g.locked
      /\ Boot(g).again = g.again /\ Boot(g).diskptr = g.diskptr
  BY <1>0 DEF Boot, Machine
<1> QED BY <1>1, <1>2 DEF Host, Readable

(* BITMAP fills the vectors of the active drive's header from the disk that  *)
(* the host has selected.                                                    *)
LEMMA MapBuilt ==
  ASSUME NEW g, Host(g), g.halt = "no", DphOf(g.ACTIVE) # None, NEW h \in BITMAP(g)
  PROVE  /\ Host(h) /\ h.ACTIVE = g.ACTIVE /\ h.LOGIN = g.LOGIN /\ h.io = g.io
         /\ h.currentdrive = g.currentdrive /\ h.halt \in {"no", "boot"}
         /\ \A x \in Dph : x # DphOf(g.ACTIVE) => h.alv[x] = g.alv[x]
         /\ Readable(g) => h.alv[DphOf(g.ACTIVE)] = g.currentdrive
<1> DEFINE x == DphOf(g.ACTIVE)
           from == IF Readable(g) THEN g.currentdrive ELSE None
           n == [g EXCEPT !.alv[x] = from, !.chk[x] = from]
<1>0. g \in Machine /\ x \in Dph
  <2>1. g \in Machine /\ g.ACTIVE \in Drive
    BY DEF Host, Machine
  <2> QED BY <2>1, Headers
<1>1. h \in {n, Boot(n)} /\ from \in Drive \cup {None}
  BY <1>0 DEF BITMAP, ERROR1, Host, Machine, Readable
<1> HIDE DEF x
<1>2. n \in Machine /\ n.halt = "no"
  <2> HIDE DEF from
  <2> QED BY <1>0, <1>1 DEF Machine
<1>3. /\ n.ACTIVE = g.ACTIVE /\ n.LOGIN = g.LOGIN /\ n.io = g.io
      /\ n.currentdrive = g.currentdrive /\ n.locked = g.locked /\ n.again = g.again
      /\ n.diskptr = g.diskptr /\ n.alv = [g.alv EXCEPT ![x] = from]
  BY <1>0 DEF Machine
<1>4. /\ \A y \in Dph : y # x => n.alv[y] = g.alv[y]
      /\ n.alv[x] = from
  BY <1>0, <1>3 DEF Machine
<1> HIDE DEF n
<1>5. Host(n)
  BY <1>2, <1>3 DEF Host, Readable
<1>6. CASE h = n
  BY <1>2, <1>3, <1>4, <1>5, <1>6 DEF x
<1>7. CASE h = Boot(n)
  BY <1>3, <1>4, <1>5, <1>7, Halted DEF Same, x
<1> QED BY <1>1, <1>6, <1>7

(* LOGINDRV logs the active drive in, on the host and in the BDOS. *)
LEMMA LoggedIn ==
  ASSUME NEW g, Begun(g), NEW h \in LOGINDRV(g)
  PROVE  /\ Ended(h) /\ h.ACTIVE = g.ACTIVE
         /\ Served /\ h.halt = "no" /\ g.ACTIVE \in present => h.currentdrive = g.ACTIVE
<1> DEFINE d == g.ACTIVE
<1>0. g \in Machine /\ Host(g) /\ d \in Drive /\ d \in Uses /\ g.halt = "no"
  BY DEF Begun, Host, Machine
<1>1. CASE DphOf(d) = None
  <2>1. h = Boot(g)
    BY <1>1 DEF LOGINDRV
  <2> QED BY <1>0, <2>1, Halted DEF Begun, Ended, Same, Told, Maps, OwnsMap
<1>2. CASE DphOf(d) # None /\ d \in g.LOGIN
  <2>1. h \in selectdisk(g, d)
    BY <1>2 DEF LOGINDRV
  <2>2. /\ Host(h) /\ Same(g, h) /\ h.halt \in {"no", "dead"}
        /\ d \in Selectable => Reached(h, d)
    BY <1>0, <2>1, DiskSelected
  <2>3. Served => d \in Selectable
    BY <1>0, <1>2, Headers
  <2>4. Told(h) /\ (OwnMaps => Maps(h))
    BY <2>2 DEF Begun, Same, Told, Maps, OwnsMap
  <2>5. h.halt = "no" => Agree(h)
    BY <1>2, <2>2, <2>3, <2>4 DEF Agree, Reached, Same, Maps, OwnMaps
  <2> QED BY <1>0, <2>2, <2>3, <2>4, <2>5 DEF Ended, Reached, Same
<1>3. CASE DphOf(d) # None /\ d \notin g.LOGIN
  <2> DEFINE L == g.LOGIN \cup {d}
             n == [g EXCEPT !.LOGIN = L]
  <2>1. /\ n \in Machine /\ n.LOGIN = L /\ n.ACTIVE = d /\ n.io = g.io /\ n.alv = g.alv
        /\ n.halt = "no" /\ n.currentdrive = g.currentdrive /\ n.locked = g.locked
        /\ n.again = g.again /\ n.diskptr = g.diskptr
    <3>1. L \in SUBSET Drive
      BY <1>0 DEF Machine
    <3> HIDE DEF L
    <3> QED BY <1>0, <3>1 DEF Machine
  <2>2. [g EXCEPT !.LOGIN = @ \cup {g.ACTIVE}] = n
    BY <1>0 DEF Machine
  <2>3. PICK k \in selectdisk(n, d) : h \in IF k.halt = "no" THEN BITMAP(k) ELSE {k}
    <3>1. h \in Then(selectdisk(n, d), BITMAP)
      BY <1>3, <2>2 DEF LOGINDRV
    <3> HIDE DEF n
    <3> QED BY <3>1 DEF Then
  <2> HIDE DEF n
  <2>4. Host(n)
    BY <1>0, <2>1 DEF Host, Readable
  <2>5. /\ Host(k) /\ Same(n, k) /\ k.halt \in {"no", "dead"}
        /\ d \in Selectable => Reached(k, d)
    BY <1>0, <2>1, <2>3, <2>4, DiskSelected
  <2>6. Served => d \in Selectable
    BY <1>0, <1>3, Headers
  <2>7. CASE k.halt # "no"
    BY <1>0, <2>1, <2>3, <2>5, <2>7 DEF Ended, Same, Told, Begun
  <2>8. CASE k.halt = "no"
    <3>1. /\ Host(h) /\ h.ACTIVE = d /\ h.LOGIN = L /\ h.io = g.io
          /\ h.currentdrive = k.currentdrive /\ h.halt \in {"no", "boot"}
          /\ \A x \in Dph : x # DphOf(d) => h.alv[x] = g.alv[x]
          /\ Readable(k) => h.alv[DphOf(d)] = k.currentdrive
      BY <1>3, <2>1, <2>3, <2>5, <2>8, MapBuilt DEF Same
    <3>2. Served => /\ k.currentdrive \in {d, MAXDRIVE}
                    /\ d \in present => k.currentdrive = d
      BY <2>5, <2>6, <2>8 DEF Reached
    <3>3. Served => OwnsMap(h, d)
      BY <1>0, <3>1, <3>2, UsesAreDrives DEF OwnsMap, Readable
    <3>4. ASSUME OwnMaps PROVE Maps(h)
      <4>1. ASSUME NEW e \in g.LOGIN
            PROVE  e \in Uses /\ DphOf(e) # None /\ OwnsMap(h, e)
        <5>1. e \in Uses /\ DphOf(e) # None /\ OwnsMap(g, e) /\ e # d
          BY <1>3, <3>4 DEF Begun, Maps
        <5>2. DphOf(e) # DphOf(d) /\ DphOf(e) \in Dph
          BY <1>0, <3>4, <5>1, UsesAreDrives, Headers DEF OwnMaps
        <5> QED BY <3>1, <5>1, <5>2 DEF OwnsMap
      <4> QED BY <1>0, <1>3, <3>1, <3>3, <3>4, <4>1 DEF Maps, OwnMaps
    <3>5. Agree(h)
      BY <1>3, <2>6, <3>1, <3>2, <3>3 DEF Agree, OwnMaps
    <3>6. Told(h)
      BY <3>1 DEF Told, Begun
    <3> QED BY <1>0, <3>1, <3>2, <3>4, <3>5, <3>6 DEF Ended
  <2> QED BY <2>7, <2>8
<1> QED BY <1>1, <1>2, <1>3

(* SETDSK makes d the drive, for the BDOS and the host. *)
LEMMA DiskSet ==
  ASSUME NEW g, Begun(g), Agree(g), NEW d \in Uses, NEW h \in SETDSK(g, d)
  PROVE  /\ Ended(h) /\ h.ACTIVE = d
         /\ d = g.ACTIVE => h = g
         /\ Served /\ h.halt = "no" /\ d \in present /\ d # g.ACTIVE => h.currentdrive = d
<1>1. CASE d = g.ACTIVE
  BY <1>1 DEF SETDSK, Begun, Ended
<1>2. CASE d # g.ACTIVE
  <2> DEFINE n == [g EXCEPT !.ACTIVE = d]
  <2>0. g \in Machine /\ d \in Drive
    BY UsesAreDrives DEF Begun, Host
  <2>1. /\ n \in Machine /\ n.LOGIN = g.LOGIN /\ n.ACTIVE = d /\ n.io = g.io /\ n.alv = g.alv
        /\ n.halt = g.halt /\ n.currentdrive = g.currentdrive /\ n.locked = g.locked
        /\ n.again = g.again /\ n.diskptr = g.diskptr
    BY <2>0 DEF Machine
  <2>2. h \in LOGINDRV(n)
    BY <1>2 DEF SETDSK
  <2> HIDE DEF n
  <2>3. Begun(n)
    BY <2>1 DEF Begun, Host, Readable, Told, Maps, OwnsMap
  <2> QED BY <1>2, <2>1, <2>2, <2>3, LoggedIn
<1> QED BY <1>1, <1>2

(* RSTDSK logs all drives off and drive A in. *)
LEMMA DisksReset ==
  ASSUME NEW g, Begun(g), NEW h \in RSTDSK(g)
  PROVE  Ended(h) /\ h.ACTIVE = 0
<1> DEFINE n == [g EXCEPT !.WRTPRT = {}, !.LOGIN = {}, !.ACTIVE = 0]
<1>0. g \in Machine /\ 0 \in Uses /\ 0 \in Drive
  BY UsesAreDrives DEF Begun, Host, Uses
<1>1. /\ n \in Machine /\ n.LOGIN = {} /\ n.ACTIVE = 0 /\ n.io = g.io /\ n.alv = g.alv
      /\ n.halt = g.halt /\ n.currentdrive = g.currentdrive /\ n.locked = g.locked
      /\ n.again = g.again /\ n.diskptr = g.diskptr
  BY <1>0 DEF Machine
<1>2. h \in LOGINDRV(n)
  BY DEF RSTDSK
<1> HIDE DEF n
<1>3. Begun(n)
  BY <1>0, <1>1 DEF Begun, Host, Readable, Told, Maps, OwnsMap
<1> QED BY <1>1, <1>2, <1>3, LoggedIn

(* A sector is transferred on the active drive, with its own map. *)
LEMMA Transferred ==
  ASSUME NEW g, Ended(g), g.halt = "no", NEW op \in {"search", "write"},
         NEW h \in Transfer(g, op)
  PROVE  /\ Ended(h) /\ h.ACTIVE = g.ACTIVE /\ h.currentdrive = g.currentdrive
         /\ h.halt \in {"no", "boot"}
<1>0. g \in Machine /\ Host(g) /\ g.ACTIVE \in Drive
  BY DEF Ended, Host, Machine
<1>1. CASE Readable(g)
  <2> DEFINE t == [op |-> op, asked |-> g.ACTIVE, at |-> g.currentdrive,
                   map |-> g.alv[DphOf(g.ACTIVE)]]
             n == [g EXCEPT !.io = t]
  <2>1. h = n
    BY <1>1 DEF Transfer
  <2>2. Served => g.ACTIVE \in Selectable /\ g.currentdrive = g.ACTIVE
    BY <1>1 DEF Ended, Agree, Readable
  <2>3. OwnMaps => g.alv[DphOf(g.ACTIVE)] = g.currentdrive
    BY <1>1, <2>2 DEF Ended, Agree, OwnsMap, OwnMaps, Host
  <2>4. t \in [op : {"none", "search", "write"}, asked : Drive, at : Drive,
               map : Drive \cup {None}]
    <3>1. DphOf(g.ACTIVE) \in Dph
      BY <1>0, Headers DEF Ended, Agree
    <3>2. g.alv[DphOf(g.ACTIVE)] \in Drive \cup {None} /\ g.currentdrive \in Drive
      BY <1>0, <1>1, <3>1 DEF Machine, Readable
    <3> QED BY <1>0, <3>2
  <2>5. t.at = g.currentdrive /\ t.asked = g.ACTIVE /\ t.map = g.alv[DphOf(g.ACTIVE)]
    OBVIOUS
  <2> HIDE DEF t
  <2>6. /\ n \in Machine /\ n.LOGIN = g.LOGIN /\ n.ACTIVE = g.ACTIVE /\ n.io = t
        /\ n.alv = g.alv /\ n.halt = "no" /\ n.currentdrive = g.currentdrive
        /\ n.locked = g.locked /\ n.again = g.again /\ n.diskptr = g.diskptr
    BY <1>0, <2>4 DEF Machine
  <2> HIDE DEF n
  <2>7. Told(n)
    BY <2>2, <2>3, <2>5, <2>6 DEF Told
  <2>8. Host(n) /\ (OwnMaps => Maps(n)) /\ Agree(n)
    BY <2>6 DEF Ended, Host, Readable, Maps, OwnsMap, Agree
  <2> QED BY <2>1, <2>6, <2>7, <2>8 DEF Ended
<1>2. CASE ~Readable(g)
  <2>1. h \in {g, Boot(g)}
    BY <1>2 DEF Transfer, ERROR1
  <2> QED BY <1>0, <2>1, Halted DEF Ended, Same, Told, Maps, OwnsMap
<1> QED BY <1>1, <1>2

(* A routine that returned may be followed by another. *)
LEMMA GoesOn ==
  ASSUME NEW g, Ended(g), g.halt = "no"
  PROVE  Begun(g) /\ Agree(g)
BY DEF Begun, Ended

(* The write protect bits are nobody else's business. *)
LEMMA BitsSet ==
  ASSUME NEW g, Ended(g), NEW W \in SUBSET Drive, NEW L \in SUBSET g.LOGIN,
         NEW n, n = [g EXCEPT !.LOGIN = L, !.WRTPRT = W]
  PROVE  /\ Ended(n) /\ n.ACTIVE = g.ACTIVE /\ n.currentdrive = g.currentdrive
         /\ n.halt = g.halt
<1>0. g \in Machine
  BY DEF Ended, Host
<1>1. /\ n \in Machine /\ n.LOGIN = L /\ n.ACTIVE = g.ACTIVE /\ n.io = g.io
      /\ n.alv = g.alv /\ n.halt = g.halt /\ n.currentdrive = g.currentdrive
      /\ n.locked = g.locked /\ n.again = g.again /\ n.diskptr = g.diskptr
  BY <1>0 DEF Machine
<1>2. Host(n) /\ (OwnMaps /\ n.halt # "dead" => Maps(n)) /\ (n.halt = "no" => Agree(n))
  BY <1>1 DEF Ended, Host, Readable, Maps, OwnsMap, Agree
<1>3. Ended(n)
  BY <1>1, <1>2 DEF Ended, Told
<1> QED BY <1>1, <1>3

(* WRTPRTD protects the active drive. *)
LEMMA Protected ==
  ASSUME NEW g, Ended(g)
  PROVE  /\ Ended(WRTPRTD(g)) /\ WRTPRTD(g).ACTIVE = g.ACTIVE
         /\ WRTPRTD(g).currentdrive = g.currentdrive /\ WRTPRTD(g).halt = g.halt
<1> DEFINE W == g.WRTPRT \cup {g.ACTIVE}
           L == g.LOGIN
<1>0. g \in Machine
  BY DEF Ended, Host
<1>1. W \in SUBSET Drive /\ L \in SUBSET g.LOGIN
  BY <1>0 DEF Machine
<1>2. WRTPRTD(g) = [g EXCEPT !.LOGIN = L, !.WRTPRT = W]
  BY <1>0 DEF WRTPRTD, Machine
<1> HIDE DEF W, L
<1>3. \A n : n = [g EXCEPT !.LOGIN = L, !.WRTPRT = W] =>
        /\ Ended(n) /\ n.ACTIVE = g.ACTIVE /\ n.currentdrive = g.currentdrive
        /\ n.halt = g.halt
  BY <1>1, BitsSet
<1> QED BY <1>2, <1>3

(* LOGOFF drops drives from both sets of bits. *)
LEMMA LoggedOff ==
  ASSUME NEW g, Ended(g), NEW D
  PROVE  Ended(LOGOFF(g, D))
<1> DEFINE W == g.WRTPRT \cap (g.LOGIN \ D)
           L == g.LOGIN \ D
<1>0. g \in Machine
  BY DEF Ended, Host
<1>1. W \in SUBSET Drive /\ L \in SUBSET g.LOGIN
  BY <1>0 DEF Machine
<1>2. LOGOFF(g, D) = [g EXCEPT !.LOGIN = L, !.WRTPRT = W]
  BY <1>0 DEF LOGOFF, Machine
<1> HIDE DEF W, L
<1> QED BY <1>1, <1>2, BitsSet

(* FINDFST and WTSEQ stay on the active drive. *)
LEMMA FileRoutine ==
  ASSUME NEW g, Ended(g), g.halt = "no", NEW h \in FINDFST(g) \cup WTSEQ(g)
  PROVE  Ended(h) /\ h.ACTIVE = g.ACTIVE /\ h.currentdrive = g.currentdrive
<1>1. CASE h \in FINDFST(g)
  <2>1. PICK k \in Transfer(g, "search") : h \in IF k.halt = "no" THEN CHECKDIR(k) ELSE {k}
    BY <1>1 DEF FINDFST, Then
  <2>2. Ended(k) /\ k.ACTIVE = g.ACTIVE /\ k.currentdrive = g.currentdrive
    BY <2>1, Transferred
  <2>3. h \in {k, WRTPRTD(k)}
    BY <2>1 DEF CHECKDIR
  <2> QED BY <2>2, <2>3, Protected
<1>2. CASE h \in WTSEQ(g)
  <2>1. h = Boot(g) \/ h \in Transfer(g, "write")
    BY <1>2 DEF WTSEQ
  <2>2. CASE h = Boot(g)
    BY <2>2, Halted DEF Ended, Same, Told, Maps, OwnsMap
  <2>3. CASE h \in Transfer(g, "write")
    BY <2>3, Transferred
  <2> QED BY <2>1, <2>2, <2>3
<1> QED BY <1>1, <1>2

----------------------------------------------------------------------------
(* The actions. *)

(* A routine of the CCP or of a program is over. *)
LEMMA Becoming ==
  ASSUME Inv, NEW S, \A h \in S : Ended(h), NEW next \in {"prompt", "program"},
         Becomes(S, next), UNCHANGED present, 0 \in present,
         CDRIVE' \in Uses, TDRIVE' \in Uses
  PROVE  Inv'
<1>1. PICK h \in S : /\ m' = [h EXCEPT !.halt = "no"]
                     /\ pc' = IF h.halt = "no" THEN next ELSE h.halt
  BY DEF Becomes
<1>2. Ended(h) /\ h \in Machine
  BY DEF Ended, Host
<1>3. /\ m' \in Machine /\ m'.LOGIN = h.LOGIN /\ m'.ACTIVE = h.ACTIVE /\ m'.io = h.io
      /\ m'.alv = h.alv /\ m'.halt = "no" /\ m'.currentdrive = h.currentdrive
      /\ m'.locked = h.locked /\ m'.again = h.again /\ m'.diskptr = h.diskptr
  BY <1>1, <1>2 DEF Machine
<1>4. Host(m)'
  BY <1>2, <1>3 DEF Ended, Host, Readable
<1>5. Told(m)'
  BY <1>2, <1>3 DEF Ended, Told
<1>6. pc' \in {"boot", "prompt", "program", "dead"} /\ (pc' = "dead" <=> h.halt = "dead")
      /\ (pc' \in {"prompt", "program"} => h.halt = "no")
  BY <1>1, <1>2 DEF Machine
<1>7. (OwnMaps /\ pc # "dead" => Maps(m))'
  BY <1>2, <1>3, <1>6 DEF Ended, Maps, OwnsMap
<1>8. (pc \in {"prompt", "program"} => Agree(m))'
  BY <1>2, <1>3, <1>6 DEF Ended, Agree, OwnsMap
<1> QED BY <1>2, <1>3, <1>4, <1>5, <1>6, <1>7, <1>8 DEF Inv, Ended

(* The state in which a call begins. *)
LEMMA CallBegins ==
  ASSUME Inv, pc \in {"command", "prompt", "program"}
  PROVE  /\ Begun(m) /\ 0 \in present /\ m.halt = "no"
         /\ pc # "command" => Agree(m) /\ Ended(m)
BY DEF Inv, Begun, Ended

(* SETDSK, a routine that stays on the drive, and SETDSK back: the frame of  *)
(* the CCP's commands and of the file functions.                             *)
LEMMA ThereAndBack ==
  ASSUME NEW g, Begun(g), Agree(g), NEW d \in Uses, NEW old \in Uses,
         NEW a \in SETDSK(g, d), NEW b, NEW h,
         IF a.halt = "no" THEN b \in FINDFST(a) \cup WTSEQ(a) ELSE b = a,
         IF b.halt = "no" THEN h \in SETDSK(b, old) ELSE h = b
  PROVE  /\ Ended(h)
         /\ h.halt = "no" /\ old = g.ACTIVE =>
              /\ h.ACTIVE = g.ACTIVE
              /\ Served /\ Readable(g) => h.currentdrive = g.currentdrive
<1>1. /\ Ended(a) /\ a.ACTIVE = d /\ (d = g.ACTIVE => a = g)
  BY DiskSet
<1>2. Ended(b) /\ b.ACTIVE = a.ACTIVE /\ b.currentdrive = a.currentdrive
  BY <1>1, FileRoutine
<1>3. CASE b.halt # "no"
  BY <1>2, <1>3
<1>4. CASE b.halt = "no"
  <2>1. Begun(b) /\ Agree(b)
    BY <1>2, <1>4, GoesOn
  <2>2. /\ Ended(h) /\ h.ACTIVE = old /\ (old = b.ACTIVE => h = b)
        /\ Served /\ h.halt = "no" /\ old \in present /\ old # b.ACTIVE
             => h.currentdrive = old
    BY <1>4, <2>1, DiskSet
  <2>3. ASSUME old = g.ACTIVE, Served, Readable(g), h.halt = "no"
        PROVE  h.currentdrive = g.currentdrive
    <3>1. g.currentdrive = g.ACTIVE /\ g.ACTIVE \in present
      BY <2>3 DEF Begun, Agree, Host, Readable
    <3>2. CASE d = old
      BY <1>1, <1>2, <2>2, <2>3, <3>2
    <3>3. CASE d # old
      BY <1>1, <1>2, <2>2, <2>3, <3>1, <3>3
    <3> QED BY <3>2, <3>3
  <2> QED BY <2>2, <2>3
<1> QED BY <1>3, <1>4

(* _WBOOT reads the CCP from drive A or begins again. *)
LEMMA Booting ==
  ASSUME Inv, BOOTOS
  PROVE  Inv'
<1>0. /\ Host(m) /\ m \in Machine /\ m.halt = "no" /\ pc = "boot" /\ 0 \in Drive
      /\ UNCHANGED <<CDRIVE, TDRIVE, present>>
  <2>1. pc = "boot" /\ UNCHANGED <<CDRIVE, TDRIVE, present>>
    BY DEF BOOTOS
  <2> QED BY <2>1, UsesAreDrives DEF Inv, Host, Uses
<1>a. PICK k \in selectdisk(m, 0) : \E h :
        /\ IF k.halt = "no" THEN h \in (IF Readable(k) THEN {k} ELSE {Boot(k)}) ELSE h = k
        /\ m' = [h EXCEPT !.halt = "no"]
        /\ pc' = IF h.halt = "no" THEN "command" ELSE h.halt
  BY DEF BOOTOS, Becomes, Then
<1>1. PICK h :
        /\ IF k.halt = "no" THEN h \in (IF Readable(k) THEN {k} ELSE {Boot(k)}) ELSE h = k
        /\ m' = [h EXCEPT !.halt = "no"]
        /\ pc' = IF h.halt = "no" THEN "command" ELSE h.halt
  BY <1>a
<1>2. Host(k) /\ Same(m, k) /\ k.halt \in {"no", "dead"} /\ Reached(k, 0)
  BY <1>0, <1>1, DiskSelected DEF Selectable
<1>3. /\ Host(h) /\ Same(k, h) /\ h.currentdrive = k.currentdrive
      /\ h.halt = "no" => Readable(h)
      /\ h.halt = "dead" <=> k.halt = "dead"
  BY <1>1, <1>2, Halted DEF Same
<1>4. /\ m' \in Machine /\ m'.LOGIN = m.LOGIN /\ m'.ACTIVE = m.ACTIVE /\ m'.io = m.io
      /\ m'.alv = m.alv /\ m'.halt = "no" /\ m'.currentdrive = h.currentdrive
      /\ m'.locked = h.locked /\ m'.again = h.again /\ m'.diskptr = h.diskptr
  <2>1. h \in Machine
    BY <1>3 DEF Host
  <2> QED BY <1>1, <1>2, <1>3, <2>1 DEF Machine, Same
<1>5. Host(m)'
  BY <1>0, <1>3, <1>4 DEF Host, Readable
<1>6. pc' \in {"boot", "command", "dead"} /\ (pc' = "command" => h.halt = "no")
  BY <1>1, <1>3 DEF Host, Machine
<1>7. Told(m)' /\ (OwnMaps => Maps(m)')
  BY <1>0, <1>4 DEF Inv, Told, Maps, OwnsMap
<1>8. pc' = "command" => 0 \in present
  <2>1. h.halt = "no" => h.currentdrive = 0 /\ Readable(h)
    BY <1>1, <1>2, <1>3 DEF Reached, Readable
  <2> QED BY <1>3, <1>6, <2>1 DEF Host
<1> QED BY <1>0, <1>4, <1>5, <1>6, <1>7, <1>8 DEF Inv

(* The CCP starts: all drives are logged off, then its own is selected. *)
LEMMA Commanding ==
  ASSUME Inv, COMMAND
  PROVE  Inv'
<1> DEFINE select(g) == SETDSK(g, TDRIVE)
           S == Then(RSTDSK(m), select)
<1>1. Begun(m) /\ 0 \in present /\ TDRIVE \in Uses
  BY CallBegins DEF COMMAND, Inv
<1>2. ASSUME NEW h \in S PROVE Ended(h)
  <2>1. PICK k \in RSTDSK(m) : h \in IF k.halt = "no" THEN SETDSK(k, TDRIVE) ELSE {k}
    BY <1>2 DEF Then
  <2>2. Ended(k)
    BY <1>1, <2>1, DisksReset
  <2>3. CASE k.halt = "no"
    BY <1>1, <2>1, <2>2, <2>3, GoesOn, DiskSet
  <2>4. CASE k.halt # "no"
    BY <2>1, <2>2, <2>4
  <2> QED BY <2>3, <2>4
<1>3. /\ Becomes(S, "prompt") /\ CDRIVE' = TDRIVE /\ UNCHANGED <<TDRIVE, present>>
  BY DEF COMMAND
<1> HIDE DEF S
<1> QED BY <1>1, <1>2, <1>3, Becoming

(* A drive typed as a command; a command that searches a directory. *)
LEMMA Prompted ==
  ASSUME Inv, NEW d \in Typed, NEW next \in {"prompt", "program"},
         ChangeDrive(d) \/ Command(d, next)
  PROVE  Inv'
<1>1. Begun(m) /\ Agree(m) /\ 0 \in present /\ d \in Uses /\ CDRIVE \in Uses /\ TDRIVE \in Uses
  BY CallBegins DEF ChangeDrive, Command, Inv, Uses
<1>2. CASE ChangeDrive(d)
  <2>1. \A h \in SETDSK(m, d) : Ended(h)
    BY <1>1, DiskSet
  <2> QED BY <1>1, <1>2, <2>1, Becoming DEF ChangeDrive
<1>3. CASE Command(d, next)
  <2> DEFINE reset(g) == SETDSK(g, CDRIVE)
             S == Then(Then(SETDSK(m, d), FINDFST), reset)
  <2>1. ASSUME NEW h \in S PROVE Ended(h)
    <3>1. PICK b \in Then(SETDSK(m, d), FINDFST) :
            h \in IF b.halt = "no" THEN SETDSK(b, CDRIVE) ELSE {b}
      BY <2>1 DEF Then
    <3>2. PICK a \in SETDSK(m, d) : b \in IF a.halt = "no" THEN FINDFST(a) ELSE {a}
      BY <3>1 DEF Then
    <3> QED BY <1>1, <3>1, <3>2, ThereAndBack
  <2>2. Becomes(S, next) /\ UNCHANGED <<CDRIVE, TDRIVE, present>>
    BY <1>3 DEF Command
  <2> HIDE DEF S
  <2> QED BY <1>1, <2>1, <2>2, Becoming
<1> QED BY <1>2, <1>3

(* The machines a file function of a program may leave. *)
LEMMA FileFunction ==
  ASSUME Inv, NEW d \in Called, Search(d) \/ Append(d)
  PROVE  \E S : /\ Call(S)
                /\ \A h \in S :
                     /\ Ended(h)
                     /\ h.halt = "no" =>
                          /\ h.ACTIVE = m.ACTIVE
                          /\ Served /\ Readable(m) => h.currentdrive = m.currentdrive
<1> DEFINE back(g) == GOBACK(g, m.ACTIVE)
           S1 == Then(Then(AUTOSEL(m, d), FINDFST), back)
           S2 == Then(Then(AUTOSEL(m, d), WTSEQ), back)
           Good(h) == /\ Ended(h)
                      /\ h.halt = "no" =>
                           /\ h.ACTIVE = m.ACTIVE
                           /\ Served /\ Readable(m) => h.currentdrive = m.currentdrive
<1>1. Begun(m) /\ Agree(m) /\ d \in Uses /\ m.ACTIVE \in Uses
  BY CallBegins DEF Search, Append, FileCall, Call, Inv, Uses
<1>2. ASSUME NEW h \in S1 PROVE Good(h)
  <2>1. PICK b \in Then(AUTOSEL(m, d), FINDFST) :
          h \in IF b.halt = "no" THEN SETDSK(b, m.ACTIVE) ELSE {b}
    BY <1>2 DEF Then, GOBACK
  <2>2. PICK a \in SETDSK(m, d) : b \in IF a.halt = "no" THEN FINDFST(a) ELSE {a}
    BY <2>1 DEF Then, AUTOSEL
  <2> QED BY <1>1, <2>1, <2>2, ThereAndBack
<1>3. ASSUME NEW h \in S2 PROVE Good(h)
  <2>1. PICK b \in Then(AUTOSEL(m, d), WTSEQ) :
          h \in IF b.halt = "no" THEN SETDSK(b, m.ACTIVE) ELSE {b}
    BY <1>3 DEF Then, GOBACK
  <2>2. PICK a \in SETDSK(m, d) : b \in IF a.halt = "no" THEN WTSEQ(a) ELSE {a}
    BY <2>1 DEF Then, AUTOSEL
  <2> QED BY <1>1, <2>1, <2>2, ThereAndBack
<1>4. Call(S1) \/ Call(S2)
  BY DEF Search, Append, FileCall
<1> HIDE DEF S1, S2
<1> QED BY <1>2, <1>3, <1>4

(* The calls of a program, and its end. *)
LEMMA Running ==
  ASSUME Inv, Program
  PROVE  Inv'
<1>0. ASSUME pc = "program"
      PROVE  /\ Begun(m) /\ Agree(m) /\ Ended(m) /\ 0 \in present
             /\ CDRIVE \in Uses /\ TDRIVE \in Uses /\ Called \subseteq Uses
  BY <1>0, CallBegins DEF Inv, Uses
<1>1. ASSUME NEW S, Call(S), \A h \in S : Ended(h)
      PROVE  Inv'
  BY <1>0, <1>1, Becoming DEF Call
<1>2. ASSUME NEW d \in Called, Select(d) PROVE Inv'
  <2>1. pc = "program" /\ Call(SETDSK(m, d))
    BY <1>2 DEF Select, Call
  <2> QED BY <1>0, <1>1, <2>1, DiskSet
<1>3. ASSUME NEW d \in Called, Search(d) \/ Append(d) PROVE Inv'
  BY <1>1, <1>3, FileFunction
<1>4. ASSUME NEW D, Logoff(D) PROVE Inv'
  <2>1. pc = "program" /\ Call({LOGOFF(m, D)})
    BY <1>4 DEF Logoff, Call
  <2> QED BY <1>0, <1>1, <2>1, LoggedOff
<1>5. CASE Reset
  <2>1. pc = "program" /\ Call(RSTDSK(m))
    BY <1>5 DEF Reset, Call
  <2> QED BY <1>0, <1>1, <2>1, DisksReset
<1>6. CASE Protect
  <2>1. pc = "program" /\ Call({WRTPRTD(m)})
    BY <1>6 DEF Protect, Call
  <2> QED BY <1>0, <1>1, <2>1, Protected
<1>7. CASE Return
  <2>1. /\ pc = "program" /\ Becomes(SETDSK(m, CDRIVE), "prompt")
        /\ TDRIVE' = CDRIVE /\ UNCHANGED <<CDRIVE, present>>
    BY <1>7 DEF Return
  <2>2. \A h \in SETDSK(m, CDRIVE) : Ended(h)
    BY <1>0, <2>1, DiskSet
  <2> QED BY <1>0, <2>1, <2>2, Becoming
<1>8. CASE Exit
  <2>1. pc = "program" /\ pc' = "boot" /\ UNCHANGED <<m, CDRIVE, TDRIVE, present>>
    BY <1>8 DEF Exit
  <2> QED BY <1>0, <2>1 DEF Inv, Host, Told, Maps, OwnsMap, Readable
<1> QED BY <1>2, <1>3, <1>4, <1>5, <1>6, <1>7, <1>8 DEF Program

(* A host directory that appears is not one of a drive whose login failed. *)
LEMMA Appearing ==
  ASSUME Inv, NEW d \in Comes, Mount(d)
  PROVE  Inv'
<1>1. /\ present' = present \cup {d} /\ d \notin present
      /\ UNCHANGED <<m, CDRIVE, TDRIVE, pc>>
  BY DEF Mount
<1>2. d \in Drive
  BY DrivesAssumption
<1>3. Host(m)' /\ Told(m)'
  BY <1>1 DEF Inv, Host, Told, Readable
<1>4. ASSUME OwnMaps, pc # "dead" PROVE Maps(m)'
  <2>1. Maps(m) /\ (d \in Uses => d = 0)
    BY <1>4 DEF Inv, OwnMaps
  <2>2. d \in m.LOGIN => FALSE
    BY <1>1, <2>1 DEF Maps, Inv
  <2> QED BY <1>1, <2>1, <2>2 DEF Maps, OwnsMap
<1>5. ASSUME pc \in {"prompt", "program"} PROVE Agree(m)'
  <2>1. Agree(m) /\ m.ACTIVE \in Uses /\ 0 \in present
    BY <1>5 DEF Inv
  <2>2. OwnMaps => m.ACTIVE # d
    BY <1>1, <2>1 DEF OwnMaps
  <2> QED BY <1>1, <2>1, <2>2 DEF Agree, OwnsMap
<1> QED BY <1>1, <1>2, <1>3, <1>4, <1>5 DEF Inv

(* Nothing is selected or logged in before the first boot. *)
LEMMA Starting == Init => Inv
<1> SUFFICES ASSUME Init PROVE Inv
  OBVIOUS
<1>1. 0 \in Uses /\ 0 \in Drive /\ MAXDRIVE \notin Drive
  BY UsesAreDrives DEF Uses
<1>2. /\ m.ACTIVE = 0 /\ m.LOGIN = {} /\ m.halt = "no" /\ m.currentdrive = MAXDRIVE
      /\ m.locked = {} /\ m.again = {} /\ m.diskptr = {}
      /\ m.io.at = 0 /\ m.io.asked = 0 /\ m.io.op = "none"
  BY DEF Init
<1>3. m \in Machine
  BY <1>1 DEF Init, Machine
<1>4. Host(m) /\ Told(m) /\ Maps(m)
  BY <1>2, <1>3 DEF Host, Told, Maps, Readable
<1> QED BY <1>1, <1>2, <1>4, DrivesAssumption DEF Inv, Init

(* Every step of CCP, program, boot and host keeps the invariant. *)
LEMMA Steps == Inv /\ [Next]_vars => Inv'
<1> SUFFICES ASSUME Inv, [Next]_vars PROVE Inv'
  OBVIOUS
<1>1. CASE Console
  <2>1. "prompt" \in {"prompt", "program"} /\ "program" \in {"prompt", "program"}
    OBVIOUS
  <2> QED BY <1>1, <2>1, Prompted DEF Console
<1>2. CASE UNCHANGED vars
  BY <1>2 DEF vars, Inv, Host, Told, Maps, Agree, OwnsMap, Readable
<1> QED BY <1>1, <1>2, Booting, Commanding, Running, Appearing DEF Next

----------------------------------------------------------------------------
(* The invariant holds in every state, for every set of drives and objects.  *)
THEOREM DrivesInvariant == Spec => []Inv
<1>1. Init => Inv
  BY Starting
<1>2. Inv /\ [Next]_vars => Inv'
  BY Steps
<1> QED BY <1>1, <1>2, PTL DEF Spec

(* Whatever drives are images and however often they are selected in turn    *)
(* (unSelect, Select), only the current one is locked, and one that is       *)
(* selected again is.                                                        *)
THEOREM DrivesLockOfCurrent == Spec => []LockOfCurrent
<1>1. Inv => LockOfCurrent
  BY DEF Inv, Host, LockOfCurrent
<1> QED BY <1>1, DrivesInvariant, PTL

(* When programs and operator use only drives that BIOS and emulator agree   *)
(* on, every transfer reaches the drive that was asked for: after failed     *)
(* selects, bad sectors, resets and warm boots, and in the calls that come   *)
(* between SETDSK and GOBACK.                                                *)
THEOREM DrivesIoOnActive ==
  ASSUME Served
  PROVE  Spec => []IoOnActive
<1>1. Inv => IoOnActive
  BY DEF Inv, Told, IoOnActive
<1> QED BY <1>1, DrivesInvariant, PTL

(* When in addition no two of these drives share a header, and none but A    *)
(* appears late, every block is allocated from a map that BITMAP built from  *)
(* the directory of the drive it is on.                                      *)
THEOREM DrivesMapOfDrive ==
  ASSUME OwnMaps
  PROVE  Spec => []MapOfDrive
<1>1. Inv => MapOfDrive
  BY DEF Inv, Told, MapOfDrive
<1> QED BY <1>1, DrivesInvariant, PTL

(* A file function on another drive that returns leaves the program's drive  *)
(* selected in the BDOS and on the host (AUTOSEL, GOBACK).                   *)
THEOREM DrivesActiveRestored ==
  ASSUME Served
  PROVE  Spec => ActiveRestored
<1> DEFINE A == (\E d \in Called : Search(d) \/ Append(d)) /\ pc' = "program" =>
                  m'.ACTIVE = m.ACTIVE /\ (Readable(m) => m'.currentdrive = m.currentdrive)
<1>1. ASSUME Inv, NEW d \in Called, Search(d) \/ Append(d), pc' = "program"
      PROVE  m'.ACTIVE = m.ACTIVE /\ (Readable(m) => m'.currentdrive = m.currentdrive)
  <2>1. PICK S : /\ Call(S)
                 /\ \A h \in S :
                      /\ Ended(h)
                      /\ h.halt = "no" =>
                           /\ h.ACTIVE = m.ACTIVE
                           /\ Served /\ Readable(m) => h.currentdrive = m.currentdrive
    BY <1>1, FileFunction
  <2>2. PICK h \in S : /\ m' = [h EXCEPT !.halt = "no"]
                       /\ pc' = IF h.halt = "no" THEN "program" ELSE h.halt
    BY <2>1 DEF Call, Becomes
  <2>3. h \in Machine /\ h.halt = "no"
    BY <1>1, <2>1, <2>2 DEF Ended, Host, Machine
  <2>4. m'.ACTIVE = h.ACTIVE /\ m'.currentdrive = h.currentdrive
    BY <2>2, <2>3 DEF Machine
  <2> QED BY <1>1, <2>1, <2>2, <2>3, <2>4
<1>2. Inv /\ [Next]_vars => [A]_vars
  BY <1>1
<1> HIDE DEF A
<1>3. Spec => [][A]_vars
  BY <1>2, DrivesInvariant, PTL DEF Spec
<1> QED BY <1>3 DEF A, ActiveRestored
============================================================================
