------------------------------ MODULE CpmHost ------------------------------
(***************************************************************************)
(* CP/M on a host directory: the BDOS of module Bdos above the class disk  *)
(* of module HostDisk.  Every sector a BDOS call writes goes, in order, to *)
(* the disk object.  The BDOS side keeps the sectors it has written (dir   *)
(* and data) as an ideal disk would; the question is whether the host      *)
(* directory answers as that disk.                                         *)
(***************************************************************************)
EXTENDS Bdos, HostDisk, SequencesExt

CONSTANTS
  Tidy,    \* does the program close its files before it moves on?
  MayDie   \* may Flush fall over its erased iterator?

ASSUME CpmHostAssumption ==
  Tidy \in BOOLEAN /\ MayDie \in BOOLEAN /\ "io" \in Watch

VARIABLES
  host,    \* the disk object and the host files
  written  \* observer: sectors written since their block was free

cvars == <<vars, host, written>>

CInit == Init /\ host = EmptyHost /\ written = {}

BlockOfSector(s) == s \div RPB

(* A sector changed in place waits in the cache until the directory is       *)
(* written, which closing the file does.                                     *)
Settled == \A s \in DOMAIN host.cache : Owners(host, s) = {}

After(h, ops) == FoldLeft(Write, h, ops)

(* What is left when the process dies in the Flush of one of the writes. *)
Deaths(h, ops) ==
  UNION {DyingFlushes(WriteEntry(After(h, SubSeq(ops, 1, k - 1)), ops[k].at, ops[k].val)) :
           k \in {i \in DOMAIN ops : ops[i].op = "dir"}}

(* What the writes ops of one call may leave; path_ is read anew in the next. *)
Outcomes(h, ops) ==
  {[g EXCEPT !.path_ = "drive"] :
     g \in {After(h, ops)} \cup (IF MayDie THEN Deaths(h, ops) ELSE {})}

CNext ==
  /\ host.up
  /\ Access \/ ((Tidy => Settled) /\ Upkeep)
  /\ host' \in UNION {Outcomes([host EXCEPT !.path_ = d], io') : d \in Behind}
  /\ written' = {s \in written \cup {io'[i].at : i \in {j \in DOMAIN io' : io'[j].op = "data"}} :
                   BlockOfSector(s) \in alv'}

CSpec == CInit /\ [][CNext]_cvars

----------------------------------------------------------------------------
(* The host directory answers as the ideal disk: the directory sectors are   *)
(* the ones the BDOS wrote, and a data sector that was written since its     *)
(* block was allocated is read back as written, from the cache or from the   *)
(* host file disk::Flush put it in (disk::Write, Read, Flush).               *)
HostIsTheDisk ==
  host.up => host.dir = dir /\ \A s \in written : Read(host, s) = data[s]

(* When function 16 has closed a file, no sector of the file is left in the  *)
(* cache only: everything it holds has reached the host file.                *)
ClosedIsOnHost ==
  [][\A f \in Slot : InUse(f) /\ CLOSEFIL(f) /\ ~wp /\ host'.up =>
       \A s \in DOMAIN host'.cache : \A p \in Owners(host', s) :
         dir'[p].name # fcb[f].name]_cvars

(* Flush "handles all writes of chached sectors" (biosapi.h 506): no call of *)
(* a program ends the emulator.                                              *)
Survives == host.up
============================================================================
