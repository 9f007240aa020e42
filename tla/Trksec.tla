------------------------------- MODULE Trksec ------------------------------
(***************************************************************************)
(* From a logical sector of a drive to the sector of the host disk.        *)
(*                                                                         *)
(* TRKSEC of cpm22/bdos.asm has no division: it walks from the track it    *)
(* used last, one track at a time, in 16-bit registers, hands the track    *)
(* and the skewed sector to the BIOS, which sends one byte of each to the  *)
(* ports of the emulator; disk::GetAbsSector undoes the skew.              *)
(***************************************************************************)
EXTENDS Integers

CONSTANTS
  SECTORS,  \* sectors per track, from the disk parameter block
  OFFSET,   \* reserved tracks
  XLATE,    \* the drive's translate table, indexed from 0
  LAST,     \* the last logical sector behind the reserved tracks
  WORD,     \* values of a register pair (65536)
  BYTE      \* values of a port (256)

(* The drive's sectors can be counted in a register pair and its tracks and  *)
(* sectors in a port: 32639 < 256 * 128 for the hard disk.                   *)
ASSUME TrksecAssumption ==
  /\ SECTORS \in Nat \ {0} /\ OFFSET \in Nat /\ LAST \in Nat
  /\ WORD \in Nat /\ BYTE \in Nat
  /\ LAST < WORD /\ SECTORS < BYTE /\ OFFSET <= BYTE
  /\ LAST < (BYTE - OFFSET) * SECTORS /\ BYTE <= WORD
  /\ XLATE \in [0..SECTORS - 1 -> 1..SECTORS]
  /\ \A i, j \in 0..SECTORS - 1 : XLATE[i] = XLATE[j] => i = j

VARIABLES
  pc,       \* the label TRKSEC is at, or "idle"
  BLKNMBR,  \* the sector asked for
  de,       \* first sector of the track in hl
  hl,       \* a track
  SCRATCH2, \* the drive's current track
  SCRATCH3, \* first sector of that track
  FDCT,     \* the emulator's track register
  FDCS      \* the emulator's sector register

vars == <<pc, BLKNMBR, de, hl, SCRATCH2, SCRATCH3, FDCT, FDCS>>

Init ==
  /\ pc = "idle"
  /\ BLKNMBR = 0 /\ de = 0 /\ hl = 0
  /\ SCRATCH2 = 0 /\ SCRATCH3 = 0
  /\ FDCT = 0 /\ FDCS = 0

(* HOMEDRV, before a directory search. *)
HOMEDRV ==
  /\ pc = "idle"
  /\ SCRATCH2' = 0 /\ SCRATCH3' = 0 /\ FDCT' = 0
  /\ UNCHANGED <<pc, BLKNMBR, de, hl, FDCS>>

TRKSEC1(b) ==
  /\ pc \in {"idle", "set"}
  /\ BLKNMBR' = b /\ de' = SCRATCH3 /\ hl' = SCRATCH2
  /\ pc' = "TRKSEC2"
  /\ UNCHANGED <<SCRATCH2, SCRATCH3, FDCT, FDCS>>

(* Back to the track before while the sector is before this one. *)
TRKSEC2 ==
  /\ pc = "TRKSEC2"
  /\ IF BLKNMBR < de
     THEN /\ de' = (de - SECTORS) % WORD /\ hl' = (hl - 1) % WORD
          /\ pc' = pc
     ELSE pc' = "TRKSEC3" /\ UNCHANGED <<de, hl>>
  /\ UNCHANGED <<BLKNMBR, SCRATCH2, SCRATCH3, FDCT, FDCS>>

(* Mutant: the carry of the addition is not looked at. *)
TRKSEC3NoCarry ==
  /\ pc = "TRKSEC3"
  /\ IF BLKNMBR < (de + SECTORS) % WORD
     THEN pc' = "TRKSEC4" /\ UNCHANGED <<de, hl>>
     ELSE /\ de' = (de + SECTORS) % WORD /\ hl' = (hl + 1) % WORD
          /\ pc' = pc
  /\ UNCHANGED <<BLKNMBR, SCRATCH2, SCRATCH3, FDCT, FDCS>>

(* On to the next track unless that is beyond the sector, or beyond what the *)
(* register can count.                                                       *)
TRKSEC3 ==
  /\ pc = "TRKSEC3"
  /\ IF de + SECTORS >= WORD \/ BLKNMBR < de + SECTORS
     THEN pc' = "TRKSEC4" /\ UNCHANGED <<de, hl>>
     ELSE /\ de' = de + SECTORS /\ hl' = (hl + 1) % WORD
          /\ pc' = pc
  /\ UNCHANGED <<BLKNMBR, SCRATCH2, SCRATCH3, FDCT, FDCS>>

(* Mutant: the drive's first sector of the track is not remembered. *)
TRKSEC4Forgets ==
  /\ pc = "TRKSEC4"
  /\ FDCT' = ((hl + OFFSET) % WORD) % BYTE
  /\ FDCS' = XLATE[BLKNMBR - de] % BYTE
  /\ SCRATCH2' = hl /\ SCRATCH3' = SCRATCH3
  /\ pc' = "set"
  /\ UNCHANGED <<BLKNMBR, de, hl>>

TRKSEC4 ==
  /\ pc = "TRKSEC4"
  /\ FDCT' = ((hl + OFFSET) % WORD) % BYTE
  /\ FDCS' = XLATE[BLKNMBR - de] % BYTE
  /\ SCRATCH2' = hl /\ SCRATCH3' = de
  /\ pc' = "set"
  /\ UNCHANGED <<BLKNMBR, de, hl>>

(* The sector is read or written, and the caller goes on. *)
Transfer ==
  /\ pc = "set" /\ pc' = "idle"
  /\ UNCHANGED <<BLKNMBR, de, hl, SCRATCH2, SCRATCH3, FDCT, FDCS>>

Next ==
  \/ HOMEDRV \/ TRKSEC2 \/ TRKSEC3 \/ TRKSEC4 \/ Transfer
  \/ \E b \in 0..LAST : TRKSEC1(b)

Spec == Init /\ [][Next]_vars

Fairness == WF_vars(TRKSEC2 \/ TRKSEC3 \/ TRKSEC4)

----------------------------------------------------------------------------
smap_(sector) == CHOOSE i \in 1..SECTORS : XLATE[i - 1] = sector

(* disk::GetAbsSector, counted from the first directory sector (dirstart_). *)
GetAbsSector(track, sector) ==
  track * SECTORS + (IF track >= OFFSET THEN smap_(sector) ELSE sector) - 1

TypeOK ==
  /\ pc \in {"idle", "TRKSEC2", "TRKSEC3", "TRKSEC4", "set"}
  /\ BLKNMBR \in 0..LAST
  /\ de \in 0..WORD - 1 /\ hl \in 0..WORD - 1
  /\ SCRATCH2 \in 0..WORD - 1 /\ SCRATCH3 \in 0..WORD - 1
  /\ FDCT \in 0..BYTE - 1 /\ FDCS \in 0..BYTE - 1

(* Wherever the last access left the head, and up to the last sector a       *)
(* register pair and a port can count, the sector that disk::Read and Write  *)
(* are asked for is the one the BDOS meant (TRKSEC1..TRKSEC4, SECTRAN,       *)
(* SETTRK, SETSEC, GetAbsSector).                                            *)
RightSector ==
  pc = "set" => GetAbsSector(FDCT, FDCS) = OFFSET * SECTORS + BLKNMBR

(* The walk ends, also where one more track would overflow the register.     *)
(* (TRKSEC2, TRKSEC3)                                                        *)
SeekEnds == pc = "TRKSEC2" ~> pc = "set"
============================================================================
