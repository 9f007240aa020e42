------------------------------ MODULE ByteFile -----------------------------
(***************************************************************************)
(* What the C libraries promise a program: a file is a function from       *)
(* positions to bytes, kept in whole records and with holes; a handle (a   *)
(* descriptor or a stream) has a position; reading takes the bytes at the  *)
(* position, up to the first hole; writing replaces the bytes there and no *)
(* others, except that a new record is filled up with control-Z.  After an *)
(* error that a stream reports, what it still had in its buffer is lost.   *)
(***************************************************************************)
EXTENDS Bytes

CONSTANTS
  File, Handle,
  Buffer,          \* how far a stream may run ahead of its file
  Absent, Closed   \* no such file, a handle that is not open

VARIABLES
  bytes,    \* the files, Absent or a function from positions to bytes
  pos,      \* where each handle is, or Closed
  of,       \* the file of each open handle
  stopped,  \* the handles that have reported an end of file or an error
  io        \* the last call: its kind, the bytes it moved, fewer than asked?

vars == <<bytes, pos, of, stopped, io>>

Contents == [Position -> Byte \cup {Hole}]

Init ==
  /\ bytes \in [File -> Contents \cup {Absent}]
  /\ pos = [h \in Handle |-> Closed] /\ of = [h \in Handle |-> Closed]
  /\ stopped = {} /\ io.op = "none"

Others(h) == \A g \in Handle \ {h} : pos'[g] = pos[g] /\ of'[g] = of[g]

(* A handle starts at the beginning, or behind the last byte to append. *)
Open(h) ==
  /\ pos[h] = Closed /\ pos'[h] # Closed /\ stopped' = stopped \ {h} /\ Others(h)
  /\ \A y \in File \ {of'[h]} : bytes'[y] = bytes[y]
  /\ bytes'[of'[h]] \in {bytes[of'[h]], NoBytes}
  /\ pos'[h] \in {0, End(bytes'[of'[h]])}

(* An open that fails may have erased the file it was to truncate. *)
OpenFails ==
  /\ \E x \in File : /\ bytes'[x] \in {bytes[x], Absent}
                     /\ \A y \in File \ {x} : bytes'[y] = bytes[y]
  /\ UNCHANGED <<pos, of, stopped>>

(* Fewer bytes than asked for: the file has no more, or a text ends with     *)
(* control-Z, read or yet unread, or the handle has said so before.          *)
TextEnds(h) ==
  \/ At(bytes[of[h]], pos'[h]) = CTLZ
  \/ io'.bytes # <<>> /\ io'.bytes[Len(io'.bytes)] = CTLZ

Read(h) ==
  /\ pos[h] # Closed /\ io'.op \in {"read", "text"}
  /\ \A i \in DOMAIN io'.bytes :
       io'.bytes[i] = At(bytes[of[h]], pos[h] + i - 1) /\ io'.bytes[i] # Hole
  /\ pos' = [pos EXCEPT ![h] = @ + Len(io'.bytes)]
  /\ io'.short => \/ h \in stopped
                  \/ At(bytes[of[h]], pos'[h]) = Hole
                  \/ io'.op = "text" /\ TextEnds(h)
  /\ stopped' \in {stopped, IF io'.short THEN stopped \cup {h} ELSE stopped}
  /\ UNCHANGED <<bytes, of>>

Write(h) ==
  /\ pos[h] # Closed /\ io'.op = "write"
  /\ bytes' = [bytes EXCEPT ![of[h]] = Put(@, pos[h], io'.bytes)]
  /\ pos' = [pos EXCEPT ![h] = @ + Len(io'.bytes)]
  /\ UNCHANGED <<of, stopped>>

(* A stream could not write its buffer. *)
LostAround(h) ==
  /\ io'.short
  /\ \A x \in File \ {of[h]} : bytes'[x] = bytes[x]
  /\ \A q \in Position : bytes'[of[h]][q] # bytes[of[h]][q] =>
       q \div RECLEN \in (pos[h] - Buffer) \div RECLEN..(pos[h] + Buffer) \div RECLEN

Lose(h) ==
  /\ pos[h] # Closed /\ stopped' = stopped \cup {h} /\ Others(h) /\ LostAround(h)
  /\ UNCHANGED of

(* To a place counted from the beginning, the position or the end. *)
Seek(h) ==
  LET from == <<0, pos[h], End(bytes[of[h]])>>
      p == from[io'.bytes[2] + 1] + io'.bytes[1]
  IN /\ pos[h] # Closed /\ io'.op = "seek" /\ Others(h)
     /\ pos'[h] = IF io'.short THEN pos[h] ELSE IF p < 0 THEN 0 ELSE p
     /\ stopped' \in {stopped, stopped \ {h}}
     /\ UNCHANGED <<bytes, of>>

Close(h) ==
  /\ pos[h] # Closed /\ pos'[h] = Closed /\ of'[h] = Closed /\ Others(h)
  /\ stopped' = stopped \ {h}
  /\ UNCHANGED bytes \/ LostAround(h)

Unlink(x) ==
  /\ \A h \in Handle : of[h] # x
  /\ bytes' = [bytes EXCEPT ![x] = Absent] /\ UNCHANGED <<pos, of, stopped>>

Rename(x, y) ==
  /\ bytes[y] = Absent
  /\ bytes' = [bytes EXCEPT ![y] = bytes[x], ![x] = Absent]
  /\ UNCHANGED <<pos, of, stopped>>

Next ==
  \/ \E h \in Handle : Open(h) \/ Read(h) \/ Write(h) \/ Lose(h) \/ Seek(h) \/ Close(h)
  \/ OpenFails
  \/ \E x \in File : Unlink(x)
  \/ \E x, y \in File : Rename(x, y)

Spec == Init /\ [][Next]_vars
============================================================================
