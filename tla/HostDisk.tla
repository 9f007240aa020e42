------------------------------ MODULE HostDisk -----------------------------
(***************************************************************************)
(* Class disk of src/src/biosapi.cpp: a host directory that plays a CP/M   *)
(* disk.  The object keeps the CP/M directory in memory, translates writes *)
(* of directory sectors into host operations (create, rename, remove), and *)
(* keeps data sectors in a cache until a directory entry says to which     *)
(* host file, and where, they belong.                                      *)
(*                                                                         *)
(* The object h is a record: dir (dir_), cpm2unix (cpm2unix_), cache       *)
(* (cache_), path_, files (the host file system), up (the process lives).  *)
(*                                                                         *)
(* path_ points into a string that selectdisk has destroyed, so what it    *)
(* reads as is whatever the memory there holds: Behind.                    *)
(***************************************************************************)
EXTENDS BdosFiles

CONSTANTS
  XH,      \* weight of the Xh byte of an extent number (256)
  Behind   \* what path_ may read as; "drive" is the drive's directory

ASSUME HostAssumption == XH \in Nat \ {0} /\ "drive" \in Behind

EmptyHost == [dir |-> [p \in Pos |-> Unused], cpm2unix |-> <<>>, cache |-> <<>>,
              files |-> <<>>, path_ |-> "drive", up |-> TRUE]

Without1(f, k) == [x \in DOMAIN f \ {k} |-> f[x]]
With1(f, k, v) == [x \in DOMAIN f \cup {k} |-> IF x = k THEN v ELSE f[x]]

(* The name a directory entry has in cpm2unix_: attribute bits included. *)
GetName(e) == <<e.name, e.ro>>

(* The host path: the directory, a directory for the user number, and the    *)
(* file name without its padding.  It keeps the attribute bits, and is       *)
(* another path for every other name.                                        *)
mkhostname(h, n) == [dir |-> h.path_, file |-> n[1], bits |-> n[2]]

GetExtNumber(e) == (e.s2 * XH + e.ex) % (2 * XH)

(* Where in its host file entry e keeps sector s, whose block is its i-th. *)
FindBlockIndex(e, b) ==
  LET I == {i \in Ptr : e.al[i] = b}
  IN IF I = {} THEN -1 ELSE GetExtNumber(e) * Cardinality(Ptr) + First(I)

Owners(h, s) == {p \in Pos : h.dir[p] # Unused /\ FindBlockIndex(h.dir[p], s \div RPB) >= 0}
(* Mutant: the extent's place in the file is forgotten. *)
OffsetInExtent(e, s) == (FindBlockIndex(e, s \div RPB) % Cardinality(Ptr)) * RPB + (s % RPB)

Offset(e, s) == FindBlockIndex(e, s \div RPB) * RPB + (s % RPB)

Throw(h) == [h EXCEPT !.up = FALSE]

(* WriteHost opens an existing file only; Flush ignores what it returns. *)
WriteHost(h, n, pos, v) ==
  IF n \notin DOMAIN h.files THEN h
  ELSE [h EXCEPT !.files[n] = With1(@, pos, v)]

(* One cached sector in Flush.  No two entries own a block, so that at most  *)
(* one pass of the inner loop writes.                                        *)
FlushSector(h, s) ==
  LET e == h.dir[First(Owners(h, s))]
      n == GetName(e)
  IN IF ~h.up \/ Owners(h, s) = {} THEN h
     ELSE IF n \notin DOMAIN h.cpm2unix THEN Throw(h)
     ELSE [WriteHost(h, h.cpm2unix[n], Offset(e, s), h.cache[s])
             EXCEPT !.cache = Without1(@, s)]

(* The object when Flush has been through the first k cached sectors. *)
Flushed(h, k) ==
  LET q == InOrder(DOMAIN h.cache)
      f[i \in 0..Len(q)] == IF i = 0 THEN h ELSE FlushSector(f[i - 1], q[i])
  IN f[k]

Flush(h) == Flushed(h, Cardinality(DOMAIN h.cache))

(* citcache++ reads the node that cache_.erase has freed: the process may    *)
(* die behind any sector it has erased from the cache.                       *)
DyingFlushes(h) ==
  LET q == InOrder(DOMAIN h.cache)
  IN {Throw(Flushed(h, k)) : k \in {i \in DOMAIN q : h.up /\ Owners(h, q[i]) # {}}}

(* The first extent of a file stands for the file. *)
RemoveFile(h, e) ==
  LET n == GetName(e)
  IN IF GetExtNumber(e) # 0 THEN h
     ELSE IF n \notin DOMAIN h.cpm2unix \/ h.cpm2unix[n] \notin DOMAIN h.files THEN Throw(h)
     ELSE [h EXCEPT !.files = Without1(@, h.cpm2unix[n]), !.cpm2unix = Without1(@, n)]

CreateFile(h, e) ==
  LET n == GetName(e)
      u == mkhostname(h, n)
  IN IF GetExtNumber(e) # 0 THEN h
     ELSE [h EXCEPT !.files = With1(@, u, <<>>), !.cpm2unix = With1(@, n, u)]

RenameFile(h, old, new) ==
  LET n == GetName(old)
      u == mkhostname(h, GetName(new))
  IN IF GetName(new) = n \/ GetExtNumber(old) # 0 \/ GetExtNumber(new) # 0 THEN h
     ELSE IF n \notin DOMAIN h.cpm2unix \/ h.cpm2unix[n] \notin DOMAIN h.files THEN Throw(h)
     ELSE LET f == h.files[h.cpm2unix[n]]
          IN [h EXCEPT !.files = With1(Without1(@, h.cpm2unix[n]), u, f),
                       !.cpm2unix = With1(Without1(@, n), GetName(new), u)]

(* disk::Write of a directory sector in which entry p has become e, up to    *)
(* the final Flush.                                                          *)
WriteEntry(h, p, e) ==
  LET old == h.dir[p]
      g == IF old = e THEN h
           ELSE IF e = Unused THEN RemoveFile(h, old)
           ELSE IF old = Unused THEN CreateFile(h, e)
           ELSE RenameFile(h, old, e)
  IN IF g.up THEN [g EXCEPT !.dir[p] = e] ELSE g

(* Mutant: a directory write leaves the cache alone. *)
WriteNoFlush(h, op) ==
  IF ~h.up THEN h
  ELSE IF op.op = "data" THEN [h EXCEPT !.cache = With1(@, op.at, op.val)]
  ELSE WriteEntry(h, op.at, op.val)

(* disk::Write. *)
Write(h, op) ==
  IF ~h.up THEN h
  ELSE IF op.op = "data" THEN [h EXCEPT !.cache = With1(@, op.at, op.val)]
  ELSE LET g == WriteEntry(h, op.at, op.val) IN IF g.up THEN Flush(g) ELSE g

(* disk::Read of a data sector.  Unused stands for what no write through     *)
(* this object put there: a gap of the host file, or, when no host file has  *)
(* the sector, what the caller's buffer held before.                         *)
Read(h, s) ==
  LET e == h.dir[First(Owners(h, s))]
      u == h.cpm2unix[GetName(e)]
  IN IF s \in DOMAIN h.cache THEN h.cache[s]
     ELSE IF Owners(h, s) = {} \/ GetName(e) \notin DOMAIN h.cpm2unix THEN Unused
     ELSE IF u \notin DOMAIN h.files \/ Offset(e, s) \notin DOMAIN h.files[u] THEN Unused
     ELSE h.files[u][Offset(e, s)]
============================================================================
