----------------------------- MODULE FileStore -----------------------------
(***************************************************************************)
(* What the BDOS promises the programs that use its files: a file is a     *)
(* function from record numbers to records, with holes; a write puts one   *)
(* record; everything else only makes records disappear (an erase, an FCB  *)
(* abandoned before it was closed, a close on a protected drive) or moves  *)
(* them to another name.  In particular no call changes a record that some *)
(* file already has, except the one it writes.                             *)
(***************************************************************************)
CONSTANTS Name, Record, Data, Hole

VARIABLE file

Holes == [r \in Record |-> Hole]

Init == file = [n \in Name |-> Holes]

(* A new block comes with whatever its other sectors hold. *)
Put(old, new, n, r) ==
  /\ new[n][r] \in Data
  /\ \A m \in Name, q \in Record :
       old[m][q] # new[m][q] => m = n /\ (q = r \/ old[m][q] = Hole)

Shrinks(old, new, n) == \A r \in Record : new[n][r] \in {old[n][r], Hole}

Drop(old, new) == \A n \in Name : Shrinks(old, new, n)

(* A record moves or stays: a rename that meets a read-only entry stops half *)
(* way.  What was written and not closed is lost.                            *)
Move(old, new, o, n) ==
  /\ o # n /\ old[n] = Holes
  /\ \A m \in Name \ {n} : Shrinks(old, new, m)
  /\ \A r \in Record : new[n][r] # Hole => new[n][r] = old[o][r] /\ new[o][r] = Hole

Step(old, new) ==
  \/ Drop(old, new)
  \/ \E n \in Name, r \in Record : Put(old, new, n, r)
  \/ \E o, n \in Name : Move(old, new, o, n)

Next ==
  \E old \in {file}, new \in {file'} :
    new \in [Name -> [Record -> Data \cup {Hole}]] /\ Step(old, new)

Spec == Init /\ [][Next]_file
============================================================================
