-------------------------------- MODULE Qsort ------------------------------
(* qsort of C.LIB (QSORT.C): quicksort without recursion.  The larger part *)
(* of every partition waits on a stack of 16 entries; the pivot is not     *)
(* copied, x follows it through the exchanges.  Positions count elements   *)
(* from 1; compar compares natural numbers and swapmem exchanges two.      *)
EXTENDS Integers, Sequences, FiniteSets

CONSTANT Given     \* the arrays the program sorts, not empty

(* The difference of two pointers is an int of 16 bits. *)
ASSUME QsortAssumption ==
  Given \subseteq Seq(Int) \ {<<>>} /\ \A a \in Given : Len(a) < 32768

VARIABLES
  given,     \* the array as it was passed
  arr,       \* the array now
  base, r,   \* first and last element of the part being sorted
  i, j, x,   \* the two scans and the pivot
  stack,     \* parts that wait
  pc         \* "part", "up", "down", "swap", "split", "pop" or "done"

qvars == <<given, arr, base, r, i, j, x, stack, pc>>

QInit ==
  /\ given \in Given /\ arr = given
  /\ base = 1 /\ r = Len(given)
  /\ i = 1 /\ j = 1 /\ x = 1
  /\ stack = <<>>
  /\ pc = "part"

Part ==
  /\ pc = "part" /\ pc' = "up"
  /\ x' = base + ((r - base) \div 2) /\ i' = base /\ j' = r
  /\ UNCHANGED <<given, arr, base, r, stack>>

(* Whatever is outside the array is taken to be small. *)
Key(k) == IF k \in DOMAIN arr THEN arr[k] ELSE 0

(* Mutant: the scan also passes elements like the pivot. *)
UpEqual ==
  /\ pc = "up"
  /\ IF Key(i) <= Key(x) THEN i' = i + 1 /\ UNCHANGED pc ELSE pc' = "down" /\ UNCHANGED i
  /\ UNCHANGED <<given, arr, base, r, j, x, stack>>

Up ==
  /\ pc = "up"
  /\ IF Key(i) < Key(x) THEN i' = i + 1 /\ UNCHANGED pc ELSE pc' = "down" /\ UNCHANGED i
  /\ UNCHANGED <<given, arr, base, r, j, x, stack>>

Down ==
  /\ pc = "down"
  /\ IF Key(x) < Key(j) THEN j' = j - 1 /\ UNCHANGED pc ELSE pc' = "swap" /\ UNCHANGED j
  /\ UNCHANGED <<given, arr, base, r, i, x, stack>>

(* Mutant: x stays where the pivot was. *)
MovedNot == x

Moved == IF i >= j THEN x ELSE IF x = i THEN j ELSE IF x = j THEN i ELSE x

(* Mutant: the scans stay where they met. *)
SwapStays ==
  /\ pc = "swap"
  /\ arr' = IF i < j THEN [arr EXCEPT ![i] = arr[j], ![j] = arr[i]] ELSE arr
  /\ x' = Moved
  /\ IF i < j THEN i' = i + 1 /\ j' = j - 1 ELSE UNCHANGED <<i, j>>
  /\ pc' = IF i' <= j' THEN "up" ELSE "split"
  /\ UNCHANGED <<given, base, r, stack>>

Swap ==
  /\ pc = "swap"
  /\ arr' = IF i < j THEN [arr EXCEPT ![i] = arr[j], ![j] = arr[i]] ELSE arr
  /\ x' = Moved
  /\ IF i <= j THEN i' = i + 1 /\ j' = j - 1 ELSE UNCHANGED <<i, j>>
  /\ pc' = IF i' <= j' THEN "up" ELSE "split"
  /\ UNCHANGED <<given, base, r, stack>>

(* Mutant: the smaller part waits. *)
LeftIsSmallerNot == j - base >= r - i

LeftIsSmaller == j - base < r - i

Wait(l, h) == stack' = IF l < h THEN Append(stack, <<l, h>>) ELSE stack

Split ==
  /\ pc = "split"
  /\ \/ LeftIsSmaller /\ Wait(i, r) /\ r' = j /\ UNCHANGED base
     \/ ~LeftIsSmaller /\ Wait(base, j) /\ base' = i /\ UNCHANGED r
  /\ pc' = IF base' < r' THEN "part" ELSE "pop"
  /\ UNCHANGED <<given, arr, i, j, x>>

Pop ==
  /\ pc = "pop"
  /\ \/ stack = <<>> /\ pc' = "done" /\ UNCHANGED <<base, r, stack>>
     \/ /\ stack # <<>> /\ pc' = "part"
        /\ base' = stack[Len(stack)][1] /\ r' = stack[Len(stack)][2]
        /\ stack' = SubSeq(stack, 1, Len(stack) - 1)
  /\ UNCHANGED <<given, arr, i, j, x>>

QNext == Part \/ Up \/ Down \/ Swap \/ Split \/ Pop

QSpec == QInit /\ [][QNext]_qvars

----------------------------------------------------------------------------
Often(a, key) == Cardinality({k \in 1..Len(a) : a[k] = key})

(* What qsort returns is the array in order: each key as often as before,    *)
(* no element above its successor, whatever keys are equal (QSORT.C).        *)
Sorts ==
  pc = "done" =>
    /\ \A k \in 1..Len(arr) - 1 : arr[k] <= arr[k + 1]
    /\ \A k \in 1..Len(arr) : Often(arr, arr[k]) = Often(given, arr[k])

(* compar and swapmem only get elements of the part being sorted, though the *)
(* scans look at no limit: there is always an element that stops them.       *)
InPart == pc \in {"up", "down", "swap"} => {i, j, x} \subseteq base..r

(* A part that waits k entries deep has at most 1/2^(k-1) of the elements,   *)
(* so the 16 entries of stack are enough for every array of the memory.      *)
StackFits ==
  /\ Len(stack) <= 16
  /\ \A k \in DOMAIN stack : (stack[k][2] - stack[k][1] + 1) * 2^(k - 1) <= Len(given)

(* qsort returns. *)
QsortReturns == <>(pc = "done")
============================================================================
