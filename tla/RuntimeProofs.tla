--------------------------- MODULE RuntimeProofs ---------------------------
(***************************************************************************)
(* Two things a program runs on: the qsort it is linked with, and the      *)
(* console the emulator gives it.                                          *)
(*                                                                         *)
(* Qsort sorts every array, and looks at nothing but the part it sorts.    *)
(* Up and Down test no limit; the proof keeps, for each, an element in     *)
(* front of it that will stop it: at first the pivot, later the elements   *)
(* that were exchanged.  The waiting parts halve, so that the stack is     *)
(* deep enough, and elements of different parts are in order already.      *)
(*                                                                         *)
(* The console keeps its types for every set of client bytes and every     *)
(* bound, and a byte the BIOS saw on the status port is there when it is   *)
(* read.                                                                   *)
(***************************************************************************)
EXTENDS Console, Qsort, SequenceTheorems, FiniteSetTheorems, TLAPS

----------------------------------------------------------------------------
(* The qsort of the C library. *)

N == Len(given)
Place == 1..N

Types ==
  /\ given \in Seq(Int) /\ N >= 1
  /\ arr \in [Place -> Int]
  /\ base \in Int /\ r \in Int /\ i \in Int /\ j \in Int /\ x \in Int
  /\ stack \in Seq(Int \X Int)
  /\ pc \in {"part", "up", "down", "swap", "split", "pop", "done"}

PartInArray == 1 <= base /\ base <= r /\ r <= N

Waiting == \A k \in 1..Len(stack) : 1 <= stack[k][1] /\ stack[k][1] < stack[k][2] /\ stack[k][2] <= N

Scanning == base <= i /\ i <= r /\ base <= j /\ j <= r /\ base <= x /\ x <= r

StopsUp == \E k \in i..r : arr[k] >= arr[x]
StopsDown == \E k \in base..j : arr[k] <= arr[x]

(* The inductive invariant. *)
Inv ==
  /\ Types /\ Waiting
  /\ pc \in {"part", "up", "down", "swap", "split"} => PartInArray
  /\ pc = "up" => Scanning /\ StopsUp /\ StopsDown
  /\ pc = "down" => Scanning /\ arr[i] >= arr[x] /\ StopsDown
  /\ pc = "swap" => Scanning /\ arr[i] >= arr[x] /\ arr[j] <= arr[x]
  /\ pc = "split" => base <= i /\ j <= r /\ j < i

(* The first call finds a part that is the whole array. *)
LEMMA InitInv == QInit => Inv
<1> SUFFICES ASSUME QInit PROVE Inv
  OBVIOUS
<1>1. given \in Seq(Int) /\ given # <<>>
  BY QsortAssumption DEF QInit
<1>2. N \in Nat /\ N >= 1
  BY <1>1 DEF N
<1>3. Types
  BY <1>1, <1>2 DEF QInit, Types, N, Place
<1>4. Waiting /\ PartInArray
  BY <1>2 DEF QInit, Waiting, PartInArray, N
<1> QED
  BY <1>3, <1>4 DEF Inv, QInit

(* A new part starts both scans at its ends, with the pivot between them. *)
LEMMA PartInv == Inv /\ Part => Inv'
<1> SUFFICES ASSUME Inv, Part PROVE Inv'
  OBVIOUS
<1>1. PartInArray /\ Types /\ Waiting
  BY DEF Inv, Part
<1>2. x' \in Int /\ base <= x' /\ x' <= r
  BY <1>1 DEF Part, PartInArray, Types
<1>3. Types' /\ Waiting' /\ PartInArray'
  BY Zenon, <1>1, <1>2 DEF Part, Types, Waiting, PartInArray, N, Place
<1>4. Scanning'
  BY <1>1, <1>2 DEF Part, Scanning, PartInArray, Types
<1>5. arr[x'] \in Int /\ arr' = arr
  <2>1. x' \in Place
    BY <1>1, <1>2 DEF Types, PartInArray, Place, N
  <2> QED
    BY <1>1, <2>1 DEF Types, Part
<1>6. StopsUp' /\ StopsDown'
  BY <1>1, <1>2, <1>5 DEF Part, StopsUp, StopsDown, PartInArray, Types
<1> QED
  BY <1>3, <1>4, <1>6 DEF Inv, Part

(* The upward scan stops at the latest at its witness. *)
LEMMA UpInv == Inv /\ Up => Inv'
<1> SUFFICES ASSUME Inv, Up PROVE Inv'
  OBVIOUS
<1>1. Types /\ Waiting /\ PartInArray /\ Scanning /\ StopsUp /\ StopsDown
  BY DEF Inv, Up
<1>2. \A k \in base..r : k \in Place /\ arr[k] \in Int /\ Key(k) = arr[k]
  <2>1. \A k \in base..r : k \in Place
    BY <1>1 DEF Types, PartInArray, Place, N
  <2> QED
    BY <1>1, <2>1 DEF Types, Key
<1>3. i \in base..r /\ x \in base..r
  BY <1>1 DEF Scanning, Types
<1>4. CASE arr[i] < arr[x]
  <2>1. i' = i + 1 /\ pc' = "up"
    BY <1>2, <1>3, <1>4 DEF Up
  <2>2. PICK k \in i..r : arr[k] >= arr[x]
    BY <1>1 DEF StopsUp
  <2>3. k \in i'..r
    BY <1>1, <1>2, <1>3, <1>4, <2>1, <2>2 DEF Types, Scanning
  <2>4. Types' /\ Waiting' /\ PartInArray'
    BY <1>1, <2>1 DEF Up, Types, Waiting, PartInArray, N, Place
  <2>5. Scanning'
    BY <1>1, <2>1, <2>3 DEF Up, Scanning, Types
  <2>6. StopsUp' /\ StopsDown'
    BY <1>1, <2>2, <2>3 DEF Up, StopsUp, StopsDown
  <2> QED
    BY <2>1, <2>4, <2>5, <2>6 DEF Inv
<1>5. CASE ~(arr[i] < arr[x])
  <2>1. i' = i /\ pc' = "down"
    BY <1>2, <1>3, <1>5 DEF Up
  <2>2. Types' /\ Waiting' /\ PartInArray' /\ Scanning'
    BY <1>1, <2>1 DEF Up, Types, Waiting, PartInArray, Scanning, N, Place
  <2>3. arr'[i'] >= arr'[x'] /\ StopsDown'
    BY <1>1, <1>2, <1>3, <1>5, <2>1 DEF Up, StopsDown
  <2> QED
    BY <2>1, <2>2, <2>3 DEF Inv
<1> QED
  BY <1>4, <1>5

(* The downward scan likewise. *)
LEMMA DownInv == Inv /\ Down => Inv'
<1> SUFFICES ASSUME Inv, Down PROVE Inv'
  OBVIOUS
<1>1. Types /\ Waiting /\ PartInArray /\ Scanning /\ arr[i] >= arr[x] /\ StopsDown
  BY DEF Inv, Down
<1>2. \A k \in base..r : k \in Place /\ arr[k] \in Int /\ Key(k) = arr[k]
  <2>1. \A k \in base..r : k \in Place
    BY <1>1 DEF Types, PartInArray, Place, N
  <2> QED
    BY <1>1, <2>1 DEF Types, Key
<1>3. j \in base..r /\ x \in base..r
  BY <1>1 DEF Scanning, Types
<1>4. CASE arr[x] < arr[j]
  <2>1. j' = j - 1 /\ pc' = "down"
    BY <1>2, <1>3, <1>4 DEF Down
  <2>2. PICK k \in base..j : arr[k] <= arr[x]
    BY <1>1 DEF StopsDown
  <2>3. k \in base..j'
    BY <1>1, <1>2, <1>3, <1>4, <2>1, <2>2 DEF Types, Scanning
  <2>4. Types' /\ Waiting' /\ PartInArray'
    BY <1>1, <2>1 DEF Down, Types, Waiting, PartInArray, N, Place
  <2>5. Scanning'
    BY <1>1, <2>1, <2>3 DEF Down, Scanning, Types
  <2>6. arr'[i'] >= arr'[x'] /\ StopsDown'
    BY <1>1, <2>2, <2>3 DEF Down, StopsDown
  <2> QED
    BY <2>1, <2>4, <2>5, <2>6 DEF Inv
<1>5. CASE ~(arr[x] < arr[j])
  <2>1. j' = j /\ pc' = "swap"
    BY <1>2, <1>3, <1>5 DEF Down
  <2>2. Types' /\ Waiting' /\ PartInArray' /\ Scanning'
    BY <1>1, <2>1 DEF Down, Types, Waiting, PartInArray, Scanning, N, Place
  <2>3. arr'[i'] >= arr'[x'] /\ arr'[j'] <= arr'[x']
    BY <1>1, <1>2, <1>3, <1>5, <2>1 DEF Down
  <2> QED
    BY <2>1, <2>2, <2>3 DEF Inv
<1> QED
  BY <1>4, <1>5

(* An exchange keeps the value of the pivot, and what it puts behind the     *)
(* scans stops them in the next round.                                       *)
LEMMA SwapInv == Inv /\ Swap => Inv'
<1> SUFFICES ASSUME Inv, Swap PROVE Inv'
  OBVIOUS
<1>1. Types /\ Waiting /\ PartInArray /\ Scanning /\ arr[i] >= arr[x] /\ arr[j] <= arr[x]
  BY DEF Inv, Swap
<1>2. i \in Place /\ j \in Place /\ x \in Place
  BY <1>1 DEF Types, PartInArray, Scanning, Place, N
<1>3. arr[i] \in Int /\ arr[j] \in Int /\ arr[x] \in Int
  BY <1>1, <1>2 DEF Types
<1>4. x' \in Int /\ base <= x' /\ x' <= r /\ i' \in Int /\ j' \in Int
  BY <1>1 DEF Swap, Moved, Scanning, Types
<1>5. arr' \in [Place -> Int]
  BY <1>1, <1>2, <1>3 DEF Swap, Types
<1>6. pc' \in {"up", "split"} /\ (pc' = "up" => i' <= j') /\ (pc' = "split" => ~(i' <= j'))
  BY DEF Swap
<1>7. Types' /\ Waiting' /\ PartInArray'
  BY <1>1, <1>4, <1>5, <1>6 DEF Swap, Types, Waiting, PartInArray, N, Place
<1>8. CASE i < j
  <2>1. i' = i + 1 /\ j' = j - 1 /\ arr' = [arr EXCEPT ![i] = arr[j], ![j] = arr[i]]
    BY <1>1, <1>8 DEF Swap, Types
  <2>2. i # j /\ arr'[i] = arr[j] /\ arr'[j] = arr[i] /\ (\A k \in Place \ {i, j} : arr'[k] = arr[k])
    BY <1>1, <1>2, <1>8, <2>1 DEF Types
  <2>3. x' = IF x = i THEN j ELSE IF x = j THEN i ELSE x
    BY <1>1, <1>8 DEF Swap, Moved, Types
  <2>4. arr'[x'] = arr[x]
    BY <1>2, <2>2, <2>3
  <2>5. CASE pc' = "up"
    <3>1. i' <= j'
      BY <1>6, <2>5
    <3>2. Scanning'
      BY <1>1, <1>4, <2>1, <3>1 DEF Swap, Scanning, Types
    <3>3. j \in i'..r' /\ i \in base'..j'
      BY <1>1, <2>1, <3>1 DEF Swap, Scanning, Types
    <3>4. StopsUp' /\ StopsDown'
      BY <1>1, <1>3, <2>2, <2>4, <3>3 DEF StopsUp, StopsDown
    <3> QED
      BY <1>7, <2>5, <3>2, <3>4 DEF Inv
  <2>6. CASE pc' = "split"
    <3>1. base' <= i' /\ j' <= r' /\ j' < i'
      BY <1>1, <1>6, <2>1, <2>6 DEF Swap, Scanning, Types
    <3> QED
      BY <1>7, <2>6, <3>1 DEF Inv
  <2> QED
    BY <1>6, <2>5, <2>6
<1>9. CASE ~(i < j)
  <2>1. base' <= i' /\ j' <= r' /\ j' < i'
    BY <1>1, <1>9 DEF Swap, Scanning, Types
  <2>2. pc' = "split"
    BY <1>4, <1>6, <2>1
  <2> QED
    BY <1>7, <2>1, <2>2 DEF Inv
<1> QED
  BY <1>8, <1>9

(* What waits, and what is sorted next, are parts of the part just split. *)
LEMMA SplitInv == Inv /\ Split => Inv'
<1> SUFFICES ASSUME Inv, Split PROVE Inv'
  OBVIOUS
<1>1. Types /\ Waiting /\ PartInArray /\ base <= i /\ j <= r /\ j < i
  BY DEF Inv, Split
<1>2. PICK l \in Int, h \in Int : Wait(l, h) /\ 1 <= l /\ h <= N
  BY <1>1 DEF Split, Types, PartInArray, N
<1>3. stack' \in Seq(Int \X Int) /\ Waiting'
  <2>1. CASE l < h
    <3>1. stack' = Append(stack, <<l, h>>) /\ given' = given
      BY <1>2, <2>1 DEF Wait, Split
    <3>2. <<l, h>> \in Int \X Int
      OBVIOUS
    <3>3. stack' \in Seq(Int \X Int) /\ Len(stack') = Len(stack) + 1 /\ Len(stack) \in Nat
      BY <1>1, <3>1, <3>2 DEF Types
    <3>4. \A k \in 1..Len(stack') : stack'[k] = IF k <= Len(stack) THEN stack[k] ELSE <<l, h>>
      BY <1>1, <3>1, <3>2, <3>3 DEF Types
    <3> QED
      BY <1>1, <1>2, <2>1, <3>1, <3>3, <3>4 DEF Waiting, N
  <2>2. CASE ~(l < h)
    BY <1>1, <1>2, <2>2 DEF Wait, Split, Types, Waiting, N
  <2> QED
    BY <2>1, <2>2
<1>4. base' \in Int /\ r' \in Int /\ 1 <= base' /\ r' <= N' /\ pc' \in {"part", "pop"} /\ (pc' = "part" => base' < r')
  BY <1>1 DEF Split, Types, PartInArray, N
<1>5. Types'
  BY <1>1, <1>3, <1>4 DEF Split, Types, N, Place
<1> QED
  BY <1>3, <1>4, <1>5 DEF Inv, PartInArray

(* What is left of the stack without its last entry. *)
LEMMA Popped ==
  ASSUME Types, stack # <<>>, stack' = SubSeq(stack, 1, Len(stack) - 1)
  PROVE  /\ Len(stack) \in Nat /\ Len(stack) >= 1
         /\ stack' \in Seq(Int \X Int) /\ Len(stack') = Len(stack) - 1
         /\ \A k \in 1..Len(stack') : stack'[k] = stack[k]
<1> DEFINE n == Len(stack) - 1
<1>1. /\ Len(stack) \in Nat /\ n \in Nat /\ stack' = SubSeq(stack, 1, n)
      /\ \A k \in 1..n : stack[k] \in Int \X Int
  BY DEF Types
<1>2. /\ SubSeq(stack, 1, n) \in Seq(Int \X Int)
      /\ Len(SubSeq(stack, 1, n)) = IF 1 <= n THEN n - 1 + 1 ELSE 0
      /\ \A k \in 1..n - 1 + 1 : SubSeq(stack, 1, n)[k] = stack[1 + k - 1]
  <2>1. n \in Int /\ 1 \in Int
    BY <1>1
  <2> HIDE DEF n
  <2> QED BY <1>1, <2>1, SubSeqProperties
<1>3. Len(stack') = n
  <2> HIDE DEF n
  <2>1. (IF 1 <= n THEN n - 1 + 1 ELSE 0) = n
    BY <1>1
  <2> QED BY <1>1, <1>2, <2>1, Zenon
<1>4. \A k \in 1..n : stack'[k] = stack[k]
  BY <1>1, <1>2
<1> QED BY <1>1, <1>2, <1>3, <1>4

(* The part that waited last is in the array. *)
LEMMA PopInv == Inv /\ Pop => Inv'
<1> SUFFICES ASSUME Inv, Pop PROVE Inv'
  OBVIOUS
<1>1. Types /\ Waiting
  BY DEF Inv
<1>2. CASE stack = <<>>
  <2>1. pc' = "done" /\ UNCHANGED <<given, arr, base, r, i, j, x, stack>>
    BY <1>2 DEF Pop
  <2> QED
    BY <1>1, <2>1 DEF Inv, Types, Waiting, N, Place
<1>3. CASE stack # <<>>
  <2>1. /\ pc' = "part" /\ base' = stack[Len(stack)][1] /\ r' = stack[Len(stack)][2]
        /\ stack' = SubSeq(stack, 1, Len(stack) - 1) /\ UNCHANGED <<given, arr, i, j, x>>
    BY <1>3 DEF Pop
  <2>2. Len(stack) \in Nat /\ Len(stack) >= 1 /\ stack[Len(stack)] \in Int \X Int
    BY <1>1, <1>3 DEF Types
  <2>3. base' \in Int /\ r' \in Int /\ PartInArray'
    BY <1>1, <2>1, <2>2 DEF Waiting, PartInArray, N
  <2>4. stack' \in Seq(Int \X Int) /\ Len(stack') = Len(stack) - 1
        /\ (\A k \in 1..Len(stack') : stack'[k] = stack[k])
    BY <1>1, <1>3, <2>1, Popped
  <2>5. Waiting'
    BY <1>1, <2>1, <2>2, <2>4 DEF Waiting, N
  <2> QED
    BY Zenon, <1>1, <2>1, <2>3, <2>4, <2>5 DEF Inv, Types, N, Place
<1> QED
  BY <1>2, <1>3

(* The invariant holds in every state of a call. *)
THEOREM QsortInvariant == QSpec => []Inv
<1>1. Inv /\ UNCHANGED qvars => Inv'
  BY DEF Inv, Types, Waiting, PartInArray, Scanning, StopsUp, StopsDown, N, Place, qvars
<1>2. Inv /\ QNext => Inv'
  BY PartInv, UpInv, DownInv, SwapInv, SplitInv, PopInv DEF QNext
<1> QED
  BY <1>1, <1>2, InitInv, PTL DEF QSpec

(* compar and swapmem get elements of the part being sorted only, for every  *)
(* array (QSORT.C).                                                          *)
THEOREM QsortInPart == QSpec => []InPart
<1>1. Inv => InPart
  BY DEF Inv, InPart, Scanning, Types
<1> QED
  BY <1>1, QsortInvariant, PTL

----------------------------------------------------------------------------
(* The stack.  A part that is being sorted below k waiting ones has at most  *)
(* 1/2^k of the elements: of the two parts of a split the smaller one goes   *)
(* on.                                                                       *)

Active == pc \in {"part", "up", "down", "swap", "split"}

Pow(n) == 2^n

Halved ==
  /\ N < 32768 /\ Len(stack) <= 14
  /\ \A k \in 1..Len(stack) : (stack[k][2] - stack[k][1] + 1) * Pow(k - 1) <= N
  /\ Active => (r - base + 1) * Pow(Len(stack)) <= N

(* The powers of two a register can hold. *)
LEMMA Powers ==
  /\ Pow(0) = 1 /\ Pow(14) = 16384
  /\ \A k \in 0..14 : Pow(k) \in Nat /\ Pow(k) >= 1 /\ Pow(k + 1) = 2 * Pow(k)
<1>1. /\ Pow(0) = 1 /\ Pow(1) = 2 /\ Pow(2) = 4 /\ Pow(3) = 8 /\ Pow(4) = 16 /\ Pow(5) = 32
      /\ Pow(6) = 64 /\ Pow(7) = 128 /\ Pow(8) = 256 /\ Pow(9) = 512 /\ Pow(10) = 1024
      /\ Pow(11) = 2048 /\ Pow(12) = 4096 /\ Pow(13) = 8192 /\ Pow(14) = 16384
      /\ Pow(15) = 32768
  BY DEF Pow
<1>2. ASSUME NEW k \in 0..14 PROVE Pow(k) \in Nat /\ Pow(k) >= 1 /\ Pow(k + 1) = 2 * Pow(k)
  BY <1>1
<1> QED BY <1>1, <1>2

(* A part of at most half the size, twice as deep. *)
LEMMA Halves ==
  ASSUME NEW c \in Int, NEW d \in Int, NEW p \in Nat, NEW n \in Nat, c * p <= n
  PROVE  /\ d <= c => d * p <= n
         /\ 2 * d <= c => d * (2 * p) <= n
<1>1. ASSUME NEW a \in Int, a <= c PROVE a * p <= n
  <2>1. (c - a) * p >= 0
    BY <1>1
  <2>2. (c - a) * p = c * p - a * p
    OBVIOUS
  <2> QED BY <2>1, <2>2
<1>2. d * (2 * p) = (2 * d) * p
  OBVIOUS
<1>3. 2 * d \in Int
  OBVIOUS
<1> QED BY <1>1, <1>2, <1>3

LEMMA InitHalved == QInit => Halved
<1> SUFFICES ASSUME QInit PROVE Halved
  OBVIOUS
<1>1. given \in Seq(Int) /\ N < 32768
  BY QsortAssumption DEF QInit, N
<1>2. N \in Nat /\ stack = <<>> /\ base = 1 /\ r = N
  BY <1>1 DEF QInit, N
<1> QED BY <1>1, <1>2, Powers DEF Halved

(* A split puts a part on the stack that is no larger than the one before,   *)
(* and goes on with one of at most half of it.                               *)
LEMMA SplitHalved == Inv /\ Halved /\ Split => Halved'
<1> SUFFICES ASSUME Inv, Halved, Split PROVE Halved'
  OBVIOUS
<1> DEFINE d == Len(stack)
           c == r - base + 1
<1>1. Types /\ Waiting /\ PartInArray /\ base <= i /\ j <= r /\ j < i
  BY DEF Inv, Split
<1>2. /\ d \in 0..14 /\ N \in Nat /\ N < 32768 /\ Pow(d) \in Nat /\ Pow(d) >= 1
      /\ Pow(d + 1) = 2 * Pow(d) /\ c \in Int /\ c * Pow(d) <= N
  <2>0. N < 32768 /\ d <= 14
    BY DEF Halved
  <2>a. N \in Nat /\ d \in Nat /\ c \in Int
    BY <1>1 DEF Types, N
  <2>2. c * Pow(d) <= N
    BY DEF Halved, Active, Split
  <2> HIDE DEF c, d
  <2>3. d \in 0..14
    BY <2>0, <2>a
  <2> QED BY <2>0, <2>a, <2>2, <2>3, Powers
<1>3. PICK l \in Int, h \in Int :
        /\ Wait(l, h) /\ h - l + 1 <= c /\ (~(l < h) => ~(base' < r'))
        /\ r' - base' + 1 \in Int /\ 2 * (r' - base' + 1) <= c
        /\ r' \in Int /\ base' \in Int
  <2>1. i \in Int /\ j \in Int /\ r \in Int /\ base \in Int
    BY <1>1 DEF Types
  <2>2. base <= i /\ j <= r /\ j < i
    BY <1>1
  <2>3. CASE LeftIsSmaller /\ Wait(i, r) /\ r' = j /\ UNCHANGED base
    <3>1. r - i + 1 <= c /\ (~(i < r) => ~(base < j)) /\ 2 * (j - base + 1) <= c
      BY <2>1, <2>2, <2>3 DEF LeftIsSmaller
    <3> QED BY <2>1, <2>3, <3>1
  <2>4. CASE ~LeftIsSmaller /\ Wait(base, j) /\ base' = i /\ UNCHANGED r
    <3>1. j - base + 1 <= c /\ (~(base < j) => ~(i < r)) /\ 2 * (r - i + 1) <= c
      BY <2>1, <2>2, <2>4 DEF LeftIsSmaller
    <3> QED BY <2>1, <2>4, <3>1
  <2> QED BY <2>3, <2>4 DEF Split
<1>4. given' = given /\ N' = N /\ pc' = IF base' < r' THEN "part" ELSE "pop"
  BY DEF Split, N
<1>5. CASE l < h
  <2>1. stack' = Append(stack, <<l, h>>)
    BY Zenon, <1>3, <1>5 DEF Wait
  <2>2. <<l, h>> \in Int \X Int
    OBVIOUS
  <2>3. stack' \in Seq(Int \X Int) /\ Len(stack') = d + 1
    BY <1>1, <2>1, <2>2 DEF Types
  <2>4. \A k \in 1..d + 1 : stack'[k] = IF k <= d THEN stack[k] ELSE <<l, h>>
    BY <1>1, <1>2, <2>1, <2>2, <2>3 DEF Types
  <2> DEFINE w == h - l + 1
             q == Pow(d)
             y == r' - base' + 1
  <2>5. w \in Int /\ w >= 2 /\ w <= c /\ q \in Nat /\ y \in Int /\ 2 * y <= c /\ c * q <= N
    BY <1>2, <1>3, <1>5
  <2>6. w * q <= N /\ y * (2 * q) <= N /\ 2 * q <= N
    <3> HIDE DEF w, c, q, y
    <3>1. w * q <= N /\ y * (2 * q) <= N
      BY <1>2, <2>5, Halves
    <3>2. 2 * q <= N
      BY <1>2, <2>5, <3>1, Halves
    <3> QED BY <3>1, <3>2
  <2>7. d + 1 <= 14
    <3>1. d \in 0..14 /\ N \in Nat /\ N < 32768
      BY <1>2
    <3>2. 2 * Pow(d) <= N
      BY <2>6
    <3>3. Pow(14) = 16384
      BY Powers
    <3> HIDE DEF d
    <3> QED BY <3>1, <3>2, <3>3
  <2>8. y * Pow(d + 1) <= N
    BY <1>2, <2>6
  <2>9. ASSUME NEW k \in 1..d + 1
        PROVE  (stack'[k][2] - stack'[k][1] + 1) * Pow(k - 1) <= N
    <3>1. CASE k <= d
      <4>1. k \in 1..Len(stack) /\ stack'[k] = stack[k]
        BY <1>2, <2>4, <3>1
      <4>2. (stack[k][2] - stack[k][1] + 1) * Pow(k - 1) <= N
        BY <4>1 DEF Halved
      <4> QED BY <4>1, <4>2
    <3>2. CASE k = d + 1
      <4>1. stack'[k] = <<l, h>> /\ k - 1 = d
        BY <1>2, <2>4, <3>2
      <4> QED BY <2>6, <4>1
    <3> QED BY <1>2, <3>1, <3>2
  <2> QED BY <1>2, <1>4, <2>3, <2>7, <2>8, <2>9 DEF Halved, Active
<1>6. CASE ~(l < h)
  <2>1. stack' = stack /\ pc' = "pop"
    BY <1>3, <1>4, <1>6 DEF Wait
  <2> QED BY <1>4, <2>1 DEF Halved, Active
<1> QED BY <1>5, <1>6

(* The part that waited last had its bound one level up. *)
LEMMA PopHalved == Inv /\ Halved /\ Pop => Halved'
<1> SUFFICES ASSUME Inv, Halved, Pop PROVE Halved'
  OBVIOUS
<1> DEFINE d == Len(stack)
<1>1. Types /\ given' = given /\ N' = N
  BY DEF Inv, Pop, N
<1>2. CASE stack = <<>>
  BY <1>1, <1>2 DEF Pop, Halved, Active
<1>3. CASE stack # <<>>
  <2>1. /\ d \in Nat /\ d >= 1 /\ pc' = "part"
        /\ base' = stack[d][1] /\ r' = stack[d][2]
        /\ Len(stack') = d - 1 /\ \A k \in 1..d - 1 : stack'[k] = stack[k]
    BY <1>1, <1>3, Popped DEF Pop
  <2>2. (stack[d][2] - stack[d][1] + 1) * Pow(d - 1) <= N
    BY <2>1 DEF Halved
  <2> QED BY <1>1, <2>1, <2>2 DEF Halved, Active
<1> QED BY <1>2, <1>3

(* The other steps change neither the parts nor the stack. *)
LEMMA NextHalved == Inv /\ Halved /\ [QNext]_qvars => Halved'
<1> SUFFICES ASSUME Inv, Halved, [QNext]_qvars PROVE Halved'
  OBVIOUS
<1>1. CASE Part \/ Up \/ Down \/ Swap \/ UNCHANGED qvars
  <2>1. UNCHANGED <<given, base, r, stack>> /\ (Active' => Active)
    BY <1>1 DEF Part, Up, Down, Swap, qvars, Active
  <2> QED BY <2>1 DEF Halved, N
<1> QED BY <1>1, SplitHalved, PopHalved DEF QNext

(* The 16 entries of qsort's stack are enough, for every array (QSORT.C).    *)
THEOREM QsortStackFits == QSpec => []StackFits
<1>1. Inv /\ Halved => StackFits
  <2> SUFFICES ASSUME Inv, Halved PROVE StackFits
    OBVIOUS
  <2>1. Len(stack) <= 16 /\ DOMAIN stack = 1..Len(stack)
    BY DEF Halved, Inv, Types
  <2>2. \A k \in 1..Len(stack) : (stack[k][2] - stack[k][1] + 1) * 2^(k - 1) <= Len(given)
    <3> SUFFICES ASSUME NEW k \in 1..Len(stack)
                 PROVE  (stack[k][2] - stack[k][1] + 1) * 2^(k - 1) <= Len(given)
      OBVIOUS
    <3>1. (stack[k][2] - stack[k][1] + 1) * Pow(k - 1) <= N
      BY DEF Halved
    <3> QED BY <3>1, Zenon DEF Pow, N
  <2> QED BY <2>1, <2>2, Zenon DEF StackFits
<1> QED BY <1>1, InitHalved, NextHalved, QsortInvariant, PTL DEF QSpec

----------------------------------------------------------------------------
(* The order.  Two elements may be the wrong way round only when both are in *)
(* one part that waits or is being sorted; parts do not overlap, so that the *)
(* exchanges in one do not disturb the others.                               *)

Together(k, l) ==
  \/ Active /\ base <= k /\ l <= r
  \/ \E p \in 1..Len(stack) : stack[p][1] <= k /\ l <= stack[p][2]

Ordered == \A k, l \in Place : k < l => arr[k] <= arr[l] \/ Together(k, l)

Separate ==
  /\ \A p, q \in 1..Len(stack) : p # q => stack[p][2] < stack[q][1] \/ stack[q][2] < stack[p][1]
  /\ Active => \A p \in 1..Len(stack) : stack[p][2] < base \/ r < stack[p][1]

(* What the scans have passed is on its side of the pivot. *)
Divided ==
  pc \in {"up", "down", "swap", "split"} =>
    /\ base <= x /\ x <= r
    /\ \A k \in base..r : /\ k < i => arr[k] <= arr[x]
                          /\ k > j => arr[k] >= arr[x]

Permuted == \A v : Often(arr, v) = Often(given, v)

Order == Ordered /\ Separate /\ Divided /\ Permuted

(* The elements of a part, and the ends of the parts that wait. *)
LEMMA Elements ==
  ASSUME Types
  PROVE  /\ N \in Nat /\ \A k \in Place : arr[k] \in Int /\ Key(k) = arr[k]
         /\ \A p \in 1..Len(stack) : stack[p][1] \in Int /\ stack[p][2] \in Int
         /\ PartInArray => \A k \in base..r : k \in Place
<1>1. N \in Nat
  BY DEF Types, N
<1>2. \A k \in Place : arr[k] \in Int /\ Key(k) = arr[k]
  BY DEF Types, Key
<1>3. \A p \in 1..Len(stack) : stack[p] \in Int \X Int
  BY DEF Types
<1>4. PartInArray => \A k \in base..r : k \in Place
  BY <1>1 DEF PartInArray, Place, Types
<1> QED BY <1>1, <1>2, <1>3, <1>4

(* The whole array is being sorted. *)
LEMMA InitOrder == QInit => Order
<1> SUFFICES ASSUME QInit PROVE Order
  OBVIOUS
<1>1. given \in Seq(Int) /\ stack = <<>> /\ base = 1 /\ r = N /\ arr = given /\ pc = "part"
  BY QsortAssumption DEF QInit, N
<1>2. Ordered /\ Separate
  BY <1>1 DEF Ordered, Separate, Together, Active, Place, N
<1> QED BY <1>1, <1>2 DEF Order, Divided, Permuted

(* The scans pass elements on their side of the pivot. *)
LEMMA ScanOrder == Inv /\ Order /\ (Part \/ Up \/ Down) => Order'
<1> SUFFICES ASSUME Inv, Order, Part \/ Up \/ Down PROVE Order'
  OBVIOUS
<1>1. /\ UNCHANGED <<given, arr, base, r, stack>> /\ Active /\ Active'
      /\ Types /\ PartInArray
  BY DEF Part, Up, Down, Active, Inv
<1>2. Ordered' /\ Separate' /\ Permuted'
  BY <1>1 DEF Order, Ordered, Separate, Together, Permuted, Place, N
<1>3. \A k \in base..r : arr[k] \in Int /\ Key(k) = arr[k]
  BY <1>1, Elements
<1>4. Divided'
  <2>1. CASE Part
    <3>1. base <= x' /\ x' <= r /\ i' = base /\ j' = r
      BY <1>1, <2>1 DEF Part, Types, PartInArray
    <3> QED BY <1>1, <3>1 DEF Divided, Types
  <2>2. CASE Up
    <3>1. Scanning /\ Divided /\ x' = x /\ j' = j
      BY <2>2 DEF Inv, Order, Up
    <3>2. i' = i \/ (i' = i + 1 /\ arr[i] < arr[x])
      BY <1>1, <1>3, <2>2, <3>1 DEF Up, Scanning, Types
    <3> QED BY <1>1, <1>3, <2>2, <3>1, <3>2 DEF Divided, Up, Scanning, Types
  <2>3. CASE Down
    <3>1. Scanning /\ Divided /\ x' = x /\ i' = i
      BY <2>3 DEF Inv, Order, Down
    <3>2. j' = j \/ (j' = j - 1 /\ arr[j] > arr[x])
      BY <1>1, <1>3, <2>3, <3>1 DEF Down, Scanning, Types
    <3> QED BY <1>1, <1>3, <2>3, <3>1, <3>2 DEF Divided, Down, Scanning, Types
  <2> QED BY <2>1, <2>2, <2>3
<1> QED BY <1>2, <1>4 DEF Order

(* swapmem: each key is there as often as before. *)
LEMMA Exchanged ==
  ASSUME NEW n \in Nat, NEW a \in [1..n -> Int], NEW p \in 1..n, NEW q \in 1..n,
         NEW b \in [1..n -> Int], b[p] = a[q], b[q] = a[p],
         \A k \in 1..n : k # p /\ k # q => b[k] = a[k], NEW v
  PROVE  Often(b, v) = Often(a, v)
<1> DEFINE A == {k \in 1..n : a[k] = v}
           B == {k \in 1..n : b[k] = v}
           other(k) == IF k = p THEN q ELSE IF k = q THEN p ELSE k
           f == [k \in A |-> other(k)]
<1>1. Len(a) = n /\ Len(b) = n
  OBVIOUS
<1>2. \A k \in 1..n : b[k] = a[other(k)] /\ other(k) \in 1..n /\ other(other(k)) = k
  OBVIOUS
<1>3. f \in Bijection(A, B)
  <2>1. f \in [A -> B]
    BY <1>2
  <2>2. \A k, l \in A : f[k] = f[l] => k = l
    BY <1>2
  <2>3. \A l \in B : \E k \in A : f[k] = l
    <3> SUFFICES ASSUME NEW l \in B PROVE \E k \in A : f[k] = l
      OBVIOUS
    <3>1. other(l) \in A /\ other(other(l)) = l
      BY <1>2
    <3>2. f[other(l)] = l
      BY <3>1
    <3> QED BY <3>1, <3>2
  <2> HIDE DEF f, A, B
  <2>4. f \in Injection(A, B)
    BY <2>1, <2>2 DEF Injection, IsInjective
  <2> QED BY <2>1, <2>3, <2>4 DEF Bijection, Surjection
<1>4. IsFiniteSet(A)
  <2>1. IsFiniteSet(1..n)
    BY FS_Interval
  <2>2. A \in SUBSET (1..n)
    OBVIOUS
  <2> HIDE DEF A
  <2> QED BY Zenon, <2>1, <2>2, FS_Subset
<1>5. Cardinality(B) = Cardinality(A)
  BY <1>3, <1>4, FS_Bijection DEF ExistsBijection
<1> QED BY <1>1, <1>5 DEF Often

(* An exchange stays inside the part. *)
LEMMA SwapOrder == Inv /\ Order /\ Swap => Order'
<1> SUFFICES ASSUME Inv, Order, Swap PROVE Order'
  OBVIOUS
<1>1. /\ Types /\ PartInArray /\ Scanning /\ arr[i] >= arr[x] /\ arr[j] <= arr[x]
      /\ Ordered /\ Separate /\ Divided /\ Permuted
      /\ UNCHANGED <<given, base, r, stack>> /\ Active /\ Active'
  BY DEF Inv, Swap, Order, Active
<1>2. /\ base \in Int /\ r \in Int /\ i \in base..r /\ j \in base..r /\ x \in base..r
      /\ N \in Nat /\ base..r \subseteq Place
      /\ \A k \in Place : arr[k] \in Int
  <2>1. base \in Int /\ r \in Int /\ i \in base..r /\ j \in base..r /\ x \in base..r
    BY <1>1 DEF Types, Scanning
  <2> QED BY <1>1, <2>1, Elements
<1>3. arr' = IF i < j THEN [arr EXCEPT ![i] = arr[j], ![j] = arr[i]] ELSE arr
  BY DEF Swap
<1>4. /\ \A k \in base..r : \E l \in base..r : arr'[k] = arr[l]
      /\ \A k \in Place : k \notin base..r => arr'[k] = arr[k]
  BY <1>1, <1>2, <1>3 DEF Types
<1>5. Ordered'
  <2> SUFFICES ASSUME NEW k \in Place, NEW l \in Place, k < l, ~Together(k, l)
               PROVE  arr'[k] <= arr'[l]
    BY <1>1 DEF Ordered, Together, Place, N
  <2>1. ~(base <= k /\ l <= r) /\ k \in Int /\ l \in Int
    BY <1>1, <1>2 DEF Together, Place
  <2>2. CASE k \in base..r
    <3>1. PICK m \in base..r : arr'[k] = arr[m]
      BY <1>4, <2>2
    <3>2. m < l /\ m \in Place /\ arr'[l] = arr[l]
      BY <1>2, <1>4, <2>1, <2>2
    <3>3. ~Together(m, l)
      <4>1. ~(l <= r) /\ l > m /\ base <= m
        BY <1>2, <2>1, <2>2
      <4>2. ASSUME NEW p \in 1..Len(stack), stack[p][1] <= m, l <= stack[p][2] PROVE FALSE
        <5>1. stack[p][2] < base \/ r < stack[p][1]
          BY <1>1 DEF Separate
        <5>2. stack[p][1] \in Int /\ stack[p][2] \in Int
          BY <1>1, Elements
        <5> QED BY <1>2, <2>1, <4>1, <4>2, <5>1, <5>2
      <4> QED BY <4>1, <4>2 DEF Together
    <3> QED BY <1>1, <3>1, <3>2, <3>3 DEF Ordered
  <2>3. CASE l \in base..r
    <3>1. PICK m \in base..r : arr'[l] = arr[m]
      BY <1>4, <2>3
    <3>2. k < m /\ m \in Place /\ arr'[k] = arr[k]
      BY <1>2, <1>4, <2>1, <2>3
    <3>3. ~Together(k, m)
      <4>1. ~(base <= k) /\ m <= r /\ k < base
        BY <1>2, <2>1, <2>3
      <4>2. ASSUME NEW p \in 1..Len(stack), stack[p][1] <= k, m <= stack[p][2] PROVE FALSE
        <5>1. stack[p][2] < base \/ r < stack[p][1]
          BY <1>1 DEF Separate
        <5>2. stack[p][1] \in Int /\ stack[p][2] \in Int
          BY <1>1, Elements
        <5> QED BY <1>2, <2>1, <4>1, <4>2, <5>1, <5>2
      <4> QED BY <4>1, <4>2 DEF Together
    <3> QED BY <1>1, <3>1, <3>2, <3>3 DEF Ordered
  <2>4. CASE k \notin base..r /\ l \notin base..r
    BY <1>1, <1>4, <2>4 DEF Ordered
  <2> QED BY <2>2, <2>3, <2>4
<1>6. Separate'
  BY <1>1 DEF Separate
<1>7. Permuted'
  <2>1. CASE i < j
    <3>1. ASSUME NEW v PROVE Often(arr', v) = Often(arr, v)
      <4>1. /\ arr \in [1..N -> Int] /\ i \in 1..N /\ j \in 1..N
            /\ arr' = [arr EXCEPT ![i] = arr[j], ![j] = arr[i]]
        BY Zenon, <1>1, <1>2, <1>3, <2>1 DEF Types, Place
      <4>2. /\ arr' \in [1..N -> Int] /\ arr'[i] = arr[j] /\ arr'[j] = arr[i]
            /\ \A k \in 1..N : k # i /\ k # j => arr'[k] = arr[k]
        BY <1>2, <4>1
      <4>3. ASSUME NEW a \in [1..N -> Int], NEW b \in [1..N -> Int],
                   NEW p \in 1..N, NEW q \in 1..N, b[p] = a[q] /\ b[q] = a[p],
                   \A k \in 1..N : k # p /\ k # q => b[k] = a[k]
            PROVE  Often(b, v) = Often(a, v)
        BY Zenon, <1>2, <4>3, Exchanged
      <4> QED BY Zenon, <4>1, <4>2, <4>3
    <3> QED BY <1>1, <3>1 DEF Permuted
  <2>2. CASE ~(i < j)
    BY <1>1, <1>3, <2>2 DEF Permuted
  <2> QED BY <2>1, <2>2
<1>8. Divided'
  <2>1. x' \in base..r /\ arr'[x'] = arr[x]
    BY <1>1, <1>2, <1>3 DEF Swap, Moved, Types
  <2>2. CASE i < j
    <3>1. i' = i + 1 /\ j' = j - 1 /\ arr'[i] = arr[j] /\ arr'[j] = arr[i]
      BY <1>1, <1>2, <1>3, <2>2 DEF Swap, Types
    <3>2. \A k \in base..r : k \notin {i, j} => arr'[k] = arr[k]
      BY <1>1, <1>2, <1>3, <2>2 DEF Types
    <3>3. ASSUME NEW k \in base..r
          PROVE  (k < i' => arr'[k] <= arr[x]) /\ (k > j' => arr'[k] >= arr[x])
      <4>1. /\ k \in Int /\ i \in Int /\ j \in Int /\ arr[k] \in Int /\ arr[x] \in Int
            /\ k < i => arr[k] <= arr[x]
            /\ k > j => arr[k] >= arr[x]
        BY <1>1, <1>2 DEF Divided, Swap
      <4>2. CASE k = i
        BY <1>1, <1>2, <2>2, <3>1, <4>2
      <4>3. CASE k = j
        BY <1>1, <1>2, <2>2, <3>1, <4>3
      <4>4. CASE k \notin {i, j}
        BY <2>2, <3>1, <3>2, <4>1, <4>4
      <4> QED BY <4>2, <4>3, <4>4
    <3> QED BY <1>1, <1>2, <2>1, <3>3 DEF Divided
  <2>3. CASE ~(i < j)
    <3>1. arr' = arr /\ ((i' = i /\ j' = j) \/ (i' = i + 1 /\ j' = j - 1 /\ i = j))
      BY <1>2, <1>3, <2>3 DEF Swap
    <3>2. ASSUME NEW k \in base..r
          PROVE  (k < i' => arr'[k] <= arr[x]) /\ (k > j' => arr'[k] >= arr[x])
      BY <1>1, <1>2, <3>1 DEF Divided, Swap
    <3> QED BY <1>1, <1>2, <2>1, <3>2 DEF Divided
  <2> QED BY <2>2, <2>3
<1> QED BY <1>5, <1>6, <1>7, <1>8 DEF Order

(* An element of the left part is not above one of the right part, and what  *)
(* is between the two is in place.                                           *)
LEMMA SplitOrder == Inv /\ Order /\ Split => Order'
<1> SUFFICES ASSUME Inv, Order, Split PROVE Order'
  OBVIOUS
<1> DEFINE d == Len(stack)
<1>1. /\ Types /\ PartInArray /\ base <= i /\ j <= r /\ j < i
      /\ Ordered /\ Separate /\ Divided /\ Permuted /\ Active
      /\ UNCHANGED <<given, arr, i, j, x>> /\ pc' = IF base' < r' THEN "part" ELSE "pop"
  BY DEF Inv, Split, Order, Active
<1>2. /\ base \in Int /\ r \in Int /\ i \in Int /\ j \in Int /\ d \in Nat
      /\ 1 <= base /\ base <= r /\ r <= N /\ N \in Nat
      /\ \A p \in 1..d : stack[p][1] \in Int /\ stack[p][2] \in Int
      /\ \A k \in Place : arr[k] \in Int
      /\ \A k \in base..r : k \in Place
  BY <1>1, Elements DEF Types, PartInArray
<1>3. PICK l \in Int, h \in Int :
        /\ Wait(l, h)
        /\ \/ l = i /\ h = r /\ base' = base /\ r' = j
           \/ l = base /\ h = j /\ base' = i /\ r' = r
  BY <1>1, <1>2 DEF Split
<1>4. /\ base' \in Int /\ r' \in Int /\ base <= l /\ h <= r /\ base <= base' /\ r' <= r
      /\ (r' < l \/ h < base')
      /\ \A k, m \in Int : base <= k /\ k < m /\ m <= r =>
           (l <= k /\ m <= h) \/ (base' <= k /\ m <= r') \/ (k < i /\ m > j)
  BY <1>1, <1>2, <1>3
<1>5. ASSUME NEW k \in base..r, NEW m \in base..r, k < i, m > j PROVE arr[k] <= arr[m]
  <2>1. arr[k] \in Int /\ arr[m] \in Int /\ arr[x] \in Int
    BY <1>1, <1>2 DEF Divided, Split, Types
  <2>2. arr[k] <= arr[x] /\ arr[m] >= arr[x]
    BY <1>1, <1>5 DEF Divided, Split
  <2> QED BY <2>1, <2>2
<1>6. /\ Len(stack') \in Nat /\ Len(stack') >= d
      /\ \A p \in 1..d : stack'[p] = stack[p]
      /\ \A p \in 1..Len(stack') :
           p \in 1..d \/ (p = d + 1 /\ l < h /\ stack'[p] = <<l, h>>)
      /\ l < h => Len(stack') = d + 1 /\ stack'[d + 1] = <<l, h>>
  <2>1. CASE l < h
    <3>1. stack' = Append(stack, <<l, h>>) /\ <<l, h>> \in Int \X Int /\ stack \in Seq(Int \X Int)
      BY <1>1, <1>3, <2>1 DEF Wait, Types
    <3>2. Len(stack') = d + 1
      BY <3>1
    <3>3. \A k \in 1..d + 1 : stack'[k] = IF k <= d THEN stack[k] ELSE <<l, h>>
      BY <1>2, <3>1, <3>2
    <3> QED BY <1>2, <2>1, <3>2, <3>3
  <2>2. CASE ~(l < h)
    BY <1>2, <1>3, <2>2 DEF Wait
  <2> QED BY <2>1, <2>2
<1>7. Ordered'
  <2> SUFFICES ASSUME NEW k \in Place, NEW m \in Place, k < m, ~Together(k, m)'
               PROVE  arr[k] <= arr[m]
    BY <1>1 DEF Ordered, Place, N
  <2>1. k \in Int /\ m \in Int
    BY <1>2 DEF Place
  <2>2. CASE base <= k /\ m <= r
    <3>1. ~(l <= k /\ m <= h)
      <4>1. l <= k /\ m <= h => l < h
        BY <2>1
      <4> QED BY <1>2, <1>6, <4>1 DEF Together
    <3>2. ~(base' <= k /\ m <= r')
      <4>1. base' <= k /\ m <= r' => base' < r'
        BY <1>4, <2>1
      <4> QED BY <1>1, <4>1 DEF Together, Active
    <3>3. k \in base..r /\ m \in base..r /\ k < i /\ m > j
      <4>1. (l <= k /\ m <= h) \/ (base' <= k /\ m <= r') \/ (k < i /\ m > j)
        BY <1>4, <2>1, <2>2
      <4>2. k < i /\ m > j
        BY <3>1, <3>2, <4>1
      <4> QED BY <1>2, <2>1, <2>2, <4>2
    <3> QED BY <1>5, <3>3
  <2>3. CASE ~(base <= k /\ m <= r)
    <3>1. ~Together(k, m)
      BY <1>2, <1>6, <2>3 DEF Together
    <3> QED BY <1>1, <3>1 DEF Ordered
  <2> QED BY <2>2, <2>3
<1>8. Separate'
  <2>1. ASSUME NEW p \in 1..d, NEW a \in Int, NEW b \in Int, base <= a, b <= r
        PROVE  stack[p][2] < a \/ b < stack[p][1]
    <3>1. stack[p][2] < base \/ r < stack[p][1]
      BY <1>1 DEF Separate
    <3> QED BY <1>2, <2>1, <3>1
  <2>2. ASSUME NEW p \in 1..Len(stack'), NEW q \in 1..Len(stack'), p # q
        PROVE  stack'[p][2] < stack'[q][1] \/ stack'[q][2] < stack'[p][1]
    <3>1. CASE p \in 1..d /\ q \in 1..d
      BY <1>1, <1>6, <2>2, <3>1 DEF Separate
    <3>2. CASE p \in 1..d /\ q = d + 1 /\ l < h
      BY <1>4, <1>6, <2>1, <3>2
    <3>3. CASE q \in 1..d /\ p = d + 1 /\ l < h
      BY <1>4, <1>6, <2>1, <3>3
    <3> QED BY <1>2, <1>6, <2>2, <3>1, <3>2, <3>3
  <2>3. ASSUME NEW p \in 1..Len(stack') PROVE stack'[p][2] < base' \/ r' < stack'[p][1]
    <3>1. CASE p \in 1..d
      BY <1>4, <1>6, <2>1, <3>1
    <3>2. CASE p = d + 1 /\ l < h
      BY <1>4, <1>6, <3>2
    <3> QED BY <1>6, <3>1, <3>2
  <2> QED BY <2>2, <2>3 DEF Separate
<1>9. Divided' /\ Permuted'
  BY <1>1 DEF Divided, Permuted
<1> QED BY <1>7, <1>8, <1>9 DEF Order

(* The part that waited last is the one being sorted. *)
LEMMA PopOrder == Inv /\ Order /\ Pop => Order'
<1> SUFFICES ASSUME Inv, Order, Pop PROVE Order'
  OBVIOUS
<1> DEFINE d == Len(stack)
<1>1. /\ Types /\ Ordered /\ Separate /\ Permuted /\ ~Active
      /\ UNCHANGED <<given, arr, i, j, x>> /\ pc' \in {"part", "done"}
  BY DEF Inv, Pop, Order, Active
<1>2. CASE stack = <<>>
  <2>1. UNCHANGED <<base, r, stack>> /\ ~Active'
    BY <1>2 DEF Pop, Active
  <2> QED BY <1>1, <2>1 DEF Order, Ordered, Together, Separate, Divided, Permuted, Place, N
<1>3. CASE stack # <<>>
  <2>1. /\ d \in Nat /\ d >= 1 /\ Active'
        /\ base' = stack[d][1] /\ r' = stack[d][2]
        /\ Len(stack') = d - 1 /\ \A k \in 1..d - 1 : stack'[k] = stack[k]
    BY <1>1, <1>3, Popped DEF Pop, Active
  <2>2. ASSUME NEW k, NEW m, Together(k, m) PROVE Together(k, m)'
    BY <1>1, <2>1, <2>2 DEF Together
  <2>3. Ordered'
    BY <1>1, <2>2 DEF Ordered, Place, N
  <2>4. Separate'
    BY <1>1, <2>1 DEF Separate
  <2> QED BY <1>1, <2>3, <2>4 DEF Order, Divided, Permuted
<1> QED BY <1>2, <1>3

(* What qsort returns is its array in order, for every array: each key as    *)
(* often as before, none above its successor (QSORT.C).                      *)
THEOREM QsortSorts == QSpec => []Sorts
<1>1. Inv /\ Order /\ [QNext]_qvars => Order'
  <2>1. Order /\ UNCHANGED qvars => Order'
    BY DEF Order, Ordered, Together, Separate, Divided, Permuted, Active, Place, N, qvars
  <2> QED BY <2>1, ScanOrder, SwapOrder, SplitOrder, PopOrder DEF QNext
<1>2. Inv /\ Order /\ (pc = "done" => stack = <<>>) => Sorts
  <2> SUFFICES ASSUME Inv, Order, pc = "done", stack = <<>> PROVE Sorts
    BY DEF Sorts
  <2>1. N \in Nat /\ Len(arr) = N
    BY Elements DEF Inv, Types, Place
  <2>2. \A k \in 1..N - 1 : arr[k] <= arr[k + 1]
    BY <2>1 DEF Order, Ordered, Together, Active, Place
  <2> QED BY <2>1, <2>2 DEF Sorts, Order, Permuted
<1>3. QInit => (pc = "done" => stack = <<>>)
  BY DEF QInit
<1>4. (pc = "done" => stack = <<>>) /\ [QNext]_qvars => (pc = "done" => stack = <<>>)'
  BY DEF QNext, Part, Up, Down, Swap, Split, Pop, qvars
<1> QED BY <1>1, <1>2, <1>3, <1>4, InitOrder, QsortInvariant, PTL DEF QSpec

----------------------------------------------------------------------------
(* The console. *)

(* The queue receives 7-bit values only. *)
LEMMA KeysType ==
  ASSUME NEW c \in Byte
  PROVE  Keys(c) \in Seq(0..127)
<1>1. c \in 0..255
  BY ConsoleAssumption
<1>2. c % 128 \in 0..127
  BY <1>1
<1>3. CR \in 0..127
  BY DEF CR
<1>4. /\ <<>> \in Seq(0..127)
      /\ <<CR>> \in Seq(0..127)
      /\ <<c % 128>> \in Seq(0..127)
  BY <1>2, <1>3
<1>. QED
  BY <1>4, Zenon DEF Keys

(* The filter stays in one of its states. *)
LEMMA NextTelnetStateType ==
  ASSUME NEW c
  PROVE  NextTelnetState(c) \in TelnetState
BY DEF NextTelnetState, TelnetState

(* One pass of console()'s loop keeps the types. *)
LEMMA RecvType ==
  ASSUME TypeOK, NEW c \in Byte, Recv(c), received # <<>>
  PROVE  TypeOK'
<1>. DEFINE n == Len(received)
<1>1. n \in 1..Len(received)
  BY DEF TypeOK
<1>2. received[n] \in Seq(Byte)
  BY <1>1 DEF TypeOK
<1>3. received' = [received EXCEPT ![n] = Append(received[n], c)]
  BY DEF Recv
<1>4. Append(received[n], c) \in Seq(Byte)
  BY <1>2
<1>5. received' \in Seq(Seq(Byte))
  BY <1>1, <1>3, <1>4 DEF TypeOK
<1>6. consoleBuffer' \in Seq(0..127)
  <2>1. consoleBuffer \o Keys(c) \in Seq(0..127)
    BY KeysType DEF TypeOK
  <2>. QED
    BY <2>1 DEF Recv, TypeOK
<1>7. telnetState' \in TelnetState
  BY NextTelnetStateType DEF Recv
<1>8. previousWasCr' \in BOOLEAN
  BY Zenon DEF Recv, TypeOK
<1>. QED
  BY <1>5, <1>6, <1>7, <1>8 DEF TypeOK, Recv

(* console() runs only for an accepted connection. *)
Attached == srv = "console" => received # <<>>

(* The inductive invariant of the console. *)
ConsoleInv == TypeOK /\ Attached /\ KeyStillThere

(* The invariant holds at the start ... *)
LEMMA ConsoleBegins == Init => ConsoleInv
<1>. SUFFICES ASSUME Init PROVE ConsoleInv
  OBVIOUS
<1>1. /\ <<>> \in Seq(0..127)
      /\ <<>> \in Seq(Seq(Byte))
  OBVIOUS
<1>2. TypeOK
  BY Zenon, <1>1 DEF Init, TypeOK, TelnetState, CpuState
<1>. QED
  BY <1>2 DEF Init, ConsoleInv, Attached, KeyStillThere

(* The steps of the Z80 thread keep the types. *)
LEMMA CpuType ==
  ASSUME TypeOK, Cpu
  PROVE  TypeOK'
<1>1. CASE ConIn
  <2>1. consoleBuffer # <<>> => /\ Head(consoleBuffer) \in 0..127
                                /\ Tail(consoleBuffer) \in Seq(0..127)
    BY HeadTailProperties DEF TypeOK
  <2>2. /\ Append(got, 0) \in Seq(0..127)
        /\ consoleBuffer # <<>> => Append(got, Head(consoleBuffer)) \in Seq(0..127)
    BY <2>1 DEF TypeOK
  <2>3. /\ got' \in Seq(0..127)
        /\ consoleBuffer' \in Seq(0..127)
        /\ cpu' \in CpuState
    <3>1. CASE consoleBuffer = <<>>
      BY Zenon, <1>1, <2>2, <3>1 DEF ConIn, TypeOK, CpuState
    <3>2. CASE consoleBuffer # <<>>
      BY Zenon, <1>1, <2>1, <2>2, <3>2 DEF ConIn, CpuState
    <3>. QED
      BY <3>1, <3>2
  <2>. QED
    BY <1>1, <2>3 DEF ConIn, TypeOK, cpuOnly
<1>2. CASE PowerUp \/ ConinCall \/ ConChk \/ ConOutCall \/ ConOutWritten \/ ConOutSigpipe
  BY <1>2 DEF PowerUp, ConinCall, ConChk, ConOutCall, ConOutWritten, ConOutSigpipe,
              TypeOK, CpuState, cpuOnly
<1>. QED
  BY <1>1, <1>2 DEF Cpu

(* The server thread only appends to the queue, so it cannot empty it.      *)
LEMMA ServerOnlyAppends ==
  ASSUME TypeOK, Attached, Server \/ PeerClose, consoleBuffer # <<>>
  PROVE  consoleBuffer' # <<>>
<1>1. CASE \E c \in Byte : Recv(c)
  <2>1. PICK c \in Byte : Recv(c)
    BY <1>1
  <2>2. Keys(c) \in Seq(0..127)
    BY KeysType
  <2>3. consoleBuffer \o Keys(c) # <<>>
    BY <2>2 DEF TypeOK
  <2>. QED
    BY <2>1, <2>3 DEF Recv
<1>2. CASE Accept \/ AcceptError \/ RecvEnd \/ Close \/ PeerClose
  BY <1>2 DEF Accept, AcceptError, RecvEnd, Close, PeerClose
<1>. QED
  BY <1>1, <1>2 DEF Server

(* ... and every step keeps it. *)
LEMMA ConsoleKeeps == ConsoleInv /\ [Next]_vars => ConsoleInv'
<1>. SUFFICES ASSUME ConsoleInv, [Next]_vars PROVE ConsoleInv'
  OBVIOUS
<1>1. CASE UNCHANGED vars
  BY <1>1 DEF ConsoleInv, TypeOK, Attached, KeyStillThere, vars
<1>2. CASE \E c \in Byte : Recv(c)
  <2>1. PICK c \in Byte : Recv(c)
    BY <1>2
  <2>2. TypeOK'
    BY Zenon, <2>1, RecvType DEF ConsoleInv, Attached, Recv
  <2>3. Attached'
    BY <2>1 DEF ConsoleInv, TypeOK, Attached, Recv
  <2>4. KeyStillThere'
    BY <2>1, <1>2, ServerOnlyAppends DEF ConsoleInv, KeyStillThere, Recv, Server
  <2>. QED
    BY <2>2, <2>3, <2>4 DEF ConsoleInv
<1>3. CASE Accept
  <2>1. /\ Append(received, <<>>) \in Seq(Seq(Byte))
        /\ Append(received, <<>>) # <<>>
    <3>1. <<>> \in Seq(Byte) /\ received \in Seq(Seq(Byte))
      BY DEF ConsoleInv, TypeOK
    <3>. QED
      BY <3>1, AppendProperties, Zenon
  <2>. QED
    BY <1>3, <2>1, Zenon DEF Accept, ConsoleInv, TypeOK, Attached, KeyStillThere, TelnetState
<1>4. CASE AcceptError \/ RecvEnd \/ Close \/ PeerClose
  BY <1>4 DEF AcceptError, RecvEnd, Close, PeerClose, ConsoleInv, TypeOK, Attached,
              KeyStillThere, CpuState
<1>5. CASE Cpu
  <2>1. TypeOK'
    BY <1>5, CpuType DEF ConsoleInv
  <2>2. Attached'
    BY <1>5 DEF ConsoleInv, Attached, Cpu, PowerUp, ConinCall, ConChk, ConIn, ConOutCall,
                ConOutWritten, ConOutSigpipe, cpuOnly
  <2>3. KeyStillThere'
    BY <1>5 DEF KeyStillThere, Cpu, PowerUp, ConinCall, ConChk, ConIn, ConOutCall,
                ConOutWritten, ConOutSigpipe
  <2>. QED
    BY <2>1, <2>2, <2>3 DEF ConsoleInv
<1>. QED
  BY <1>1, <1>2, <1>3, <1>4, <1>5 DEF Next, Server

(* Every variable of the console keeps its type, whatever the clients send. *)
THEOREM ConsoleTypeCorrect == Spec => []TypeOK
<1>1. ConsoleInv => TypeOK
  BY DEF ConsoleInv
<1>. QED
  BY <1>1, ConsoleBegins, ConsoleKeeps, PTL DEF Spec

(* When the BIOS routine CONIN has seen a byte on the status port, the read  *)
(* of the data port finds it: the test and the read are two critical        *)
(* sections of the mutex, and no step of the server thread between them      *)
(* empties the queue.                                                        *)
THEOREM ConsoleKeyStillThere == Spec => []KeyStillThere
<1>1. ConsoleInv => KeyStillThere
  BY DEF ConsoleInv
<1>. QED
  BY <1>1, ConsoleBegins, ConsoleKeeps, PTL DEF Spec

============================================================================
