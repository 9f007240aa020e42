------------------------------- MODULE Malloc ------------------------------
(***************************************************************************)
(* The storage allocator of C.LIB (MALLOC.C, CALLOC.C).  Memory is counted *)
(* in units of a header, sizeof(FREE) bytes; the address of the static     *)
(* head is 0, the heap is above it.  Holes are chained in a ring through   *)
(* head, sorted by address; malloc merges neighbours on its way round, and *)
(* begins where the last call ended.  Functions on a machine m: the        *)
(* headers f_size and f_chain, last, and the break.                        *)
(***************************************************************************)
EXTENDS Integers, FiniteSets

CONSTANTS
  Limit,   \* the units above head that sbrk can give out
  GRAIN,   \* units of one call of sbrk, 256 in the code
  Request, \* bound: the sizes asked for, in bytes
  Gap      \* bound: units the program takes from sbrk for itself

ASSUME MallocAssumption ==
  /\ Limit \in Nat /\ GRAIN \in Nat \ {0} /\ Request \subseteq 0..65535 /\ Gap \subseteq Nat

VARIABLES
  f_size, f_chain,  \* the headers
  last,
  brk,              \* the first unit above the break
  areas,            \* the areas the program has, by the address of the header
  call              \* observer: the last call, what it asked for, and got or not;
                    \* did realloc move the area down, was a header written into it?

mvars == <<f_size, f_chain, last, brk, areas, call>>

NULL == -1
head == 0
Unit == 0..Limit
NoCall == [op |-> "none", units |-> 0, got |-> FALSE,
           down |-> FALSE, hurt |-> FALSE]

MInit ==
  /\ f_size = [u \in Unit |-> 0] /\ f_chain = [u \in Unit |-> NULL]
  /\ last = NULL /\ brk = 1 /\ areas = {} /\ call = NoCall

----------------------------------------------------------------------------
Units(size) == ((size + 3) % 65536) \div 4 + 1

(* Mutant: a block in front of the first hole goes behind the last one. *)
BetweenOrLast(m, tp, hole) ==
  /\ tp > hole \/ hole > m.chain[tp]
  /\ ~(tp >= m.chain[tp] /\ hole > m.chain[tp])

(* Does the search for the place of hole go on from tp? *)
Elsewhere(m, tp, hole) ==
  /\ tp > hole \/ hole > m.chain[tp]
  /\ ~(tp >= m.chain[tp] /\ (hole > tp \/ hole < m.chain[tp]))

RECURSIVE PlaceFrom(_, _, _)
PlaceFrom(m, tp, hole) ==
  IF Elsewhere(m, tp, hole) THEN PlaceFrom(m, m.chain[tp], hole) ELSE tp

Insert(m, hole, tp) ==
  [m EXCEPT !.chain = [@ EXCEPT ![hole] = m.chain[tp], ![tp] = hole], !.last = tp]

free(m, hole) ==
  IF m.chain[hole] # NULL THEN m ELSE Insert(m, hole, PlaceFrom(m, m.last, hole))

Merged(m, tp) ==
  LET next == m.chain[tp]
  IN [m EXCEPT !.last = IF @ = next THEN m.chain[next] ELSE @,
               !.size[tp] = @ + m.size[next], !.chain[tp] = m.chain[next]]

(* Mutant: neighbours are not merged. *)
MergeNot(m, tp) == m

RECURSIVE Merge(_, _)
Merge(m, tp) ==
  IF tp # m.chain[tp] /\ tp + m.size[tp] = m.chain[tp] THEN Merge(Merged(m, tp), tp) ELSE m

(* Mutant: the rest of a hole is not chained. *)
TakeAll(m, prev, tp, units) ==
  [m EXCEPT !.chain = [@ EXCEPT ![prev] = m.chain[tp], ![tp] = NULL],
            !.size[tp] = units, !.last = prev, !.got = tp]

(* Takes units from the beginning of the hole tp. *)
Take(m, prev, tp, units) ==
  IF m.size[tp] = units
  THEN [m EXCEPT !.chain = [@ EXCEPT ![prev] = m.chain[tp], ![tp] = NULL],
                 !.last = prev, !.got = tp]
  ELSE [m EXCEPT !.chain = [@ EXCEPT ![prev] = tp + units, ![tp + units] = m.chain[tp],
                                     ![tp] = NULL],
                 !.size = [@ EXCEPT ![tp + units] = m.size[tp] - units, ![tp] = units],
                 !.last = prev, !.got = tp, !.hdr = tp + units]

sbrk(m) == m.brk + GRAIN - 1 <= Limit
Grow(m) == free([m EXCEPT !.size[m.brk] = GRAIN, !.chain[m.brk] = NULL, !.brk = @ + GRAIN], m.brk)

(* One round of the loop, with tp merged. *)
RECURSIVE Search(_, _, _, _)
Continue(m, units, tp) == Search(Merge(m, m.chain[tp]), tp, m.chain[tp], units)
Search(m, prev, tp, units) ==
  IF m.size[tp] >= units THEN Take(m, prev, tp, units)
  ELSE IF tp # m.last THEN Continue(m, units, tp)
  ELSE IF ~sbrk(m) THEN m
  ELSE LET g == Grow(m) IN Continue(g, units, g.last)

malloc(m, units) ==
  IF m.last = NULL
  THEN Continue([m EXCEPT !.last = head, !.chain[head] = head], units, head)
  ELSE Continue(m, units, m.last)

----------------------------------------------------------------------------
Enter == [size |-> f_size, chain |-> f_chain, last |-> last, brk |-> brk, got |-> NULL,
          hdr |-> NULL]

(* A header that belongs to no hole and no area means nothing. *)
RECURSIVE Round(_, _)
Round(chain, S) == LET T == S \cup {chain[u] : u \in S} IN IF T = S THEN S ELSE Round(chain, T)
Ring(chain, l) == IF l = NULL THEN {} ELSE Round(chain, {head, l})

Return(m, a, r) ==
  LET live == Ring(m.chain, m.last) \cup a
  IN /\ f_size' = [u \in Unit |-> IF u \in live THEN m.size[u] ELSE 0]
     /\ f_chain' = [u \in Unit |-> IF u \in live THEN m.chain[u] ELSE NULL]
     /\ last' = m.last /\ brk' = m.brk /\ areas' = a /\ call' = r

Answer(m, a, r) ==
  Return(m, IF m.got = NULL THEN a ELSE a \cup {m.got}, [r EXCEPT !.got = m.got # NULL])

Asked(op, size) == [NoCall EXCEPT !.op = op, !.units = Units(size)]

Malloc(size) == Answer(malloc(Enter, Units(size)), areas, Asked("malloc", size))

Calloc(nelem, size) == Malloc((nelem * size) % 65536)

Free(a) == a \in areas /\ Return(free(Enter, a), areas \ {a}, NoCall)

(* The second time it is refused. *)
FreeAgain(a) ==
  /\ a \in Ring(f_chain, last) \ {head}
  /\ Return(free(Enter, a), areas, NoCall)

(* The area is given back before the new one is looked for; what it held is  *)
(* moved after that.                                                         *)
Smaller(x, y) == IF x < y THEN x ELSE y
Realloc(a, size) ==
  /\ a \in areas
  /\ LET m == malloc(free(Enter, a), Units(size))
         moved == a + 1..a + Smaller(f_size[a], Units(size)) - 1
     IN Answer(m, areas \ {a}, [Asked("realloc", size) EXCEPT
                                 !.down = m.got < a, !.hurt = m.hdr \in moved])

Sbrk(n) ==
  /\ brk + n - 1 <= Limit /\ brk' = brk + n /\ call' = NoCall
  /\ UNCHANGED <<f_size, f_chain, last, areas>>

MNext ==
  \/ \E size \in Request : Malloc(size) \/ Calloc(2, size)
  \/ \E a \in Unit : Free(a) \/ FreeAgain(a) \/ \E size \in Request : Realloc(a, size)
  \/ \E n \in Gap : Sbrk(n)

----------------------------------------------------------------------------
Holes == Ring(f_chain, last)
Block(u) == u..u + f_size[u] - 1

(* The holes form one ring, sorted by address, through head and last: the    *)
(* order free looks for a place in, and malloc's only way to a hole.         *)
SortedRing ==
  last # NULL =>
    /\ Holes \subseteq Unit /\ last \in Holes
    /\ \A u \in Holes :
         f_chain[u] = LET above == {v \in Holes : v > u}
                      IN IF above = {} THEN head ELSE CHOOSE v \in above : \A w \in above : v <= w

(* Areas and holes are disjoint, and a call neither loses a unit nor         *)
(* invents one: what leaves the areas comes to the holes.                    *)
Disjoint ==
  /\ \A u, v \in areas \cup Holes : u # v => Block(u) \cap Block(v) = {}
  /\ \A u \in areas \cup Holes : Block(u) \subseteq 1..brk - 1

Managed == UNION {Block(u) : u \in areas \cup Holes}
NothingLost == [][Managed' = Managed \cup (IF call'.op = "none" THEN {} ELSE brk..brk' - 1)]_mvars

(* malloc gives up only when the break cannot move and no neighbouring holes *)
(* together are large enough.                                                *)
Span(S, n) == \E u \in S : u..u + n - 1 \subseteq S
NullWhenFull ==
  [][(call'.op # "none" /\ ~call'.got) =>
       /\ brk' + GRAIN - 1 > Limit
       /\ ~Span(UNION {Block(u)' : u \in Holes'}, call'.units)]_mvars

(* What realloc moves is still what the area held, unless the area moves     *)
(* down: then malloc may have written the header of a rest into it.          *)
MovedIntact == call.hurt => call.down

(* The heap stays in order over all calls: a sorted ring of holes, no area   *)
(* on a hole or on another area, and no area damaged by a realloc that does  *)
(* not move it down (malloc, free, realloc).                                 *)
HeapInOrder == SortedRing /\ Disjoint /\ MovedIntact
============================================================================
