------------------------------ MODULE SwarmPool ------------------------------
(***************************************************************************)
(* The memory pool of a swarm on one block (interface/swarm.cpp): slots    *)
(* with a mask of the active ones, a list of free slots, marks for         *)
(* removal, and what the slots hold, which nothing clears when a particle  *)
(* is removed.  A pool is a record; every operation of the class is an     *)
(* operator from pools to pools.  Pools are compacted (Defrag) and indexed *)
(* by cell (SortParticlesByCell).                                          *)
(***************************************************************************)
EXTENDS Integers, Sequences, SequencesExt, FiniteSetsExt

Unset == [id |-> 0]      \* the contents of a slot never used
Slots(pool) == 0 .. pool.nmax - 1
Sorted(S) == [i \in 1 .. Cardinality(S) |->
                CHOOSE x \in S : Cardinality({y \in S : y < x}) = i - 1]
RangeOf(s) == {s[i] : i \in DOMAIN s}

NewPool(n) ==
  [nmax |-> n, mask |-> {}, marked |-> {}, free |-> [i \in 1 .. n |-> i - 1],
   data |-> [s \in 0 .. n - 1 |-> Unset], num_active |-> 0, max_active |-> -1]

setPoolMax(pool, n) ==
  [pool EXCEPT !.nmax = n,
               !.free = @ \o [i \in 1 .. n - pool.nmax |-> pool.nmax + i - 1],
               !.data = [s \in 0 .. n - 1 |-> IF s < pool.nmax THEN pool.data[s] ELSE Unset]]

RECURSIVE Grown(_, _)
Grown(pool, k) == IF Len(pool.free) >= k THEN pool
                  ELSE Grown(setPoolMax(pool, 2 * pool.nmax), k)

(* AddEmptyParticles takes the first free slots, in the order of the list. *)
AddEmptyParticles(pool, k) ==
  LET grown == Grown(pool, k)
      new == SubSeq(grown.free, 1, k)
  IN [pool |-> [grown EXCEPT !.mask = @ \cup RangeOf(new),
                             !.free = SubSeq(@, k + 1, Len(@)),
                             !.max_active = Max(RangeOf(new) \cup {@}),
                             !.num_active = @ + k],
      new |-> new]

(* The particles p put into a pool, one new slot each.                     *)
Filled(pool, p) ==
  LET added == AddEmptyParticles(pool, Len(p))
      at(s) == CHOOSE i \in DOMAIN p : added.new[i] = s
  IN [added.pool EXCEPT !.data = [s \in DOMAIN @ |->
        IF s \in RangeOf(added.new) THEN p[at(s)] ELSE @[s]]]

MarkParticleForRemoval(pool, S) == [pool EXCEPT !.marked = @ \cup S]

(* RemoveMarkedParticles goes down from the largest index; the largest     *)
(* active index falls with every particle removed at it, and stops at the  *)
(* first slot that is not removed, active or not.                          *)
RemoveMarkedParticles(pool) ==
  LET removed == {s \in pool.mask \cap pool.marked : s <= pool.max_active}
      max == Max({m \in (-1 .. pool.max_active) \ removed : m + 1 .. pool.max_active \subseteq removed})
  IN [pool EXCEPT !.mask = @ \ removed, !.marked = @ \ removed,
                  !.free = Sorted(removed) \o @,
                  !.num_active = @ - Cardinality(removed), !.max_active = max]

(* A mutated form: the free list keeps the slots that particles moved to.  *)
DefragKeepingFree(pool) ==
  IF pool.num_active = 0 THEN pool
  ELSE LET from == Reverse(Sorted({s \in pool.mask : s >= pool.num_active}))
           free == Sorted(RangeOf(pool.free))
           to == SubSeq(free, 1, Len(from))
           source(s) == from[CHOOSE i \in DOMAIN to : to[i] = s]
       IN [pool EXCEPT !.mask = (@ \ RangeOf(from)) \cup RangeOf(to),
                       !.free = Sorted(RangeOf(free) \cup RangeOf(from)),
                       !.data = [s \in DOMAIN @ |->
                                   IF s \in RangeOf(to) THEN @[source(s)] ELSE @[s]],
                       !.max_active = pool.num_active - 1]

(* Defrag moves the active particles of the highest slots to the lowest    *)
(* free ones, those at or above the number of particles and no others.     *)
Defrag(pool) ==
  IF pool.num_active = 0 THEN pool
  ELSE LET num_free == pool.max_active + 1 - pool.num_active
           above == Reverse(Sorted({s \in pool.mask : s >= pool.num_active}))
           from == SubSeq(above, 1, Min({num_free, pool.num_active, Len(above)}))
           free == Sorted(RangeOf(pool.free))
           to == SubSeq(free, 1, Len(from))
           source(s) == from[CHOOSE i \in DOMAIN to : to[i] = s]
       IN [pool EXCEPT !.mask = (@ \ RangeOf(from)) \cup RangeOf(to),
                       !.free = Sorted(RangeOf(SubSeq(free, Len(from) + 1, Len(free)))
                                         \cup RangeOf(from)),
                       !.data = [s \in DOMAIN @ |->
                                   IF s \in RangeOf(to) THEN @[source(s)] ELSE @[s]],
                       !.max_active = pool.num_active - 1]

(* SwarmContainer::Defrag compacts pools that are occupied below a share,  *)
(* here a fraction of whole numbers.                                       *)
DefragBelow(pool, occupancy) ==
  IF /\ pool.num_active > 0
     /\ pool.num_active * occupancy[2] < (pool.max_active + 1) * occupancy[1]
  THEN Defrag(pool) ELSE pool

(***************************************************************************)
(* The index of particles by cell.  Every slot up to the largest active    *)
(* index is sorted by the cell its contents are in; the first entry of a   *)
(* cell is searched from a guess.                                          *)
(***************************************************************************)
CellSorted(pool, cell) ==
  LET before(s) == {t \in 0 .. pool.max_active :
                      cell[t] < cell[s] \/ (cell[t] = cell[s] /\ t < s)}
  IN [i \in 1 .. pool.max_active + 1 |->
        CHOOSE s \in 0 .. pool.max_active : Cardinality(before(s)) = i - 1]

(* cells is the sequence of the sorted entries' cells, at 0-based indices. *)
RECURSIVE SearchCell(_, _, _)
SearchCell(cells, c, start) ==
  LET inside == start \in DOMAIN cells
      next == start + 1
  IN CASE ~inside -> -1
       [] inside /\ cells[start] = c ->
            IF start = 0 \/ cells[start - 1] # c THEN start ELSE SearchCell(cells, c, start - 1)
       [] inside /\ cells[start] > c ->
            IF start = 0 \/ cells[start - 1] < c THEN -1 ELSE SearchCell(cells, c, start - 1)
       [] inside /\ cells[start] < c ->
            IF next \notin DOMAIN cells \/ cells[next] > c THEN -1
            ELSE SearchCell(cells, c, next)

CellBegin(cells, c, start) == SearchCell(cells, c, start)

(* The slots GetFullIndex returns for each of ncells cells.                *)
SortParticlesByCell(pool, ncells, cell) ==
  LET sorted == CellSorted(pool, cell)
      cells == [i \in 0 .. pool.max_active |-> cell[sorted[i + 1]]]
      begin(c) == CellBegin(cells, c, (c * pool.num_active) \div ncells)
      number(c) == Cardinality({i \in DOMAIN cells : i >= begin(c) /\ cells[i] = c})
  IN [c \in 0 .. ncells - 1 |->
        IF begin(c) = -1 THEN {} ELSE {sorted[begin(c) + n + 1] : n \in 0 .. number(c) - 1}]

(***************************************************************************)
(* What holds of a pool between operations.                                *)
(***************************************************************************)
PoolConsistent(pool) ==
  /\ RangeOf(pool.free) = Slots(pool) \ pool.mask
  /\ Cardinality(RangeOf(pool.free)) = Len(pool.free)
  /\ pool.num_active = Cardinality(pool.mask)
  /\ \A s \in pool.mask : s <= pool.max_active
  /\ pool.max_active < pool.nmax

Contents(pool) == {pool.data[s] : s \in pool.mask}
Compact(pool) == pool.max_active = pool.num_active - 1
=============================================================================
