----------------------------- MODULE LoadBalance -----------------------------
(***************************************************************************)
(* The assignment of blocks to ranks (src/mesh/mesh-amr_loadbalance.cpp,   *)
(* CalculateLoadBalance): AssignBlocks deals the blocks out from the last  *)
(* one to the first, UpdateBlockList turns the ranks of the blocks into    *)
(* the list of blocks of each rank.  Every rank computes all of it from    *)
(* the same gathered costs.                                                *)
(*                                                                         *)
(* Costs are whole numbers and the code's divisions exact: my_cost >=      *)
(* target_cost is written my_cost * (rank + 1) >= remaining_cost.          *)
(***************************************************************************)
EXTENDS Integers, FiniteSets, Functions

CONSTANTS
  nranks,
  MaxBlocks,        \* bound: blocks of the mesh
  CostValues        \* bound: costs of a block, relative to one another

ASSUME RanksAssumption == nranks \in Nat \ {0} /\ MaxBlocks \in Nat
ASSUME CostsAssumption == CostValues \subseteq Nat \ {0}

VARIABLES
  nbtotal,
  costlist,         \* block id -> cost
  ranklist,         \* block id -> rank
  nslist, nblist,   \* rank -> its first block and the number of its blocks
  pc,               \* "assign", "update": the loop that runs, or "done"
  block_id, rank,
  my_cost,          \* of the blocks given to rank so far
  remaining_cost    \* of all blocks not given to the ranks above rank

lists == <<nbtotal, costlist>>
vars  == <<lists, ranklist, nslist, nblist, pc, block_id, rank, my_cost, remaining_cost>>

Ranks     == 0 .. nranks - 1
Blocks(n) == 0 .. n - 1
Sum(c)    == FoldFunction(+, 0, c)

(* nslist and nblist before the first balance: vectors of zeroes.  The mesh *)
(* starts with a block for every rank, or ends with an error, and with     *)
(* equal costs.                                                            *)
Init ==
  /\ nbtotal \in nranks .. MaxBlocks
  /\ costlist = [b \in Blocks(nbtotal) |-> 1]
  /\ ranklist = [b \in Blocks(nbtotal) |-> 0]
  /\ nslist = [r \in Ranks |-> 0]
  /\ nblist = [r \in Ranks |-> 0]
  /\ pc = "assign"
  /\ block_id = nbtotal - 1
  /\ rank = nranks - 1
  /\ my_cost = 0
  /\ remaining_cost = Sum(costlist)

(* a new mesh or new costs; AssignBlocks starts *)
CalculateLoadBalance ==
  /\ pc = "done"
  /\ \E n \in 1 .. MaxBlocks : \E c \in [Blocks(n) -> CostValues] :
       /\ nbtotal' = n
       /\ costlist' = c
       /\ ranklist' = [b \in Blocks(n) |-> 0]
       /\ block_id' = n - 1
       /\ remaining_cost' = Sum(c)
  /\ pc' = "assign"
  /\ rank' = nranks - 1
  /\ my_cost' = 0
  /\ UNCHANGED <<nslist, nblist>>

(* mutant: the block itself does not count *)
RankIsFullLate(cost)   == rank > 0 /\ my_cost * (rank + 1) >= remaining_cost

RankIsFull(cost) == rank > 0 /\ cost * (rank + 1) >= remaining_cost

(* one turn of the loop of AssignBlocks; the run ends in an error when the  *)
(* target is zero                                                           *)
AssignBlock ==
  /\ pc = "assign"
  /\ block_id >= 0
  /\ remaining_cost /= 0
  /\ ranklist' = [ranklist EXCEPT ![block_id] = rank]
  /\ LET cost == my_cost + costlist[block_id]
     IN  IF RankIsFull(cost)
         THEN /\ rank' = rank - 1
              /\ remaining_cost' = remaining_cost - cost
              /\ my_cost' = 0
         ELSE /\ my_cost' = cost
              /\ UNCHANGED <<rank, remaining_cost>>
  /\ block_id' = block_id - 1
  /\ UNCHANGED <<lists, nslist, nblist, pc>>

(* the loop ends; UpdateBlockList starts *)
AssignDone ==
  /\ pc = "assign"
  /\ block_id < 0
  /\ nslist' = [nslist EXCEPT ![0] = 0]
  /\ pc' = "update"
  /\ block_id' = 1
  /\ rank' = 0
  /\ UNCHANGED <<lists, ranklist, nblist, my_cost, remaining_cost>>

(* one turn of the loop of UpdateBlockList *)
UpdateBlock ==
  /\ pc = "update"
  /\ block_id < nbtotal
  /\ IF ranklist[block_id] /= ranklist[block_id - 1]
     THEN /\ nblist' = [nblist EXCEPT ![rank] = block_id - nslist[rank]]
          /\ nslist' = [nslist EXCEPT ![rank + 1] = block_id]
          /\ rank' = rank + 1
     ELSE UNCHANGED <<nslist, nblist, rank>>
  /\ block_id' = block_id + 1
  /\ UNCHANGED <<lists, ranklist, pc, my_cost, remaining_cost>>

UpdateDone ==
  /\ pc = "update"
  /\ block_id >= nbtotal
  /\ nblist' = [nblist EXCEPT ![rank] = nbtotal - nslist[rank]]
  /\ pc' = "done"
  /\ UNCHANGED <<lists, ranklist, nslist, block_id, rank, my_cost, remaining_cost>>

Next == CalculateLoadBalance \/ AssignBlock \/ AssignDone \/ UpdateBlock \/ UpdateDone

Spec == Init /\ [][Next]_vars

-----------------------------------------------------------------------------
BlocksOf(r) == {b \in Blocks(nbtotal) : ranklist[b] = r}
Load(r)     == Sum([b \in BlocksOf(r) |-> costlist[b]])
EveryRankUsed == \A r \in Ranks : BlocksOf(r) /= {}
Listed(r)   == nslist[r] .. nslist[r] + nblist[r] - 1

(* Every list has an entry for every block or rank that is one; the loops   *)
(* stay within the lists.                                                   *)
TypeOK ==
  /\ nbtotal \in 1 .. MaxBlocks
  /\ costlist \in [Blocks(nbtotal) -> CostValues \cup {1}]
  /\ ranklist \in [Blocks(nbtotal) -> Ranks]
  /\ nslist \in [Ranks -> Nat]
  /\ nblist \in [Ranks -> Nat]
  /\ pc \in {"assign", "update", "done"}
  /\ block_id \in -1 .. MaxBlocks
  /\ rank \in Ranks
  /\ my_cost \in Nat
  /\ remaining_cost \in Nat

(* The ranks of the blocks rise by one at a time up to the last rank, so    *)
(* that every rank has one contiguous range of blocks and none in between   *)
(* is left without a block.                                                 *)
RanksAreContiguous ==
  pc /= "assign" =>
    /\ ranklist[nbtotal - 1] = nranks - 1
    /\ \A b \in 1 .. nbtotal - 1 : ranklist[b] - ranklist[b - 1] \in {0, 1}

ListsMatchWhenAllUsed ==
  pc = "done" /\ EveryRankUsed => \A r \in Ranks : Listed(r) = BlocksOf(r)

(* No rank carries the average load and one more block of the largest cost; *)
(* equal costs are dealt out so that no two ranks differ by more than one   *)
(* block, if there is at least one for each.  When every rank has a block,  *)
(* each finds exactly its blocks in nslist and nblist, whatever an earlier  *)
(* balance left there.                                                      *)
LoadIsEven ==
  /\ ListsMatchWhenAllUsed
  /\ pc = "done" =>
       /\ \A r \in Ranks : \E b \in Blocks(nbtotal) :
            (Load(r) - costlist[b]) * nranks < Sum(costlist)
       /\ nbtotal >= nranks /\ Cardinality(Range(costlist)) = 1 =>
            \A r, s \in Ranks : Cardinality(BlocksOf(r)) - Cardinality(BlocksOf(s)) <= 1
=============================================================================
