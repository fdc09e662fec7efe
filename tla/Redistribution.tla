--------------------------- MODULE Redistribution ---------------------------
(***************************************************************************)
(* RedistributeAndRefineMeshBlocks (src/mesh/mesh-amr_loadbalance.cpp):    *)
(* after the mesh has changed or the load is out of balance, the blocks    *)
(* are numbered anew, LoadBalance gives them to ranks, and the ranks send  *)
(* each other the data of the blocks that move, are refined or merged.     *)
(*                                                                         *)
(* The mesh is a row of trees in one dimension, each one block or two      *)
(* daughters.  One variable stands for all of them: each has a             *)
(* communicator of its own.  The interior of a block is two halves; the    *)
(* contents of a half is the set of the old halves its values come from.   *)
(* What a rank holds of the lists is the same on all of them.              *)
(***************************************************************************)
EXTENDS LoadBalance, Forest, RefinementOps

CONSTANT NumTrees
ASSUME NumTreesAssumption == NumTrees \in nranks .. (MaxBlocks \div 2)

VARIABLES
  stage,            \* "initial", "settled", "balance" (see pc), "exchange"
  loclist, oldranks,   \* gid -> location and rank, before the exchange
  oldns, oldnb,     \* nslist and nblist before the balance: onbs, onbe of a rank
  newloc, newtoold, \* gid -> location and old gid of the blocks to come
  allocated,        \* the old blocks whose variable has storage
  forced,           \* Metadata::ForceAllocOnNewBlocks
  at,               \* rank -> "send", "receive" or "done"
  net,              \* <<from, to>> -> the messages under way, in order
  pending,          \* rank -> <<new gid, old gid>> of what it still has to receive
  new               \* gid -> what the new block list holds

maps    == <<loclist, oldranks, oldns, oldnb, newloc, newtoold>>
traffic == <<allocated, forced, at, net, pending, new>>
allvars == <<vars, stage, maps, traffic>>

nleaf == 2
Octant(l) == l.lx[1] % 2
Root(t)   == LogicalLocation(<<t>>, 0, <<0>>)
Daughter(t, i) == LogicalLocation(<<t>>, 1, <<i>>)

(* Forest::GetMeshBlockListAndResolveGids, by gid *)
BlockList(split) ==
  LET list == FoldLeft(LAMBDA s, t : s \o IF t \in split THEN <<Daughter(t, 0), Daughter(t, 1)>>
                                                         ELSE <<Root(t)>>,
                       <<>>, [t \in 1 .. NumTrees |-> t])
  IN  [n \in 0 .. Len(list) - 1 |-> list[n + 1]]

(* Forest::GetOldGid: the block at the place, its parent's or its first     *)
(* daughter's gid                                                           *)
GetOldGid(locs, l) ==
  CHOOSE o \in DOMAIN locs :
    locs[o] \in {l, Root(l.tree[1])} \/ (l.level = 0 /\ locs[o] = Daughter(l.tree[1], 0))

CubicCells == {[d \in Axes |-> 1]}

Init1 ==
  /\ Init
  /\ nbtotal = NumTrees
  /\ stage = "initial"
  /\ loclist = BlockList({})
  /\ newloc = BlockList({})
  /\ newtoold = [n \in Blocks(NumTrees) |-> n]
  /\ oldranks = ranklist
  /\ oldns = nslist
  /\ oldnb = nblist
  /\ allocated = {}
  /\ forced = FALSE
  /\ at = [r \in Ranks |-> "done"]
  /\ net = [p \in Ranks \X Ranks |-> <<>>]
  /\ pending = [r \in Ranks |-> {}]
  /\ new = <<>>

(* Mesh::BuildBlockList: the blocks the run starts with *)
BuildBlockList ==
  /\ stage = "initial" /\ pc = "done"
  /\ stage' = "settled"
  /\ oldranks' = ranklist
  /\ UNCHANGED <<vars, loclist, oldns, oldnb, newloc, newtoold, traffic>>

-----------------------------------------------------------------------------
(* GatherCostListAndCheckBalance, with the tolerance 2 nranks / nbtotal of  *)
(* an adaptive mesh                                                         *)
Imbalanced(cost) ==
  LET rcost(r) == Sum([b \in Listed(r) |-> cost[b]])
  IN  \E r \in Ranks : rcost(r) * nranks * nbtotal > (nbtotal + 2 * nranks) * Sum(cost)

NewCost(cost, old, locs, n) ==
  LET on == old[n]
  IN  IF locs[n].level >= loclist[on].level THEN cost[on]
      ELSE Sum([l \in on .. on + nleaf - 1 |-> cost[l]]) \div nleaf

(* LoadBalancingAndAdaptiveMeshRefinement up to CalculateLoadBalance: the   *)
(* costs are gathered and the new blocks listed.  Any tree may have been    *)
(* refined or merged.  Bound: CostValues.                                   *)
Remesh ==
  /\ stage = "settled"
  /\ \E split \in SUBSET (1 .. NumTrees), cost \in [Blocks(nbtotal) -> CostValues] :
       \E locs \in {BlockList(split)} :
       \E old \in {[n \in DOMAIN locs |-> GetOldGid(loclist, locs[n])]} :
       \E newcost \in {[n \in DOMAIN locs |-> NewCost(cost, old, locs, n)]} :
         /\ locs /= loclist \/ Imbalanced(cost)
         /\ newloc' = locs
         /\ newtoold' = old
         /\ nbtotal' = Cardinality(DOMAIN locs)
         /\ costlist' = newcost
         /\ ranklist' = [n \in DOMAIN locs |-> 0]
         /\ block_id' = Cardinality(DOMAIN locs) - 1
         /\ remaining_cost' = Sum(newcost)
  /\ stage' = "balance"
  /\ pc' = "assign"
  /\ rank' = nranks - 1
  /\ my_cost' = 0
  /\ oldns' = nslist
  /\ oldnb' = nblist
  /\ UNCHANGED <<nslist, nblist, loclist, oldranks, traffic>>

Balance ==
  /\ AssignBlock \/ AssignDone \/ UpdateBlock \/ UpdateDone
  /\ UNCHANGED <<stage, maps, traffic>>

(* bound: the run is not followed further when a rank is left without a     *)
(* block, where nslist and nblist no longer match the ranks                 *)
RankWithoutBlock ==
  /\ stage = "balance" /\ pc = "done"
  /\ ~EveryRankUsed
  /\ UNCHANGED allvars

-----------------------------------------------------------------------------
Halves   == 0 .. 1
Initial  == [h \in Halves |-> {}]
NoCounts == -1

(* a block that is made for the new list, and an old one with its contents *)
Made == [alloc |-> forced, data |-> Initial, coarse |-> {}, counts |-> NoCounts]
Old(o) == [alloc |-> o \in allocated,
           data  |-> [h \in Halves |-> IF o \in allocated THEN {<<o, h>>} ELSE {}],
           coarse |-> {}, counts |-> o]

SameLevel(n) == newloc[n].level = loclist[newtoold[n]].level
Refined(n)   == newloc[n].level > loclist[newtoold[n]].level
Merged(n)    == newloc[n].level < loclist[newtoold[n]].level

CreateAMRMPITag(lid, ox1) == lid * 256 + ox1 * 128

LidOf(n) == n - nslist[ranklist[n]]

(* mutant: an unallocated variable is announced as for a change of level *)
SendSameToSameEmpty(n, o) ==
  [tag |-> CreateAMRMPITag(LidOf(n), 0), data |-> Old(o).data,
   size |-> IF o \in allocated THEN "full" ELSE "none",
   counts |-> IF o \in allocated THEN o ELSE NoCounts]

(* the counters travel in the first ghost zones or, without storage, alone *)
SendSameToSame(n, o) ==
  [tag |-> CreateAMRMPITag(LidOf(n), 0), data |-> Old(o).data,
   size |-> IF o \in allocated THEN "full" ELSE "counters", counts |-> o]

SendCoarseToFine(n, o) ==
  [tag |-> CreateAMRMPITag(LidOf(n), Octant(newloc[n])), data |-> Old(o).data,
   size |-> IF o \in allocated THEN "full" ELSE "none", counts |-> NoCounts]

(* the coarse buffer, restricted before *)
SendFineToCoarse(n, o) ==
  LET restricted == UNION Range(Old(o).data)
  IN  [tag |-> CreateAMRMPITag(LidOf(n), Octant(loclist[o])), data |-> [h \in Halves |-> restricted],
       size |-> IF o \in allocated THEN "full" ELSE "none", counts |-> NoCounts]

(* the messages for one old block, with their receivers *)
SendsOf(r, o, nn) ==
  LET to(n, msg) == <<ranklist[n], msg>>
  IN  IF newloc[nn].level = loclist[o].level
      THEN IF ranklist[nn] /= r THEN <<to(nn, SendSameToSame(nn, o))>> ELSE <<>>
      ELSE IF newloc[nn].level > loclist[o].level
      THEN [l \in 1 .. nleaf |-> to(nn + l - 1, SendCoarseToFine(nn + l - 1, o))]
      ELSE <<to(nn, SendFineToCoarse(nn, o))>>

(* what TryRecv... will be called for *)
ReceivesOf(r) ==
  UNION {IF Merged(n) THEN {<<n, newtoold[n] + l>> : l \in 0 .. nleaf - 1}
         ELSE IF Refined(n) \/ oldranks[newtoold[n]] /= r THEN {<<n, newtoold[n]>>}
         ELSE {} : n \in Listed(r)}

(* bound: storage differs from that of most blocks in one tree only *)
WithinATree(gids) == \A o, p \in gids : loclist[o].tree = loclist[p].tree

(* The exchange begins; the variable has storage on any of the blocks.  The *)
(* balance's locals are gone, and the costs, which are not read before they *)
(* are gathered anew, are dropped.                                          *)
Distribute ==
  /\ stage = "balance" /\ pc = "done"
  /\ EveryRankUsed
  /\ stage' = "exchange"
  /\ allocated' \in {a \in SUBSET DOMAIN loclist : WithinATree(a) \/ WithinATree(DOMAIN loclist \ a)}
  /\ forced' \in BOOLEAN
  /\ at' = [r \in Ranks |-> "send"]
  /\ new' = [n \in Blocks(nbtotal) |-> Initial]
  /\ pc' = "idle"
  /\ costlist' = [n \in Blocks(nbtotal) |-> 0]
  /\ block_id' = 0 /\ rank' = 0 /\ my_cost' = 0 /\ remaining_cost' = 0
  /\ UNCHANGED <<nbtotal, ranklist, nslist, nblist, maps, net, pending>>

(* the send region and the new block list: a block that stays on its rank  *)
(* and level is moved, all others are made                                 *)
Send(r) ==
  /\ stage = "exchange" /\ at[r] = "send"
  /\ LET oldtonew == OldToNew([n \in 1 .. nbtotal |-> newtoold[n - 1]], Cardinality(DOMAIN loclist), nleaf)
         sends == FoldLeft(LAMBDA s, o : s \o SendsOf(r, o, oldtonew[o + 1]), <<>>,
                           [i \in 1 .. oldnb[r] |-> oldns[r] + i - 1])
         messages(to) == LET mine == SelectSeq(sends, LAMBDA s : s[1] = to)
                         IN  [i \in DOMAIN mine |-> mine[i][2]]
     IN  net' = [p \in Ranks \X Ranks |-> IF p[1] = r THEN net[p] \o messages(p[2]) ELSE net[p]]
  /\ new' = [n \in DOMAIN new |->
               IF n \notin Listed(r) THEN new[n]
               ELSE IF SameLevel(n) /\ oldranks[newtoold[n]] = r THEN Old(newtoold[n]) ELSE Made]
  /\ pending' = [pending EXCEPT ![r] = ReceivesOf(r)]
  /\ at' = [at EXCEPT ![r] = "receive"]
  /\ UNCHANGED <<vars, stage, maps, allocated, forced>>

(* DeallocateSparse, unless the variable is forced on new blocks *)
WithoutData(b) == [b EXCEPT !.alloc = @ /\ forced]

TryRecvSameToSame(b, msg) ==
  IF msg.size = "full"
  THEN [b EXCEPT !.alloc = TRUE, !.data = msg.data, !.counts = msg.counts]
  ELSE [WithoutData(b) EXCEPT !.counts = msg.counts]

(* the coarse block is received whole, its half goes to the coarse buffer *)
TryRecvCoarseToFine(b, msg, fine) ==
  IF msg.size = "full"
  THEN [b EXCEPT !.alloc = TRUE, !.data = msg.data, !.coarse = msg.data[Octant(fine)]]
  ELSE WithoutData(b)

TryRecvFineToCoarse(b, msg, fine) ==
  IF msg.size = "full"
  THEN [b EXCEPT !.alloc = TRUE, !.data[Octant(fine)] = msg.data[0]]
  ELSE b

RecvTag(n, o) ==
  LET lid == n - nslist[ranklist[n]]
  IN  CreateAMRMPITag(lid, IF Merged(n) THEN Octant(loclist[o])
                           ELSE IF Refined(n) THEN Octant(newloc[n]) ELSE 0)

(* a message that is there when the polling loop comes to the block; those  *)
(* of one sender with the same tag are received in the order sent           *)
Receive(r) ==
  /\ stage = "exchange" /\ at[r] = "receive"
  /\ \E p \in pending[r] :
       LET n    == p[1]
           o    == p[2]
           from == <<oldranks[o], r>>
           hits == {i \in DOMAIN net[from] : net[from][i].tag = RecvTag(n, o)}
       IN  /\ hits /= {}
           /\ \E i \in {Min(hits)} :
                LET msg == net[from][i]
                IN  /\ net' = [net EXCEPT ![from] = RemoveAt(@, i)]
                    /\ new' = [new EXCEPT ![n] =
                         IF Merged(n) THEN TryRecvFineToCoarse(@, msg, loclist[o])
                         ELSE IF Refined(n) THEN TryRecvCoarseToFine(@, msg, newloc[n])
                         ELSE TryRecvSameToSame(@, msg)]
           /\ pending' = [pending EXCEPT ![r] = @ \ {p}]
  /\ UNCHANGED <<vars, stage, maps, allocated, forced, at>>

(* all received: the refined blocks are prolongated from the coarse buffer *)
Prolongate(r) ==
  /\ stage = "exchange" /\ at[r] = "receive"
  /\ pending[r] = {}
  /\ new' = [n \in DOMAIN new |->
               IF n \in Listed(r) /\ Refined(n) /\ new[n].alloc
               THEN [new[n] EXCEPT !.data = [h \in Halves |-> new[n].coarse]] ELSE new[n]]
  /\ at' = [at EXCEPT ![r] = "done"]
  /\ UNCHANGED <<vars, stage, maps, allocated, forced, net, pending>>

(* the new lists replace the old ones; the next gathering of costs waits   *)
(* for all ranks                                                           *)
Settle ==
  /\ stage = "exchange"
  /\ \A r \in Ranks : at[r] = "done"
  /\ stage' = "settled"
  /\ loclist' = newloc
  /\ oldranks' = ranklist
  /\ newtoold' = [n \in DOMAIN newloc |-> n]
  /\ allocated' = {}
  /\ forced' = FALSE
  /\ new' = <<>>
  /\ oldns' = nslist /\ oldnb' = nblist
  /\ UNCHANGED <<vars, newloc, at, net, pending>>

Next1 ==
  \/ BuildBlockList \/ Remesh \/ Balance \/ RankWithoutBlock \/ Distribute \/ Settle
  \/ \E r \in Ranks : Send(r) \/ Receive(r) \/ Prolongate(r)

Spec1 == Init1 /\ [][Next1]_allvars

-----------------------------------------------------------------------------
(* The position of the half of a block, in quarters of a tree. *)
Place(l, h) ==
  {<<l.tree[1], q>> : q \in IF l.level = 0 THEN {2 * h, 2 * h + 1} ELSE {2 * l.lx[1] + h}}

Sources(n) == {o \in DOMAIN loclist : \E h, k \in Halves :
                 Place(loclist[o], h) \cap Place(newloc[n], k) /= {}}

Exchanged(n) == stage = "exchange" /\ at[ranklist[n]] = "done"

(* After the exchange a block has storage when a block it comes from had    *)
(* (or it is new and storage is forced), and each half holds the values of  *)
(* the old halves at its place, whichever ranks they were on, whether they  *)
(* were moved, copied from a coarser or assembled from finer blocks and in  *)
(* whatever order they arrived.  A block that only moves keeps its          *)
(* derefinement and deallocation counts, with or without storage; a block   *)
(* of a new level starts without.                                           *)
BlocksKeepTheirData ==
  \A n \in Blocks(nbtotal) : Exchanged(n) =>
    /\ Sources(n) \cap allocated /= {} => new[n].alloc
    /\ new[n].alloc => Sources(n) \cap allocated /= {} \/ forced
    /\ \A h \in Halves :
         new[n].data[h] = {<<o, k>> \in (Sources(n) \cap allocated) \X Halves :
                             Place(loclist[o], k) \cap Place(newloc[n], h) /= {}}
    /\ new[n].counts = IF SameLevel(n) THEN newtoold[n] ELSE NoCounts

(* Every message under way is for exactly one receive its receiver still    *)
(* has to make, or will have to, and for every such receive whose sender    *)
(* has sent there is exactly one message: nothing is left over to be taken  *)
(* for a message of the next exchange.                                      *)
MessagesMatchReceives ==
  stage = "exchange" =>
    \A from, to \in Ranks :
      LET open == IF at[to] = "send" THEN ReceivesOf(to) ELSE pending[to]
          tagged(t) == {p \in open : oldranks[p[2]] = from /\ RecvTag(p[1], p[2]) = t}
          messages(t) == {i \in DOMAIN net[<<from, to>>] : net[<<from, to>>][i].tag = t}
          tags == {m.tag : m \in Range(net[<<from, to>>])} \cup {RecvTag(p[1], p[2]) : p \in open}
      IN  \A t \in tags :
            /\ Cardinality(messages(t)) <= 1
            /\ at[from] /= "send" => Cardinality(messages(t)) = Cardinality(tagged(t))

(* An exchange moves the data of every block to where it belongs, and all   *)
(* of its messages are used up (RedistributeAndRefineMeshBlocks).           *)
DataMovedIntact == BlocksKeepTheirData /\ MessagesMatchReceives

(* The operations that fill the blocks of a refined or merged part of the  *)
(* mesh: restriction undoes prolongation and nothing exceeds the values it *)
(* came from, every fine element is filled, a face field keeps its         *)
(* divergence and restricted fluxes conserve.  They do not depend on the   *)
(* state: once is enough.                                                  *)
RefinementSound ==
  stage = "initial" => SharedSound /\ EverythingFilled /\ DivergenceKept /\ FluxesConserved
=============================================================================
