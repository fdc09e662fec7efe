-------------------------- MODULE LoadBalanceProofs --------------------------
(***************************************************************************)
(* Proofs about CalculateLoadBalance, for any number of ranks and blocks   *)
(* and any costs, balance after balance: first the lists, for which it     *)
(* does not matter when a rank is full, then the loads, for which it does. *)
(***************************************************************************)
EXTENDS LoadBalance, FiniteSetTheorems, WellFoundedInduction, TLAPS

(* The blocks dealt out so far, from the last one down. *)
Dealt == block_id + 1 .. nbtotal - 1

(* Where AssignBlocks stands: ranks never fall from one block to the next   *)
(* and rise by at most one, the last block is with the last rank, and the   *)
(* rank to be given next is that of the block dealt last, or one below.     *)
AssignInv ==
  /\ block_id \in -1 .. nbtotal - 1
  /\ block_id = nbtotal - 1 => rank = nranks - 1
  /\ block_id < nbtotal - 1 =>
       /\ ranklist[nbtotal - 1] = nranks - 1
       /\ ranklist[block_id + 1] - rank \in {0, 1}
  /\ \A b, c \in Dealt : b <= c => ranklist[b] <= ranklist[c]
  /\ \A b \in Dealt : b - 1 \in Dealt => ranklist[b] - ranklist[b - 1] \in {0, 1}
  /\ \A b \in Dealt : rank <= ranklist[b]

(* What AssignBlocks leaves behind. *)
Assigned ==
  /\ ranklist[nbtotal - 1] = nranks - 1
  /\ \A b, c \in Blocks(nbtotal) : b <= c => ranklist[b] <= ranklist[c]
  /\ \A b \in 1 .. nbtotal - 1 : ranklist[b] - ranklist[b - 1] \in {0, 1}

(* The r-th range of the lists holds the blocks of the r-th rank that has   *)
(* blocks.                                                                  *)
RangeOf(r) ==
  /\ nslist[r] >= 0
  /\ nslist[r] + nblist[r] <= nbtotal
  /\ \A b \in Blocks(nbtotal) : ranklist[b] - ranklist[0] = r <=> b \in Listed(r)

(* Where UpdateBlockList stands: it counts the ranks from that of the first *)
(* block, and the ranges it has closed hold the blocks of their rank.       *)
UpdateInv ==
  /\ Assigned
  /\ block_id \in 1 .. nbtotal
  /\ rank = ranklist[block_id - 1] - ranklist[0]
  /\ nslist[rank] \in 0 .. block_id - 1
  /\ \A b \in 0 .. block_id - 1 : ranklist[b] - ranklist[0] = rank <=> b >= nslist[rank]
  /\ \A r \in Ranks : r < rank =>
       RangeOf(r)

(* The lists when all is done, whether or not every rank has a block. *)
DoneInv ==
  /\ Assigned
  /\ \A r \in Ranks : r <= nranks - 1 - ranklist[0] => RangeOf(r)

ShapeOK ==
  /\ nbtotal \in Nat \ {0}
  /\ ranklist \in [Blocks(nbtotal) -> Ranks]
  /\ nslist \in [Ranks -> Int]
  /\ nblist \in [Ranks -> Int]
  /\ pc \in {"assign", "update", "done"}
  /\ block_id \in Int
  /\ rank \in Ranks

IInv ==
  /\ ShapeOK
  /\ pc = "assign" => AssignInv
  /\ pc = "update" => UpdateInv
  /\ pc = "done"   => DoneInv

(* The lists start with a block for every rank and nothing dealt out. *)
LEMMA InitInvariant == Init => IInv
<1> SUFFICES ASSUME Init PROVE IInv
  OBVIOUS
<1>1. ShapeOK
  BY RanksAssumption DEF Init, ShapeOK, Ranks, Blocks
<1>2. AssignInv
  BY RanksAssumption DEF Init, AssignInv, Dealt, Ranks, Blocks
<1>3. QED
  BY <1>1, <1>2 DEF IInv, Init

(* A new balance deals out from the last block and the last rank again. *)
LEMMA StepCalculate == IInv /\ CalculateLoadBalance => IInv'
<1> SUFFICES ASSUME IInv, CalculateLoadBalance PROVE IInv'
  OBVIOUS
<1>1. PICK n \in 1 .. MaxBlocks : /\ nbtotal' = n
                                  /\ ranklist' = [b \in Blocks(n) |-> 0]
                                  /\ block_id' = n - 1
  BY DEF CalculateLoadBalance
<1>2. pc' = "assign" /\ rank' = nranks - 1 /\ nslist' = nslist /\ nblist' = nblist
  BY DEF CalculateLoadBalance
<1>3. n \in Nat \ {0}
  BY <1>1, RanksAssumption
<1>4. ShapeOK'
  <2>1. 0 \in Ranks /\ nranks - 1 \in Ranks
    BY RanksAssumption DEF Ranks
  <2>2. ranklist' \in [Blocks(n) -> Ranks]
    BY <1>1, <2>1
  <2>3. n - 1 \in Int
    BY <1>3
  <2>4. QED
    BY <1>1, <1>2, <1>3, <2>1, <2>2, <2>3 DEF IInv, ShapeOK
<1>5. AssignInv'
  BY <1>1, <1>2, <1>3 DEF AssignInv, Dealt
<1>6. QED
  BY <1>2, <1>4, <1>5 DEF IInv

(* One turn of AssignBlocks: the block gets the current rank, which then    *)
(* stays or goes down by one and not below zero.                            *)
LEMMA StepAssignBlock == IInv /\ AssignBlock => IInv'
<1> SUFFICES ASSUME IInv, AssignBlock PROVE IInv'
  OBVIOUS
<1>1. /\ ShapeOK /\ AssignInv /\ pc = "assign" /\ pc' = "assign" /\ block_id >= 0
      /\ nbtotal' = nbtotal /\ nslist' = nslist /\ nblist' = nblist
      /\ block_id' = block_id - 1
      /\ ranklist' = [ranklist EXCEPT ![block_id] = rank]
  BY DEF IInv, AssignBlock, lists
<1>2. rank' = rank \/ (rank > 0 /\ rank' = rank - 1)
  BY DEF AssignBlock, RankIsFull
<1>3. block_id \in Blocks(nbtotal) /\ rank' \in Ranks /\ rank' <= rank /\ rank - rank' \in {0, 1}
  <2>1. block_id \in Int /\ block_id <= nbtotal - 1 /\ nbtotal \in Nat
    BY <1>1 DEF ShapeOK, AssignInv
  <2>2. rank \in 0 .. nranks - 1 /\ nranks \in Nat
    BY <1>1, RanksAssumption DEF ShapeOK, Ranks
  <2>3. block_id \in Blocks(nbtotal)
    BY <1>1, <2>1 DEF Blocks
  <2>4. rank' \in Ranks /\ rank' <= rank /\ rank - rank' \in {0, 1}
    BY <1>2, <2>2 DEF Ranks
  <2>5. QED
    BY <2>3, <2>4
<1>4. ShapeOK'
  <2>1. ranklist' \in [Blocks(nbtotal') -> Ranks]
    BY <1>1, <1>3 DEF ShapeOK
  <2>2. block_id' \in Int
    BY <1>1 DEF ShapeOK
  <2>3. QED
    BY <1>1, <1>3, <2>1, <2>2 DEF ShapeOK
<1>5. Dealt' = Dealt \cup {block_id} /\ \A b \in Dealt : b > block_id /\ b \in Blocks(nbtotal)
  <2>1. nbtotal \in Nat /\ block_id \in Int /\ block_id <= nbtotal - 1
    BY <1>1 DEF ShapeOK, AssignInv
  <2>2. Dealt = block_id + 1 .. nbtotal - 1 /\ Dealt' = block_id .. nbtotal - 1
    <3>1. block_id - 1 + 1 = block_id
      BY <2>1
    <3>2. QED
      BY <1>1, <3>1 DEF Dealt
  <2>3. block_id .. nbtotal - 1 = (block_id + 1 .. nbtotal - 1) \cup {block_id}
    BY <2>1
  <2>4. \A b \in block_id + 1 .. nbtotal - 1 : b > block_id /\ b \in 0 .. nbtotal - 1
    BY <1>1, <2>1
  <2>5. QED
    BY <2>2, <2>3, <2>4 DEF Blocks
<1>6. ranklist'[block_id] = rank /\ \A b \in Dealt : ranklist'[b] = ranklist[b]
  BY <1>1, <1>3, <1>5 DEF ShapeOK, AssignInv
<1>7. /\ rank \in Int /\ rank' \in Int /\ block_id \in Int
      /\ \A b \in Dealt : ranklist[b] \in Int /\ b \in Int
  <2>1. \A r \in Ranks : r \in Int
    BY DEF Ranks
  <2>2. \A b \in Blocks(nbtotal) : b \in Int /\ ranklist[b] \in Ranks
    BY <1>1 DEF ShapeOK, Blocks
  <2>3. rank \in Ranks /\ block_id \in Int
    BY <1>1 DEF ShapeOK
  <2>4. QED
    BY <1>3, <1>5, <2>1, <2>2, <2>3
<1>8. AssignInv'
  <2>1. block_id' \in -1 .. nbtotal' - 1 /\ block_id' # nbtotal' - 1
    <3>1. nbtotal \in Nat /\ block_id \in Int /\ block_id <= nbtotal - 1
      BY <1>1 DEF ShapeOK, AssignInv
    <3>2. QED
      BY <1>1, <3>1
  <2>2. ranklist'[nbtotal' - 1] = nranks - 1
    <3>1. /\ nbtotal \in Nat \ {0} /\ block_id \in Int /\ block_id <= nbtotal - 1
          /\ block_id = nbtotal - 1 => rank = nranks - 1
          /\ block_id # nbtotal - 1 => ranklist[nbtotal - 1] = nranks - 1
      BY <1>1 DEF AssignInv, ShapeOK
    <3>2. CASE block_id = nbtotal - 1
      BY <1>1, <1>6, <3>1, <3>2
    <3>3. CASE block_id # nbtotal - 1
      <4>1. nbtotal - 1 \in Dealt
        BY <3>1, <3>3 DEF Dealt
      <4>2. QED
        BY <1>1, <1>6, <3>1, <3>3, <4>1
    <3>4. QED
      BY <3>2, <3>3
  <2>3. ranklist'[block_id' + 1] - rank' \in {0, 1}
    BY <1>1, <1>3, <1>6 DEF ShapeOK
  <2>4. \A b, c \in Dealt' : b <= c => ranklist'[b] <= ranklist'[c]
    BY <1>1, <1>5, <1>6, <1>7 DEF AssignInv
  <2>5. \A b \in Dealt' : b - 1 \in Dealt' => ranklist'[b] - ranklist'[b - 1] \in {0, 1}
    <3> SUFFICES ASSUME NEW b \in Dealt', b - 1 \in Dealt'
                 PROVE  ranklist'[b] - ranklist'[b - 1] \in {0, 1}
      OBVIOUS
    <3>1. b \in Dealt
      BY <1>1, <1>5, <1>7 DEF ShapeOK
    <3>2. CASE b - 1 \in Dealt
      BY <1>1, <1>6, <3>1, <3>2 DEF AssignInv
    <3>3. CASE b - 1 = block_id
      <4>1. b = block_id + 1 /\ block_id < nbtotal - 1
        <5>1. b \in Int /\ b <= nbtotal - 1 /\ nbtotal \in Int
          BY <1>1, <3>1 DEF Dealt, ShapeOK
        <5>2. QED
          BY <1>7, <3>3, <5>1
      <4>2. QED
        BY <1>1, <1>6, <3>1, <3>3, <4>1 DEF AssignInv
    <3>4. QED
      BY <1>5, <3>2, <3>3
  <2>6. \A b \in Dealt' : rank' <= ranklist'[b]
    <3>1. ASSUME NEW b \in Dealt
          PROVE  rank' <= ranklist'[b]
      <4>1. rank <= ranklist[b] /\ ranklist'[b] = ranklist[b]
        BY <1>1, <1>6 DEF AssignInv
      <4>2. QED
        BY <1>3, <1>7, <4>1
    <3>2. rank' <= ranklist'[block_id]
      BY <1>3, <1>6
    <3>3. QED
      BY <1>5, <3>1, <3>2
  <2>7. QED
    BY <2>1, <2>2, <2>3, <2>4, <2>5, <2>6 DEF AssignInv
<1>9. QED
  BY <1>1, <1>4, <1>8 DEF IInv

(* All blocks are dealt out; UpdateBlockList starts at the second block. *)
LEMMA StepAssignDone == IInv /\ AssignDone => IInv'
<1> SUFFICES ASSUME IInv, AssignDone PROVE IInv'
  OBVIOUS
<1>1. /\ ShapeOK /\ AssignInv /\ pc' = "update" /\ block_id < 0
      /\ nbtotal' = nbtotal /\ ranklist' = ranklist /\ nblist' = nblist
      /\ nslist' = [nslist EXCEPT ![0] = 0]
      /\ block_id' = 1 /\ rank' = 0
  BY DEF IInv, AssignDone, lists
<1>2. 0 \in Ranks
  BY RanksAssumption DEF Ranks
<1>3. ShapeOK'
  BY <1>1, <1>2 DEF ShapeOK
<1>4. block_id = -1 /\ Dealt = Blocks(nbtotal) /\ 0 \in Blocks(nbtotal)
  BY <1>1 DEF ShapeOK, AssignInv, Dealt, Blocks
<1>5. Assigned
  <2>1. ranklist[nbtotal - 1] = nranks - 1
    BY <1>1, <1>4 DEF AssignInv, ShapeOK
  <2>2. \A b \in 1 .. nbtotal - 1 : b \in Dealt /\ b - 1 \in Dealt
    BY <1>1, <1>4 DEF ShapeOK, Blocks
  <2>3. QED
    BY <1>1, <1>4, <2>1, <2>2 DEF AssignInv, Assigned
<1>6. Assigned'
  BY <1>1, <1>5 DEF Assigned, Blocks
<1>7. nslist'[0] = 0 /\ ranklist[0] \in Int
  BY <1>1, <1>2, <1>4, RanksAssumption DEF ShapeOK, Ranks
<1>8. UpdateInv'
  BY <1>1, <1>2, <1>6, <1>7 DEF UpdateInv, ShapeOK, Ranks
<1>9. QED
  BY <1>1, <1>3, <1>8 DEF IInv

(* One turn of UpdateBlockList: where the rank changes, the range that was  *)
(* open is closed and the next one starts.  The next range exists, since    *)
(* rank is below the rank of the block looked at.                           *)
LEMMA StepUpdateBlock == IInv /\ UpdateBlock => IInv'
<1> SUFFICES ASSUME IInv, UpdateBlock PROVE IInv'
  OBVIOUS
<1>1. /\ ShapeOK /\ UpdateInv /\ pc' = "update" /\ block_id < nbtotal
      /\ nbtotal' = nbtotal /\ ranklist' = ranklist /\ block_id' = block_id + 1
  BY DEF IInv, UpdateBlock, lists
<1>2. /\ block_id \in 1 .. nbtotal - 1
      /\ nbtotal \in Int /\ block_id \in Int /\ nranks \in Int /\ rank \in Int
      /\ 0 \in Blocks(nbtotal) /\ block_id \in Blocks(nbtotal) /\ block_id - 1 \in Blocks(nbtotal)
  <2>1. nbtotal \in Int /\ block_id \in Int /\ nranks \in Int /\ rank \in Int
    BY <1>1, RanksAssumption DEF ShapeOK, Ranks
  <2>2. block_id \in 1 .. nbtotal - 1
    BY <1>1, <2>1 DEF UpdateInv
  <2>3. QED
    BY <2>1, <2>2 DEF Blocks
<1>a. \A b \in Blocks(nbtotal) : b \in Int /\ ranklist[b] \in Int /\ 0 <= ranklist[b] /\ ranklist[b] <= nranks - 1
  BY <1>1, <1>2 DEF ShapeOK, Blocks, Ranks
<1>b. /\ ranklist[block_id] - ranklist[block_id - 1] \in {0, 1}
      /\ rank = ranklist[block_id - 1] - ranklist[0]
      /\ nslist[rank] \in 0 .. block_id - 1 /\ nslist[rank] \in Int
  BY <1>1, <1>2 DEF UpdateInv, Assigned
<1>3. Assigned'
  BY <1>1 DEF UpdateInv, Assigned, Blocks
<1>4. \A b \in Blocks(nbtotal) : b >= block_id => ranklist[b] >= ranklist[block_id]
  BY <1>1, <1>2, <1>a DEF UpdateInv, Assigned
<1>5. CASE ranklist[block_id] = ranklist[block_id - 1]
  <2>1. nslist' = nslist /\ nblist' = nblist /\ rank' = rank
    BY <1>5 DEF UpdateBlock
  <2>2. ShapeOK'
    BY <1>1, <2>1 DEF ShapeOK
  <2>3. \A r \in Ranks : r < rank' => RangeOf(r)'
    BY <1>1, <2>1 DEF UpdateInv, RangeOf, Listed, Blocks
  <2>4. \A b \in 0 .. block_id : ranklist[b] - ranklist[0] = rank <=> b >= nslist[rank]
    BY <1>1, <1>2, <1>a, <1>b, <1>5 DEF UpdateInv
  <2>5. UpdateInv'
    BY <1>1, <1>2, <1>a, <1>b, <1>3, <1>5, <2>1, <2>3, <2>4 DEF UpdateInv
  <2>6. QED
    BY <1>1, <2>2, <2>5 DEF IInv
<1>6. CASE ranklist[block_id] /= ranklist[block_id - 1]
  <2>1. /\ nblist' = [nblist EXCEPT ![rank] = block_id - nslist[rank]]
        /\ nslist' = [nslist EXCEPT ![rank + 1] = block_id]
        /\ rank' = rank + 1
    BY <1>6 DEF UpdateBlock
  <2>2. ranklist[block_id] - ranklist[0] = rank + 1 /\ rank \in Ranks /\ rank + 1 \in Ranks
    <3>1. ranklist[block_id] - ranklist[block_id - 1] = 1
      BY <1>2, <1>a, <1>b, <1>6
    <3>2. ranklist[block_id] - ranklist[0] = rank + 1
      BY <1>2, <1>a, <1>b, <3>1
    <3>3. QED
      BY <1>1, <1>2, <1>a, <3>2 DEF ShapeOK, Ranks
  <2>3. ShapeOK'
    <3>1. /\ nslist \in [Ranks -> Int] /\ nblist \in [Ranks -> Int]
          /\ ranklist \in [Blocks(nbtotal) -> Ranks] /\ nbtotal \in Nat \ {0}
      BY <1>1 DEF ShapeOK
    <3>2. nslist' \in [Ranks -> Int]
      BY <1>2, <2>1, <3>1
    <3>3. nblist' \in [Ranks -> Int]
      <4>1. block_id - nslist[rank] \in Int
        BY <1>2, <1>b
      <4>2. QED
        BY <2>1, <3>1, <4>1
    <3>4. block_id' \in Int /\ rank' \in Ranks
      BY <1>1, <1>2, <2>1, <2>2
    <3>5. QED
      BY <1>1, <3>1, <3>2, <3>3, <3>4 DEF ShapeOK
  <2>4. /\ nslist'[rank + 1] = block_id
        /\ \A r \in Ranks : r <= rank => nslist'[r] = nslist[r]
        /\ nblist'[rank] = block_id - nslist[rank]
        /\ \A r \in Ranks : r < rank => nblist'[r] = nblist[r]
    BY <1>1, <2>1, <2>2 DEF ShapeOK, Ranks
  <2>5. ASSUME NEW r \in Ranks, r < rank PROVE RangeOf(r)'
    BY <1>1, <2>4, <2>5 DEF UpdateInv, RangeOf, Listed, Blocks, Ranks
  <2>6. ASSUME NEW r \in Ranks, r = rank PROVE RangeOf(r)'
    <3>1. nslist'[r] = nslist[r] /\ nslist[r] = nslist[rank] /\ nblist'[r] = block_id - nslist[r]
      BY <1>2, <2>2, <2>4, <2>6
    <3>2. ASSUME NEW b \in Blocks(nbtotal)
          PROVE  ranklist[b] - ranklist[0] = r <=> b \in nslist[r] .. block_id - 1
      <4>1. CASE b < block_id
        BY <1>1, <1>2, <1>a, <1>b, <2>6, <3>1, <4>1 DEF UpdateInv, Blocks
      <4>2. CASE b >= block_id
        BY <1>2, <1>a, <1>b, <1>4, <2>2, <2>6, <3>1, <4>2
      <4>3. QED
        BY <1>2, <1>a, <4>1, <4>2
    <3>3. nslist[r] + (block_id - nslist[r]) = block_id
      BY <1>2, <1>b, <3>1
    <3>4. /\ nslist'[r] >= 0
          /\ nslist'[r] + nblist'[r] <= nbtotal'
          /\ nslist'[r] .. nslist'[r] + nblist'[r] - 1 = nslist[r] .. block_id - 1
      BY <1>1, <1>2, <1>b, <3>1, <3>3
    <3>5. QED
      BY <1>1, <3>2, <3>4 DEF RangeOf, Listed, Blocks
  <2>7. \A r \in Ranks : r < rank' => RangeOf(r)'
    BY <1>2, <2>1, <2>5, <2>6 DEF Ranks
  <2>8. \A b \in 0 .. block_id : ranklist[b] - ranklist[0] = rank + 1 <=> b >= block_id
    <3>1. \A b \in 0 .. block_id - 1 : ranklist[b] <= ranklist[block_id - 1]
      BY <1>1, <1>2, <1>a DEF UpdateInv, Assigned, Blocks
    <3>2. QED
      BY <1>2, <1>a, <1>b, <2>2, <3>1 DEF Blocks
  <2>9. UpdateInv'
    BY <1>1, <1>2, <1>a, <1>b, <1>3, <2>1, <2>2, <2>4, <2>7, <2>8 DEF UpdateInv
  <2>10. QED
    BY <1>1, <2>3, <2>9 DEF IInv
<1>7. QED
  BY <1>5, <1>6

(* The end of UpdateBlockList closes the last range. *)
LEMMA StepUpdateDone == IInv /\ UpdateDone => IInv'
<1> SUFFICES ASSUME IInv, UpdateDone PROVE IInv'
  OBVIOUS
<1>1. /\ ShapeOK /\ UpdateInv /\ pc' = "done" /\ block_id >= nbtotal
      /\ nbtotal' = nbtotal /\ ranklist' = ranklist /\ block_id' = block_id /\ rank' = rank
      /\ nslist' = nslist /\ nblist' = [nblist EXCEPT ![rank] = nbtotal - nslist[rank]]
  BY DEF IInv, UpdateDone, lists
<1>2. /\ nbtotal \in Int /\ rank \in Int /\ nranks \in Int /\ rank \in Ranks
      /\ block_id = nbtotal /\ nslist[rank] \in Int
      /\ nslist[rank] >= 0 /\ nslist[rank] <= nbtotal - 1
  <2>1. nbtotal \in Int /\ rank \in Int /\ nranks \in Int /\ rank \in Ranks
    BY <1>1, RanksAssumption DEF ShapeOK, Ranks
  <2>2. block_id = nbtotal /\ nslist[rank] \in 0 .. block_id - 1
    BY <1>1, <2>1 DEF UpdateInv
  <2>3. QED
    BY <2>1, <2>2
<1>3. ShapeOK'
  BY <1>1, <1>2 DEF ShapeOK
<1>4. Assigned' /\ rank = nranks - 1 - ranklist'[0]
  BY <1>1, <1>2 DEF UpdateInv, Assigned, Blocks
<1>5. ASSUME NEW r \in Ranks, r < rank PROVE RangeOf(r)'
  <2>1. RangeOf(r)
    BY <1>1, <1>5 DEF UpdateInv
  <2>2. r # rank
    BY <1>2, <1>5 DEF Ranks
  <2>3. nslist'[r] = nslist[r] /\ nblist'[r] = nblist[r]
    BY <1>1, <2>2 DEF ShapeOK
  <2>4. QED
    BY <1>1, <2>1, <2>3 DEF RangeOf, Listed, Blocks
<1>6. ASSUME NEW r \in Ranks, r = rank PROVE RangeOf(r)'
  <2>1. nslist'[r] = nslist[r] /\ nslist[r] = nslist[rank] /\ nblist'[r] = nbtotal - nslist[r]
    BY <1>1, <1>2, <1>6 DEF ShapeOK
  <2>2. \A b \in Blocks(nbtotal) : ranklist[b] - ranklist[0] = r <=> b \in nslist[r] .. nbtotal - 1
    BY <1>1, <1>2, <1>6, <2>1 DEF UpdateInv, Blocks
  <2>3. /\ nslist'[r] >= 0
        /\ nslist'[r] + nblist'[r] <= nbtotal'
        /\ nslist'[r] .. nslist'[r] + nblist'[r] - 1 = nslist[r] .. nbtotal - 1
    BY <1>1, <1>2, <2>1
  <2>4. QED
    BY <1>1, <2>2, <2>3 DEF RangeOf, Listed, Blocks
<1>7. DoneInv'
  BY <1>1, <1>2, <1>4, <1>5, <1>6 DEF DoneInv, Ranks
<1>8. QED
  BY <1>1, <1>3, <1>7 DEF IInv

(* The invariant of CalculateLoadBalance. *)
THEOREM InvariantHolds == Spec => []IInv
<1>1. Init => IInv
  BY InitInvariant
<1>2. IInv /\ [Next]_vars => IInv'
  <2> SUFFICES ASSUME IInv, [Next]_vars PROVE IInv'
    OBVIOUS
  <2>1. CASE UNCHANGED vars
    <3>1. /\ nbtotal' = nbtotal /\ ranklist' = ranklist /\ nslist' = nslist /\ nblist' = nblist
          /\ pc' = pc /\ block_id' = block_id /\ rank' = rank
      BY <2>1 DEF vars, lists
    <3>2. ShapeOK' /\ (AssignInv => AssignInv') /\ (Assigned => Assigned')
      BY <3>1 DEF IInv, ShapeOK, AssignInv, Assigned, Dealt, Blocks, Ranks
    <3>3. \A r \in Ranks : RangeOf(r) => RangeOf(r)'
      BY <3>1 DEF RangeOf, Listed, Blocks
    <3>4. (UpdateInv => UpdateInv') /\ (DoneInv => DoneInv')
      BY <3>1, <3>2, <3>3 DEF UpdateInv, DoneInv
    <3>5. QED
      BY <3>1, <3>2, <3>4 DEF IInv
  <2>2. QED
    BY <2>1, StepCalculate, StepAssignBlock, StepAssignDone, StepUpdateBlock, StepUpdateDone DEF Next
<1>3. QED
  BY <1>1, <1>2, PTL DEF Spec

(* Every rank owns one contiguous range of blocks, the ranges follow one    *)
(* another up to the last rank, and no rank between two that have blocks is *)
(* left out, for any costs and any number of ranks and blocks.              *)
THEOREM ContiguousRanks == Spec => []RanksAreContiguous
<1>1. IInv => RanksAreContiguous
  BY DEF IInv, ShapeOK, RanksAreContiguous, UpdateInv, DoneInv, Assigned
<1>2. QED
  BY <1>1, InvariantHolds, PTL

(* Whenever every rank has a block, nslist and nblist tell every rank       *)
(* exactly its blocks, whatever an earlier balance left in them.            *)
THEOREM ListsMatch == Spec => []ListsMatchWhenAllUsed
<1>1. IInv => ListsMatchWhenAllUsed
  <2> SUFFICES ASSUME IInv, pc = "done", EveryRankUsed, NEW r \in Ranks
               PROVE  Listed(r) = BlocksOf(r)
    BY DEF ListsMatchWhenAllUsed
  <2>1. ShapeOK /\ DoneInv
    BY DEF IInv
  <2>2. /\ nbtotal \in Nat \ {0} /\ nranks \in Nat \ {0} /\ 0 \in Ranks /\ 0 \in Blocks(nbtotal)
        /\ \A b \in Blocks(nbtotal) : b \in Int /\ b >= 0 /\ ranklist[b] \in Int /\ ranklist[b] >= 0
    BY <2>1, RanksAssumption DEF ShapeOK, Ranks, Blocks
  <2>3. PICK b \in Blocks(nbtotal) : ranklist[b] = 0
    <3>1. BlocksOf(0) /= {}
      BY <2>2 DEF EveryRankUsed
    <3>2. QED
      BY <3>1 DEF BlocksOf
  <2>4. ranklist[0] = 0
    <3>1. ranklist[0] <= ranklist[b]
      BY <2>1, <2>2 DEF DoneInv, Assigned
    <3>2. QED
      BY <2>2, <2>3, <3>1
  <2>5. RangeOf(r)
    BY <2>1, <2>2, <2>4 DEF DoneInv, Ranks
  <2>6. \A c \in Blocks(nbtotal) : ranklist[c] = r <=> c \in Listed(r)
    BY <2>2, <2>4, <2>5 DEF RangeOf
  <2>7. Listed(r) \subseteq Blocks(nbtotal)
    <3>1. /\ nslist[r] \in Int /\ nblist[r] \in Int
          /\ nslist[r] >= 0 /\ nslist[r] + nblist[r] <= nbtotal
      BY <2>1, <2>5 DEF RangeOf, ShapeOK
    <3>2. QED
      BY <2>2, <3>1 DEF Listed, Blocks
  <2>8. QED
    BY <2>6, <2>7 DEF BlocksOf
<1>2. QED
  BY <1>1, InvariantHolds, PTL

-----------------------------------------------------------------------------
(***************************************************************************)
(* Sums.  Sum folds over the domain of a function in an order of its own;  *)
(* the order does not matter, and a sum over a set is that over the set    *)
(* without one element, and this element.                                  *)
(***************************************************************************)
First(s)  == CHOOSE x \in s : TRUE
UpTo(D, n) == {s \in SUBSET D : Cardinality(s) <= n}

Summed(c, g, s) == IF s = {} THEN 0 ELSE c[First(s)] + g[s \ {First(s)}]

Follows(g, c, A) == g \in [A -> Nat] /\ \A s \in A : g[s] = Summed(c, g, s)
Sums(g, c, D) == Follows(g, c, SUBSET D)

(* the sum over a part of the domain *)
SumOf(c, S) == Sum([x \in S |-> c[x]])

(* A set of naturals has a least element. *)
LEMMA LeastOf ==
  ASSUME NEW T, T \subseteq Nat, T # {}
  PROVE  \E n \in T : \A m \in T : ~(m < n)
<1>1. IsWellFoundedOn({ss \in Nat \X Nat : ss[1] < ss[2]}, Nat)
  BY NatLessThanWellFounded DEF OpToRel
<1>2. PICK n \in T : \A m \in T : ~(<<m, n>> \in {ss \in Nat \X Nat : ss[1] < ss[2]})
  BY <1>1, WFMin
<1>3. QED
  BY <1>2

(* Of some subsets of a finite set, one has the fewest elements. *)
LEMMA SmallestOf ==
  ASSUME NEW D, IsFiniteSet(D), NEW T, T \subseteq SUBSET D, T # {}
  PROVE  \E s \in T : \A t \in T : ~(Cardinality(t) < Cardinality(s))
<1> DEFINE N == {Cardinality(s) : s \in T}
<1>1. \A s \in T : Cardinality(s) \in Nat
  BY FS_Subset, FS_CardinalityType
<1>2. N \subseteq Nat /\ N # {}
  BY <1>1
<1>3. PICK n \in N : \A m \in N : ~(m < n)
  <2> HIDE DEF N
  <2>1. QED
    BY <1>2, LeastOf
<1>4. QED
  BY <1>3

(* The size of a finite set without one of its elements. *)
LEMMA RemoveFacts ==
  ASSUME NEW D, IsFiniteSet(D), NEW s \in SUBSET D, NEW x \in s
  PROVE  /\ s \ {x} \in SUBSET D
         /\ Cardinality(s) \in Nat /\ Cardinality(s \ {x}) \in Nat
         /\ Cardinality(s \ {x}) = Cardinality(s) - 1
<1>1. IsFiniteSet(s)
  BY FS_Subset
<1>2. QED
  BY <1>1, FS_RemoveElement, FS_CardinalityType

(* The element Sum takes next is one of the set. *)
LEMMA FirstIn ==
  ASSUME NEW s, s # {}
  PROVE  First(s) \in s
  BY DEF First

(* The recursive function that Sum folds with exists. *)
LEMMA SumsExist ==
  ASSUME NEW D, IsFiniteSet(D), NEW c \in [D -> Nat]
  PROVE  \E g : Sums(g, c, D)
<1> DEFINE Bad == {m \in Nat : ~\E g : Follows(g, c, UpTo(D, m))}
<1>1. ASSUME NEW m \in Bad, \A k \in Bad : ~(k < m)
      PROVE  FALSE
  <2>1. m \in Nat /\ ~\E g : Follows(g, c, UpTo(D, m))
    OBVIOUS
  <2>2. CASE m = 0
    <3> DEFINE g == [s \in UpTo(D, 0) |-> 0]
    <3>1. \A s \in UpTo(D, 0) : s = {}
      <4>1. ASSUME NEW s \in UpTo(D, 0)
            PROVE  s = {}
        <5>1. IsFiniteSet(s) /\ Cardinality(s) <= 0
          BY FS_Subset DEF UpTo
        <5>2. Cardinality(s) \in Nat
          BY <5>1, FS_CardinalityType
        <5>3. Cardinality(s) = 0
          BY <5>1, <5>2
        <5>4. QED
          BY <5>1, <5>3, FS_EmptySet
      <4>2. QED
        BY <4>1
    <3>2. Follows(g, c, UpTo(D, 0))
      BY <3>1 DEF Follows, Summed
    <3>3. QED
      BY <2>1, <2>2, <3>2
  <2>3. CASE m # 0
    <3>1. m - 1 \in Nat /\ m - 1 < m
      BY <2>1, <2>3
    <3>2. m - 1 \notin Bad
      BY <1>1, <3>1
    <3>3. PICK g : Follows(g, c, UpTo(D, m - 1))
      BY <3>1, <3>2
    <3> DEFINE h == [s \in UpTo(D, m) |-> Summed(c, g, s)]
    <3>4. ASSUME NEW s \in UpTo(D, m), s # {}
          PROVE  /\ First(s) \in D /\ s \ {First(s)} \in UpTo(D, m - 1)
                 /\ s \ {First(s)} \in UpTo(D, m)
      <4>1. s \in SUBSET D /\ Cardinality(s) <= m /\ First(s) \in s
        BY <3>4, FirstIn DEF UpTo
      <4>2. /\ s \ {First(s)} \in SUBSET D /\ Cardinality(s) \in Nat
            /\ Cardinality(s \ {First(s)}) = Cardinality(s) - 1
        BY <4>1, RemoveFacts
      <4>3. Cardinality(s) - 1 <= m - 1 /\ Cardinality(s) - 1 <= m
        BY <2>1, <4>1, <4>2
      <4>4. QED
        BY <4>1, <4>2, <4>3 DEF UpTo
    <3>5. \A s \in UpTo(D, m - 1) : s \in UpTo(D, m) /\ h[s] = g[s]
      <4>1. ASSUME NEW s \in UpTo(D, m - 1)
            PROVE  s \in UpTo(D, m)
        <5>1. s \in SUBSET D /\ Cardinality(s) <= m - 1
          BY DEF UpTo
        <5>2. Cardinality(s) \in Nat
          BY <5>1, FS_Subset, FS_CardinalityType
        <5>3. Cardinality(s) <= m
          BY <2>1, <5>1, <5>2
        <5>4. QED
          BY <5>1, <5>3 DEF UpTo
      <4>2. QED
        BY <3>3, <4>1 DEF Follows
    <3>6. ASSUME NEW s \in UpTo(D, m)
          PROVE  h[s] \in Nat /\ h[s] = Summed(c, h, s)
      <4>1. CASE s = {}
        BY <4>1 DEF Summed
      <4>2. CASE s # {}
        <5>1. h[s] = c[First(s)] + g[s \ {First(s)}]
          BY <4>2 DEF Summed
        <5>2. c[First(s)] \in Nat /\ g[s \ {First(s)}] \in Nat
          BY <3>3, <3>4, <4>2 DEF Follows
        <5>3. h[s \ {First(s)}] = g[s \ {First(s)}]
          BY <3>4, <3>5, <4>2
        <5> HIDE DEF h
        <5>4. QED
          BY <4>2, <5>1, <5>2, <5>3 DEF Summed
      <4>3. QED
        BY <4>1, <4>2
    <3>7. h \in [UpTo(D, m) -> Nat]
      BY <3>6
    <3> HIDE DEF h
    <3>8. Follows(h, c, UpTo(D, m))
      BY <3>6, <3>7 DEF Follows
    <3>9. QED
      BY <2>1, <3>8
  <2>4. QED
    BY <2>2, <2>3
<1>2. Bad = {}
  <2>1. Bad \subseteq Nat
    OBVIOUS
  <2> HIDE DEF Bad
  <2>2. QED
    BY <1>1, <2>1, LeastOf
<1>3. Cardinality(D) \in Nat /\ UpTo(D, Cardinality(D)) = SUBSET D
  BY FS_CardinalityType, FS_Subset DEF UpTo
<1>4. \E g : Follows(g, c, UpTo(D, Cardinality(D)))
  BY <1>2, <1>3
<1>5. QED
  BY <1>3, <1>4 DEF Sums

(* Sum is the value of that function at the whole domain. *)
LEMMA SumIsOfSums ==
  ASSUME NEW D, IsFiniteSet(D), NEW c \in [D -> Nat]
  PROVE  \E g : Sums(g, c, D) /\ Sum(c) = g[D]
<1> DEFINE Iter(g) == g = [s \in SUBSET D |-> Summed(c, g, s)]
           f == CHOOSE g : Iter(g)
<1>1. Sum(c) = f[D]
  BY DEF Sum, FoldFunction, FoldFunctionOnSet, MapThenFoldSet, Summed, First
<1>2. PICK h : Sums(h, c, D)
  BY SumsExist
<1>3. Iter(h)
  BY <1>2 DEF Sums, Follows
<1>4. Iter(f)
  BY <1>3
<1> HIDE DEF f
<1>5. \A s \in SUBSET D : f[s] = Summed(c, f, s)
  BY <1>4
<1> DEFINE Bad == {s \in SUBSET D : f[s] \notin Nat}
<1>6. ASSUME NEW s \in Bad, \A t \in Bad : ~(Cardinality(t) < Cardinality(s))
      PROVE  FALSE
  <2>1. s \in SUBSET D /\ f[s] \notin Nat
    OBVIOUS
  <2>2. s # {}
    BY <1>5, <2>1 DEF Summed
  <2>3. First(s) \in s
    BY <2>2, FirstIn
  <2>4. s \ {First(s)} \in SUBSET D /\ Cardinality(s \ {First(s)}) < Cardinality(s)
    <3>1. /\ s \ {First(s)} \in SUBSET D /\ Cardinality(s) \in Nat
          /\ Cardinality(s \ {First(s)}) = Cardinality(s) - 1
      BY <2>1, <2>3, RemoveFacts
    <3>2. QED
      BY <3>1
  <2>5. f[s \ {First(s)}] \in Nat
    BY <1>6, <2>4
  <2>6. f[s] = c[First(s)] + f[s \ {First(s)}] /\ c[First(s)] \in Nat
    BY <1>5, <2>1, <2>2, <2>3 DEF Summed
  <2>7. QED
    BY <2>1, <2>5, <2>6
<1>7. Bad = {}
  <2>1. Bad \subseteq SUBSET D
    OBVIOUS
  <2> HIDE DEF Bad
  <2>2. QED
    BY <1>6, <2>1, SmallestOf
<1>8. f \in [SUBSET D -> Nat]
  BY <1>4, <1>7
<1>9. QED
  BY <1>1, <1>5, <1>8 DEF Sums, Follows

(* Whatever element is taken first, the sum is the same. *)
LEMMA AnyFirst ==
  ASSUME NEW D, IsFiniteSet(D), NEW c \in [D -> Nat], NEW g, Sums(g, c, D),
         NEW S \in SUBSET D, NEW y \in S
  PROVE  g[S] = c[y] + g[S \ {y}]
<1> DEFINE Odd(s) == \E x \in s : g[s] # c[x] + g[s \ {x}]
           Bad == {s \in SUBSET D : Odd(s)}
<1>1. ASSUME NEW s \in Bad, \A t \in Bad : ~(Cardinality(t) < Cardinality(s))
      PROVE  FALSE
  <2>1. PICK x \in s : g[s] # c[x] + g[s \ {x}]
    OBVIOUS
  <2> DEFINE z == First(s)
  <2>2. s \in SUBSET D /\ z \in s
    BY <2>1, FirstIn
  <2>3. g[s] = c[z] + g[s \ {z}]
    BY <2>1, <2>2 DEF Sums, Follows, Summed
  <2> HIDE DEF z
  <2>4. x # z
    BY <2>1, <2>3
  <2>5. /\ s \ {z} \in SUBSET D /\ s \ {x} \in SUBSET D
        /\ Cardinality(s \ {z}) < Cardinality(s) /\ Cardinality(s \ {x}) < Cardinality(s)
    <3>1. /\ s \ {z} \in SUBSET D /\ s \ {x} \in SUBSET D /\ Cardinality(s) \in Nat
          /\ Cardinality(s \ {z}) = Cardinality(s) - 1
          /\ Cardinality(s \ {x}) = Cardinality(s) - 1
      BY <2>1, <2>2, RemoveFacts
    <3>2. QED
      BY <3>1
  <2>6. s \ {z} \notin Bad /\ s \ {x} \notin Bad
    BY <1>1, <2>5
  <2>7. ~Odd(s \ {z}) /\ ~Odd(s \ {x})
    BY <2>5, <2>6
  <2>8. x \in s \ {z} /\ z \in s \ {x}
    BY <2>2, <2>4
  <2>9. /\ g[s \ {z}] = c[x] + g[(s \ {z}) \ {x}]
        /\ g[s \ {x}] = c[z] + g[(s \ {x}) \ {z}]
    BY <2>7, <2>8
  <2>10. (s \ {z}) \ {x} = (s \ {x}) \ {z}
    OBVIOUS
  <2>11. c[x] \in Nat /\ c[z] \in Nat /\ g[(s \ {x}) \ {z}] \in Nat
    <3>1. x \in D /\ z \in D /\ (s \ {x}) \ {z} \in SUBSET D
      BY <2>2
    <3>2. QED
      BY <3>1 DEF Sums, Follows
  <2>12. g[s \ {z}] = c[x] + g[(s \ {x}) \ {z}]
    BY <2>9, <2>10
  <2>13. ASSUME NEW a \in Nat, NEW b \in Nat, NEW m \in Nat
         PROVE  a + (b + m) = b + (a + m)
    OBVIOUS
  <2>14. g[s] = c[x] + g[s \ {x}]
    BY <2>3, <2>9, <2>11, <2>12, <2>13
  <2>15. QED
    BY <2>1, <2>14
<1>2. Bad = {}
  <2>1. Bad \subseteq SUBSET D
    OBVIOUS
  <2> HIDE DEF Bad
  <2>2. QED
    BY <1>1, <2>1, SmallestOf
<1>3. QED
  BY <1>2

(* Two functions that agree on a set have the same sum over it. *)
LEMMA SumsAgree ==
  ASSUME NEW D, IsFiniteSet(D), NEW c \in [D -> Nat], NEW g, Sums(g, c, D),
         NEW E \in SUBSET D, NEW d \in [E -> Nat], NEW h, Sums(h, d, E),
         \A x \in E : c[x] = d[x]
  PROVE  g[E] = h[E]
<1> DEFINE Bad == {s \in SUBSET E : g[s] # h[s]}
<1>1. ASSUME NEW s \in Bad, \A t \in Bad : ~(Cardinality(t) < Cardinality(s))
      PROVE  FALSE
  <2>1. s \in SUBSET E /\ s \in SUBSET D /\ g[s] # h[s]
    OBVIOUS
  <2>2. g[s] = Summed(c, g, s) /\ h[s] = Summed(d, h, s)
    BY <2>1 DEF Sums, Follows
  <2>3. s # {}
    BY <2>1, <2>2 DEF Summed
  <2> DEFINE z == First(s)
  <2>4. z \in s
    BY <2>3, FirstIn
  <2>5. g[s] = c[z] + g[s \ {z}] /\ h[s] = d[z] + h[s \ {z}]
    BY <2>2, <2>3 DEF Summed
  <2> HIDE DEF z
  <2>6. s \ {z} \in SUBSET E /\ Cardinality(s \ {z}) < Cardinality(s)
    <3>1. /\ s \ {z} \in SUBSET D /\ Cardinality(s) \in Nat
          /\ Cardinality(s \ {z}) = Cardinality(s) - 1
      BY <2>1, <2>4, RemoveFacts
    <3>2. QED
      BY <2>1, <3>1
  <2>7. g[s \ {z}] = h[s \ {z}]
    BY <1>1, <2>6
  <2>8. c[z] = d[z]
    BY <2>1, <2>4
  <2>9. QED
    BY <2>1, <2>5, <2>7, <2>8
<1>2. Bad = {}
  <2>1. Bad \subseteq SUBSET E
    OBVIOUS
  <2>2. IsFiniteSet(E)
    BY FS_Subset
  <2> HIDE DEF Bad
  <2>3. QED
    BY <1>1, <2>1, <2>2, SmallestOf
<1>3. QED
  BY <1>2

(* The sum over nothing. *)
LEMMA SumOfNothing ==
  ASSUME NEW c
  PROVE  SumOf(c, {}) = 0
<1> DEFINE d == [x \in {} |-> c[x]]
<1>1. d \in [{} -> Nat] /\ IsFiniteSet({})
  BY FS_EmptySet
<1> HIDE DEF d
<1>2. PICK g : Sums(g, d, {}) /\ Sum(d) = g[{}]
  BY <1>1, SumIsOfSums
<1>3. g[{}] = 0
  BY <1>2 DEF Sums, Follows, Summed
<1>4. QED
  BY <1>2, <1>3 DEF SumOf, d

(* A sum is that without one of its elements, whichever, and this one. *)
LEMMA SumOfMore ==
  ASSUME NEW D, IsFiniteSet(D), NEW c \in [D -> Nat], NEW S \in SUBSET D, NEW y \in S
  PROVE  /\ SumOf(c, S) \in Nat /\ SumOf(c, S \ {y}) \in Nat
         /\ SumOf(c, S) = c[y] + SumOf(c, S \ {y})
<1> DEFINE T == S \ {y}
           d == [x \in S |-> c[x]]
           e == [x \in T |-> c[x]]
<1>1. IsFiniteSet(S) /\ IsFiniteSet(T) /\ T \in SUBSET S
  <2>1. IsFiniteSet(S)
    BY FS_Subset
  <2>2. QED
    BY <2>1, FS_RemoveElement
<1>2. d \in [S -> Nat] /\ e \in [T -> Nat] /\ \A x \in T : d[x] = e[x]
  OBVIOUS
<1>3. d[y] = c[y]
  OBVIOUS
<1>4. SumOf(c, S) = Sum(d) /\ SumOf(c, T) = Sum(e)
  BY DEF SumOf
<1> HIDE DEF d, e, T
<1>5. PICK g : Sums(g, d, S) /\ Sum(d) = g[S]
  BY <1>1, <1>2, SumIsOfSums
<1>6. PICK h : Sums(h, e, T) /\ Sum(e) = h[T]
  BY <1>1, <1>2, SumIsOfSums
<1>7. S \in SUBSET S
  OBVIOUS
<1>8. Sums(g, d, S) /\ Sums(h, e, T)
  BY <1>5, <1>6
<1>9. g[T] = h[T]
  BY <1>1, <1>2, <1>8, SumsAgree
<1>10. g[S] = d[y] + g[S \ {y}]
  <2>1. IsFiniteSet(S) /\ d \in [S -> Nat] /\ Sums(g, d, S)
    BY <1>1, <1>2, <1>8
  <2>2. QED
    BY <1>7, <2>1, AnyFirst
<1>11. g[S] \in Nat /\ g[T] \in Nat
  BY <1>1, <1>5, <1>7 DEF Sums, Follows
<1>12. QED
  BY <1>3, <1>4, <1>5, <1>6, <1>9, <1>10, <1>11 DEF T

(* Sums of naturals are naturals. *)
LEMMA SumOfNat ==
  ASSUME NEW D, IsFiniteSet(D), NEW c \in [D -> Nat], NEW S \in SUBSET D
  PROVE  SumOf(c, S) \in Nat
<1>1. CASE S = {}
  BY <1>1, SumOfNothing
<1>2. CASE S # {}
  BY <1>2, SumOfMore
<1>3. QED
  BY <1>1, <1>2

(* The sum over the whole domain is Sum. *)
LEMMA SumOfAll ==
  ASSUME NEW D, NEW c, c = [x \in D |-> c[x]]
  PROVE  SumOf(c, D) = Sum(c)
  BY DEF SumOf

(* An element more. *)
LEMMA SumOfPlus ==
  ASSUME NEW D, IsFiniteSet(D), NEW c \in [D -> Nat], NEW S \in SUBSET D, NEW y \in D, y \notin S
  PROVE  SumOf(c, S \cup {y}) = SumOf(c, S) + c[y]
<1>1. S \cup {y} \in SUBSET D /\ y \in S \cup {y} /\ (S \cup {y}) \ {y} = S
  OBVIOUS
<1>2. /\ SumOf(c, (S \cup {y}) \ {y}) \in Nat
      /\ SumOf(c, S \cup {y}) = c[y] + SumOf(c, (S \cup {y}) \ {y})
  BY <1>1, SumOfMore
<1>3. SumOf(c, (S \cup {y}) \ {y}) = SumOf(c, S)
  BY <1>1
<1>4. c[y] \in Nat
  OBVIOUS
<1>5. QED
  BY <1>2, <1>3, <1>4

(* Where all values are one value, a sum counts. *)
LEMMA SumOfEqual ==
  ASSUME NEW D, IsFiniteSet(D), NEW v \in Nat, NEW c \in [D -> Nat], \A x \in D : c[x] = v,
         NEW S \in SUBSET D
  PROVE  SumOf(c, S) = v * Cardinality(S)
<1> DEFINE Bad == {s \in SUBSET D : SumOf(c, s) # v * Cardinality(s)}
<1>1. ASSUME NEW s \in Bad, \A t \in Bad : ~(Cardinality(t) < Cardinality(s))
      PROVE  FALSE
  <2>1. s \in SUBSET D /\ SumOf(c, s) # v * Cardinality(s)
    OBVIOUS
  <2>2. s # {}
    <3>1. v * 0 = 0
      OBVIOUS
    <3>2. QED
      BY <2>1, <3>1, SumOfNothing, FS_EmptySet
  <2>3. PICK y \in s : TRUE
    BY <2>2
  <2>4. /\ s \ {y} \in SUBSET D /\ Cardinality(s) \in Nat
        /\ Cardinality(s \ {y}) = Cardinality(s) - 1
    BY <2>1, <2>3, RemoveFacts
  <2>5. Cardinality(s \ {y}) < Cardinality(s)
    BY <2>4
  <2>6. SumOf(c, s \ {y}) = v * Cardinality(s \ {y})
    BY <1>1, <2>4, <2>5
  <2>7. SumOf(c, s) = v + SumOf(c, s \ {y})
    <3>1. SumOf(c, s) = c[y] + SumOf(c, s \ {y})
      BY <2>1, <2>3, SumOfMore
    <3>2. QED
      BY <2>1, <2>3, <3>1
  <2>8. ASSUME NEW n \in Nat
        PROVE  v * n = v + v * (n - 1)
    OBVIOUS
  <2>9. QED
    BY <2>1, <2>4, <2>6, <2>7, <2>8
<1>2. Bad = {}
  <2>1. Bad \subseteq SUBSET D
    OBVIOUS
  <2> HIDE DEF Bad
  <2>2. QED
    BY <1>1, <2>1, SmallestOf
<1>3. QED
  BY <1>2

(* Products with a positive number keep the order. *)
LEMMA Times ==
  ASSUME NEW a \in Int, NEW b \in Int, NEW c \in Nat \ {0}
  PROVE  (a < b <=> a * c < b * c) /\ (a <= b <=> a * c <= b * c)
  OBVIOUS

(* A rank below its share of a remainder below its part is below average. *)
LEMMA BelowAverage ==
  ASSUME NEW my \in Nat, NEW rem \in Nat, NEW total \in Nat, NEW n \in Nat \ {0}, NEW r \in Nat,
         my * (r + 1) < rem, rem * n <= total * (r + 1)
  PROVE  my * n < total
<1>1. (my * (r + 1)) * n < rem * n
  BY Times
<1>2. (my * n) * (r + 1) = (my * (r + 1)) * n
  OBVIOUS
<1>3. (my * n) * (r + 1) < total * (r + 1)
  BY <1>1, <1>2
<1>4. QED
  BY <1>3, Times

(* A rank that took its share leaves the ranks below no more than their part. *)
LEMMA LessIsLeft ==
  ASSUME NEW cost \in Nat, NEW rem \in Nat, NEW total \in Nat, NEW n \in Nat \ {0}, NEW r \in Nat,
         cost * (r + 1) >= rem, rem * n <= total * (r + 1)
  PROVE  (rem - cost) * n <= total * r
<1>1. (rem - cost) * (r + 1) <= rem * r
  OBVIOUS
<1>2. ((rem - cost) * (r + 1)) * n <= (rem * r) * n
  BY <1>1, Times
<1>3. (rem * n) * r <= (total * (r + 1)) * r
  OBVIOUS
<1>4. ((rem - cost) * n) * (r + 1) <= (total * r) * (r + 1)
  BY <1>2, <1>3
<1>5. QED
  BY <1>4, Times

(* the next is the quotient, rounded down or up *)
LEMMA Quotient ==
  ASSUME NEW n \in Nat \ {0}, NEW m \in Nat
  PROVE  \E q \in Nat : q * n <= m /\ m <= (q + 1) * n
<1>1. (m \div n) \in Nat /\ (m \div n) * n <= m /\ m <= (m \div n + 1) * n
  OBVIOUS
<1>2. QED
  BY <1>1

(* A rank filled with equal blocks holds q or q + 1, as those below can. *)
LEMMA RoundedStep ==
  ASSUME NEW q \in Nat, NEW k \in Nat, NEW m \in Nat, NEW r \in Nat,
         q * (r + 1) <= m, m <= (q + 1) * (r + 1),
         k * (r + 1) < m, (k + 1) * (r + 1) >= m
  PROVE  /\ k + 1 \in {q, q + 1}
         /\ q * r <= m - (k + 1) /\ m - (k + 1) <= (q + 1) * r
<1>1. k < q + 1
  <2>1. k * (r + 1) < (q + 1) * (r + 1)
    OBVIOUS
  <2>2. QED
    BY <2>1, Times
<1>2. q <= k + 1
  <2>1. q * (r + 1) <= (k + 1) * (r + 1)
    OBVIOUS
  <2>2. QED
    BY <2>1, Times
<1>3. k + 1 = q \/ k = q
  BY <1>1, <1>2
<1>4. CASE k + 1 = q
  BY <1>4
<1>5. CASE k = q
  BY <1>5
<1>6. QED
  BY <1>3, <1>4, <1>5

-----------------------------------------------------------------------------
(***************************************************************************)
(* The load of a rank: what AssignBlocks has given to it.                  *)
(***************************************************************************)
Given(n, l, k, r) == {b \in k + 1 .. n - 1 : l[b] = r}

Fair(c, load) == \E b \in DOMAIN c : (load - c[b]) * nranks < Sum(c)

(* Costs c of n blocks, of which those above k have the ranks l; rank r has *)
(* got so far what costs `my', and `left' is to be shared by it and the     *)
(* ranks below: no more for each than if all ranks shared all.              *)
Dealing(c, n, l, k, r, my, left) ==
  /\ my = SumOf(c, Given(n, l, k, r))
  /\ left = my + SumOf(c, Blocks(k + 1))
  /\ left * nranks <= Sum(c) * (r + 1)
  /\ r > 0 => my = 0 \/ my * (r + 1) < left
  /\ \A s \in Ranks : s > r => Fair(c, SumOf(c, Given(n, l, k, s)))

(* With equal costs, the blocks left and those of the ranks above are even. *)
Even(n, l, k, r, q) ==
  /\ q * (r + 1) <= Cardinality(Given(n, l, k, r)) + k + 1
  /\ Cardinality(Given(n, l, k, r)) + k + 1 <= (q + 1) * (r + 1)
  /\ \A s \in Ranks : s > r => Cardinality(Given(n, l, k, s)) \in {q, q + 1}

(* The ranks of the blocks above k. *)
DealtTo(n, l, k, r) ==
  /\ n \in Nat \ {0} /\ k \in -1 .. n - 1 /\ r \in Ranks
  /\ l \in [Blocks(n) -> Ranks]
  /\ \A b \in k + 1 .. n - 1 : r <= l[b]

(* There are n blocks. *)
LEMMA IntervalSize ==
  ASSUME NEW n \in Nat
  PROVE  IsFiniteSet(Blocks(n)) /\ Cardinality(Blocks(n)) = n
<1>1. n - 1 \in Int /\ (0 > n - 1 <=> n = 0) /\ n - 1 - 0 + 1 = n
  OBVIOUS
<1>2. QED
  BY <1>1, FS_Interval DEF Blocks

(* The blocks a rank was given are finitely many; ranks not reached have none. *)
LEMMA GivenFacts ==
  ASSUME NEW n, NEW l, NEW k, NEW r, DealtTo(n, l, k, r)
  PROVE  /\ IsFiniteSet(Blocks(n)) /\ Cardinality(Blocks(n)) = n
         /\ Blocks(k + 1) \in SUBSET Blocks(n) /\ Cardinality(Blocks(k + 1)) = k + 1
         /\ \A s : /\ Given(n, l, k, s) \in SUBSET Blocks(n)
                   /\ Cardinality(Given(n, l, k, s)) \in Nat
         /\ \A s \in Ranks : s < r => Given(n, l, k, s) = {}
<1>1. n \in Nat \ {0} /\ k \in -1 .. n - 1 /\ k \in Int
  BY DEF DealtTo
<1>2. IsFiniteSet(Blocks(n)) /\ Cardinality(Blocks(n)) = n
  BY <1>1, IntervalSize
<1>3. Cardinality(Blocks(k + 1)) = k + 1
  BY <1>1, IntervalSize
<1>4. Blocks(k + 1) \in SUBSET Blocks(n)
  BY <1>1 DEF Blocks
<1>5. ASSUME NEW s
      PROVE  Given(n, l, k, s) \in SUBSET Blocks(n) /\ Cardinality(Given(n, l, k, s)) \in Nat
  <2>1. k + 1 .. n - 1 \subseteq 0 .. n - 1
    BY <1>1
  <2>2. Given(n, l, k, s) \in SUBSET Blocks(n)
    BY <2>1 DEF Given, Blocks
  <2>3. QED
    BY <1>2, <2>2, FS_Subset, FS_CardinalityType
<1>6. \A s \in Ranks : s < r => Given(n, l, k, s) = {}
  <2>1. ASSUME NEW s \in Ranks, s < r, NEW b \in k + 1 .. n - 1, l[b] = s
        PROVE  FALSE
    <3>1. r <= l[b] /\ r \in Int /\ s \in Int
      BY DEF DealtTo, Ranks
    <3>2. QED
      BY <2>1, <3>1
  <2>2. QED
    BY <2>1 DEF Given
<1>7. QED
  BY <1>2, <1>3, <1>4, <1>5, <1>6

(* One turn of AssignBlocks gives block k to rank r. *)
Gives(m, l, k, r) == m = [l EXCEPT ![k] = r]

(* Giving block k to rank r changes what r was given, by k, and nothing else. *)
LEMMA GivenMore ==
  ASSUME NEW n, NEW l, NEW k, NEW r, DealtTo(n, l, k, r), k >= 0,
         NEW m, Gives(m, l, k, r)
  PROVE  /\ k \in Blocks(n) /\ k \notin Given(n, l, k, r)
         /\ Given(n, m, k - 1, r) = Given(n, l, k, r) \cup {k}
         /\ \A s : s # r => Given(n, m, k - 1, s) = Given(n, l, k, s)
         /\ k \notin Blocks(k) /\ Blocks(k + 1) = Blocks(k) \cup {k} /\ Blocks(k) \in SUBSET Blocks(n)
         /\ DealtTo(n, m, k - 1, r)
<1>1. n \in Nat \ {0} /\ k \in 0 .. n - 1 /\ r \in Ranks /\ l \in [Blocks(n) -> Ranks] /\ k \in Nat
  BY DEF DealtTo
<1>2. k \in Blocks(n)
  BY <1>1 DEF Blocks
<1>3. k - 1 + 1 = k /\ k \notin k + 1 .. n - 1 /\ k .. n - 1 = (k + 1 .. n - 1) \cup {k}
  BY <1>1
<1>4. k + 1 .. n - 1 \subseteq Blocks(n)
  BY <1>1 DEF Blocks
<1>5. m \in [Blocks(n) -> Ranks] /\ m[k] = r /\ \A b \in k + 1 .. n - 1 : m[b] = l[b]
  BY <1>1, <1>2, <1>3, <1>4 DEF Gives
<1>6. k \notin Given(n, l, k, r)
  BY <1>3 DEF Given
<1>7. Given(n, m, k - 1, r) = Given(n, l, k, r) \cup {k}
  BY <1>3, <1>5 DEF Given
<1>8. ASSUME NEW s, s # r
      PROVE  Given(n, m, k - 1, s) = Given(n, l, k, s)
  BY <1>3, <1>5, <1>8 DEF Given
<1>9. k \notin Blocks(k) /\ Blocks(k + 1) = Blocks(k) \cup {k} /\ Blocks(k) \in SUBSET Blocks(n)
  <2>1. /\ 0 .. k + 1 - 1 = (0 .. k - 1) \cup {k} /\ k \notin 0 .. k - 1
        /\ 0 .. k - 1 \in SUBSET (0 .. n - 1)
    BY <1>1
  <2>2. QED
    BY <2>1 DEF Blocks
<1>10. DealtTo(n, m, k - 1, r)
  <2>1. k - 1 \in -1 .. n - 1
    BY <1>1
  <2>2. \A b \in k .. n - 1 : r <= m[b]
    <3>1. r <= r
      BY <1>1 DEF Ranks
    <3>2. \A b \in k + 1 .. n - 1 : r <= l[b]
      BY DEF DealtTo
    <3>3. QED
      BY <1>3, <1>5, <3>1, <3>2
  <2>3. QED
    BY <1>1, <1>3, <1>5, <2>1, <2>2 DEF DealtTo
<1>11. QED
  BY <1>2, <1>6, <1>7, <1>8, <1>9, <1>10

RankFacts(r) == r \in Nat /\ (r > 0 => r - 1 \in Ranks /\ r - 1 \in Nat)

(* Ranks are numbers below nranks. *)
LEMMA RankIsNat ==
  ASSUME NEW r \in Ranks
  PROVE  RankFacts(r)
  BY RanksAssumption DEF RankFacts, Ranks

(* Sums of costs, element by element. *)
LEMMA SumsOfCosts ==
  ASSUME NEW n, NEW l, NEW k, NEW r, DealtTo(n, l, k, r), NEW c \in [Blocks(n) -> Nat \ {0}]
  PROVE  /\ c \in [Blocks(n) -> Nat] /\ Sum(c) = SumOf(c, Blocks(n)) /\ Sum(c) \in Nat
         /\ \A S \in SUBSET Blocks(n) : SumOf(c, S) \in Nat
         /\ \A S \in SUBSET Blocks(n) : \A b \in Blocks(n) \ S : SumOf(c, S \cup {b}) = SumOf(c, S) + c[b]
<1>1. IsFiniteSet(Blocks(n))
  BY GivenFacts
<1>2. c \in [Blocks(n) -> Nat] /\ c = [b \in Blocks(n) |-> c[b]]
  OBVIOUS
<1>3. Sum(c) = SumOf(c, Blocks(n))
  BY <1>2, SumOfAll
<1>4. \A S \in SUBSET Blocks(n) : SumOf(c, S) \in Nat
  BY <1>1, <1>2, SumOfNat
<1>5. \A S \in SUBSET Blocks(n) : \A b \in Blocks(n) \ S : SumOf(c, S \cup {b}) = SumOf(c, S) + c[b]
  <2>1. ASSUME NEW S \in SUBSET Blocks(n), NEW b \in Blocks(n), b \notin S
        PROVE  SumOf(c, S \cup {b}) = SumOf(c, S) + c[b]
    BY <1>1, <1>2, <2>1, SumOfPlus
  <2>2. QED
    BY <2>1
<1>6. Blocks(n) \in SUBSET Blocks(n)
  OBVIOUS
<1>7. QED
  BY <1>2, <1>3, <1>4, <1>5, <1>6

(* The sums after one turn of AssignBlocks. *)
LEMMA DealSums ==
  ASSUME NEW n, NEW l, NEW k, NEW r, DealtTo(n, l, k, r), k >= 0,
         NEW c \in [Blocks(n) -> Nat \ {0}], NEW my, NEW left,
         Dealing(c, n, l, k, r, my, left), NEW m, Gives(m, l, k, r)
  PROVE  /\ k \in Nat /\ my \in Nat /\ left \in Nat /\ c[k] \in Nat \ {0} /\ Sum(c) \in Nat
         /\ SumOf(c, Blocks(k)) \in Nat
         /\ left = my + c[k] + SumOf(c, Blocks(k))
         /\ SumOf(c, Given(n, m, k - 1, r)) = my + c[k]
         /\ r > 0 => my * (r + 1) < left
<1>1. /\ k \in Blocks(n) /\ k \notin Given(n, l, k, r)
      /\ Given(n, m, k - 1, r) = Given(n, l, k, r) \cup {k}
      /\ k \notin Blocks(k) /\ Blocks(k + 1) = Blocks(k) \cup {k} /\ Blocks(k) \in SUBSET Blocks(n)
  BY GivenMore
<1>2. Given(n, l, k, r) \in SUBSET Blocks(n) /\ Blocks(k + 1) \in SUBSET Blocks(n)
  BY GivenFacts
<1>3. /\ Sum(c) \in Nat
      /\ \A S \in SUBSET Blocks(n) : SumOf(c, S) \in Nat
      /\ \A S \in SUBSET Blocks(n) : \A b \in Blocks(n) \ S : SumOf(c, S \cup {b}) = SumOf(c, S) + c[b]
  BY SumsOfCosts
<1>4. c[k] \in Nat \ {0} /\ k \in Nat
  BY <1>1 DEF DealtTo
<1>5. /\ my = SumOf(c, Given(n, l, k, r)) /\ left = my + SumOf(c, Blocks(k + 1))
      /\ r > 0 => my = 0 \/ my * (r + 1) < left
  BY DEF Dealing
<1>6. SumOf(c, Given(n, m, k - 1, r)) = my + c[k]
  BY <1>1, <1>2, <1>3, <1>5
<1>7. SumOf(c, Blocks(k + 1)) = SumOf(c, Blocks(k)) + c[k] /\ SumOf(c, Blocks(k)) \in Nat
  BY <1>1, <1>3
<1>8. my \in Nat
  BY <1>2, <1>3, <1>5
<1>9. left = my + c[k] + SumOf(c, Blocks(k)) /\ left \in Nat /\ left > 0
  BY <1>4, <1>5, <1>7, <1>8
<1>10. r > 0 => my * (r + 1) < left
  <2>1. r \in Nat /\ 0 * (r + 1) = 0
    BY RankIsNat DEF DealtTo, RankFacts
  <2>2. QED
    BY <1>5, <1>9, <2>1
<1>11. QED
  BY <1>3, <1>4, <1>6, <1>7, <1>8, <1>9, <1>10

(* If the rank is full, the next one shares what is left with those below. *)
LEMMA DealFull ==
  ASSUME NEW n, NEW l, NEW k, NEW r, DealtTo(n, l, k, r), k >= 0,
         NEW c \in [Blocks(n) -> Nat \ {0}], NEW my, NEW left,
         Dealing(c, n, l, k, r, my, left), NEW m, Gives(m, l, k, r),
         NEW cost, cost = my + c[k], r > 0, cost * (r + 1) >= left
  PROVE  Dealing(c, n, m, k - 1, r - 1, 0, left - cost)
<1>1. /\ k \in Nat /\ my \in Nat /\ left \in Nat /\ c[k] \in Nat \ {0} /\ Sum(c) \in Nat
      /\ SumOf(c, Blocks(k)) \in Nat
      /\ left = my + c[k] + SumOf(c, Blocks(k))
      /\ SumOf(c, Given(n, m, k - 1, r)) = my + c[k]
      /\ my * (r + 1) < left
  BY DealSums
<1>2. r \in Ranks /\ r - 1 \in Ranks /\ r \in Nat /\ r - 1 \in Nat /\ r - 1 # r /\ r - 1 < r
  BY RankIsNat DEF DealtTo, RankFacts
<1>3. /\ \A s : s # r => Given(n, m, k - 1, s) = Given(n, l, k, s)
      /\ k \in Blocks(n)
  BY GivenMore
<1>4. SumOf(c, Given(n, m, k - 1, r - 1)) = 0
  <2>1. Given(n, l, k, r - 1) = {}
    BY <1>2, GivenFacts
  <2>2. QED
    BY <1>2, <1>3, <2>1, SumOfNothing
<1>5. left - cost = 0 + SumOf(c, Blocks(k - 1 + 1))
  <2>1. k - 1 + 1 = k /\ left - cost = SumOf(c, Blocks(k))
    BY <1>1
  <2>2. QED
    BY <1>1, <2>1
<1>6. left * nranks <= Sum(c) * (r + 1) /\ nranks \in Nat \ {0}
  BY RanksAssumption DEF Dealing
<1>7. (left - cost) * nranks <= Sum(c) * (r - 1 + 1)
  <2>1. cost \in Nat /\ r - 1 + 1 = r
    BY <1>1, <1>2
  <2>2. (left - cost) * nranks <= Sum(c) * r
    BY <1>1, <1>2, <1>6, <2>1, LessIsLeft
  <2>3. QED
    BY <2>1, <2>2
<1>8. Fair(c, SumOf(c, Given(n, m, k - 1, r)))
  <2>1. my * nranks < Sum(c)
    BY <1>1, <1>2, <1>6, BelowAverage
  <2>2. my + c[k] - c[k] = my /\ DOMAIN c = Blocks(n)
    BY <1>1
  <2>3. QED
    BY <1>1, <1>3, <2>1, <2>2 DEF Fair
<1>9. ASSUME NEW s \in Ranks, s > r - 1
      PROVE  Fair(c, SumOf(c, Given(n, m, k - 1, s)))
  <2>1. s = r \/ s > r
    BY <1>2, <1>9 DEF Ranks
  <2>2. CASE s > r
    <3>1. Fair(c, SumOf(c, Given(n, l, k, s)))
      BY <2>2 DEF Dealing
    <3>2. s # r
      BY <1>2, <2>2
    <3>3. QED
      BY <1>3, <3>1, <3>2
  <2>3. QED
    BY <1>8, <2>1, <2>2
<1>10. QED
  BY <1>4, <1>5, <1>7, <1>9 DEF Dealing

(* A block given to a rank that is not full yet (AssignBlocks) keeps Dealing. *)
LEMMA DealNotFull ==
  ASSUME NEW n, NEW l, NEW k, NEW r, DealtTo(n, l, k, r), k >= 0,
         NEW c \in [Blocks(n) -> Nat \ {0}], NEW my, NEW left,
         Dealing(c, n, l, k, r, my, left), NEW m, Gives(m, l, k, r),
         NEW cost, cost = my + c[k], ~(r > 0 /\ cost * (r + 1) >= left)
  PROVE  Dealing(c, n, m, k - 1, r, cost, left)
<1>1. /\ k \in Nat /\ my \in Nat /\ left \in Nat /\ c[k] \in Nat \ {0}
      /\ SumOf(c, Blocks(k)) \in Nat
      /\ left = my + c[k] + SumOf(c, Blocks(k))
      /\ SumOf(c, Given(n, m, k - 1, r)) = my + c[k]
  BY DealSums
<1>2. left = cost + SumOf(c, Blocks(k - 1 + 1))
  <2>1. k - 1 + 1 = k
    BY <1>1
  <2>2. QED
    BY <1>1, <2>1
<1>3. r > 0 => cost = 0 \/ cost * (r + 1) < left
  <2>1. r \in Nat /\ cost \in Nat
    BY <1>1, RankIsNat DEF DealtTo, RankFacts
  <2>2. QED
    BY <1>1, <2>1
<1>4. ASSUME NEW s \in Ranks, s > r
      PROVE  Fair(c, SumOf(c, Given(n, m, k - 1, s)))
  <2>1. s # r
    <3>1. r \in Ranks
      BY DEF DealtTo
    <3>2. QED
      BY <1>4, <3>1 DEF Ranks
  <2>2. Given(n, m, k - 1, s) = Given(n, l, k, s)
    BY <2>1, GivenMore
  <2>3. QED
    BY <1>4, <2>2 DEF Dealing
<1>5. left * nranks <= Sum(c) * (r + 1)
  BY DEF Dealing
<1>6. QED
  BY <1>1, <1>2, <1>3, <1>4, <1>5 DEF Dealing

(* With costs of v each, the loads and what is left are counts. *)
LEMMA EqualCosts ==
  ASSUME NEW n, NEW l, NEW k, NEW r, DealtTo(n, l, k, r),
         NEW v \in Nat \ {0}, NEW c \in [Blocks(n) -> Nat \ {0}], \A b \in Blocks(n) : c[b] = v,
         NEW my, NEW left, Dealing(c, n, l, k, r, my, left)
  PROVE  /\ Cardinality(Given(n, l, k, r)) \in Nat /\ k \in Int
         /\ my = v * Cardinality(Given(n, l, k, r))
         /\ left = v * (Cardinality(Given(n, l, k, r)) + k + 1)
<1>1. /\ IsFiniteSet(Blocks(n)) /\ Blocks(k + 1) \in SUBSET Blocks(n)
      /\ Cardinality(Blocks(k + 1)) = k + 1
      /\ Given(n, l, k, r) \in SUBSET Blocks(n) /\ Cardinality(Given(n, l, k, r)) \in Nat
  BY GivenFacts
<1>2. c \in [Blocks(n) -> Nat] /\ v \in Nat /\ k \in Int
  BY DEF DealtTo
<1>3. /\ SumOf(c, Given(n, l, k, r)) = v * Cardinality(Given(n, l, k, r))
      /\ SumOf(c, Blocks(k + 1)) = v * Cardinality(Blocks(k + 1))
  BY <1>1, <1>2, SumOfEqual
<1>4. ASSUME NEW a \in Nat, NEW b \in Int
      PROVE  v * a + v * (b + 1) = v * (a + b + 1)
  OBVIOUS
<1>5. QED
  BY <1>1, <1>2, <1>3, <1>4 DEF Dealing

(* Equal costs: a rank is full and the next one begins. *)
LEMMA EvenFull ==
  ASSUME NEW n, NEW l, NEW k, NEW r, DealtTo(n, l, k, r), k >= 0,
         NEW v \in Nat \ {0}, NEW c \in [Blocks(n) -> Nat \ {0}], \A b \in Blocks(n) : c[b] = v,
         NEW my, NEW left, Dealing(c, n, l, k, r, my, left), NEW m, Gives(m, l, k, r),
         NEW cost, cost = my + c[k], r > 0, cost * (r + 1) >= left,
         NEW q \in Nat, Even(n, l, k, r, q)
  PROVE  Even(n, m, k - 1, r - 1, q)
<1> DEFINE K == Cardinality(Given(n, l, k, r))
           L == K + k + 1
<1>1. k \in Nat /\ K \in Nat /\ my = v * K /\ left = v * L /\ my * (r + 1) < left /\ c[k] = v
  <2>1. k \in Blocks(n)
    BY GivenMore
  <2>2. k \in Nat /\ my * (r + 1) < left
    BY DealSums
  <2>3. K \in Nat /\ my = v * K /\ left = v * L
    BY EqualCosts
  <2>4. QED
    BY <2>1, <2>2, <2>3
<1>2. r \in Ranks /\ r - 1 \in Ranks /\ r \in Nat /\ r - 1 \in Nat /\ r - 1 # r /\ r - 1 < r
  BY RankIsNat DEF DealtTo, RankFacts
<1>3. q * (r + 1) <= L /\ L <= (q + 1) * (r + 1)
  BY DEF Even
<1>4. /\ k \notin Given(n, l, k, r)
      /\ Given(n, m, k - 1, r) = Given(n, l, k, r) \cup {k}
      /\ \A s : s # r => Given(n, m, k - 1, s) = Given(n, l, k, s)
  BY GivenMore
<1>5. /\ Given(n, m, k - 1, r - 1) = {} /\ Cardinality(Given(n, m, k - 1, r - 1)) = 0
      /\ Cardinality(Given(n, m, k - 1, r)) = K + 1
  <2>1. Given(n, l, k, r - 1) = {} /\ IsFiniteSet(Blocks(n)) /\ Given(n, l, k, r) \in SUBSET Blocks(n)
    BY <1>2, GivenFacts
  <2>2. IsFiniteSet(Given(n, l, k, r))
    BY <2>1, FS_Subset
  <2>3. QED
    <3>1. Given(n, m, k - 1, r - 1) = {}
      BY <1>2, <1>4, <2>1
    <3>2. Cardinality(Given(n, m, k - 1, r)) = K + 1
      BY <1>4, <2>2, FS_AddElement
    <3>3. QED
      BY <3>1, <3>2, FS_EmptySet
<1> HIDE DEF K
<1>6. L \in Nat
  BY <1>1
<1>7. K * (r + 1) < L
  <2>1. (K * (r + 1)) * v = my * (r + 1) /\ L * v = left
    BY <1>1, <1>2, <1>6
  <2>2. QED
    BY <1>1, <1>2, <1>6, <2>1, Times
<1>8. (K + 1) * (r + 1) >= L
  <2>1. ((K + 1) * (r + 1)) * v = cost * (r + 1) /\ L * v = left
    <3>1. cost = v * (K + 1)
      BY <1>1
    <3>2. QED
      BY <1>1, <1>2, <1>6, <3>1
  <2>2. L * v <= ((K + 1) * (r + 1)) * v
    BY <1>1, <1>2, <1>6, <2>1
  <2>3. QED
    BY <1>1, <1>2, <1>6, <2>2, Times
<1>9. /\ K + 1 \in {q, q + 1}
      /\ q * r <= L - (K + 1) /\ L - (K + 1) <= (q + 1) * r
  BY <1>1, <1>2, <1>3, <1>6, <1>7, <1>8, RoundedStep
<1>10. L - (K + 1) = k /\ 0 + (k - 1) + 1 = k /\ r - 1 + 1 = r
  BY <1>1, <1>2
<1>11. ASSUME NEW s \in Ranks, s > r - 1
       PROVE  Cardinality(Given(n, m, k - 1, s)) \in {q, q + 1}
  <2>1. s = r \/ (s > r /\ s # r)
    BY <1>2, <1>11 DEF Ranks
  <2>2. CASE s > r /\ s # r
    BY <1>4, <2>2 DEF Even
  <2>3. QED
    BY <1>5, <1>9, <2>1, <2>2
<1>12. QED
  BY <1>5, <1>9, <1>10, <1>11 DEF Even

(* Equal costs: a block for a rank that is not full yet. *)
LEMMA EvenNotFull ==
  ASSUME NEW n, NEW l, NEW k, NEW r, DealtTo(n, l, k, r), k >= 0, NEW m, Gives(m, l, k, r),
         NEW q \in Nat, Even(n, l, k, r, q)
  PROVE  Even(n, m, k - 1, r, q)
<1> DEFINE K == Cardinality(Given(n, l, k, r))
<1>1. /\ k \notin Given(n, l, k, r)
      /\ Given(n, m, k - 1, r) = Given(n, l, k, r) \cup {k}
      /\ \A s : s # r => Given(n, m, k - 1, s) = Given(n, l, k, s)
  BY GivenMore
<1>2. K \in Nat /\ Cardinality(Given(n, m, k - 1, r)) = K + 1
  <2>1. IsFiniteSet(Blocks(n)) /\ Given(n, l, k, r) \in SUBSET Blocks(n) /\ K \in Nat
    BY GivenFacts
  <2>2. IsFiniteSet(Given(n, l, k, r))
    BY <2>1, FS_Subset
  <2>3. QED
    BY <1>1, <2>1, <2>2, FS_AddElement
<1>3. q * (r + 1) <= K + k + 1 /\ K + k + 1 <= (q + 1) * (r + 1)
  BY DEF Even
<1> HIDE DEF K
<1>4. K + 1 + (k - 1) + 1 = K + k + 1
  BY <1>2 DEF DealtTo
<1>5. ASSUME NEW s \in Ranks, s > r
      PROVE  Cardinality(Given(n, m, k - 1, s)) \in {q, q + 1}
  <2>1. s # r
    <3>1. r \in Ranks
      BY DEF DealtTo
    <3>2. QED
      BY <1>5, <3>1 DEF Ranks
  <2>2. QED
    BY <1>1, <1>5, <2>1 DEF Even
<1>6. QED
  BY <1>2, <1>3, <1>4, <1>5 DEF Even

(* Before the first block is dealt. *)
LEMMA DealStart ==
  ASSUME NEW n \in Nat \ {0}, NEW l \in [Blocks(n) -> Ranks], NEW c \in [Blocks(n) -> Nat \ {0}]
  PROVE  /\ DealtTo(n, l, n - 1, nranks - 1)
         /\ Dealing(c, n, l, n - 1, nranks - 1, 0, Sum(c))
         /\ \E q \in Nat : Even(n, l, n - 1, nranks - 1, q)
<1> DEFINE r == nranks - 1
<1>1. n - 1 + 1 = n /\ n - 1 \in -1 .. n - 1 /\ r \in Ranks /\ r + 1 = nranks
  BY RanksAssumption DEF Ranks
<1>2. \A s \in Ranks : ~(s > r)
  BY RanksAssumption DEF Ranks
<1>3. n .. n - 1 = {}
  OBVIOUS
<1> HIDE DEF r
<1>4. DealtTo(n, l, n - 1, r)
  BY <1>1, <1>3 DEF DealtTo
<1>5. \A s : Given(n, l, n - 1, s) = {}
  BY <1>1, <1>3 DEF Given
<1>6. Sum(c) \in Nat /\ Sum(c) = SumOf(c, Blocks(n))
  BY <1>4, SumsOfCosts
<1>7. Dealing(c, n, l, n - 1, r, 0, Sum(c))
  <2>1. 0 = SumOf(c, Given(n, l, n - 1, r))
    BY <1>5, SumOfNothing
  <2>2. Sum(c) = 0 + SumOf(c, Blocks(n - 1 + 1))
    BY <1>1, <1>6
  <2>3. Sum(c) * nranks <= Sum(c) * (r + 1)
    BY <1>1, <1>6, RanksAssumption
  <2>4. QED
    BY <1>2, <2>1, <2>2, <2>3 DEF Dealing
<1>8. PICK q \in Nat : q * nranks <= n /\ n <= (q + 1) * nranks
  BY RanksAssumption, Quotient
<1>9. Even(n, l, n - 1, r, q)
  <2>1. Cardinality(Given(n, l, n - 1, r)) = 0 /\ 0 + (n - 1) + 1 = n
    <3>1. Cardinality(Given(n, l, n - 1, r)) = 0
      BY <1>5, FS_EmptySet
    <3>2. 0 + (n - 1) + 1 = n
      OBVIOUS
    <3>3. QED
      BY <3>1, <3>2
  <2>2. QED
    BY <1>1, <1>2, <1>8, <2>1 DEF Even
<1>10. QED
  BY <1>4, <1>7, <1>9 DEF r

(* After the last one, whichever rank got it. *)
LEMMA DealEnd ==
  ASSUME NEW n, NEW l, NEW r, DealtTo(n, l, -1, r),
         NEW c \in [Blocks(n) -> Nat \ {0}], NEW my, NEW left,
         Dealing(c, n, l, -1, r, my, left), NEW s \in Ranks
  PROVE  Fair(c, SumOf(c, Given(n, l, -1, s)))
<1>1. /\ Sum(c) \in Nat /\ my \in Nat /\ left = my /\ 0 \in DOMAIN c /\ c[0] \in Nat \ {0}
      /\ my = SumOf(c, Given(n, l, -1, r)) /\ Sum(c) > 0
  <2>1. 0 \in Blocks(n) /\ -1 + 1 = 0 /\ Blocks(0) = {}
    BY DEF DealtTo, Blocks
  <2>2. Sum(c) \in Nat /\ Sum(c) = SumOf(c, Blocks(n)) /\ c \in [Blocks(n) -> Nat]
    BY SumsOfCosts
  <2>3. my = SumOf(c, Given(n, l, -1, r)) /\ left = my + SumOf(c, Blocks(-1 + 1))
    BY DEF Dealing
  <2>4. my \in Nat
    <3>1. Given(n, l, -1, r) \in SUBSET Blocks(n)
      BY GivenFacts
    <3>2. QED
      BY <2>3, <3>1, SumsOfCosts
  <2>5. left = my
    BY <2>1, <2>3, <2>4, SumOfNothing
  <2>6. Sum(c) > 0
    <3>1. IsFiniteSet(Blocks(n)) /\ Blocks(n) \in SUBSET Blocks(n)
      BY GivenFacts
    <3>2. SumOf(c, Blocks(n)) = c[0] + SumOf(c, Blocks(n) \ {0}) /\ SumOf(c, Blocks(n) \ {0}) \in Nat
      BY <2>1, <2>2, <3>1, SumOfMore
    <3>3. c[0] \in Nat \ {0}
      BY <2>1
    <3>4. QED
      BY <2>2, <3>2, <3>3
  <2>7. QED
    BY <2>1, <2>2, <2>3, <2>4, <2>5, <2>6
<1>2. r \in Ranks /\ r \in Nat /\ s \in Nat /\ nranks \in Nat \ {0}
  BY RankIsNat, RanksAssumption DEF DealtTo, RankFacts
<1>3. Fair(c, 0)
  <2>1. (0 - c[0]) * nranks < Sum(c)
    BY <1>1, <1>2
  <2>2. QED
    BY <1>1, <2>1 DEF Fair
<1>4. Fair(c, my)
  <2>1. CASE r > 0
    <3>1. my = 0 \/ my * (r + 1) < my
      BY <1>1, <2>1 DEF Dealing
    <3>2. my = 0
      BY <1>1, <1>2, <3>1
    <3>3. QED
      BY <1>3, <3>2
  <2>2. CASE r = 0
    <3>1. my * nranks <= Sum(c)
      <4>1. my * nranks <= Sum(c) * (0 + 1)
        BY <1>1, <2>2 DEF Dealing
      <4>2. QED
        BY <1>1, <4>1
    <3>2. (my - c[0]) * nranks < my * nranks
      BY <1>1, <1>2, Times
    <3>3. (my - c[0]) * nranks < Sum(c)
      BY <1>1, <1>2, <3>1, <3>2
    <3>4. QED
      BY <1>1, <3>3 DEF Fair
  <2>3. QED
    BY <1>2, <2>1, <2>2
<1>5. CASE s = r
  BY <1>1, <1>4, <1>5
<1>6. CASE s > r
  BY <1>6 DEF Dealing
<1>7. CASE s < r
  <2>1. Given(n, l, -1, s) = {}
    BY <1>7, GivenFacts
  <2>2. QED
    BY <1>3, <2>1, SumOfNothing
<1>8. QED
  BY <1>2, <1>5, <1>6, <1>7

(* Equal costs: all blocks dealt, each rank has q or q + 1 of them. *)
LEMMA EvenEnd ==
  ASSUME NEW n, NEW l, NEW r, DealtTo(n, l, -1, r),
         NEW v \in Nat \ {0}, NEW c \in [Blocks(n) -> Nat \ {0}], \A b \in Blocks(n) : c[b] = v,
         NEW my, NEW left, Dealing(c, n, l, -1, r, my, left),
         NEW q \in Nat, Even(n, l, -1, r, q), NEW s \in Ranks
  PROVE  Cardinality(Given(n, l, -1, s)) \in {q, q + 1}
<1> DEFINE K == Cardinality(Given(n, l, -1, r))
<1>1. K \in Nat /\ my = v * K /\ left = my
  <2>1. K \in Nat /\ my = v * K /\ left = v * (K + (-1) + 1)
    BY EqualCosts
  <2>2. K + (-1) + 1 = K
    BY <2>1
  <2>3. QED
    BY <2>1, <2>2
<1>2. r \in Ranks /\ r \in Nat /\ s \in Nat
  BY RankIsNat DEF DealtTo, RankFacts
<1>3. q * (r + 1) <= K /\ K <= (q + 1) * (r + 1)
  <2>1. q * (r + 1) <= K + (-1) + 1 /\ K + (-1) + 1 <= (q + 1) * (r + 1)
    BY DEF Even
  <2>2. K + (-1) + 1 = K
    BY <1>1
  <2>3. QED
    BY <2>1, <2>2
<1>4. r > 0 => my = 0 \/ my * (r + 1) < my
  BY <1>1 DEF Dealing
<1> HIDE DEF K
<1>5. K \in {q, q + 1} /\ (r > 0 => q = 0)
  <2>1. CASE r > 0
    <3>1. my = 0
      BY <1>1, <1>2, <1>4, <2>1
    <3>2. K = 0
      BY <1>1, <3>1
    <3>3. q * (r + 1) <= 0 * (r + 1)
      BY <1>2, <1>3, <3>2
    <3>4. q <= 0
      BY <1>2, <3>3, Times
    <3>5. QED
      BY <3>2, <3>4
  <2>2. CASE r = 0
    <3>1. q <= K /\ K <= q + 1
      BY <1>3, <2>2
    <3>2. QED
      BY <1>1, <2>2, <3>1
  <2>3. QED
    BY <1>2, <2>1, <2>2
<1>6. CASE s = r
  BY <1>5, <1>6 DEF K
<1>7. CASE s > r
  BY <1>7 DEF Even
<1>8. CASE s < r
  <2>1. Given(n, l, -1, s) = {} /\ q = 0
    BY <1>2, <1>5, <1>8, GivenFacts
  <2>2. QED
    BY <2>1, FS_EmptySet
<1>9. QED
  BY <1>2, <1>6, <1>7, <1>8

-----------------------------------------------------------------------------
(***************************************************************************)
(* The loads, from one balance to the next.                                *)
(***************************************************************************)
OfRank(n, l, r) == {b \in Blocks(n) : l[b] = r}
Costs(c, n)     == c \in [Blocks(n) -> Nat \ {0}]
SameCosts(c, n) == \E v \in Nat \ {0} : \A b \in Blocks(n) : c[b] = v

DealInv(c, n, l, k, r, my, left) ==
  /\ Dealing(c, n, l, k, r, my, left)
  /\ SameCosts(c, n) => \E q \in Nat : Even(n, l, k, r, q)

EndInv(c, n, l) ==
  /\ \A r \in Ranks : Fair(c, SumOf(c, OfRank(n, l, r)))
  /\ SameCosts(c, n) => \E q \in Nat : \A r \in Ranks : Cardinality(OfRank(n, l, r)) \in {q, q + 1}

LoadInv ==
  /\ Costs(costlist, nbtotal)
  /\ pc = "assign" =>
       DealInv(costlist, nbtotal, ranklist, block_id, rank, my_cost, remaining_cost)
  /\ pc # "assign" => EndInv(costlist, nbtotal, ranklist)

(* CalculateLoadBalance starts to deal. *)
LEMMA DealInvStart ==
  ASSUME NEW n \in Nat \ {0}, NEW c, Costs(c, n), NEW l, l = [b \in Blocks(n) |-> 0]
  PROVE  DealInv(c, n, l, n - 1, nranks - 1, 0, Sum(c))
<1>1. 0 \in Ranks
  BY RanksAssumption DEF Ranks
<1>2. l \in [Blocks(n) -> Ranks] /\ c \in [Blocks(n) -> Nat \ {0}]
  BY <1>1 DEF Costs
<1>3. QED
  BY <1>2, DealStart DEF DealInv

(* AssignBlocks deals a block. *)
LEMMA DealInvStep ==
  ASSUME NEW n, NEW l, NEW k, NEW r, DealtTo(n, l, k, r), k >= 0, NEW c, Costs(c, n),
         NEW my, NEW left, DealInv(c, n, l, k, r, my, left), NEW m, Gives(m, l, k, r),
         NEW cost, cost = my + c[k]
  PROVE  /\ r > 0 /\ cost * (r + 1) >= left => DealInv(c, n, m, k - 1, r - 1, 0, left - cost)
         /\ ~(r > 0 /\ cost * (r + 1) >= left) => DealInv(c, n, m, k - 1, r, cost, left)
<1>1. /\ c \in [Blocks(n) -> Nat \ {0}] /\ Dealing(c, n, l, k, r, my, left)
      /\ SameCosts(c, n) => \E q \in Nat : Even(n, l, k, r, q)
  BY DEF Costs, DealInv
<1>2. ASSUME r > 0, cost * (r + 1) >= left
      PROVE  DealInv(c, n, m, k - 1, r - 1, 0, left - cost)
  <2>1. Dealing(c, n, m, k - 1, r - 1, 0, left - cost)
    BY <1>1, <1>2, DealFull
  <2>2. ASSUME SameCosts(c, n)
        PROVE  \E q \in Nat : Even(n, m, k - 1, r - 1, q)
    <3>1. PICK v \in Nat \ {0} : \A b \in Blocks(n) : c[b] = v
      BY <2>2 DEF SameCosts
    <3>2. PICK q \in Nat : Even(n, l, k, r, q)
      BY <1>1, <2>2
    <3>3. Even(n, m, k - 1, r - 1, q)
      BY <1>1, <1>2, <3>1, <3>2, EvenFull
    <3>4. QED
      BY <3>3
  <2>3. QED
    BY <2>1, <2>2 DEF DealInv
<1>3. ASSUME ~(r > 0 /\ cost * (r + 1) >= left)
      PROVE  DealInv(c, n, m, k - 1, r, cost, left)
  <2>1. Dealing(c, n, m, k - 1, r, cost, left)
    BY <1>1, <1>3, DealNotFull
  <2>2. \A q \in Nat : Even(n, l, k, r, q) => Even(n, m, k - 1, r, q)
    BY EvenNotFull
  <2>3. QED
    BY <1>1, <2>1, <2>2 DEF DealInv
<1>4. QED
  BY <1>2, <1>3

(* AssignBlocks has dealt the last block. *)
LEMMA DealInvEnd ==
  ASSUME NEW n, NEW l, NEW r, DealtTo(n, l, -1, r), NEW c, Costs(c, n),
         NEW my, NEW left, DealInv(c, n, l, -1, r, my, left)
  PROVE  EndInv(c, n, l)
<1>1. /\ c \in [Blocks(n) -> Nat \ {0}] /\ Dealing(c, n, l, -1, r, my, left)
      /\ SameCosts(c, n) => \E q \in Nat : Even(n, l, -1, r, q)
  BY DEF Costs, DealInv
<1>2. \A s : OfRank(n, l, s) = Given(n, l, -1, s)
  BY DEF OfRank, Given, Blocks
<1>3. \A s \in Ranks : Fair(c, SumOf(c, OfRank(n, l, s)))
  BY <1>1, <1>2, DealEnd
<1>4. ASSUME SameCosts(c, n)
      PROVE  \E q \in Nat : \A s \in Ranks : Cardinality(OfRank(n, l, s)) \in {q, q + 1}
  <2>1. PICK v \in Nat \ {0} : \A b \in Blocks(n) : c[b] = v
    BY <1>4 DEF SameCosts
  <2>2. PICK q \in Nat : Even(n, l, -1, r, q)
    BY <1>1, <1>4
  <2>3. \A s \in Ranks : Cardinality(Given(n, l, -1, s)) \in {q, q + 1}
    BY <1>1, <2>1, <2>2, EvenEnd
  <2>4. QED
    BY <1>2, <2>3
<1>5. QED
  BY <1>3, <1>4 DEF EndInv

(* One cost in the list is the cost of all blocks. *)
LEMMA OneCost ==
  ASSUME NEW n, NEW c \in [Blocks(n) -> Nat \ {0}], n \in Nat, Cardinality(Range(c)) = 1
  PROVE  SameCosts(c, n)
<1>1. Range(c) = {c[b] : b \in Blocks(n)}
  BY DEF Range
<1>2. IsFiniteSet(Range(c))
  <2>1. IsFiniteSet(Blocks(n))
    BY IntervalSize
  <2>2. c \in Surjection(Blocks(n), Range(c))
    BY <1>1 DEF Surjection
  <2>3. QED
    BY <2>1, <2>2, FS_Surjection
<1>3. PICK v : Range(c) = {v}
  BY <1>2, FS_Singleton
<1>4. \A b \in Blocks(n) : c[b] = v
  BY <1>1, <1>3
<1>5. v \in Nat \ {0}
  BY <1>1, <1>3
<1>6. QED
  BY <1>4, <1>5 DEF SameCosts

(* What IInv says while blocks are dealt out. *)
LEMMA AssignDealt ==
  ASSUME IInv, pc = "assign"
  PROVE  DealtTo(nbtotal, ranklist, block_id, rank)
<1>1. ShapeOK /\ AssignInv
  BY DEF IInv
<1>2. \A b \in block_id + 1 .. nbtotal - 1 : rank <= ranklist[b]
  BY <1>1 DEF AssignInv, Dealt
<1>3. QED
  BY <1>1, <1>2 DEF ShapeOK, AssignInv, DealtTo

(* The equal costs the mesh starts with. *)
LEMMA LoadInvInit == Init => LoadInv
<1> SUFFICES ASSUME Init PROVE LoadInv
  OBVIOUS
<1>1. /\ costlist = [b \in Blocks(nbtotal) |-> 1] /\ ranklist = [b \in Blocks(nbtotal) |-> 0]
      /\ pc = "assign" /\ block_id = nbtotal - 1 /\ rank = nranks - 1 /\ my_cost = 0
      /\ remaining_cost = Sum(costlist)
  BY DEF Init
<1>2. nbtotal \in Nat \ {0}
  BY RanksAssumption DEF Init
<1>3. Costs(costlist, nbtotal)
  BY <1>1 DEF Costs
<1>4. DealInv(costlist, nbtotal, ranklist, nbtotal - 1, nranks - 1, 0, Sum(costlist))
  BY <1>1, <1>2, <1>3, DealInvStart
<1>5. QED
  BY <1>1, <1>3, <1>4 DEF LoadInv

(* Each step of a balance keeps the invariant of the loads. *)
LEMMA LoadInvStep ==
  ASSUME IInv, LoadInv, [Next]_vars
  PROVE  LoadInv'
<1>1. CASE CalculateLoadBalance
  <2>1. PICK n \in 1 .. MaxBlocks : \E c \in [Blocks(n) -> CostValues] :
          /\ nbtotal' = n /\ costlist' = c
          /\ ranklist' = [b \in Blocks(n) |-> 0]
          /\ block_id' = n - 1 /\ remaining_cost' = Sum(c)
    BY <1>1 DEF CalculateLoadBalance
  <2>2. PICK c \in [Blocks(n) -> CostValues] :
          /\ nbtotal' = n /\ costlist' = c
          /\ ranklist' = [b \in Blocks(n) |-> 0]
          /\ block_id' = n - 1 /\ remaining_cost' = Sum(c)
    BY <2>1
  <2>3. pc' = "assign" /\ rank' = nranks - 1 /\ my_cost' = 0
    BY <1>1 DEF CalculateLoadBalance
  <2>4. n \in Nat \ {0} /\ Costs(c, n)
    <3>1. \A b \in Blocks(n) : c[b] \in Nat \ {0}
      BY CostsAssumption
    <3>2. n \in Nat \ {0}
      BY RanksAssumption
    <3>3. QED
      BY <3>1, <3>2 DEF Costs
  <2>5. DealInv(c, n, ranklist', n - 1, nranks - 1, 0, Sum(c))
    BY <2>2, <2>4, DealInvStart
  <2>6. QED
    BY <2>2, <2>3, <2>4, <2>5 DEF LoadInv
<1>2. CASE AssignBlock
  <2>1. /\ pc = "assign" /\ block_id >= 0 /\ pc' = pc /\ nbtotal' = nbtotal /\ costlist' = costlist
        /\ block_id' = block_id - 1 /\ Gives(ranklist', ranklist, block_id, rank)
    BY <1>2 DEF AssignBlock, lists, Gives
  <2>2. /\ DealtTo(nbtotal, ranklist, block_id, rank) /\ Costs(costlist, nbtotal)
        /\ DealInv(costlist, nbtotal, ranklist, block_id, rank, my_cost, remaining_cost)
    BY <2>1, AssignDealt DEF LoadInv
  <2> DEFINE cost == my_cost + costlist[block_id]
  <2>3. IF rank > 0 /\ cost * (rank + 1) >= remaining_cost
        THEN rank' = rank - 1 /\ remaining_cost' = remaining_cost - cost /\ my_cost' = 0
        ELSE my_cost' = cost /\ rank' = rank /\ remaining_cost' = remaining_cost
    BY <1>2 DEF AssignBlock, RankIsFull
  <2>4. DealInv(costlist, nbtotal, ranklist', block_id - 1, rank', my_cost', remaining_cost')
    <3> HIDE DEF cost
    <3>1. cost = my_cost + costlist[block_id]
      BY DEF cost
    <3>2. CASE rank > 0 /\ cost * (rank + 1) >= remaining_cost
      BY <2>1, <2>2, <2>3, <3>1, <3>2, DealInvStep
    <3>3. CASE ~(rank > 0 /\ cost * (rank + 1) >= remaining_cost)
      BY <2>1, <2>2, <2>3, <3>1, <3>3, DealInvStep
    <3>4. QED
      BY <3>2, <3>3
  <2>5. QED
    BY <2>1, <2>2, <2>4 DEF LoadInv
<1>3. CASE AssignDone
  <2>1. /\ pc = "assign" /\ block_id < 0 /\ pc' = "update" /\ nbtotal' = nbtotal
        /\ costlist' = costlist /\ ranklist' = ranklist
    BY <1>3 DEF AssignDone, lists
  <2>2. /\ DealtTo(nbtotal, ranklist, block_id, rank) /\ Costs(costlist, nbtotal)
        /\ DealInv(costlist, nbtotal, ranklist, block_id, rank, my_cost, remaining_cost)
    BY <2>1, AssignDealt DEF LoadInv
  <2>3. block_id = -1
    BY <2>1, <2>2 DEF DealtTo
  <2>4. EndInv(costlist, nbtotal, ranklist)
    BY <2>2, <2>3, DealInvEnd
  <2>5. QED
    BY <2>1, <2>2, <2>4 DEF LoadInv
<1>4. CASE UpdateBlock \/ UpdateDone
  <2>1. /\ pc = "update" /\ pc' # "assign" /\ nbtotal' = nbtotal
        /\ costlist' = costlist /\ ranklist' = ranklist
    BY <1>4 DEF UpdateBlock, UpdateDone, lists
  <2>2. QED
    BY <2>1 DEF LoadInv
<1>5. CASE UNCHANGED vars
  <2>1. /\ nbtotal' = nbtotal /\ costlist' = costlist /\ ranklist' = ranklist /\ pc' = pc
        /\ block_id' = block_id /\ rank' = rank
        /\ my_cost' = my_cost /\ remaining_cost' = remaining_cost
    BY <1>5 DEF vars, lists
  <2>2. QED
    BY <2>1 DEF LoadInv
<1>6. QED
  BY <1>1, <1>2, <1>3, <1>4, <1>5 DEF Next

(* Whatever the costs, no rank gets more than the average load and one more *)
(* block; equal costs are dealt out evenly; and each rank finds its blocks  *)
(* in the lists (AssignBlocks and UpdateBlockList), for any number of ranks *)
(* and blocks, balance after balance.                                       *)
THEOREM LoadsAreEven == Spec => []LoadIsEven
<1>1. Init => LoadInv
  BY LoadInvInit
<1>2. IInv /\ LoadInv /\ [Next]_vars => LoadInv'
  BY LoadInvStep
<1>3. Spec => []LoadInv
  BY <1>1, <1>2, InvariantHolds, PTL DEF Spec
<1>4. IInv /\ LoadInv /\ ListsMatchWhenAllUsed => LoadIsEven
  <2> SUFFICES ASSUME IInv, LoadInv, ListsMatchWhenAllUsed, pc = "done"
               PROVE  /\ \A r \in Ranks : \E b \in Blocks(nbtotal) :
                           (Load(r) - costlist[b]) * nranks < Sum(costlist)
                      /\ nbtotal >= nranks /\ Cardinality(Range(costlist)) = 1 =>
                           \A r, s \in Ranks : Cardinality(BlocksOf(r)) - Cardinality(BlocksOf(s)) <= 1
    BY DEF LoadIsEven
  <2>1. costlist \in [Blocks(nbtotal) -> Nat \ {0}] /\ EndInv(costlist, nbtotal, ranklist)
    BY DEF LoadInv, Costs
  <2>2. \A r : BlocksOf(r) = OfRank(nbtotal, ranklist, r)
    BY DEF BlocksOf, OfRank
  <2>3. ASSUME NEW r \in Ranks
        PROVE  \E b \in Blocks(nbtotal) : (Load(r) - costlist[b]) * nranks < Sum(costlist)
    <3>1. Fair(costlist, SumOf(costlist, OfRank(nbtotal, ranklist, r)))
      BY <2>1 DEF EndInv
    <3>2. Load(r) = SumOf(costlist, OfRank(nbtotal, ranklist, r))
      BY <2>2 DEF Load, SumOf
    <3>3. DOMAIN costlist = Blocks(nbtotal)
      BY <2>1
    <3>4. QED
      BY <3>1, <3>2, <3>3 DEF Fair
  <2>4. ASSUME Cardinality(Range(costlist)) = 1, nbtotal >= nranks, NEW r \in Ranks, NEW s \in Ranks
        PROVE  Cardinality(BlocksOf(r)) - Cardinality(BlocksOf(s)) <= 1
    <3>1. nbtotal \in Nat
      BY DEF IInv, ShapeOK
    <3>2. SameCosts(costlist, nbtotal)
      BY <2>1, <2>4, <3>1, OneCost
    <3>3. PICK q \in Nat : \A t \in Ranks : Cardinality(OfRank(nbtotal, ranklist, t)) \in {q, q + 1}
      BY <2>1, <3>2 DEF EndInv
    <3>4. /\ Cardinality(OfRank(nbtotal, ranklist, r)) \in {q, q + 1}
          /\ Cardinality(OfRank(nbtotal, ranklist, s)) \in {q, q + 1}
      BY <3>3
    <3>5. \A x, y \in {q, q + 1} : x - y <= 1
      OBVIOUS
    <3>6. QED
      BY <2>2, <3>4, <3>5
  <2>5. QED
    BY <2>3, <2>4
<1>5. QED
  BY <1>3, <1>4, InvariantHolds, ListsMatch, PTL
=============================================================================
