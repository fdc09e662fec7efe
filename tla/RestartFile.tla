----------------------------- MODULE RestartFile -----------------------------
(***************************************************************************)
(* Restart files (outputs/parthenon_hdf5.cpp and the functions of          *)
(* output_utils, restart_hdf5.cpp, parthenon_manager.cpp RestartPackages): *)
(* every rank writes what its blocks hold, at its place in datasets that   *)
(* all blocks share, and a later program, with any number of ranks and     *)
(* perhaps other variables, builds the same blocks and reads them back.    *)
(*                                                                         *)
(* Blocks are numbered from 1, in the order of their global ids, and a     *)
(* rank has consecutive ones.  What an array holds is a sequence of        *)
(* tokens that say who computed it.                                        *)
(***************************************************************************)
EXTENDS SwarmPool

CONSTANTS NumBlocks,
          Programs,      \* the variables of a program, a sequence ordered by label
          DeallocCount,  \* sparse_config.deallocation_count
          MaxChanges     \* bound on what happens outside of writing and restarting

ASSUME RestartAssumption == NumBlocks \in Nat \ {0} /\ DeallocCount \in Nat

VARIABLES program,   \* the variables of the running program
          nblist,    \* rank |-> how many blocks it has
          block,     \* block |-> data, dealloc_count, derefinement_count, pool
          file,      \* the restart file, or NoFile
          saved,     \* what was written: the program and its blocks
          status,    \* "running", "restarted" or "refused"
          changes    \* how much has happened

vars == <<program, nblist, block, file, saved, status, changes>>

Blocks == 1 .. NumBlocks
Total(s) == FoldSeq(+, 0, s)

(* Every way to give each rank at least one block, in their order.         *)
Splits == {s \in UNION {[1 .. n -> Blocks] : n \in Blocks} : Total(s) = NumBlocks}

(***************************************************************************)
(* Variables.                                                              *)
(***************************************************************************)
Zero == <<0, "", 0, 0>>          \* what allocated memory holds
Outside == <<-1, "", 0, 0>>      \* memory that is not of the array
NotAllocated == <<>>

VarsOf(prog) == {prog[i] : i \in DOMAIN prog}
Labels(prog) == {v.label : v \in VarsOf(prog)}

(* Variables that are written: Independent or Restart ones, by label.      *)
Written(prog) == SelectSeq(prog, LAMBDA v : v.stored)
SparseOf(prog) == SelectSeq(Written(prog), LAMBDA v : v.sparse)

Size(v) == v.shape[1] * v.shape[2] * v.shape[3]
FillSize(v) == Size(v)

(* Where PackOrUnpackVar goes in the array of a variable, in its order.    *)
(* For one that is not on the mesh the last index of every loop is the     *)
(* extent, which is one too many.                                          *)
Positions(v) ==
  LET n == IF v.none THEN [d \in 1 .. 3 |-> v.shape[d] + 1] ELSE v.shape
      i(p) == p % n[3]
      j(p) == (p \div n[3]) % n[2]
      k(p) == p \div (n[3] * n[2])
  IN [p \in 1 .. n[1] * n[2] * n[3] |->
        (k(p - 1) * v.shape[2] + j(p - 1)) * v.shape[3] + i(p - 1) + 1]

Computed(b, v, n) == [i \in 1 .. Size(v) |-> <<b, v.label, n, i>>]
Zeros(v) == [i \in 1 .. Size(v) |-> Zero]

ControllerOf(prog, label) == (CHOOSE v \in VarsOf(prog) : v.label = label).controller
Controlled(prog, c) == {v \in VarsOf(prog) : v.sparse /\ v.controller = c}

NewBlock(prog) ==
  [data |-> [l \in Labels(prog) |->
     LET v == CHOOSE w \in VarsOf(prog) : w.label = l
     IN IF v.sparse THEN NotAllocated ELSE Zeros(v)],
   dealloc_count |-> [l \in Labels(prog) |-> 0],
   derefinement_count |-> 0,
   pool |-> NewPool(1)]

(* A mutated form: variables that are there are allocated again.           *)
AllocateAgain(prog, blk, label) ==
  LET group == Controlled(prog, ControllerOf(prog, label))
  IN [blk EXCEPT !.data = [l \in DOMAIN @ |->
        IF \E v \in group : v.label = l
        THEN Zeros(CHOOSE v \in group : v.label = l) ELSE @[l]]]

(* MeshBlock::AllocateSparse: a variable and all that its controller does. *)
AllocateSparse(prog, blk, label) ==
  LET group == Controlled(prog, ControllerOf(prog, label))
  IN [blk EXCEPT !.data = [l \in DOMAIN @ |->
        IF @[l] = NotAllocated /\ \E v \in group : v.label = l
        THEN Zeros(CHOOSE v \in group : v.label = l) ELSE @[l]]]

DeallocateSparse(prog, blk, label) ==
  [blk EXCEPT !.data = [l \in DOMAIN @ |->
     IF \E v \in Controlled(prog, label) : v.label = l THEN NotAllocated ELSE @[l]]]

(***************************************************************************)
(* Datasets.  Each rank writes a slab, at its offset.                      *)
(***************************************************************************)
Ranks(split) == DOMAIN split
Offset(split, r) == Total(SubSeq(split, 1, r - 1))
BlocksOf(split, r) == [i \in 1 .. split[r] |-> Offset(split, r) + i]

HDF5Write(count, offset, n, data) ==
  LET writers(p) == {r \in Ranks(nblist) : p \in offset[r] + 1 .. offset[r] + n[r]}
  IN [p \in 1 .. count |->
        IF writers(p) = {} THEN Outside
        ELSE LET r == Max(writers(p)) IN data[r][p - offset[r]]]

(* A dataset with width entries for every block.                           *)
PerBlock(width, data) ==
  HDF5Write(width * NumBlocks, [r \in Ranks(nblist) |-> width * Offset(nblist, r)],
            [r \in Ranks(nblist) |-> width * nblist[r]], data)

(* The buffer of a rank, filled block by block at a running index.         *)
Buffer(prog, n) == [p \in 1 .. n * Max({Size(v) : v \in VarsOf(prog)}) |-> Zero]
At(seq, p) == IF p \in DOMAIN seq THEN seq[p] ELSE Outside

PackBlock(acc, v, array) ==
  LET pos == Positions(v)
      new(p) == p - acc.index
  IN IF array # NotAllocated
     THEN [index |-> acc.index + Len(pos),
           tmp |-> [p \in DOMAIN acc.tmp |-> IF new(p) \in DOMAIN pos THEN At(array, pos[new(p)])
                                             ELSE acc.tmp[p]]]
     ELSE [index |-> acc.index + FillSize(v),
           tmp |-> [p \in DOMAIN acc.tmp |-> IF new(p) \in 1 .. FillSize(v) THEN Zero
                                             ELSE acc.tmp[p]]]

VarData(v) ==
  LET packed(r) == FoldLeft(LAMBDA acc, b : PackBlock(acc, v, block[b].data[v.label]),
                            [index |-> 0, tmp |-> Buffer(Written(program), nblist[r])],
                            BlocksOf(nblist, r)).tmp
  IN PerBlock(FillSize(v), [r \in Ranks(nblist) |-> packed(r)])

(* SparseInfo and SparseDeallocCount, a row for each block.                *)
SparseTable(entry) ==
  LET names == SparseOf(program)
      row(b) == [i \in DOMAIN names |-> entry[b][names[i].label]]
      rows(r) == FlattenSeq([i \in 1 .. nblist[r] |-> row(BlocksOf(nblist, r)[i])])
  IN PerBlock(Len(names), [r \in Ranks(nblist) |-> rows(r)])

IsAllocated(b, label) == block[b].data[label] # NotAllocated
CountIfAllocated(b, label) == IF IsAllocated(b, label) THEN block[b].dealloc_count[label] ELSE 0

(* FlattenBlockInfo: one value for each block, here derefinement counts.   *)
FlattenBlockInfo(f) ==
  PerBlock(1, [r \in Ranks(nblist) |-> [i \in 1 .. nblist[r] |-> f[BlocksOf(nblist, r)[i]]]])

(* AllSwarmInfo: pools are compacted, and particles go at offsets that are *)
(* counted over all blocks and ranks.                                      *)
Compacted == [b \in Blocks |-> Defrag(block[b].pool)]
NumActive(b) == block[b].pool.num_active
CountOnRank(r) == Total([i \in 1 .. nblist[r] |-> NumActive(BlocksOf(nblist, r)[i])])

(* A mutated form: each rank counts from its own first particle.           *)
LocalOffset(r) == 0
MPIPrefixSum(r) == Total([i \in 1 .. r - 1 |-> CountOnRank(i)])

AddOffsets(b) ==
  LET r == CHOOSE q \in Ranks(nblist) : \E i \in 1 .. nblist[q] : BlocksOf(nblist, q)[i] = b
  IN MPIPrefixSum(r) + Total([i \in 1 .. b - 1 - Offset(nblist, r) |->
                                NumActive(Offset(nblist, r) + i)])

FillHostBuffer(r) ==
  FlattenSeq([i \in 1 .. nblist[r] |->
    LET b == BlocksOf(nblist, r)[i]
    IN [n \in 1 .. NumActive(b) |-> Compacted[b].data[n - 1]]])

NoFile == [written |-> FALSE]

(* WriteOutputFileImpl for a restart file.                                 *)
FileContents ==
  [written |-> TRUE,
   data |-> [l \in {v.label : v \in VarsOf(Written(program))} |->
               VarData(CHOOSE v \in VarsOf(program) : v.label = l)],
   sparse |-> [i \in DOMAIN SparseOf(program) |-> SparseOf(program)[i].label],
   allocated |-> SparseTable([b \in Blocks |-> [l \in Labels(program) |-> IsAllocated(b, l)]]),
   dealloc_count |-> SparseTable([b \in Blocks |->
                                  [l \in Labels(program) |-> CountIfAllocated(b, l)]]),
   derefinement_count |-> FlattenBlockInfo([b \in Blocks |-> block[b].derefinement_count]),
   counts |-> FlattenBlockInfo([b \in Blocks |-> NumActive(b)]),
   offsets |-> FlattenBlockInfo([b \in Blocks |-> AddOffsets(b)]),
   particles |-> HDF5Write(Total([r \in Ranks(nblist) |-> CountOnRank(r)]),
                           [r \in Ranks(nblist) |-> MPIPrefixSum(r)],
                           [r \in Ranks(nblist) |-> CountOnRank(r)],
                           [r \in Ranks(nblist) |-> FillHostBuffer(r)])]

(* The checks of RestartPackages on sparse fields.                         *)
SparseFieldsMatch(f, prog) ==
  /\ \A v \in VarsOf(Written(prog)) : v.sparse <=> v.label \in RangeOf(f.sparse)
  /\ Len(SparseOf(prog)) = Len(f.sparse)

SparseEntry(f, table, b, label) ==
  table[(b - 1) * Len(f.sparse) + CHOOSE i \in DOMAIN f.sparse : f.sparse[i] = label]

(* What PackOrUnpackVar does with one block of a variable.                 *)
Unpacked(v, array, tmp, index) ==
  LET pos == Positions(v)
      from(q) == {p \in DOMAIN pos : pos[p] = q}
  IN [q \in DOMAIN array |-> IF from(q) = {} THEN array[q] ELSE At(tmp, index + Max(from(q)))]

(* One block of a variable: acc has the index, the buffer and the blocks.  *)
ReadBlock(f, prog, v, acc, b) ==
  IF v.sparse /\ ~SparseEntry(f, f.allocated, b, v.label)
  THEN [acc EXCEPT !.index = @ + FillSize(v)]
  ELSE LET blk == IF v.sparse THEN AllocateSparse(prog, acc.block[b], v.label) ELSE acc.block[b]
           count == IF v.sparse THEN SparseEntry(f, f.dealloc_count, b, v.label)
                    ELSE blk.dealloc_count[v.label]
       IN [acc EXCEPT !.index = @ + Len(Positions(v)),
                      !.block[b] = [blk EXCEPT
                         !.dealloc_count[v.label] = count,
                         !.data[v.label] = Unpacked(v, @, acc.tmp, acc.index)]]

(* A variable that the file does not have is left as it is.                *)
ReadVariable(f, prog, split, r, acc, v) ==
  IF v.label \notin DOMAIN f.data THEN acc
  ELSE LET first == Offset(split, r) * FillSize(v)
           n == split[r] * FillSize(v)
           read == [p \in DOMAIN acc.tmp |-> IF p <= n THEN f.data[v.label][first + p]
                                             ELSE acc.tmp[p]]
       IN FoldLeft(LAMBDA a, b : ReadBlock(f, prog, v, a, b),
                   [acc EXCEPT !.index = 0, !.tmp = read], BlocksOf(split, r))

(* Particles: as many empty ones as were counted, filled from the first.   *)
ReadSwarm(f, split, r, blocks) ==
  LET mine == BlocksOf(split, r)
      counts == [i \in DOMAIN mine |-> f.counts[mine[i]]]
      offset == f.offsets[mine[1]]
      vec == SubSeq(f.particles, offset + 1, offset + Total(counts))
      added(b) == AddEmptyParticles(blocks[b].pool, f.counts[b]).pool
      first(b) == Total([i \in 1 .. b - mine[1] |-> counts[i]])
      filled(b) == [added(b) EXCEPT !.data = [s \in DOMAIN @ |->
                      IF s < added(b).num_active THEN vec[first(b) + s + 1] ELSE @[s]]]
  IN [b \in DOMAIN blocks |-> IF b \in RangeOf(mine) THEN [blocks[b] EXCEPT !.pool = filled(b)]
                              ELSE blocks[b]]

(* The blocks rank r has after the file was read.                          *)
RestartPackages(f, prog, split, r, blocks) ==
  LET read == FoldLeft(LAMBDA acc, v : ReadVariable(f, prog, split, r, acc, v),
                       [index |-> 0, tmp |-> Buffer(Written(prog), split[r]), block |-> blocks],
                       Written(prog)).block
  IN IF Total(f.counts) = 0 THEN read ELSE ReadSwarm(f, split, r, read)

(* The mesh is built from the file, then each rank reads its blocks.       *)
Rebuilt(f, prog, split) ==
  FoldLeft(LAMBDA blocks, r : RestartPackages(f, prog, split, r, blocks),
           [b \in Blocks |-> [NewBlock(prog) EXCEPT
                                !.derefinement_count = f.derefinement_count[b]]],
           [r \in Ranks(split) |-> r])

(***************************************************************************)
(* A run: blocks change, a file is written, a program is started from it.  *)
(***************************************************************************)
(* The application fills what is allocated.                                *)
FillAll(prog, b, blk, n) ==
  [blk EXCEPT !.data = [l \in DOMAIN @ |->
    IF @[l] = NotAllocated THEN @[l]
    ELSE Computed(b, CHOOSE v \in VarsOf(prog) : v.label = l, n)]]

(* The problem generator has filled all blocks, and allocated sparse       *)
(* variables on some.                                                      *)
Controllers(prog) == {c \in Labels(prog) : Controlled(prog, c) # {}}
WithSparse(prog, C) == LET alloc(c, blk) == AllocateSparse(prog, blk, c)
                       IN FoldSet(alloc, NewBlock(prog), C)

Init ==
  /\ program \in Programs /\ nblist \in Splits
  /\ \E on \in [Blocks -> SUBSET Controllers(program)] :
       block = [b \in Blocks |-> FillAll(program, b, WithSparse(program, on[b]), 0)]
  /\ file = NoFile /\ saved = NoFile /\ status = "running" /\ changes = 0

(* Bounds: MaxChanges, and one file for a run, which is what the program    *)
(* restarts from; what happened after it was written is lost.              *)
Change(b, blk) ==
  /\ status # "refused" /\ changes < MaxChanges /\ file = NoFile
  /\ block' = [block EXCEPT ![b] = blk]
  /\ status' = "running" /\ changes' = changes + 1
  /\ UNCHANGED <<program, nblist, file, saved>>

Compute(b) == Change(b, FillAll(program, b, block[b], changes + 1))

Allocate(b, c) ==
  /\ ~IsAllocated(b, c)
  /\ Change(b, AllocateSparse(program, block[b], c))

(* SparseDealloc finds the controlling variable zero.                      *)
FoundZero(b, c) ==
  /\ IsAllocated(b, c)
  /\ Change(b, IF block[b].dealloc_count[c] = DeallocCount
               THEN [DeallocateSparse(program, block[b], c) EXCEPT !.dealloc_count[c] = 0]
               ELSE [block[b] EXCEPT !.dealloc_count[c] = @ + 1])

CountDerefinement(b) == Change(b, [block[b] EXCEPT !.derefinement_count = @ + 1])

AddParticles(b) ==
  \E n \in 1 .. 2 : Change(b, [block[b] EXCEPT !.pool =
    Filled(@, [i \in 1 .. n |-> [id |-> 2 * changes + i]])])

RemoveParticle(b) ==
  \E s \in block[b].pool.mask :
    Change(b, [block[b] EXCEPT !.pool = RemoveMarkedParticles(MarkParticleForRemoval(@, {s}))])

Write ==
  /\ status # "refused" /\ file = NoFile
  /\ file' = FileContents
  /\ block' = [b \in Blocks |-> [block[b] EXCEPT !.pool = Compacted[b]]]
  /\ saved' = [program |-> program, block |-> block]
  /\ status' = "running"
  /\ UNCHANGED <<program, nblist, changes>>

(* Whatever has happened since, a program reads the file; the blocks are   *)
(* spread over its ranks.                                                  *)
Restart ==
  /\ status = "running" /\ file # NoFile
  /\ \E prog \in Programs, split \in Splits :
       IF SparseFieldsMatch(file, prog)
       THEN /\ program' = prog /\ nblist' = split
            /\ block' = Rebuilt(file, prog, split)
            /\ status' = "restarted"
       ELSE /\ program' = prog /\ nblist' = split
            /\ block' = [b \in Blocks |-> NewBlock(prog)]
            /\ status' = "refused"
  /\ UNCHANGED <<file, saved, changes>>

Next == \/ \E b \in Blocks : Compute(b)
        \/ \E b \in Blocks, c \in Controllers(program) : Allocate(b, c)
        \/ \E b \in Blocks, c \in Controllers(program) : FoundZero(b, c)
        \/ \E b \in Blocks : CountDerefinement(b)
        \/ \E b \in Blocks : AddParticles(b)
        \/ \E b \in Blocks : RemoveParticle(b)
        \/ Write
        \/ Restart

Spec == Init /\ [][Next]_vars

(***************************************************************************)
(* Properties.                                                             *)
(***************************************************************************)
(* Every block has what was written, whatever ranks wrote and read it: the *)
(* data of each variable that both programs have, what is allocated, with  *)
(* the variables that are controlled but not in the file, and the counts   *)
(* that decide when storage and refinement are given up (RestartPackages,  *)
(* ReadBlocks, PackOrUnpackVar, the Mesh constructor for restarts).  Only a *)
(* program whose sparse fields are not the file's is refused: what it would *)
(* read with other ones has no place.                                      *)
FieldsRestored ==
  /\ status \in {"restarted", "refused"} =>
       LET fields(prog) == {v.label : v \in {w \in VarsOf(prog) : w.stored /\ w.sparse}}
           dense(prog) == {v.label : v \in {w \in VarsOf(prog) : w.stored /\ ~w.sparse}}
       IN (status = "restarted") = (/\ fields(program) = fields(saved.program)
                                    /\ dense(program) \cap fields(saved.program) = {})
  /\ status = "restarted" =>
    \A b \in Blocks :
      LET was == saved.block[b]
          is == block[b]
      IN /\ is.derefinement_count = was.derefinement_count
         /\ \A v \in VarsOf(program) :
              CASE v.stored /\ v \in VarsOf(saved.program) ->
                     /\ is.data[v.label] = was.data[v.label]
                     /\ is.dealloc_count[v.label] = was.dealloc_count[v.label]
                [] v.sparse /\ ~v.stored ->
                     (is.data[v.label] = NotAllocated)
                       = (was.data[v.controller] = NotAllocated)
                [] OTHER -> is.data[v.label] = Zeros(v)

(* Every particle is in the block it was in, and pools are sound           *)
(* (AllSwarmInfo, GetSwarmCounts, ReadSwarmVars_).                         *)
ParticlesRestored ==
  status = "restarted" =>
    \A b \in Blocks : /\ PoolConsistent(block[b].pool)
                      /\ Contents(block[b].pool) = Contents(saved.block[b].pool)
                      /\ NumActive(b) = saved.block[b].pool.num_active
=============================================================================
