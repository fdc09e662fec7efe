----------------------------- MODULE PackLayouts -----------------------------
(***************************************************************************)
(* Where a pack keeps the arrays of its variables: a VariablePack with its *)
(* map from names to index ranges (variable_pack.hpp), and a SparsePack    *)
(* with its bounds per block and group (sparse_pack_base.cpp), as kernels  *)
(* reach them through the accessors.                                       *)
(*                                                                         *)
(* A variable is [label, base, id, dims, top, fluxes], with dims the       *)
(* extents of its tensor indices, slowest first, and id NoSparseID when it *)
(* is dense.  An array is named by what it is of:                          *)
(* <<block, label, "data" or "coarse" or "flux", element, tensor index>>.  *)
(***************************************************************************)
EXTENDS LoopIndices
LOCAL INSTANCE Integers
LOCAL INSTANCE Sequences
LOCAL INSTANCE FiniteSets
LOCAL INSTANCE FiniteSetsExt
LOCAL INSTANCE Functions
LOCAL INSTANCE SequencesExt

NoSparseID == -1
NoView     == <<>>

TensorBounds(v) == [d \in 1 .. 3 |-> <<0, v.dims[d] - 1>>]
NumComponents(v) == ItemCount(TensorBounds(v))
Component(v, n) == GetIndices(TensorBounds(v), n)

IsFaceOrEdge(v) == v.top \in {"Face", "Edge"}
Elements(v)     == IF IsFaceOrEdge(v) THEN 0 .. 2 ELSE {0}
IsSparseVar(v)  == v.id # NoSparseID

SizeOf(vars) == MapThenSumSet(LAMBDA n : NumComponents(vars[n]), DOMAIN vars)
StartOf(vars, n) == SizeOf(SubSeq(vars, 1, n - 1))

(* the variable and the component at an index of a list of variables *)
Holder(vars, idx) == CHOOSE n \in DOMAIN vars :
  StartOf(vars, n) <= idx /\ idx < StartOf(vars, n) + NumComponents(vars[n])
ComponentAt(vars, idx) ==
  LET n == Holder(vars, idx) IN Component(vars[n], idx - StartOf(vars, n))

-----------------------------------------------------------------------------
(* VariablePack.  `on' are the labels that are allocated on block b.       *)
FillVarView(vars, b, on, coarse) ==
  LET vsize == SizeOf(vars)
      view(x) ==
        LET idx == x % vsize
            el  == x \div vsize
            v   == vars[Holder(vars, idx)]
        IN  IF v.label \in on /\ el \in Elements(v)
            THEN <<b, v.label, IF coarse THEN "coarse" ELSE "data", el, ComponentAt(vars, idx)>>
            ELSE NoView
      extra == \E n \in DOMAIN vars : IsFaceOrEdge(vars[n])
  IN  [x \in 0 .. (IF extra THEN 3 ELSE 1) * vsize - 1 |-> view(x)]

(* the labels' ranges; a base name has that of the first run of variables  *)
(* with the name                                                           *)
LabelRange(vars, n) == <<StartOf(vars, n), StartOf(vars, n) + NumComponents(vars[n]) - 1>>

RunEnd(vars, n) ==
  Max({m \in n .. Len(vars) : \A k \in n .. m : vars[k].base = vars[n].base})

AppendSparseBaseMap(vars) ==
  LET first(base) == Min({n \in DOMAIN vars : vars[n].base = base /\ IsSparseVar(vars[n])})
  IN  [base \in {vars[n].base : n \in {k \in DOMAIN vars : IsSparseVar(vars[k])}} |->
         <<LabelRange(vars, first(base))[1],
           LabelRange(vars, RunEnd(vars, first(base)))[2]>>]

(* FlatIdx: the shape lists the fastest index first *)
FlatIdx(v, offset, t) == offset + t[3] + v.dims[3] * (t[2] + v.dims[2] * t[1])

PackAt(pack, vars, el, n) == pack[el * SizeOf(vars) + n]

(* the fluxes of the variables that have them, by direction; the flux of a *)
(* face variable lives on edges                                            *)
FluxVars(vars) == SelectSeq(vars, LAMBDA v : v.fluxes)
FillFluxViews(vars, b, on, ndim) ==
  [dir \in 1 .. 3 |-> [n \in 0 .. SizeOf(FluxVars(vars)) - 1 |->
     LET v == FluxVars(vars)[Holder(FluxVars(vars), n)]
         filled == IF v.top = "Face" THEN IF dir = 3 THEN ndim >= 2 ELSE ndim >= 3
                   ELSE dir <= ndim
     IN  IF v.label \in on /\ filled
         THEN <<b, v.label, "flux", dir - 1, ComponentAt(FluxVars(vars), n)>>
         ELSE NoView]]

-----------------------------------------------------------------------------
(* SparsePack.  A descriptor has one group of variables for each name it   *)
(* was asked for; fields are in the order of their names and sparse ids.   *)
BuildUids(fields, names) ==
  [i \in DOMAIN names |->
     SelectSeq(fields, LAMBDA v : v.label = names[i] \/ (v.base = names[i] /\ IsSparseVar(v)))]

Descriptor(fields, names, with_fluxes, coarse, flat) ==
  [groups |-> BuildUids(fields, names), with_fluxes |-> with_fluxes, coarse |-> coarse,
   flat |-> flat]

(* composite grids: only the blocks of the finer level are included *)
Included(blocks, fine_level) == SelectSeq(blocks, LAMBDA k : k.level = fine_level)

Present(group, block) == SelectSeq(group, LAMBDA v : v.label \in block.on)
OnBlock(desc, block)  == FlattenSeq([i \in DOMAIN desc.groups |-> Present(desc.groups[i], block)])
AllPresent(desc, blocks) ==
  UNION {Range(OnBlock(desc, blocks[b])) : b \in DOMAIN blocks}

FaceWithFluxes(desc, blocks) ==
  desc.with_fluxes /\ \E v \in AllPresent(desc, blocks) : v.top = "Face" /\ v.fluxes

FluxIdx(desc, blocks)    == IF FaceWithFluxes(desc, blocks) THEN 3 ELSE 1
LeadingDim(desc, blocks) ==
  IF FaceWithFluxes(desc, blocks) THEN 6
  ELSE IF desc.with_fluxes THEN 4
  ELSE IF \E v \in AllPresent(desc, blocks) : IsFaceOrEdge(v) THEN 3 ELSE 1

(* A mutated form: the index starts anew on every block of a flat pack. *)
FirstIdxNotFlat(desc, blocks, b) == 0

(* the first index of a block *)
FirstIdx(desc, blocks, b) ==
  IF desc.flat
  THEN MapThenSumSet(LAMBDA c : SizeOf(OnBlock(desc, blocks[c])), 1 .. b - 1)
  ELSE 0

GroupStart(desc, blocks, b, i) ==
  FirstIdx(desc, blocks, b)
    + SizeOf(FlattenSeq([g \in 1 .. i - 1 |-> Present(desc.groups[g], blocks[b])]))

(* bounds_: a group of which a block has nothing has an empty range *)
Bounds(desc, blocks, b, i) ==
  LET start == GroupStart(desc, blocks, b, i)
      size  == SizeOf(Present(desc.groups[i], blocks[b]))
  IN  IF size = 0 THEN <<-1, -2>> ELSE <<start, start + size - 1>>
LastIdx(desc, blocks, b) == FirstIdx(desc, blocks, b) + SizeOf(OnBlock(desc, blocks[b])) - 1

(* what Build stores for the idx-th array of a block: the arrays of the    *)
(* elements, and over them those of the fluxes                             *)
Slot(desc, blocks, b, l, idx) ==
  LET vars == OnBlock(desc, blocks[b])
      at   == idx - FirstIdx(desc, blocks, b)
      v    == vars[Holder(vars, at)]
      comp == ComponentAt(vars, at)
      dir  == l - FluxIdx(desc, blocks)
      name == blocks[b].name
  IN  IF desc.with_fluxes /\ v.fluxes /\ dir \in (IF v.top = "Edge" THEN {0} ELSE 0 .. 2)
      THEN <<name, v.label, "flux", dir, comp>>
      ELSE IF l \in Elements(v)
      THEN <<name, v.label, IF desc.coarse THEN "coarse" ELSE "data", l, comp>> ELSE NoView

Build(desc, blocks) ==
  LET range(b) == FirstIdx(desc, blocks, b) .. LastIdx(desc, blocks, b)
      place(b, idx) == <<IF desc.flat THEN 1 ELSE b, idx>>
      filled == {<<b, place(b, idx)>> : <<b, idx>> \in
                   UNION {{b} \X range(b) : b \in DOMAIN blocks}}
  IN  [bounds |-> [b \in DOMAIN blocks |->
                     [i \in DOMAIN desc.groups |-> Bounds(desc, blocks, b, i)]],
       last   |-> [b \in DOMAIN blocks |-> LastIdx(desc, blocks, b)],
       pack   |-> [l \in 0 .. LeadingDim(desc, blocks) - 1 |->
                     [p \in {f[2] : f \in filled} |->
                        LET b == CHOOSE c \in DOMAIN blocks : <<c, p>> \in filled
                        IN  Slot(desc, blocks, b, l, p[2])]],
       flat |-> desc.flat, flx_idx |-> FluxIdx(desc, blocks)]

(* the accessors *)
GetLowerBound(sp, b)    == IF sp.flat /\ b > 1 THEN sp.last[b - 1] + 1 ELSE 0
GetUpperBound(sp, b)    == sp.last[b]
HasGroup(sp, b, i)      == sp.bounds[b][i][2] >= 0
At(sp, b, el, idx)      == sp.pack[el][<<IF sp.flat THEN 1 ELSE b, idx>>]
Flux(sp, b, dir, idx)   == sp.pack[dir - 1 + sp.flx_idx][<<IF sp.flat THEN 1 ELSE b, idx>>]

-----------------------------------------------------------------------------
(* A name leads to the arrays of its variable, component by component, and *)
(* to all of a sparse pool's when its variables are listed together; a     *)
(* flux has the index of its variable as long as no variable without one   *)
(* comes before it.  Not for edge variables: their fluxes have one element *)
(* and FillFluxViews takes three.                                          *)
VariablePackRight(vars, on, ndim) ==
  LET pack  == FillVarView(vars, 1, on, FALSE)
      flux  == FillFluxViews(vars, 1, on, ndim)
      bases == AppendSparseBaseMap(vars)
  IN  /\ \A n \in DOMAIN vars : \A t \in AllIndices(TensorBounds(vars[n])) :
           LET v   == vars[n]
               idx == FlatIdx(v, LabelRange(vars, n)[1], t)
           IN  /\ idx <= LabelRange(vars, n)[2]
               /\ \A el \in Elements(v) :
                    PackAt(pack, vars, el, idx)
                      = IF v.label \in on THEN <<1, v.label, "data", el, t>> ELSE NoView
               /\ v.fluxes /\ v.top # "Edge" /\ v.label \in on /\ (\A m \in 1 .. n : vars[m].fluxes) =>
                    \A dir \in 1 .. ndim :
                      flux[dir][idx] \in {NoView, <<1, v.label, "flux", dir - 1, t>>}
      /\ \A base \in DOMAIN bases :
           LET of == {n \in DOMAIN vars : vars[n].base = base}
           IN  of = Min(of) .. Max(of) =>
                 bases[base] = <<LabelRange(vars, Min(of))[1], LabelRange(vars, Max(of))[2]>>

(* The range of a group on a block holds the components of what the block  *)
(* has of it, in order, and nothing else; the ranges of the groups make up *)
(* that of the block; elements and fluxes are where the accessors look.    *)
(* Not for edge variables with fluxes, whose flux is stored over an        *)
(* element unless a face variable with fluxes is in the pack.              *)
SparsePackRight(desc, blocks) ==
  LET sp == Build(desc, blocks)
      edges == \E v \in AllPresent(desc, blocks) : v.top = "Edge" /\ v.fluxes
  IN  ~(desc.with_fluxes /\ desc.coarse) /\ (edges => FaceWithFluxes(desc, blocks)) =>
      \A b \in DOMAIN blocks :
        /\ UNION {sp.bounds[b][i][1] .. sp.bounds[b][i][2] : i \in DOMAIN desc.groups}
             = GetLowerBound(sp, b) .. GetUpperBound(sp, b)
        /\ \A i \in DOMAIN desc.groups :
             LET vars == Present(desc.groups[i], blocks[b])
                 lo   == sp.bounds[b][i][1]
             IN  /\ HasGroup(sp, b, i) <=> vars # <<>>
                 /\ sp.bounds[b][i][2] - lo + 1 = SizeOf(vars)
                 /\ \A n \in 0 .. SizeOf(vars) - 1 :
                      LET v == vars[Holder(vars, n)]
                          array(kind, el) == <<blocks[b].name, v.label, kind, el, ComponentAt(vars, n)>>
                      IN  /\ \A el \in Elements(v) :
                               At(sp, b, el, lo + n) = array(IF desc.coarse THEN "coarse" ELSE "data", el)
                          /\ desc.with_fluxes /\ v.fluxes =>
                               \A dir \in IF v.top = "Edge" THEN {1} ELSE 1 .. 3 :
                                 Flux(sp, b, dir, lo + n) = array("flux", dir - 1)
=============================================================================
