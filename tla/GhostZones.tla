----------------------------- MODULE GhostZones -----------------------------
(***************************************************************************)
(* Which elements of a block travel to which neighbour: index spaces       *)
(* (src/mesh/domain.hpp), the ranges that are sent, received, restricted   *)
(* and prolongated (bvals/comms/bnd_info.cpp), the block that owns a       *)
(* shared face, edge or node (mesh/forest/block_ownership.cpp), the keys   *)
(* of the messages (bvals/comms/tag_map.cpp) and the physical boundaries   *)
(* (bvals/boundary_conditions.cpp), on a forest of blocks.                 *)
(*                                                                         *)
(* A topological element is the set of directions in which it lies between *)
(* cells: {} is CC, {1} is F1, {1, 2} is E3 and, in two dimensions, NN.    *)
(* A range has an entry [s, e] for each direction.                         *)
(***************************************************************************)
EXTENDS Forest

CONSTANTS
  nx,        \* cells of a block in each direction
  nghost     \* depth of the ghost zones

ASSUME BlockSizeAssumption == nx % 2 = 0 /\ nghost % 2 = 0 /\ nx >= 2 * nghost

Odd(n)        == n % 2 = 1
Top(el, d)    == IF d \in el THEN 1 ELSE 0
Interval(s, e) == [s |-> s, e |-> e]

(* IndexShape::GetBoundsI, J and K of a block with n cells *)
Interior(n, el, d) == Interval(nghost, nghost + n - 1 + Top(el, d))
Entire(n, el, d)   == Interval(0, n + 2 * nghost - 1 + Top(el, d))
Inner(n, el, d)    == Interval(0, nghost - 1)
Outer(n, el, d)    == Interval(nghost + n + Top(el, d), n + 2 * nghost - 1 + Top(el, d))
Length(r)          == IF r.s > r.e THEN 0 ELSE r.e - r.s + 1

-----------------------------------------------------------------------------
(* The list of neighbours of a block, with SetMeshBlockNeighbors' fields *)

Shift(a, b) == 2 ^ (IF a.level > b.level THEN a.level - b.level ELSE 0)

(* GetSameLevelOffsets: both locations coarsened to the coarser level *)
OffsetsTo(l, n) ==
  [d \in DOMAIN l.lx |-> (n.lx[d] \div Shift(n, l)) - (l.lx[d] \div Shift(l, n))]

Around(m) == Offsets(m) \ {[d \in Dirs(m) |-> 0]}

Neighbor(l, n) ==
  [loc |-> n.loc, origin_loc |-> n.origin_loc, offsets |-> OffsetsTo(l, n.origin_loc)]

FindNeighbors(m, f, l) ==
  UNION {{Neighbor(l, n) : n \in NeighborsAt(m, f, l, o)} : o \in Around(m)}

(* IsNeighborOfTE: the location in reaches the element of l at te_offset *)
IsNeighborOfTE(l, in, te_offset) ==
  \A d \in DOMAIN l.lx :
    LET size    == Shift(in, l)
        size_in == Shift(l, in)
        first   == l.lx[d] * size
        last    == first + size - 1
        low  == CASE te_offset[d] = -1 -> first - 1 [] te_offset[d] = 0 -> first [] OTHER -> last
        high == CASE te_offset[d] = -1 -> first [] te_offset[d] = 0 -> last [] OTHER -> last + 1
    IN  /\ high >= in.lx[d] * size_in
        /\ low  <= in.lx[d] * size_in + size_in - 1

(* DetermineOwnership's order: a block refined in this cycle comes after   *)
(* its old neighbours of the same level, then tree and Morton number count *)
OwnershipLevel(l, newly_refined) == 2 * l.level - (IF l \in newly_refined THEN 1 ELSE 0)

OwnershipLessThan(m, a, b, newly_refined) ==
  LET la == OwnershipLevel(a, newly_refined)
      lb == OwnershipLevel(b, newly_refined)
      place(l) == Morton([d \in DOMAIN l.lx |-> l.lx[d] * 2 ^ (m.max_level - l.level)], m.max_level)
  IN  IF la /= lb THEN la < lb
      ELSE IF a.tree /= b.tree THEN Morton(a.tree, 2) < Morton(b.tree, 2)
      ELSE place(a) < place(b)

(* mutant: blocks of one level have no order between them *)
DetermineOwnershipByLevel(m, l, neighbors, newly_refined) ==
  [o \in Offsets(m) |->
     ~\E n \in neighbors : /\ OwnershipLevel(l, newly_refined) < OwnershipLevel(n.loc, newly_refined)
                           /\ IsNeighborOfTE(l, n.origin_loc, o)]

(* the elements of the block's surface that the block owns *)
DetermineOwnership(m, l, neighbors, newly_refined) ==
  [o \in Offsets(m) |->
     ~\E n \in neighbors : /\ OwnershipLessThan(m, l, n.loc, newly_refined)
                           /\ IsNeighborOfTE(l, n.origin_loc, o)]

(* GetIndexRangeMaskFromOwnership: what an element inherits from the sides  *)
(* of its block, and the inward ends of the range, which are always interior *)
MaskFromOwnership(el, owns, side) ==
  [o \in DOMAIN owns |->
     owns[[d \in DOMAIN o |-> IF d \notin el \/ o[d] = -side[d] THEN 0 ELSE o[d]]]]

(* SpatiallyMaskedIndexer::IsActive *)
IsActive(mask, range, index) ==
  mask[[d \in DOMAIN index |-> (IF index[d] = range[d].e THEN 1 ELSE 0)
                                 - (IF index[d] = range[d].s THEN 1 ELSE 0)]]

-----------------------------------------------------------------------------
(* CalcIndices.  kind is one of "BoundaryInteriorSend", "BoundaryExteriorRecv" *)
(* for neighbours at a side and "InteriorSend", "InteriorRecv" for the parent  *)
(* and the daughters on the multigrid levels.                                  *)

BlockCells(l, fine) ==
  (IF fine THEN 2 * nx ELSE nx) \div 2 ^ (IF l.level < 0 THEN -l.level ELSE 0)

(* the cells of the index space the ranges refer to: the coarse buffer's if *)
(* the neighbour is coarser or data is restricted or prolongated            *)
SpaceCells(l, n, fine, prores) ==
  BlockCells(l, fine) \div (IF prores \/ n.loc.level < l.level THEN 2 ELSE 1)

SendDepth(kind) == IF kind = "BoundaryInteriorSend" THEN nghost ELSE 0

RecvDepth(kind, prores) ==
  IF kind # "BoundaryExteriorRecv" THEN 0 ELSE IF prores THEN nghost \div 2 ELSE nghost

(* what a finer neighbour does not get of the half it lacks *)
Cut(half, kind) == half - SendDepth(kind)

(* in a direction without offset: all of the block, the half that a finer   *)
(* neighbour covers and some more to prolongate from, or what a coarser one *)
(* sends beyond the block's end; parents pass their daughters' coarse       *)
(* ghosts along.  half is the width the neighbour lacks.                    *)
Along(l, n, b, half, kind, prores, d) ==
  LET at(odd, x) == IF odd THEN <<x, 0>> ELSE <<0, x>>
      inwards == IF l.level < n.origin_loc.level THEN at(Odd(n.origin_loc.lx[d]), Cut(half, kind))
                 ELSE IF l.level > n.origin_loc.level THEN at(Odd(l.lx[d]), -RecvDepth(kind, prores))
                 ELSE <<0, 0>>
      passing == \/ kind = "InteriorSend" /\ l.level < n.origin_loc.level
                 \/ kind = "InteriorRecv" /\ l.level > n.origin_loc.level
      ghosts  == IF passing /\ ~prores THEN nghost
                 ELSE IF prores /\ kind = "InteriorRecv" THEN nghost \div 2 ELSE 0
  IN  Interval(b.s + inwards[1] - ghosts, b.e - inwards[2] + ghosts)

CalcIndices(l, n, fine, el, flux, kind, prores) ==
  [d \in DOMAIN l.lx |->
     LET b    == Interior(SpaceCells(l, n, fine, prores), el, d)
         nb   == Interior(BlockCells(n.loc, fine) \div (IF n.loc.level > l.level THEN 2 ELSE 1), el, d)
         out  == RecvDepth(kind, prores)
     IN  CASE n.offsets[d] = 0 -> Along(l, n, b, (b.e - b.s) - (nb.e - nb.s), kind, prores, d)
           [] n.offsets[d] > 0 -> Interval(b.e + (IF flux THEN 0 ELSE 1 - SendDepth(kind) - Top(el, d)),
                                           b.e + (IF flux THEN 0 ELSE out))
           [] n.offsets[d] < 0 -> Interval(b.s - (IF flux THEN 0 ELSE out),
                                           b.s + (IF flux THEN 0 ELSE SendDepth(kind) - 1 + Top(el, d)))]

(* the mask of a range that is received: the side of the sender it lies at, *)
(* where a coarser sender passes a corner of its cells and no whole side    *)
ReceiveMask(l, n, el, owns) ==
  MaskFromOwnership(el, owns,
    [d \in DOMAIN l.lx |->
       IF n.offsets[d] = 0 /\ n.origin_loc.level < l.level
       THEN IF Odd(l.lx[d]) THEN 1 ELSE -1
       ELSE -n.offsets[d]])

(* ProlongateShared and RestrictAverage: the fine cells of a coarse range *)
FineRange(range) ==
  [d \in DOMAIN range |-> Interval((range[d].s - nghost) * 2 + nghost, (range[d].e - nghost) * 2 + nghost + 1)]

(* GetBlockBCs: a block has a physical boundary where its tree has one *)
AtBoundary(m, l, d, side) ==
  /\ ~m.periodic[d]
  /\ l.tree[d] = (IF side < 0 THEN 0 ELSE m.ntree[d] - 1)
  /\ l.lx[d] = (IF side < 0 THEN 0 ELSE Extent(l) - 1)

(* the elements of a block, or its coarse buffer, that no boundary function *)
(* sets                                                                     *)
InDomain(m, l, cells, el) ==
  [d \in Dirs(m) |->
     Interval(IF AtBoundary(m, l, d, -1) THEN Inner(cells, el, d).e + 1 ELSE Entire(cells, el, d).s,
              IF AtBoundary(m, l, d, 1) THEN Outer(cells, el, d).s - 1 ELSE Entire(cells, el, d).e)]

(* GenericBC, outflow, one direction after the other: where a cell outside *)
(* of the range r gets its value from                                      *)
OutflowSource(i, r) == [d \in DOMAIN i |-> Max({r[d].s, Min({r[d].e, i[d]})})]

(* ForEachBoundary: fluxes go to the coarser side of a refinement boundary *)
CorrectsFlux(l, n) == n.loc.level = l.level - 1

(* GetFluxCorrectionElements of a field on faces; an edge field in the plane *)
(* has one component, which lies at the corners of the cells                 *)
FluxCorrectionElements(offsets) ==
  LET off == {d \in DOMAIN offsets : offsets[d] # 0}
  IN  (IF Cardinality(off) = 1 THEN {off} ELSE {}) \cup {DOMAIN offsets}

(* TagMap::MakeChannelPair: both ends of a message find the same key *)
OffsetIdx(o) == MapThenSumSet(LAMBDA d : (o[d] + 1) * 3 ^ (d - 1), DOMAIN o)
ReverseIdx(o) == OffsetIdx([d \in DOMAIN o |-> -o[d]])
MakeChannelPair(l, n) == {<<l, OffsetIdx(n.offsets)>>, <<n.loc, ReverseIdx(n.offsets)>>}

(* bvals_utils.hpp: the key of the buffer that l sends to n, and of the one *)
(* it receives from n                                                       *)
SendKey(l, n)    == [sender |-> l, receiver |-> n.loc, at |-> OffsetIdx(n.offsets)]
ReceiveKey(l, n) == [sender |-> n.loc, receiver |-> l, at |-> ReverseIdx(n.offsets)]
=============================================================================
