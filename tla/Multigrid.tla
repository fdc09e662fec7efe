------------------------------ MODULE Multigrid ------------------------------
(***************************************************************************)
(* The multigrid hierarchy on an adaptive mesh (src/mesh/mesh-gmg.cpp): a  *)
(* two-level composite grid for each logical level, made of the blocks of  *)
(* the level, leaves and internal nodes of the forest, and of the leaves   *)
(* one level below; data moves between neighbours on a grid and between    *)
(* parents and daughters of consecutive grids.                             *)
(***************************************************************************)
EXTENDS GhostExchange

RECURSIVE TrailingZeros(_)
TrailingZeros(n) == IF n % 2 = 1 THEN 0 ELSE 1 + TrailingZeros(n \div 2)

GMGMinLevel   == -TrailingZeros(nx)
current_level == Max({l.level : l \in Leaves(forest)})
Levels        == GMGMinLevel .. current_level

Root(t, level) == LogicalLocation(t, level, Zero)

(* the trees also have internal nodes on negative levels, where the block  *)
(* covers its tree with fewer cells                                        *)
InternalNodes ==
  forest.internal_nodes \cup {Root(t, level) : t \in Trees(mesh), level \in GMGMinLevel - 1 .. -1}

Nodes == Leaves(forest) \cup InternalNodes

DaughtersOf(l) == IF l.level < 0 THEN {Root(l.tree, l.level + 1)} ELSE GetDaughters(l)
FirstDaughter(l) == IF l.level < 0 THEN Root(l.tree, l.level + 1)
                    ELSE LogicalLocation(l.tree, l.level + 1, [d \in DOMAIN l.lx |-> 2 * l.lx[d]])

MortonOf(l) ==
  IF l.level < 0 THEN 0
  ELSE Morton([d \in DOMAIN l.lx |-> l.lx[d] * 2 ^ (mesh.max_level - l.level)], mesh.max_level)

(* Tree::GetLeafGid, the leaf that decides on which rank a node lives *)
RECURSIVE LeafOf(_)
LeafOf(l) == IF l \in Leaves(forest) THEN l ELSE LeafOf(FirstDaughter(l))

-----------------------------------------------------------------------------
(* BuildGMGBlockLists: the internal blocks the leaf l makes, its ancestors *)
(* as far as they have its Morton number                                   *)
RECURSIVE AncestorsOf(_, _)
AncestorsOf(l, p) ==
  IF p.level < GMGMinLevel \/ MortonOf(p) # MortonOf(l) THEN {} ELSE {p} \cup AncestorsOf(l, GetParent(p))

AncestorsMade(l) == AncestorsOf(l, GetParent(l))

(* gmg_block_lists: the block, and the leaf whose rank holds it *)
BlockList(level) ==
  UNION {{[loc |-> n, leaf |-> l] : n \in {k \in {l} \cup AncestorsMade(l) :
             k.level = level \/ (k = l /\ k.level = level - 1 /\ k.level < current_level)}} :
           l \in Leaves(forest)}

Parent(l) == [loc |-> GetParent(l), origin_loc |-> GetParent(l), offsets |-> Zero]
Daughter(d) == [loc |-> d, origin_loc |-> d, offsets |-> Zero]

(* SetGMGNeighbors: parents, daughters and, for a leaf, itself *)
CoarserNeighbors(l) ==
  IF l.level > GMGMinLevel /\ GetParent(l) \in Nodes THEN {Parent(l)} ELSE {}
FinerNeighbors(l) ==
  IF l.level < current_level THEN {Daughter(d) : d \in {k \in DaughtersOf(l) : k \in Nodes}} ELSE {}
LeafNeighbors(l) ==
  IF l.level < current_level /\ FinerNeighbors(l) = {} THEN {Daughter(l)} ELSE {}

(* mutant: same-level neighbours only *)
CompositeNeighborsAtSame(level, l, o) ==
  LET there == GetSameLevelNeighbor(l, o)
      out   == NeighborTreeIndex(there)
  IN  {[loc |-> n, origin_loc |-> InverseTransform(n, l.tree, out)] : n \in Images(mesh, there) \cap Nodes}

(* FindNeighborsImpl on the composite grid of a level *)
CompositeNeighborsAt(level, l, o) ==
  LET there == GetSameLevelNeighbor(l, o)
      out   == NeighborTreeIndex(there)
      seen(n) == InverseTransform(n, l.tree, out)
      found(t) ==
        IF l.level = level
        THEN IF t \in Nodes THEN {t}
             ELSE {n \in {GetParent(t)} : n \in Leaves(forest) /\ GetSameLevelOffsets(l, seen(n)) = o}
        ELSE {n \in GetDaughters(t) : t \in InternalNodes /\ IsNeighbor(l, seen(n))}
  IN  UNION {{[loc |-> n, origin_loc |-> seen(n)] : n \in found(t)} : t \in Images(mesh, there)}

(* gmg_same_neighbors and gmg_composite_finer_neighbors *)
CompositeNeighbors(level, l) ==
  UNION {{Neighbor(l, n) : n \in CompositeNeighborsAt(level, l, o)} : o \in Around(mesh)}

-----------------------------------------------------------------------------
(* ForEachBoundary: the pairs of blocks that exchange data between the grid *)
(* of a level and the next coarser one, as seen from either of them.        *)
Up(level) ==
  UNION {{<<b.loc, n>> : n \in IF b.loc.level = level THEN CoarserNeighbors(b.loc) ELSE LeafNeighbors(b.loc)} :
           b \in BlockList(level)}
Down(level) ==
  UNION {{<<b.loc, n>> : n \in FinerNeighbors(b.loc) \cup LeafNeighbors(b.loc)} :
           b \in {c \in BlockList(level) : c.loc.level = level}}

Reversed(pairs) == {<<p[2].loc, IF p[1].level = p[2].loc.level THEN p[2] ELSE
                       [loc |-> p[1], origin_loc |-> p[1], offsets |-> Zero]>> : p \in pairs}

(* the elements l packs for its parent or daughter n and those n unpacks *)
LevelsAgree(l, n) ==
  LET back == [loc |-> l, origin_loc |-> l, offsets |-> Zero]
  IN  \A el \in {{}, Dirs(mesh)} :
        Place(l, SpaceCells(l, n, FALSE, FALSE),
              CalcIndices(l, n, FALSE, el, FALSE, "InteriorSend", FALSE))
          = Place(n.loc, SpaceCells(n.loc, back, FALSE, FALSE),
                  CalcIndices(n.loc, back, FALSE, el, FALSE, "InteriorRecv", FALSE))

(* Each node of the forest is made once, by the leaf on whose rank its     *)
(* neighbours look for it; a grid holds the nodes of its level and the     *)
(* leaves one level below, and knows no neighbour that it does not hold;   *)
(* what is sent within a grid, or between two, is expected at the other    *)
(* end, with as many elements in the same place; the daughters' parts      *)
(* cover their parent once.                                                *)
MultigridLevelsFit ==
  Exchanging =>
    \A level \in Levels :
      LET blocks == {b.loc : b \in BlockList(level)}
          near   == [l \in blocks |-> CompositeNeighbors(level, l)]
      IN  /\ blocks = {n \in Nodes : n.level = level} \cup {l \in Leaves(forest) : l.level = level - 1}
          /\ \A b \in BlockList(level) : b.leaf = LeafOf(b.loc)
          /\ \A l \in blocks : \A n \in near[l] :
               /\ n.loc \in blocks
               /\ LET there == {r \in near[n.loc] : ReceiveKey(n.loc, r) = SendKey(l, n)}
                  IN  Cardinality(there) = 1 /\ \A r \in there : EndsAgree(l, n, r)
          /\ level > GMGMinLevel =>
               /\ Up(level) = Reversed(Down(level - 1))
               /\ \A p \in Up(level) \cup Down(level - 1) : LevelsAgree(p[1], p[2])
               /\ \A b \in {c \in BlockList(level - 1) : c.loc.level = level - 1} :
                    MapThenSumSet(LAMBDA n : Volume(CalcIndices(b.loc, n, FALSE, {}, FALSE, "InteriorRecv", FALSE)),
                                  FinerNeighbors(b.loc) \cup LeafNeighbors(b.loc))
                      = BlockCells(b.loc, FALSE) ^ mesh.ndim
=============================================================================
