------------------------------- MODULE Forest -------------------------------
(***************************************************************************)
(* The forest of trees that holds the mesh (src/mesh/forest/forest.cpp,    *)
(* tree.cpp, logical_location.cpp), for hyper-rectangular meshes: every    *)
(* tree covers a box of the domain, all of them have the same orientation. *)
(*                                                                         *)
(* A mesh is [ndim, ntree, periodic, root_level, max_level, threshold,     *)
(* regions]; ntree and periodic have an entry for each direction, regions  *)
(* are those of static refinement.  A forest is                            *)
(* [leaves, internal_nodes]; leaves holds the location of each MeshBlock   *)
(* with its gid.  The code keeps the previous gid next to it: here it is   *)
(* the gid before ResolveGids.                                             *)
(***************************************************************************)
EXTENDS Integers, Sequences, SequencesExt

LogicalLocation(tree, level, lx) == [tree |-> tree, level |-> level, lx |-> lx]

(* Op(x): this form makes TLC evaluate x once, before Op *)
Strict(Op(_), x) == CHOOSE y \in {Op(v) : v \in {x}} : TRUE

Dirs(m)    == 1 .. m.ndim
Offsets(m) == [Dirs(m) -> -1 .. 1]
Trees(m)   == {t \in [Dirs(m) -> 0 .. Max(Range(m.ntree)) - 1] :
                 \A d \in Dirs(m) : t[d] < m.ntree[d]}
Extent(l)  == 2 ^ (IF l.level > 0 THEN l.level ELSE 0)

(* in level 0 and below the parent lies at the same position *)
GetParent(l) ==
  [l EXCEPT !.level = @ - 1,
            !.lx = IF l.level > 0 THEN [d \in DOMAIN @ |-> @[d] \div 2] ELSE @]

GetDaughters(l) ==
  {LogicalLocation(l.tree, l.level + 1, [d \in DOMAIN l.lx |-> 2 * l.lx[d] + o[d]]) :
     o \in [DOMAIN l.lx -> 0 .. 1]}

GetSameLevelNeighbor(l, o) == [l EXCEPT !.lx = [d \in DOMAIN @ |-> @[d] + o[d]]]

(* the direction in which a location lies outside of its tree *)
NeighborTreeIndex(l) ==
  [d \in DOMAIN l.lx |-> IF l.lx[d] < 0 THEN -1 ELSE IF l.lx[d] >= Extent(l) THEN 1 ELSE 0]

(* HyperRectangular connects a tree to those next to it, and across        *)
(* periodic boundaries to the other end                                    *)
NeighborTree(m, t, o) == [d \in Dirs(m) |-> (t[d] + o[d]) % m.ntree[d]]

Connected(m, t, o) ==
  \A d \in Dirs(m) : t[d] + o[d] \in 0 .. m.ntree[d] - 1 \/ m.periodic[d]

(* LogicalCoordinateTransformation::Transform, to the tree in direction o, *)
(* and InverseTransform, back to tree t                                    *)
Transform(m, l, o) ==
  LogicalLocation(NeighborTree(m, l.tree, o), l.level,
                  [d \in Dirs(m) |-> l.lx[d] - o[d] * Extent(l)])
InverseTransform(l, t, o) ==
  LogicalLocation(t, l.level, [d \in DOMAIN l.lx |-> l.lx[d] + o[d] * Extent(l)])

(* the locations in the forest for one that may lie outside of its tree *)
Images(m, l) ==
  LET o == NeighborTreeIndex(l)
  IN  IF Connected(m, l.tree, o) THEN {Transform(m, l, o)} ELSE {}

-----------------------------------------------------------------------------
Leaves(f)    == {e.loc : e \in f.leaves}
Entry(l, g)  == [loc |-> l, gid |-> g]
Entries(f, ls) == {e \in f.leaves : e.loc \in ls}

NewForest(m) ==
  LET level(l) == {LogicalLocation(t, l, x) : t \in Trees(m), x \in [Dirs(m) -> 0 .. 2 ^ l - 1]}
  IN  [leaves         |-> {Entry(l, -1) : l \in level(m.root_level)},
       internal_nodes |-> UNION {level(l) : l \in 0 .. m.root_level - 1}]

(* Refine's neighbours, of the size of the parent, on the side of l *)
ParentNeighbors(m, l) ==
  LET p == GetParent(l)
      side == [d \in Dirs(m) |-> l.lx[d] - 2 * p.lx[d]]
  IN  UNION {Images(m, GetSameLevelNeighbor(p, [d \in Dirs(m) |-> i[d] + side[d] - 1])) :
               i \in [Dirs(m) -> 0 .. 1]}

(* the daughters inherit the gid *)
Split(f, l) ==
  [leaves |-> UNION {(f.leaves \ {e}) \cup {Entry(d, e.gid) : d \in GetDaughters(l)} :
                       e \in Entries(f, {l})},
   internal_nodes |-> f.internal_nodes \cup {l}]

(* Tree::Refine, with and without enforce_proper_nesting *)
RECURSIVE Refine(_, _, _, _)
Refine(m, f, l, nesting) ==
  IF l \notin Leaves(f) THEN f
  ELSE IF ~nesting THEN Split(f, l)
  ELSE FoldSet(LAMBDA n, g : Strict(LAMBDA h : Refine(m, h, n, TRUE), g),
               Split(f, l), ParentNeighbors(m, l))

(* mutant: only the parent is refined, and only if it is there *)
AddMeshBlockParent(m, f, l, nesting) == Refine(m, f, GetParent(l), nesting)

(* Tree::AddMeshBlock: refine the leaf that contains l down to it *)
RECURSIVE AddMeshBlock(_, _, _, _)
AddMeshBlock(m, f, l, nesting) ==
  IF l.level < 0 \/ l \in Leaves(f) \cup f.internal_nodes THEN f
  ELSE Strict(LAMBDA g : Refine(m, g, GetParent(l), nesting),
              AddMeshBlock(m, f, GetParent(l), nesting))

(* mutant: only the neighbours at faces are looked at *)
RemovableFaces(m, f, d) ==
  /\ d \in Leaves(f)
  /\ \A o \in Offsets(m) : Cardinality({i \in Dirs(m) : o[i] /= 0}) = 1 =>
       Images(m, GetSameLevelNeighbor(d, o)) \cap f.internal_nodes = {}

(* A block may be removed if no neighbour of its size has been refined. *)
Removable(m, f, d) ==
  /\ d \in Leaves(f)
  /\ \A o \in Offsets(m) : Images(m, GetSameLevelNeighbor(d, o)) \cap f.internal_nodes = {}

(* Tree::Derefine: the daughters of p give way to p *)
Derefine(m, f, p) ==
  IF \E d \in GetDaughters(p) : ~Removable(m, f, d) THEN f
  ELSE LET old == Entries(f, GetDaughters(p))
       IN  [leaves |-> (f.leaves \ old) \cup {Entry(p, Min({e.gid : e \in old}))},
            internal_nodes |-> f.internal_nodes \ {p}]

-----------------------------------------------------------------------------
(* IsNeighbor: b touches or overlaps a, both at their place around a's tree *)
IsNeighbor(a, b) ==
  LET level    == Max({a.level, b.level})
      size(l)  == 2 ^ (level - l.level)
      low(l, d) == l.lx[d] * size(l)
  IN  \A d \in DOMAIN a.lx : /\ low(b, d) <= low(a, d) + size(a)
                             /\ low(b, d) + size(b) >= low(a, d)

(* GetSameLevelOffsets, for a neighbour n that is not finer than l *)
GetSameLevelOffsets(l, n) == [d \in DOMAIN l.lx |-> n.lx[d] - l.lx[d] \div 2 ^ (l.level - n.level)]

(* Tree::FindNeighborsImpl on the leaf grid: the neighbours of l in        *)
(* direction o, where they are and where they appear to be seen from l     *)
NeighborsAt(m, f, l, o) ==
  LET there == GetSameLevelNeighbor(l, o)
      out   == NeighborTreeIndex(there)
      seen(n) == InverseTransform(n, l.tree, out)
      found(t) ==
        IF t \in Leaves(f) THEN {t}
        ELSE IF t \in f.internal_nodes THEN {n \in GetDaughters(t) : IsNeighbor(l, seen(n))}
        ELSE {n \in {GetParent(t)} : n \in Leaves(f) /\ GetSameLevelOffsets(l, seen(n)) = o}
  IN  UNION {{[loc |-> n, origin_loc |-> seen(n)] : n \in found(t)} : t \in Images(m, there)}

-----------------------------------------------------------------------------
(* the position along the Z-order curve; bits bounds the coordinates *)
Morton(x, bits) ==
  MapThenSumSet(LAMBDA p : ((x[p[2]] \div 2 ^ p[1]) % 2) * 2 ^ (p[1] * Len(x) + p[2] - 1),
                (0 .. bits - 1) \X DOMAIN x)

(* Tree::GetSortedMeshBlockList of all trees, by operator<: HyperRectangular *)
(* numbers the trees in Z-order, a tree's blocks are in Z-order within it    *)
GetMeshBlockList(m, f) ==
  LET within(l) == Morton([d \in DOMAIN l.lx |-> l.lx[d] * 2 ^ (m.max_level - l.level)], m.max_level)
      place(l)  == Morton(l.tree, 2) * 2 ^ (m.ndim * m.max_level) + within(l)
      sorted(places) ==
        LET ranks == {[n |-> Cardinality({q \in places : q.place <= p.place}), loc |-> p.loc] : p \in places}
        IN  [n \in 1 .. Cardinality(places) |-> (CHOOSE r \in ranks : r.n = n).loc]
  IN  Strict(sorted, {[place |-> place(l), loc |-> l] : l \in Leaves(f)})

(* GetMeshBlockListAndResolveGids: each leaf gets its place in the list *)
ResolveGids(f, list) ==
  [f EXCEPT !.leaves = {Entry(list[n], n - 1) : n \in DOMAIN list}]

(* mutant: one old block too many for a derefined one *)
OldToNewShifted(newtoold, nbtold, nleaf) ==
  LET entry(n) ==
        CASE newtoold[n] = newtoold[n - 1] + 1     -> <<n - 1>>
          [] newtoold[n] = newtoold[n - 1] + nleaf -> [j \in 1 .. nleaf |-> n - 2] \o <<n - 1>>
          [] OTHER                                 -> <<>>
      start == FoldLeft(LAMBDA s, n : s \o entry(n + 1), <<0>>,
                        [n \in 1 .. Len(newtoold) - 1 |-> n])
  IN  start \o [j \in 1 .. nbtold - Len(start) |-> Len(newtoold) - 1]

(* oldtonew of RedistributeAndRefineMeshBlocks, for nbtold old blocks: the *)
(* list is filled along newtoold, a new block that skips nleaf old ones    *)
(* follows one that was derefined                                          *)
OldToNew(newtoold, nbtold, nleaf) ==
  LET entry(n) ==
        CASE newtoold[n] = newtoold[n - 1] + 1     -> <<n - 1>>
          [] newtoold[n] = newtoold[n - 1] + nleaf -> [j \in 1 .. nleaf - 1 |-> n - 2] \o <<n - 1>>
          [] OTHER                                 -> <<>>
      start == FoldLeft(LAMBDA s, n : s \o entry(n + 1), <<0>>,
                        [n \in 1 .. Len(newtoold) - 1 |-> n])
  IN  start \o [j \in 1 .. nbtold - Len(start) |-> Len(newtoold) - 1]

=============================================================================
