--------------------------- MODULE MeshAdaptation ---------------------------
(***************************************************************************)
(* The refinement cycle of an adaptive mesh: the criteria tag the blocks   *)
(* (MeshRefinement::SetRefinement), UpdateMeshBlockTree refines and        *)
(* derefines the forest, RedistributeAndRefineMeshBlocks numbers the       *)
(* blocks of the new forest; between two cycles the run may be restarted   *)
(* from its list of blocks.                                                *)
(*                                                                         *)
(* Every rank holds the same forest and runs the same deterministic steps  *)
(* on gathered lists, so one copy stands for all of them.                  *)
(***************************************************************************)
EXTENDS GhostZones

CONSTANTS
  Meshes,           \* the meshes to start from; mesh.regions are refined from the start
  Criteria(_, _)    \* for a mesh and its leaves, the answers the criteria may give

VARIABLES
  mesh,
  forest,
  loclist,          \* the leaves in the order of their gids
  refine_flag,      \* leaf -> -1, 0 or 1
  deref_count,      \* leaf -> consecutive requests to derefine
  step              \* "tag", "update", "redistribute": the next part of the cycle

vars == <<mesh, forest, loclist, refine_flag, deref_count, step>>

nleaf == 2 ^ mesh.ndim

(* the forest and the list of blocks once f has its gids *)
Numbered(f) ==
  LET list == GetMeshBlockList(mesh, f)
  IN  /\ loclist' = list
      /\ forest' = ResolveGids(f, list)

Zeroes(ls) == [l \in ls |-> 0]

(* GetStaticRefLLIndexRange: the blocks of a level that a region reaches   *)
(* into, in one direction, widened to whole families.  Positions are in    *)
(* RootWidth-ths of a root block.                                          *)
RootWidth == 8
GetStaticRefLLIndexRange(num_root_block, ref_level, xmin, xmax) ==
  LET lxtot  == num_root_block * 2 ^ ref_level
      right(l) == (l + 1) * (RootWidth \div 2 ^ ref_level)
      lxmin  == Min({l \in 0 .. lxtot - 1 : right(l) > xmin} \cup {lxtot})
      lxmax  == Min({l \in lxmin .. lxtot - 1 : right(l) >= xmax} \cup {lxtot})
  IN  [s |-> lxmin - (lxmin % 2), e |-> IF lxmax % 2 = 0 THEN lxmax + 1 ELSE lxmax]

(* DoStaticRefinement for one region: the first block of each family *)
RegionLocations(m, region) ==
  LET range == [d \in Dirs(m) |-> GetStaticRefLLIndexRange(m.ntree[d], region.level, region.xmin[d], region.xmax[d])]
      firsts == {x \in [Dirs(m) -> UNION {range[d].s .. range[d].e - 1 : d \in Dirs(m)}] :
                   \A d \in Dirs(m) : /\ x[d] \in range[d].s .. range[d].e - 1
                                       /\ (x[d] - range[d].s) % 2 = 0}
      extent == 2 ^ region.level
  IN  {LogicalLocation([d \in Dirs(m) |-> x[d] \div extent], region.level,
                       [d \in Dirs(m) |-> x[d] % extent]) : x \in firsts}

(* the regions that are not refused *)
ValidRegion(m, region) ==
  /\ region.level \in 1 .. m.max_level
  /\ \A d \in Dirs(m) : /\ 0 <= region.xmin[d] /\ region.xmin[d] <= region.xmax[d]
                          /\ region.xmax[d] <= m.ntree[d] * RootWidth

DoStaticRefinement(m, regions) ==
  FoldLeft(LAMBDA f, region :
             FoldSet(LAMBDA l, g : Strict(LAMBDA h : AddMeshBlock(m, h, l, TRUE), g),
                     f, RegionLocations(m, region)),
           NewForest(m), regions)

Init ==
  /\ mesh \in Meshes
  /\ \A n \in DOMAIN mesh.regions : ValidRegion(mesh, mesh.regions[n])
  /\ LET f == DoStaticRefinement(mesh, mesh.regions)
     IN  /\ loclist = GetMeshBlockList(mesh, f)
         /\ forest = ResolveGids(f, loclist)
         /\ refine_flag = Zeroes(Leaves(f))
         /\ deref_count = Zeroes(Leaves(f))
  /\ step = "tag"

-----------------------------------------------------------------------------
HasFinerNeighbor(l) ==
  \E o \in Offsets(mesh) \ {[d \in Dirs(mesh) |-> 0]} :
     \E n \in NeighborsAt(mesh, forest, l, o) : n.loc.level > l.level

Requests(l, aret) == IF aret < 0 /\ l.level /= mesh.root_level THEN deref_count[l] + 1 ELSE 0

Flag(l, aret) ==
  IF aret > 0 THEN IF l.level = mesh.max_level THEN 0 ELSE 1
  ELSE IF /\ aret < 0
          /\ l.level /= mesh.root_level
          /\ ~HasFinerNeighbor(l)
          /\ Requests(l, aret) >= mesh.threshold
       THEN -1 ELSE 0

(* MeshRefinement::SetRefinement on every block.  Bound: a count stays at  *)
(* threshold - 1, one more request always reaches the threshold from there *)
SetRefinement ==
  /\ step = "tag"
  /\ \E aret \in Criteria(mesh, Leaves(forest)) :
       /\ refine_flag' = [l \in Leaves(forest) |-> Flag(l, aret[l])]
       /\ deref_count' = [l \in Leaves(forest) |->
                            Min({Requests(l, aret[l]), mesh.threshold - 1})]
  /\ step' = "update"
  /\ UNCHANGED <<mesh, forest, loclist>>

-----------------------------------------------------------------------------
(* mutant: the last family is cut off *)
SiblingsFollowShort(s, n) ==
  /\ \A d \in Dirs(mesh) : s[n].lx[d] % 2 = 0
  /\ n + nleaf <= Len(s)
  /\ \A i \in 0 .. nleaf - 1 :
       /\ s[n + i].level = s[n].level
       /\ \A d \in Dirs(mesh) : s[n + i].lx[d] = s[n].lx[d] + ((i \div 2 ^ (d - 1)) % 2)

(* the n-th location is the first of its siblings and the others follow *)
SiblingsFollow(s, n) ==
  /\ \A d \in Dirs(mesh) : s[n].lx[d] % 2 = 0
  /\ n + nleaf - 1 <= Len(s)
  /\ \A i \in 0 .. nleaf - 1 :
       /\ s[n + i].level = s[n].level
       /\ \A d \in Dirs(mesh) : s[n + i].lx[d] = s[n].lx[d] + ((i \div 2 ^ (d - 1)) % 2)

(* clderef: the parents of the families in the list lderef *)
FamilyParents(s) ==
  LET first == SelectSeq([n \in DOMAIN s |-> n], LAMBDA n : SiblingsFollow(s, n))
  IN  [k \in DOMAIN first |-> GetParent(s[first[k]])]

(* the range given to std::sort ends before the last element *)
SortByLevel(s) ==
  IF Len(s) <= 1 THEN s
  ELSE SortSeq(Front(s), LAMBDA a, b : a.level > b.level) \o <<Last(s)>>

(* Mesh::UpdateMeshBlockTree: all refinements, then the derefinements *)
UpdateMeshBlockTree ==
  /\ step = "update"
  /\ LET lref   == SelectSeq(loclist, LAMBDA l : refine_flag[l] = 1)
         lderef == SelectSeq(loclist, LAMBDA l : refine_flag[l] = -1)
         refined == FoldLeft(LAMBDA f, l : Strict(LAMBDA g : Refine(mesh, g, l, TRUE), f), forest, lref)
     IN  forest' = FoldLeft(LAMBDA f, p : Strict(LAMBDA g : Derefine(mesh, g, p), f),
                            refined, SortByLevel(FamilyParents(lderef)))
  /\ step' = "redistribute"
  /\ UNCHANGED <<mesh, loclist, refine_flag, deref_count>>

(* RedistributeAndRefineMeshBlocks, when the forest changed: the blocks are *)
(* numbered anew, those that stay keep their count.  The flags are          *)
(* overwritten by the next SetRefinement before they are read.              *)
Redistribute ==
  /\ step = "redistribute"
  /\ IF Leaves(forest) = Range(loclist) THEN UNCHANGED <<forest, loclist>> ELSE Numbered(forest)
  /\ refine_flag' = Zeroes(Leaves(forest))
  /\ deref_count' = [l \in Leaves(forest) |->
                       IF l \in Range(loclist) THEN deref_count[l] ELSE 0]
  /\ step' = "tag"
  /\ UNCHANGED mesh

(* the restart constructor of Mesh: every block of the file's list is added *)
(* to a new forest, without enforcing proper nesting                        *)
Restart ==
  /\ step = "tag"
  /\ LET f == FoldLeft(LAMBDA g, l : Strict(LAMBDA h : AddMeshBlock(mesh, h, l, FALSE), g),
                       NewForest(mesh), loclist)
     IN  /\ Numbered(f)
         /\ refine_flag' = Zeroes(Leaves(f))
         /\ deref_count' = [l \in Leaves(f) |->
                              IF l \in Range(loclist) THEN deref_count[l] ELSE 0]
  /\ UNCHANGED <<mesh, step>>

Next == SetRefinement \/ UpdateMeshBlockTree \/ Redistribute \/ Restart

Spec == Init /\ [][Next]_vars

-----------------------------------------------------------------------------
(* The geometry the properties refer to, in units of the finest blocks and  *)
(* independent of the trees' neighbour tables.                              *)

Size(l)   == 2 ^ (mesh.max_level - Max({l.level, 0}))
Low(l, d) == l.tree[d] * 2 ^ mesh.max_level + l.lx[d] * Size(l)

Shifts == {s \in Offsets(mesh) : \A d \in Dirs(mesh) : s[d] = 0 \/ mesh.periodic[d]}

(* where b is seen once the domain is repeated in direction s *)
SeenAt(b, s, d) == Low(b, d) + s[d] * mesh.ntree[d] * 2 ^ mesh.max_level

TouchesAt(a, b, s) ==
  \A d \in Dirs(mesh) : /\ SeenAt(b, s, d) <= Low(a, d) + Size(a)
                        /\ SeenAt(b, s, d) + Size(b) >= Low(a, d)
Touches(a, b) == \E s \in Shifts : TouchesAt(a, b, s)

Within(a, b) ==
  \A d \in Dirs(mesh) : /\ Low(a, d) <= Low(b, d)
                        /\ Low(b, d) + Size(b) <= Low(a, d) + Size(a)
Overlap(a, b) == Within(a, b) \/ Within(b, a)

Zero == [d \in Dirs(mesh) |-> 0]

-----------------------------------------------------------------------------
(* Every block carries a flag, a count below the threshold and, between two *)
(* cycles, the gid at which loclist holds it; no block is deeper than       *)
(* max_level.                                                               *)
TypeOK ==
  /\ mesh \in Meshes
  /\ step \in {"tag", "update", "redistribute"}
  /\ \A l \in Leaves(forest) : l.level \in mesh.root_level .. mesh.max_level
  /\ refine_flag \in [Range(loclist) -> -1 .. 1]
  /\ deref_count \in [Range(loclist) -> 0 .. mesh.threshold - 1]
  /\ step = "tag" => \A e \in forest.leaves : loclist[e.gid + 1] = e.loc

LeavesTileTheDomain ==
  /\ \A a, b \in Leaves(forest) : a /= b => ~Overlap(a, b)
  /\ MapThenSumSet(LAMBDA l : Size(l) ^ mesh.ndim, Leaves(forest))
       = Cardinality(Trees(mesh)) * 2 ^ (mesh.ndim * mesh.max_level)
  /\ forest.internal_nodes =
       {n \in UNION {{[l EXCEPT !.level = k, !.lx = [d \in Dirs(mesh) |-> @[d] \div 2 ^ (l.level - k)]]
                        : k \in 0 .. l.level} : l \in Leaves(forest)} : n \notin Leaves(forest)}

(* The leaves cover the domain once and the internal nodes are exactly what *)
(* lies above them, after any sequence of Refine, Derefine and AddMeshBlock;*)
(* and blocks that touch, at a face, an edge or a corner, in one tree,      *)
(* across trees or across a periodic boundary, are at most one level apart. *)
(* The boundary exchange knows no other kind of neighbour.                  *)
ProperNesting ==
  /\ LeavesTileTheDomain
  /\ \A a, b \in Leaves(forest) : Touches(a, b) => a.level - b.level <= 1

(* Siblings are told by level and position in their tree, not by the tree:  *)
(* a flagged block passes for every block at its place in another tree.     *)
PassesForFlagged(b) ==
  \E o \in Range(loclist) : refine_flag[o] = -1 /\ o.level = b.level /\ o.lx = b.lx

(* What UpdateMeshBlockTree does with the flags.  A flagged block is        *)
(* refined, and a block without a flag only where proper nesting would      *)
(* break without it.  A family that is flagged as a whole is merged unless  *)
(* that would leave a block two levels finer next to it, in whatever order  *)
(* the derefinements are tried.  A family is merged only if its first block *)
(* is flagged and, for each of the others, that block or the one at its     *)
(* place in another tree: unflagged blocks are merged, but only these.      *)
FlagsHonoured ==
  step = "redistribute" =>
    /\ \A l \in Range(loclist) : refine_flag[l] = 1 => l \notin Leaves(forest)
    /\ \A l \in Range(loclist) :
         LET p == GetParent(l)
         IN  (/\ GetDaughters(p) \subseteq {b \in Range(loclist) : refine_flag[b] = -1}
              /\ \A b \in Leaves(forest) : Touches(p, b) => b.level <= p.level + 1)
               => p \in Leaves(forest)
    /\ \A l \in Range(loclist) :
         l \in forest.internal_nodes /\ refine_flag[l] /= 1 =>
           \E b \in Leaves(forest) : b.level = l.level + 2 /\ Touches(l, b)
    /\ \A l \in Range(loclist) :
         LET family == GetDaughters(GetParent(l))
         IN  GetParent(l) \in Leaves(forest) =>
               /\ \E b \in family \cap Range(loclist) :
                    refine_flag[b] = -1 /\ \A d \in Dirs(mesh) : b.lx[d] % 2 = 0
               /\ \A b \in family : PassesForFlagged(b)

(* A region of static refinement is covered by blocks of its level, or finer *)
(* ones, and a family of that level is only where the region is: the         *)
(* boundaries of a block belong to neither side.                             *)
RegionRefined(m, region, f) ==
  LET width(l)  == RootWidth \div 2 ^ l.level
      low(l, d) == l.tree[d] * RootWidth + l.lx[d] * width(l)
      meets(l)  == \A d \in Dirs(m) : /\ low(l, d) < region.xmax[d]
                                       /\ low(l, d) + width(l) > region.xmin[d]
  IN  \A l \in Leaves(f) :
        /\ meets(l) => l.level >= region.level
        /\ l.level >= region.level => meets(GetParent(l))

(* The maps between old and new gids: a new block comes from the old block  *)
(* at its place, from its parent or from its first daughter, so no block    *)
(* moves by more than one level, and oldtonew leads from an old block to    *)
(* the first new block that overlaps it.                                    *)
OldToNewConsistent ==
  step = "redistribute" =>
    LET list     == GetMeshBlockList(mesh, forest)
        newtoold == [n \in DOMAIN list |-> (CHOOSE e \in forest.leaves : e.loc = list[n]).gid]
        oldtonew == OldToNew(newtoold, Len(loclist), nleaf)
    IN  /\ \A n \in DOMAIN list :
             LET old == loclist[newtoold[n] + 1]
             IN  /\ Overlap(list[n], old)
                 /\ list[n].level - old.level \in -1 .. 1
                 /\ \A o \in 1 .. newtoold[n] : ~Overlap(list[n], loclist[o])
        /\ Len(oldtonew) = Len(loclist)
        /\ \A o \in DOMAIN loclist :
             LET n == oldtonew[o] + 1
             IN  /\ Overlap(list[n], loclist[o])
                 /\ \A k \in 1 .. n - 1 : ~Overlap(list[k], loclist[o])

(* A restart rebuilds the forest it was written from: same blocks, same     *)
(* gids, same internal nodes, same derefinement counts.                     *)
RestartRestores == [][Restart => UNCHANGED vars]_vars
=============================================================================
