-------------------------- MODULE MCMeshAdaptation --------------------------
(* Small meshes for MeshAdaptation.  In one and two dimensions every block   *)
(* of the base grid is a tree of its own, its root block has level 0.        *)
EXTENDS Multigrid

Crit == INSTANCE RefinementCriteria

Mesh(ndim, ntree, periodic, max_level, threshold, regions) ==
  [ndim |-> ndim, ntree |-> ntree, periodic |-> periodic, root_level |-> 0,
   max_level |-> max_level, threshold |-> threshold, regions |-> regions]

(* four levels: a refinement forces another, and that one a third *)
Deep == Mesh(1, <<1>>, <<TRUE>>, 3, 1, <<>>)

(* three trees, a threshold above one, refined in one place from the start *)
Region(level, xmin, xmax) == [level |-> level, xmin |-> xmin, xmax |-> xmax]
Slow == Mesh(1, <<3>>, <<FALSE>>, 1, 2, <<Region(1, <<17>>, <<19>>)>>)

(* trees that touch at faces and, across the periodic boundary, at corners;  *)
(* in the second direction each tree is its own neighbour                    *)
Wide == Mesh(2, <<2, 1>>, <<FALSE, TRUE>>, 2, 1, <<>>)

(* four trees around a point: blocks that touch at a corner only *)
Corner == Mesh(2, <<2, 2>>, <<FALSE, FALSE>>, 2, 1, <<>>)

MCMeshes == {Deep, Slow, Wide, Corner}


Families(leaves) ==
  {g \in {GetDaughters(GetParent(l)) : l \in leaves} : g \subseteq leaves}

MaxLeaves == 16     \* bound: no requests to refine beyond it

(* In one dimension at most one block asks to be refined and up to two       *)
(* families or single blocks to be derefined; in two dimensions one block    *)
(* and one family.                                                           *)
MCCriteria(m, leaves) ==
  LET groups   == IF m.ndim = 1 THEN Families(leaves) \cup {{l} : l \in leaves} ELSE Families(leaves)
      refine   == {{}} \cup {{l} : l \in {k \in leaves : Cardinality(leaves) <= MaxLeaves}}
      derefine == {a \cup b : a \in {{}} \cup groups,
                              b \in IF m.ndim = 1 THEN groups ELSE {{}}}
  IN  {[l \in leaves |-> IF l \in p[1] THEN 1 ELSE IF l \in p[2] THEN -1 ELSE 0] :
         p \in refine \X derefine}

(* regions that end on the boundaries of blocks or next to them *)
MCRegions(m) ==
  LET ends == IF m.ndim = 1 THEN 0 .. 8 ELSE {0, 3, 4, 8, 9, 16}
      points == {x \in [Dirs(m) -> ends] : \A d \in Dirs(m) : x[d] <= m.ntree[d] * RootWidth}
  IN  {Region(k, x, y) : k \in 1 .. 2, x \in points, y \in points}

(* The mesh is refined where that is asked for and only there: by regions   *)
(* of static refinement (once for each mesh, at its beginning), by the      *)
(* criteria, which must agree on what the data says (DoStaticRefinement,    *)
(* CheckAllRefinement), and by the flags of the blocks.                     *)
RefinedAsAsked ==
  /\ FlagsHonoured
  /\ (step = "tag" /\ \A l \in Leaves(forest) : l.level = 0 /\ deref_count[l] = 0) =>
       /\ \A region \in MCRegions(mesh) :
            ValidRegion(mesh, region) /\ (\A d \in Dirs(mesh) : region.xmin[d] < region.xmax[d]) =>
              RegionRefined(mesh, region, DoStaticRefinement(mesh, <<region>>))
       /\ Crit!TagsFollowTheData
=============================================================================
