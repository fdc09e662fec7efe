---------------------------- MODULE GhostExchange ----------------------------
(***************************************************************************)
(* One exchange of ghost zones on every mesh that refinement can lead to:  *)
(* each block sends, receives and restricts or prolongates the ranges of   *)
(* GhostZones.  The properties say that the pieces fit together.           *)
(***************************************************************************)
EXTENDS MeshAdaptation

CONSTANT MaxGhostLeaves     \* bound: meshes with more blocks are not looked at

Exchanging ==
  /\ step = "tag"
  /\ \A l \in Leaves(forest) : deref_count[l] = 0
  /\ Cardinality(Leaves(forest)) <= MaxGhostLeaves

Neighbors == [l \in Leaves(forest) |-> FindNeighbors(mesh, forest, l)]

(* the entries of n's list that receive what l sends to n *)
Counterparts(l, n) == {r \in Neighbors[n.loc] : ReceiveKey(n.loc, r) = SendKey(l, n)}

-----------------------------------------------------------------------------
(* Positions, in units of a cell of the finest block's refined field; a    *)
(* block's elements start at its lower end.                                *)
Width(l, cells) == (Size(l) * 2 * nx) \div cells
Position(l, cells, i, d) == (l.tree[d] * 2 ^ mesh.max_level + l.lx[d] * Size(l)) * 2 * nx
                              + (i - nghost) * Width(l, cells)
Place(l, cells, range) ==
  [d \in DOMAIN range |-> <<Position(l, cells, range[d].s, d), Position(l, cells, range[d].e, d),
                            Width(l, cells)>>]

(* What l packs for n is what n unpacks from l, element by element: as many *)
(* elements of the same size in the same place, for cells, for faces and    *)
(* corners, for fields with cells of half the size and for flux correction. *)
EndsAgree(l, n, r) ==
  LET seen == n.origin_loc
      agree(fine, el, flux) ==
        Place(l, SpaceCells(l, n, fine, FALSE),
              CalcIndices(l, n, fine, el, flux, "BoundaryInteriorSend", FALSE))
          = Place(seen, SpaceCells(n.loc, r, fine, FALSE),
                  CalcIndices(n.loc, r, fine, el, flux, "BoundaryExteriorRecv", FALSE))
  IN  /\ \A el \in {{}, {1}, Dirs(mesh)} : agree(FALSE, el, FALSE)
      /\ agree(TRUE, {}, FALSE)
      /\ CorrectsFlux(l, n) =>
           \A el \in FluxCorrectionElements(n.offsets) : agree(FALSE, el, TRUE)

MessagesFit ==
  Exchanging =>
    \A l \in Leaves(forest) :
      /\ \A n \in Neighbors[l] :
           /\ Cardinality(Counterparts(l, n)) = 1
           /\ \A r \in Counterparts(l, n) :
                EndsAgree(l, n, r) /\ MakeChannelPair(n.loc, r) = MakeChannelPair(l, n)
      /\ \A n, k \in Neighbors[l] :
           n # k => /\ SendKey(l, n) # SendKey(l, k)
                    /\ n.loc # l => MakeChannelPair(l, n) # MakeChannelPair(l, k)

-----------------------------------------------------------------------------
Cap(r, s)       == [d \in DOMAIN r |-> Interval(Max({r[d].s, s[d].s}), Min({r[d].e, s[d].e}))]
Volume(r)       == FoldSet(LAMBDA d, v : v * Length(r[d]), 1, DOMAIN r)
IsIn(i, r)      == \A d \in DOMAIN r : r[d].s <= i[d] /\ i[d] <= r[d].e
Box(Op(_))      == [d \in Dirs(mesh) |-> Op(d)]

Coarser(l, n)   == n.origin_loc.level < l.level
Coarsened(l)    == \E n \in Neighbors[l] : Coarser(l, n)

(* the ghost cells of l that the exchange sets for n: received, or         *)
(* prolongated from what was received                                      *)
SetFor(l, n, fine) ==
  IF Coarser(l, n)
  THEN FineRange(CalcIndices(l, n, fine, {}, FALSE, "BoundaryExteriorRecv", TRUE))
  ELSE CalcIndices(l, n, fine, {}, FALSE, "BoundaryExteriorRecv", FALSE)

(* the cells of the coarse buffer that are set before prolongation: what a *)
(* coarser neighbour sent and the restriction of everything else           *)
CoarseSet(l, n) ==
  CalcIndices(l, n, FALSE, {}, FALSE, "BoundaryExteriorRecv", ~Coarser(l, n))

(* the cells a slope-limited prolongation of the cell i reads *)
Stencil(i) == {[i EXCEPT ![d] = @ + k] : d \in DOMAIN i, k \in {-1, 0, 1}}

RangeCells(r) == {i \in [DOMAIN r -> 0 .. nx + 2 * nghost] : IsIn(i, r)}

(* Every ghost cell inside the domain is set by exactly one neighbour, and  *)
(* every coarse cell that prolongation reads has been received, restricted  *)
(* or set by a boundary condition before: none is left from an earlier      *)
(* exchange.                                                                *)
GhostZonesFilledOnce ==
  Exchanging =>
    \A l \in Leaves(forest) :
      LET sets(fine)   == {<<n, SetFor(l, n, fine)>> : n \in Neighbors[l]}
          ghosts(fine) == Volume(InDomain(mesh, l, BlockCells(l, fine), {}))
                            - BlockCells(l, fine) ^ mesh.ndim
          domain   == InDomain(mesh, l, nx \div 2, {})
          interior == Box(LAMBDA d : Interior(nx \div 2, {}, d))
          filled(i) == \/ IsIn(OutflowSource(i, domain), interior)
                       \/ \E n \in Neighbors[l] : IsIn(OutflowSource(i, domain), CoarseSet(l, n))
      IN  /\ \A fine \in BOOLEAN :
               /\ MapThenSumSet(LAMBDA s : Volume(s[2]), sets(fine)) = ghosts(fine)
               /\ \A s \in sets(fine) : Cap(s[2], InDomain(mesh, l, BlockCells(l, fine), {})) = s[2]
               /\ \A s, t \in sets(fine) : s[1] # t[1] => Volume(Cap(s[2], t[2])) = 0
          /\ \A n \in {k \in Neighbors[l] : Coarser(l, k)} :
               \A i \in RangeCells(CalcIndices(l, n, FALSE, {}, FALSE, "BoundaryExteriorRecv", TRUE)) :
                 \A j \in Stencil(i) : filled(j)

-----------------------------------------------------------------------------
(* The neighbours whose message l writes to its element i, after masking;  *)
(* what a coarser one sends goes to every other element.                   *)
Writers(l, el, i, newly_refined) ==
  {n \in Neighbors[l] :
     LET range == CalcIndices(l, n, FALSE, el, FALSE, "BoundaryExteriorRecv", Coarser(l, n))
         at    == IF Coarser(l, n) THEN [d \in DOMAIN i |-> (i[d] - nghost) \div 2 + nghost] ELSE i
         owns  == DetermineOwnership(mesh, n.loc, Neighbors[n.loc], newly_refined)
     IN  /\ Coarser(l, n) => \A d \in DOMAIN i : (i[d] - nghost) % 2 = 0
         /\ IsIn(at, range)
         /\ IsActive(ReceiveMask(l, n, el, owns), range, at)}

Owner(l, el, i, newly_refined) ==
  LET w == Writers(l, el, i, newly_refined)
  IN  IF w = {} THEN l ELSE (CHOOSE n \in w : TRUE).loc

(* the corners of a block, its edges' middles, and one of the ghosts around *)
Probes == {i \in [Dirs(mesh) -> {nghost - 1, nghost, nghost + nx \div 2, nghost + nx, nghost + nx + 1}] :
             \E d \in Dirs(mesh) : i[d] # nghost + nx \div 2}

(* the index, in the block n of l's neighbours, of l's element i *)
IndexIn(l, n, i) ==
  [d \in DOMAIN i |-> (Position(l, nx, i[d], d) - Position(n.origin_loc, nx, nghost, d))
                        \div Width(n.loc, nx) + nghost]
Holds(l, n, i) ==
  \A d \in DOMAIN i :
    LET p == Position(l, nx, i[d], d) - Position(n.origin_loc, nx, nghost, d)
    IN  p >= 0 /\ p <= nx * Width(n.loc, nx) /\ p % Width(n.loc, nx) = 0

(* The blocks that a family shows to have been refined last, if any *)
JustRefined ==
  {{}} \cup {g \in {GetDaughters(GetParent(l)) : l \in Leaves(forest)} : g \subseteq Leaves(forest)}

(* Blocks agree on who owns an element they share: each copy, in the       *)
(* interior or among the ghosts, is written by one neighbour at most, all  *)
(* copies end with the value of the same block, and that block's own copy  *)
(* is not overwritten.  Not so where a block is its own neighbour across a  *)
(* periodic boundary: it owns both copies and writes each over the other.  *)
SharedElementsAgree ==
  Exchanging /\ (\A l \in Leaves(forest) : \A n \in Neighbors[l] : n.loc # l) =>
    \A newly \in JustRefined : \A l \in Leaves(forest) : \A i \in Probes :
      LET el == Dirs(mesh)
          o  == Owner(l, el, i, newly)
      IN  /\ Cardinality(Writers(l, el, i, newly)) <= 1
          /\ \A n \in Neighbors[l] :
               n.loc # l /\ Holds(l, n, i) =>
                 Owner(n.loc, el, IndexIn(l, n, i), newly) = o

-----------------------------------------------------------------------------
(* One exchange leaves every ghost zone with the value of the one block that *)
(* has it: what a block packs for a neighbour is what the neighbour unpacks  *)
(* (CalcIndices on both sides), each ghost cell and each coarse cell that    *)
(* prolongation reads is set once, and the copies of an element that blocks  *)
(* share end up equal (DetermineOwnership).                                  *)
GhostZonesExchanged == MessagesFit /\ GhostZonesFilledOnce /\ SharedElementsAgree
=============================================================================
