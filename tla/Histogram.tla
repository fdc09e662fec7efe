------------------------------ MODULE Histogram ------------------------------
(***************************************************************************)
(* Histogram outputs (outputs/histogram.cpp): every rank bins the cells of *)
(* its blocks, one partition after the other, the results are added up on  *)
(* the root, which writes them.                                            *)
(*                                                                         *)
(* An axis is [type, min, step, nbins] with edges min + i * step ("lin")   *)
(* or min * step^i ("log"), so that every edge is a whole number, or       *)
(* [type, list].  A cell has its values on both axes, a volume and the     *)
(* values of the binned and of the weighting variable.  Quotients and      *)
(* logarithms are exact.                                                   *)
(***************************************************************************)
LOCAL INSTANCE Integers
LOCAL INSTANCE Sequences
LOCAL INSTANCE FiniteSetsExt
LOCAL INSTANCE SequencesExt

(* upper_bound: bisection over 0 .. n - 1, and one more look at the end *)
UpperBoundPast(arr, n, val) ==
  LET search[l \in 0 .. n, r \in 0 .. n] ==
        IF l >= r THEN l
        ELSE LET m == l + (r - l) \div 2
             IN  IF val > arr[m] THEN search[m + 1, r] ELSE search[l, m]
      l == search[0, n]
  IN  IF l < n /\ val > arr[l] THEN l + 1 ELSE l

upper_bound(arr, n, val) ==
  LET search[l \in 0 .. n, r \in 0 .. n] ==
        IF l >= r THEN l
        ELSE LET m == l + (r - l) \div 2
             IN  IF val >= arr[m] THEN search[m + 1, r] ELSE search[l, m]
      l == search[0, n]
  IN  IF l < n /\ val >= arr[l] THEN l + 1 ELSE l

(* what GetEdges refuses *)
EdgesAccepted(a) ==
  IF a.type = "list"
  THEN /\ \A i \in 1 .. Len(a.list) - 1 : a.list[i] <= a.list[i + 1]
       /\ Len(a.list) >= 2 /\ a.list[2] > a.list[1]
  ELSE /\ a.nbins >= 1
       /\ a.type = "lin" => a.step > 0
       /\ a.type = "log" => a.min > 0 /\ a.step > 1

NumBins(a) == IF a.type = "list" THEN Len(a.list) - 1 ELSE a.nbins

GetEdges(a) ==
  [i \in 0 .. NumBins(a) |->
     CASE a.type = "lin"  -> a.min + i * a.step
       [] a.type = "log"  -> a.min * a.step ^ i
       [] a.type = "list" -> a.list[i + 1]]

NoBin == -1

(* CalcHist, the same for x and y *)
BinOf(a, val, accumulate) ==
  LET edges == GetEdges(a)
      last  == NumBins(a)
  IN  CASE val < edges[0]    -> IF accumulate THEN 0 ELSE NoBin
        [] val > edges[last] -> IF accumulate THEN last - 1 ELSE NoBin
        [] val = edges[last] -> last - 1
        [] OTHER ->
             CASE a.type = "lin"  -> (val - a.min) \div a.step
               [] a.type = "log"  -> Max({k \in 0 .. last : a.min * a.step ^ k <= val})
               [] a.type = "list" -> upper_bound(edges, last + 1, val) - 1

Value(h, cell) ==
  (IF h.binned THEN cell.binned ELSE 1) * (IF h.weight_by_vol THEN cell.volume ELSE 1)
    * (IF h.weighted THEN cell.weight ELSE 1)

Bins(h) == (0 .. IF h.ndim = 2 THEN NumBins(h.y) - 1 ELSE 0) \X (0 .. NumBins(h.x) - 1)
Empty(h) == [b \in Bins(h) |-> 0]
Added(r, s) == [b \in DOMAIN r |-> r[b] + s[b]]

AddCell(h, result, cell) ==
  LET x == BinOf(h.x, cell.x, h.accumulate)
      y == IF h.ndim = 2 THEN BinOf(h.y, cell.y, h.accumulate) ELSE 0
  IN  IF x = NoBin \/ y = NoBin THEN result
      ELSE [result EXCEPT ![<<y, x>>] = @ + Value(h, cell)]

(* ScatterView: threads add to the result itself or, duplicated, to copies  *)
(* that contribute adds to the result; the copies are not emptied by it.    *)
AddPartition(h, state, cells, duplicated) ==
  LET scatter == FoldLeft(LAMBDA r, c : AddCell(h, r, c),
                          IF duplicated THEN state.scatter ELSE state.result, cells)
  IN  [result  |-> IF duplicated THEN Added(state.result, scatter) ELSE scatter,
       scatter |-> IF duplicated THEN scatter ELSE state.scatter]

(* one rank, then MPI_Reduce to the root *)
LocalHist(h, partitions, duplicated) ==
  FoldLeft(LAMBDA s, cells : AddPartition(h, s, cells, duplicated),
           [result |-> Empty(h), scatter |-> Empty(h)], partitions).result

CalcHist(h, ranks, duplicated) ==
  FoldLeft(LAMBDA r, partitions : Added(r, LocalHist(h, partitions, duplicated)), Empty(h), ranks)

(* WriteOutputFile: tmp_data, with x outermost *)
Written(h, result) ==
  LET nx == NumBins(h.x)
      ny == IF h.ndim = 2 THEN NumBins(h.y) ELSE 1
  IN  [idx \in 0 .. nx * ny - 1 |-> result[<<idx % ny, idx \div ny>>]]

-----------------------------------------------------------------------------
(* What the documentation promises: bins include their left edge, the last *)
(* one its right edge too, and the outermost ones what lies beyond if that *)
(* is to be accumulated.                                                    *)
Belongs(a, val, k, accumulate) ==
  LET e == GetEdges(a)
      last == NumBins(a) - 1
  IN  \/ e[k] <= val /\ val < e[k + 1]
      \/ k = last /\ val = e[k + 1]
      \/ accumulate /\ ((k = 0 /\ val < e[0]) \/ (k = last /\ val > e[last + 1]))

CellsOf(ranks) == FlattenSeq([r \in DOMAIN ranks |-> FlattenSeq(ranks[r])])

Expected(h, ranks, x, y) ==
  LET cells == CellsOf(ranks)
      in == {i \in DOMAIN cells : /\ Belongs(h.x, cells[i].x, x, h.accumulate)
                                  /\ h.ndim = 2 => Belongs(h.y, cells[i].y, y, h.accumulate)}
  IN  MapThenSumSet(LAMBDA i : Value(h, cells[i]), in)

Axes ==
  {[type |-> "lin", min |-> 1, step |-> 2, nbins |-> 3],
   [type |-> "log", min |-> 1, step |-> 2, nbins |-> 3],
   [type |-> "list", list |-> <<1, 2, 4, 7>>],
   [type |-> "list", list |-> <<0, 3, 3, 5, 5>>],
   [type |-> "list", list |-> <<2, 8>>]}

Hists ==
  {[ndim |-> n, x |-> a, y |-> b, accumulate |-> acc, binned |-> w, weight_by_vol |-> w, weighted |-> ~w] :
     n \in {1, 2}, a \in Axes, b \in {CHOOSE c \in Axes : c.type = "lin", [type |-> "list", list |-> <<0, 2, 5>>]},
     acc \in BOOLEAN, w \in BOOLEAN}

Cell(x, y, k) == [x |-> x, y |-> y, volume |-> k, binned |-> k + 1, weight |-> k + 2]

(* two ranks, the first with two partitions *)
Layouts ==
  {<<<<<<Cell(x, 0, 1), Cell(3, y, 2)>>, <<Cell(y, 3, 3)>>>>, <<<<Cell(x, y, 4)>>>>>> :
     x \in 0 .. 9, y \in 0 .. 6}

(* What the root writes is, in every bin, the sum over all cells of all    *)
(* ranks that belong to it, as the binning is documented, for the three    *)
(* kinds of edges, repeated ones included.  Where threads have copies of   *)
(* the result, only if a rank has one partition: CalcHist does not empty   *)
(* them between two.                                                        *)
HistogramsAddUp ==
  \A h \in Hists, ranks \in Layouts, duplicated \in BOOLEAN :
    /\ EdgesAccepted(h.x) /\ (h.ndim = 2 => EdgesAccepted(h.y))
    /\ LET data == IF duplicated THEN Tail(ranks) ELSE ranks
           file == Written(h, CalcHist(h, data, duplicated))
           ny   == IF h.ndim = 2 THEN NumBins(h.y) ELSE 1
       IN  \A b \in Bins(h) : file[b[2] * ny + b[1]] = Expected(h, data, b[2], b[1])
=============================================================================
