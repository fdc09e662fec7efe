--------------------------- MODULE MCDriverLoop ---------------------------
(* Two ranks, of which now one and now the other limits the time step.       *)
EXTENDS DriverLoop, TimeIntegration

Hist == INSTANCE Histogram

(* a restart block before another one in the input file; one that is disabled *)
TwoOutputs == <<[type |-> "rst", dt |-> 2], [type |-> "hdf5", dt |-> 1], [type |-> "vtk", dt |-> -1]>>

(* The blocks allow steps of 1, 3, 2, 2: the second is limited to 2 by the  *)
(* factor of two, unless the run has been restarted in cycle 1.              *)
OneRankLimits ==
  [r \in Ranks |-> [n \in 0 .. 3 |-> [t \in 0 .. 6 |->
    IF (r = Root) # (n \in {1, 2}) THEN 4 ELSE IF n = 0 THEN 1 ELSE IF n = 1 THEN 3 ELSE 2]]]

(* A step of the loop advances the solution by its time step to the order  *)
(* of the integrator, both as the drivers combine the stages, in containers *)
(* of which the first is also the last, and as Update2S and                 *)
(* UpdateWithFluxDivergence do.  It does not depend on where the loop is.   *)
StagesAddUp ==
  (\A r \in Ranks : at[r] = Wait(<<"init", 1>>)) => OrderOfUpdates /\ OrderOfDrivers

(* What a histogram output writes is the sum over all cells of all ranks,   *)
(* bin by bin.  It does not depend on where the loop is either.             *)
HistogramsAddUp ==
  (\A r \in Ranks : at[r] = Wait(<<"init", 1>>)) => Hist!HistogramsAddUp
=============================================================================
