------------------------------- MODULE MCSwarm -------------------------------
(* Three blocks on two ranks: two that share a rank, one across a message. *)
EXTENDS SwarmExchange

MCRankOf == (0 :> 0) @@ (1 :> 0) @@ (2 :> 1)

(* Particles that cross each kind of boundary, to the left and to the      *)
(* right, and one that gets to a boundary in the second cycle.             *)
MCBirths == {[x |-> 0, v |-> -1], [x |-> 1, v |-> 1], [x |-> 4, v |-> -1],
             [x |-> 5, v |-> 1], [x |-> 2, v |-> 1]}
=============================================================================
