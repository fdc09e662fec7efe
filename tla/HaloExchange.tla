---------------------------- MODULE HaloExchange ----------------------------
(***************************************************************************)
(* What the boundary communication promises the packages: an exchange      *)
(* fills the ghost zones of a MeshData with the data its neighbours have   *)
(* computed for the same exchange, although every MeshData goes on to its  *)
(* next exchange on its own.                                               *)
(***************************************************************************)
EXTENDS Naturals

CONSTANTS
  Parts,     \* the MeshData
  Links      \* the pairs <<p, q>> of MeshData with neighbouring blocks

VARIABLES
  version,   \* the exchange for which each MeshData has computed its data
  ghost      \* the version of each neighbour's data in the ghost zones

vars == <<version, ghost>>

Neighbors(p) == {q \in Parts : <<q, p>> \in Links}

Init ==
  /\ version = [p \in Parts |-> 1]
  /\ ghost   = [p \in Parts |-> [q \in Neighbors(p) |-> 0]]

(* The neighbours have computed what p needs, one may be a step further. *)
Fill(p) ==
  /\ \E q \in Neighbors(p) : ghost[p][q] # version[p]
  /\ \A q \in Neighbors(p) : version[q] \in {version[p], version[p] + 1}
  /\ ghost' = [ghost EXCEPT ![p] = [q \in Neighbors(p) |-> version[p]]]
  /\ UNCHANGED version

Compute(p) ==
  /\ \A q \in Neighbors(p) : ghost[p][q] = version[p]
  /\ version' = [version EXCEPT ![p] = @ + 1]
  /\ UNCHANGED ghost

Next == \E p \in Parts : Fill(p) \/ Compute(p)

Spec == Init /\ [][Next]_vars
=============================================================================
