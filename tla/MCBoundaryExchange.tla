------------------------- MODULE MCBoundaryExchange -------------------------
(* Two MeshData on one rank, neighbours of each other, and one of them of a *)
(* MeshData on another rank.                                                *)
EXTENDS BufferCache

MCRanks == {0, 1}
MCLists == (0 :> <<"a", "b">>) @@ (1 :> <<"c">>)

Both(p, q) == {<<p, q>>, <<q, p>>}
MCLinks == Both("a", "b") \cup Both("b", "c")

(* the owners of the pools are the ends of the channels *)
MCOwners == (Both("a", "b") \X {"both"}) \cup (Both("b", "c") \X {"sender", "receiver"})
=============================================================================
