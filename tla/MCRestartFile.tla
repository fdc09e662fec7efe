---------------------------- MODULE MCRestartFile ----------------------------
(* Programs with a dense variable, a sparse one that controls a stored and *)
(* a derived one, and programs that have more, fewer or other variables.   *)
EXTENDS RestartFile

Dense(l) == [label |-> l, sparse |-> FALSE, none |-> FALSE, stored |-> TRUE,
             controller |-> l, shape |-> <<1, 1, 2>>]
Sparse(l, c, s) == [label |-> l, sparse |-> TRUE, none |-> FALSE, stored |-> s,
                    controller |-> c, shape |-> <<1, 1, 1>>]

Full == <<Dense("d"), Sparse("s1", "s1", TRUE), Sparse("s2", "s1", TRUE),
          Sparse("s3", "s1", FALSE)>>
MCPrograms ==
  {Full,
   <<Dense("c"), Dense("d")>> \o Tail(Full),
   <<Dense("d"), Sparse("s1", "s1", TRUE)>>,
   <<Dense("d"), Dense("s1")>>}
=============================================================================
