------------------------------ MODULE WorkPool ------------------------------
(***************************************************************************)
(* What a ThreadPool promises the code that uses it: wait() returns once   *)
(* every item submitted, by the host or by an item that is running, has    *)
(* been run; nothing is dropped unless the pool is killed or destroyed.    *)
(***************************************************************************)
CONSTANT Items     \* the functions that may be enqueued

VARIABLES
  pending,   \* enqueued and not yet run to its end
  host,      \* "free", "waiting" inside wait(), "collecting" the futures after it, or "closed"
  open       \* neither kill() nor the destructor was called

vars == <<pending, host, open>>

Init == pending = {} /\ host = "free" /\ open = TRUE

Submit(i) ==
  /\ i \notin pending
  /\ host = "free" \/ pending # {}
  /\ pending' = pending \cup {i}
  /\ UNCHANGED <<host, open>>

Finish(i) ==
  /\ i \in pending
  /\ pending' = pending \ {i}
  /\ UNCHANGED <<host, open>>

Wait ==
  /\ host = "free"
  /\ host' = "waiting"
  /\ UNCHANGED <<pending, open>>

(* wait() may find everything done at once *)
Return ==
  /\ host \in {"free", "waiting"}
  /\ pending = {} \/ ~open
  /\ host' = "collecting"
  /\ UNCHANGED <<pending, open>>

Resume ==
  /\ host = "collecting"
  /\ host' = "free"
  /\ UNCHANGED <<pending, open>>

Close ==
  /\ host = "free"
  /\ open' = FALSE
  /\ pending' \in SUBSET pending
  /\ host' \in {"free", "closed"}

Next ==
  \/ \E i \in Items : Submit(i) \/ Finish(i)
  \/ Wait \/ Return \/ Resume \/ Close

Spec == Init /\ [][Next]_vars
=============================================================================
