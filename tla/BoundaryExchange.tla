-------------------------- MODULE BoundaryExchange --------------------------
(***************************************************************************)
(* A sequence of ghost zone exchanges between the MeshData of several      *)
(* ranks (src/bvals/comms/boundary_communication.cpp, bvals_utils.hpp).    *)
(*                                                                         *)
(* Every rank runs its tasks one at a time from a FIFO queue, and a task   *)
(* that returns incomplete goes to its end (TaskRegion).  In the list of a *)
(* MeshData AddBoundaryExchangeTasks makes Send and Receive depend on what *)
(* computed the data, Set on Receive, and what comes next on Set alone:    *)
(* nothing waits for Send.  One variable is exchanged, over one channel    *)
(* for each ordered pair of neighbouring MeshData.                         *)
(***************************************************************************)
EXTENDS Naturals, Sequences, SequencesExt, FiniteSets

CONSTANTS
  Ranks,
  Lists,         \* the MeshData of every rank, in the order of their task lists
  Links,         \* pairs <<p, q>>: some block of p has a neighbour in q
  MaxExchanges,  \* how many exchanges are made
  MaxVersion,    \* bound on the versions of the data
  Source,        \* where a sparse variable is nonzero initially
  EarlyReceives  \* whether the lists have a StartReceiveBoundBufs task, too

(***************************************************************************)
(* CommBuffer (src/utils/communication_buffer.hpp): one end of a channel   *)
(* between two neighbouring MeshData.  When sender and receiver are on the *)
(* same rank both use one buffer (BuffCommType::both); otherwise each has  *)
(* its own and MPI carries the messages between them.                      *)
(*                                                                         *)
(* The operators give the buffer after a member function.  The contents of *)
(* a buffer are a message: the version of the data it was filled with, and *)
(* whether it is null (nothing above the sparse threshold, or no storage). *)
(***************************************************************************)
BufferState == {"stale", "sending", "sending_null", "received", "received_null"}
Received    == {"received", "received_null"}

Message == [version : 0 .. MaxVersion, null : BOOLEAN]

(* request: my_request_ is not MPI_REQUEST_NULL; active: storage is held *)
Buffer == [state : BufferState, active : BOOLEAN, request : BOOLEAN,
           started_irecv : BOOLEAN, data : Message]

NewBuffer == [state |-> "stale", active |-> FALSE, request |-> FALSE,
              started_irecv |-> FALSE, data |-> [version |-> 0, null |-> TRUE]]

(* Allocate or Free, whichever makes active_ equal to a *)
Storage(b, a) == [b EXCEPT !.active = a]

(* mutant: a pending message does not make a buffer unavailable *)
IsAvailableForWriteAlways(b, nonlocal, done) == TRUE

(* IsAvailableForWrite; done is what MPI_Test says of the pending request *)
IsAvailableForWrite(b, nonlocal, done) ==
  b.state = "stale" \/ (nonlocal /\ (done \/ ~b.request))

(* its effect: MPI_Test completes the request *)
Tested(b, done) ==
  IF b.request /\ done THEN [b EXCEPT !.request = FALSE, !.state = "stale"] ELSE b

(* Send (SendNull, if the buffer has no storage) and SendNull *)
Send(b, message, nonlocal) ==
  LET m == [message EXCEPT !.null = @ \/ ~b.active]
  IN  [b EXCEPT !.state = IF m.null THEN "sending_null" ELSE "sending",
                !.data = m, !.request = nonlocal]

(* mutant: the empty message of a SendNull is not looked for *)
TryStartReceiveData(b, sparse, found, m) ==
  IF b.started_irecv \/ (sparse /\ (~found \/ m.null)) THEN b
  ELSE [b EXCEPT !.started_irecv = TRUE, !.request = TRUE, !.active = TRUE]

(* TryStartReceive: a receiver posts its MPI_Irecv, with storage, at once; *)
(* a sparse_receiver when MPI_Iprobe has found the message m, with storage *)
(* if it has data                                                          *)
TryStartReceive(b, sparse, found, m) ==
  IF b.started_irecv \/ (sparse /\ ~found) THEN b
  ELSE [b EXCEPT !.started_irecv = TRUE, !.request = TRUE,
                 !.active = IF sparse THEN ~m.null ELSE TRUE]

(* TryReceive on a buffer of type both: the data is in place already *)
TryReceiveBoth(b) ==
  CASE b.state = "sending"      -> [b EXCEPT !.state = "received"]
    [] b.state = "sending_null" -> [b EXCEPT !.state = "received_null"]
    [] OTHER                    -> b

(* TryReceive, once started and when MPI_Test says the message m is here *)
TryReceiveMessage(b, m) ==
  [b EXCEPT !.state = IF m.null THEN "received_null" ELSE "received",
            !.data = m, !.request = FALSE, !.started_irecv = FALSE]

Stale(b) == [b EXCEPT !.state = "stale"]

-----------------------------------------------------------------------------
Parts == UNION {ToSet(Lists[r]) : r \in Ranks}
Rank  == [p \in Parts |-> CHOOSE r \in Ranks : p \in ToSet(Lists[r])]

(* MeshBlock partitions: every MeshData is in the list of one rank, once *)
ASSUME ListsAssumption ==
  /\ \A r \in Ranks : Lists[r] \in Seq(Parts)
  /\ \A r, s \in Ranks : \A m \in DOMAIN Lists[r], n \in DOMAIN Lists[s] :
       Lists[r][m] = Lists[s][n] => r = s /\ m = n

ASSUME LinksAssumption ==
  /\ Links \subseteq Parts \X Parts
  /\ \A l \in Links : <<l[2], l[1]>> \in Links
  /\ MaxExchanges < MaxVersion
  /\ Source \in Parts
  /\ EarlyReceives \in BOOLEAN

VARIABLES
  sparse,      \* whether the variable is Metadata::Sparse
  version,     \* how often each MeshData has computed its data
  allocated,   \* whether its variable has storage
  nonzero,     \* whether it has values above the allocation threshold
  ghost,       \* the version of each neighbour's data in the ghost zones
  queue,       \* the task queue of every rank
  buffer,      \* boundary_comm_map
  flight       \* the messages MPI holds for every nonlocal channel

dataVars == <<version, allocated, nonzero, ghost>>
vars == <<sparse, dataVars, queue, buffer, flight>>

-----------------------------------------------------------------------------
(* BuildBoundaryBuffers: a channel within a rank has a single buffer *)
Nonlocal(c)  == Rank[c[1]] # Rank[c[2]]
SendEnd(c)   == IF Nonlocal(c) THEN <<c, "sender">> ELSE <<c, "both">>
RecvEnd(c)   == IF Nonlocal(c) THEN <<c, "receiver">> ELSE <<c, "both">>
Outgoing(p)  == {c \in Links : c[1] = p}
Incoming(p)  == {c \in Links : c[2] = p}
Neighbors(p) == {c[1] : c \in Incoming(p)}

(* the buffers of a MeshData's BvarsCache, for sending and for receiving *)
SendEnds == [p \in Parts |-> {SendEnd(c) : c \in Outgoing(p)}]
RecvEnds == [p \in Parts |-> {RecvEnd(c) : c \in Incoming(p)}]
Ends     == UNION {SendEnds[p] \cup RecvEnds[p] : p \in Parts}
Channels == {c \in Links : Nonlocal(c)}

Task(p, kind) == [part |-> p, kind |-> kind]

Exchange(p) ==
  IF EarlyReceives THEN <<Task(p, "start"), Task(p, "send"), Task(p, "receive")>>
  ELSE <<Task(p, "send"), Task(p, "receive")>>

(* the tasks of the lists of rank r, one list after the other *)
FirstTasks(r) ==
  LET K == IF EarlyReceives THEN 3 ELSE 2
  IN  [n \in 1 .. K * Len(Lists[r]) |->
         Exchange(Lists[r][((n - 1) \div K) + 1])[((n - 1) % K) + 1]]

(* A package gives a sparse variable values above the threshold in one      *)
(* MeshData, and allocates it there or everywhere; other variables have     *)
(* storage and values everywhere.                                           *)
Init ==
  /\ sparse \in BOOLEAN
  /\ version = [p \in Parts |-> 1]
  /\ \E everywhere \in BOOLEAN :
       allocated = [p \in Parts |-> p = Source \/ everywhere \/ ~sparse]
  /\ nonzero = [p \in Parts |-> p = Source \/ ~sparse]
  /\ ghost = [p \in Parts |-> [q \in Neighbors(p) |-> 0]]
  /\ queue = [r \in Ranks |-> FirstTasks(r)]
  /\ buffer = [e \in Ends |-> NewBuffer]
  /\ flight = [c \in Channels |-> <<>>]

-----------------------------------------------------------------------------
(* The task at the head of rank r's queue runs, and leaves behind the tasks *)
(* it enqueues: itself, if it returns incomplete, and its dependents.       *)
AtHead(r, task) == queue[r] # <<>> /\ Head(queue[r]) = task

Run(r, task, next) ==
  /\ AtHead(r, task)
  /\ queue' = [queue EXCEPT ![r] = Tail(@) \o next]

(* Channels on which MPI_Test may complete the last message: it may when   *)
(* MPI has copied the message, and does when it has been received.         *)
MayComplete(p) == {c \in Outgoing(p) \cap Channels : buffer[SendEnd(c)].request /\ flight[c] # <<>>}
Completed(p)   == {c \in Outgoing(p) \cap Channels : flight[c] = <<>>}

(* CheckSendBufferCacheForRebuild: ask every buffer whether it is available *)
(* and let its storage follow that of the variable, available or not        *)
CheckSendBufferCache(p, done) ==
  [e \in Ends |-> IF e \in SendEnds[p]
                  THEN Storage(Tested(buffer[e], e[1] \in done), allocated[p])
                  ELSE buffer[e]]

Available(p, done) ==
  \A c \in Outgoing(p) : IsAvailableForWrite(buffer[SendEnd(c)], Nonlocal(c), c \in done)

(* SendBoundBufs while a buffer holds an earlier message: incomplete *)
SendBlocked(r, p) ==
  /\ Run(r, Task(p, "send"), <<Task(p, "send")>>)
  /\ \E early_done \in SUBSET MayComplete(p) :
       LET done == early_done \cup Completed(p)
       IN  /\ ~Available(p, done)
           /\ buffer' = CheckSendBufferCache(p, done)
  /\ UNCHANGED <<sparse, dataVars, flight>>

(* SendBoundBufs: the data is loaded; where none of it is above the sparse *)
(* threshold, or the variable has no storage, a null message is sent       *)
SendBoundBufs(r, p) ==
  /\ Run(r, Task(p, "send"), <<>>)
  /\ \E early_done \in SUBSET MayComplete(p), loud \in SUBSET Outgoing(p) :
       LET done       == early_done \cup Completed(p)
           checked    == CheckSendBufferCache(p, done)
           message(c) == [version |-> version[p], null |-> c \notin loud]
       IN  /\ Available(p, done)
           /\ ~sparse => loud = Outgoing(p)
           /\ loud # {} => nonzero[p]
           /\ buffer' = [e \in Ends |->
                IF e \in SendEnds[p]
                THEN Send(checked[e], message(e[1]), Nonlocal(e[1])) ELSE checked[e]]
           /\ flight' = [c \in Channels |->
                IF c \in Outgoing(p) THEN Append(flight[c], message(c)) ELSE flight[c]]
  /\ UNCHANGED <<sparse, dataVars>>

(* the receiving end of c after TryStartReceive, if MPI_Iprobe finds found *)
Started(c, found) == TryStartReceive(buffer[RecvEnd(c)], sparse, c \in found, Head(flight[c]))

(* StartReceiveBoundBufs *)
StartReceiveBoundBufs(r, p) ==
  /\ Run(r, Task(p, "start"), <<>>)
  /\ \E found \in SUBSET {c \in Incoming(p) \cap Channels : flight[c] # <<>>} :
       buffer' = [e \in Ends |->
         IF e \in RecvEnds[p] /\ e[1] \in Channels THEN Started(e[1], found) ELSE buffer[e]]
  /\ UNCHANGED <<sparse, dataVars, flight>>

Waiting(p) ==
  {c \in Incoming(p) \cap Channels : buffer[RecvEnd(c)].state \notin Received}

(* the end e of a channel after TryReceive on all channels to p: MPI_Iprobe *)
(* finds the messages in found, and MPI_Test those in arrived               *)
Tried(p, e, found, arrived) ==
  LET c == e[1]
  IN  IF e \notin RecvEnds[p] THEN buffer[e]
      ELSE IF c \notin Channels THEN TryReceiveBoth(buffer[e])
      ELSE IF c \notin Waiting(p) THEN buffer[e]
      ELSE IF c \in arrived THEN TryReceiveMessage(Started(c, found), Head(flight[c]))
      ELSE Started(c, found)

(* a variable that receives data is allocated *)
AllocateReceived(p, tried) ==
  allocated' = [allocated EXCEPT ![p] =
    @ \/ \E c \in Incoming(p) : tried[RecvEnd(c)].state = "received"]

(* ReceiveBoundBufs: incomplete until a message has come on every channel *)
ReceiveBoundBufs(r, p) ==
  /\ AtHead(r, Task(p, "receive"))
  /\ \E found \in SUBSET {c \in Waiting(p) : flight[c] # <<>>} :
       \E arrived \in SUBSET {c \in Waiting(p) :
                                flight[c] # <<>> /\ Started(c, found).started_irecv} :
         LET tried == [e \in Ends |-> Tried(p, e, found, arrived)]
             all   == \A c \in Incoming(p) : tried[RecvEnd(c)].state \in Received
         IN  /\ Run(r, Task(p, "receive"), <<Task(p, IF all THEN "set" ELSE "receive")>>)
             /\ buffer' = tried
             /\ flight' = [c \in Channels |->
                             IF c \in arrived THEN Tail(flight[c]) ELSE flight[c]]
             /\ AllocateReceived(p, tried)
             /\ UNCHANGED <<sparse, version, nonzero, ghost>>

(* SetBounds: copy what has been received and stale the buffers *)
SetBounds(r, p) ==
  /\ Run(r, Task(p, "set"), IF version[p] < MaxExchanges THEN <<Task(p, "compute")>> ELSE <<>>)
  /\ ghost' = [ghost EXCEPT ![p] =
       [q \in Neighbors(p) |-> buffer[RecvEnd(<<q, p>>)].data.version]]
  /\ nonzero' = [nonzero EXCEPT ![p] =
       @ \/ \E c \in Incoming(p) : buffer[RecvEnd(c)].state = "received"]
  /\ buffer' = [e \in Ends |->
       IF e \in RecvEnds[p] THEN Stale(buffer[e]) ELSE buffer[e]]
  /\ UNCHANGED <<sparse, version, allocated, flight>>

(* mutant: a variable with values above the threshold may go, too *)
SparseDeallocAny(p) == {allocated[p], FALSE}

(* SparseDealloc: a variable without values above the (lower) threshold for *)
(* deallocation may be dropped, once that has been so for long enough       *)
SparseDealloc(p) == IF sparse /\ ~nonzero[p] THEN {allocated[p], FALSE} ELSE {allocated[p]}

(* What the list does before its next exchange: SparseDealloc, then the    *)
(* package computes new data, and may allocate the variable for it.        *)
Compute(r, p) ==
  /\ Run(r, Task(p, "compute"), Exchange(p))
  /\ version' = [version EXCEPT ![p] = @ + 1]
  /\ \E kept \in SparseDealloc(p) : \E a \in {kept, TRUE} :
       /\ allocated' = [allocated EXCEPT ![p] = a]
       /\ \E z \in {FALSE, TRUE} :
            /\ z => a
            /\ ~sparse => z
            /\ nonzero' = [nonzero EXCEPT ![p] = z]
  /\ UNCHANGED <<sparse, ghost, buffer, flight>>

RunTask(r) ==
  /\ queue[r] # <<>>
  /\ LET p == Head(queue[r]).part
     IN  \/ SendBlocked(r, p) \/ SendBoundBufs(r, p)
         \/ StartReceiveBoundBufs(r, p) \/ ReceiveBoundBufs(r, p) \/ SetBounds(r, p)
         \/ Compute(r, p)

Next == \E r \in Ranks : RunTask(r)

Spec == Init /\ [][Next]_vars

(* Every rank's worker keeps running, and a message that a receiver keeps  *)
(* asking for arrives.                                                     *)
Fairness ==
  /\ \A r \in Ranks : WF_vars(RunTask(r))
  /\ \A c \in Channels :
       SF_vars(ReceiveBoundBufs(Rank[c[2]], c[2]) /\ flight'[c] # flight[c])

FairSpec == Spec /\ Fairness

-----------------------------------------------------------------------------
(* Every exchange fills the ghost zones with the neighbours' data for that *)
(* exchange: no message is lost, overwritten before it was read, read      *)
(* twice or taken for that of another exchange, and no Send is overtaken   *)
(* by the computation that follows (boundary_communication.rst: "the       *)
(* communication during different stages doesn't overlap").                *)
Halo == INSTANCE HaloExchange
ImplementsHaloExchange == Halo!Spec

Unread(c) ==
  \/ ~buffer[SendEnd(c)].data.null /\ Nonlocal(c) /\ flight[c] # <<>>
  \/ ~Nonlocal(c) /\ buffer[SendEnd(c)].state \in {"sending", "received"}

(* Data in a buffer has storage for as long as it is needed: a sender does  *)
(* not give a buffer back to the pool while MPI or the receiver has still   *)
(* to read it, and SetBounds finds storage for all that was received.       *)
DataKept ==
  /\ \A c \in Links : Unread(c) => buffer[SendEnd(c)].active
  /\ \A r \in Ranks : \A n \in DOMAIN queue[r] : queue[r][n].kind = "set" =>
       \A c \in Incoming(queue[r][n].part) :
         /\ buffer[RecvEnd(c)].state \in Received
         /\ ~buffer[RecvEnd(c)].data.null => allocated[queue[r][n].part]

(* No rank waits for ever: every task of every exchange completes. *)
Termination == <>(\A r \in Ranks : queue[r] = <<>>)
=============================================================================
