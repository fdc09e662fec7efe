---------------------------- MODULE BufferCache ----------------------------
(***************************************************************************)
(* The boundary exchange with what SendBoundBufs and SetBounds keep from   *)
(* one exchange to the next: every MeshData has, for each boundary, a      *)
(* BndInfo with a view of the variable's data and a weak copy of the       *)
(* buffer's storage, for sending and for setting.  They are rebuilt when   *)
(* CheckSendBufferCacheForRebuild and CheckReceiveBufferCacheForRebuild    *)
(* find them out of date.                                                  *)
(*                                                                         *)
(* The storage comes from one ObjectPool per rank (utils/object_pool.hpp), *)
(* which hands it out under keys and counts the owner_t objects that hold  *)
(* it.  These are the ends of the channels.                                *)
(***************************************************************************)
EXTENDS BoundaryExchange

CONSTANTS
  Owners,      \* the owner_t objects
  ChunkSize    \* nbuf: get_resource_ makes so many objects at once

(* the buffers of a rank are a finite map, boundary_comm_map *)
ASSUME PoolAssumption ==
  /\ ChunkSize \in Nat \ {0}
  /\ Ends \subseteq Owners /\ IsFiniteSet(Owners)

(***************************************************************************)
(* The operators give the pool after a member function.  The owners are    *)
(* part of the record: owner[o] is the key and the object of the owner_t   *)
(* named o, and Nobody the value of a default-constructed one.             *)
(***************************************************************************)
Nobody == [key |-> 0, object |-> 0]

(* an empty pool: objects are numbered in the order they are made *)
NewPool == [available |-> <<>>, inuse |-> [key \in {} |-> Nobody], keyc |-> 0, made |-> 0,
            owner |-> [o \in Owners |-> Nobody]]

(* inuse maps the keys to the objects handed out and their counts *)
IsValid(p, key) == key \in DOMAIN p.inuse

AddCount(p, key) == [p EXCEPT !.inuse[key].count = @ + 1]

(* the object of key is available again *)
PutBack(p, key) ==
  [p EXCEPT !.available = Append(@, p.inuse[key].object),
            !.inuse = Restrict(@, DOMAIN @ \ {key})]

(* mutant: the object is available again as soon as one owner lets go *)
ReferenceCountedFreeFirst(p, key) == IF ~IsValid(p, key) THEN p ELSE PutBack(p, key)

ReferenceCountedFree(p, key) ==
  IF ~IsValid(p, key) THEN p
  ELSE IF p.inuse[key].count <= 1 THEN PutBack(p, key)
  ELSE [p EXCEPT !.inuse[key].count = @ - 1]

(* get_resource_, when there is none: a new chunk, of which all but the     *)
(* first are put on the stack                                               *)
Stocked(p) ==
  LET chunk == [n \in 1 .. ChunkSize |-> p.made + n]
  IN  IF p.available # <<>> THEN p
      ELSE [p EXCEPT !.available = Append(Tail(chunk), chunk[1]), !.made = @ + ChunkSize]

(* Get: the object on top of the stack, under a key that was never used *)
Get(p) ==
  LET stock == Stocked(p)
      key   == p.keyc + 1
  IN  [stock EXCEPT !.available = Front(@), !.keyc = key,
                    !.inuse = [k \in DOMAIN p.inuse \cup {key} |->
                                 IF k = key THEN [object |-> Last(stock.available), count |-> 0]
                                 ELSE p.inuse[k]]]

(* owner_t::assign: what o held is released before the new count is taken,  *)
(* unless both are the same                                                 *)
Assign(p, o, handle) ==
  LET old == p.owner[o]
      freed == IF old.key # 0 THEN ReferenceCountedFree(p, old.key) ELSE p
      taken == IF handle.key # 0 THEN AddCount(freed, handle.key) ELSE freed
  IN  IF old = handle THEN p ELSE [taken EXCEPT !.owner[o] = handle]

(* CommBuffer::Allocate: o = owner_t(Get()), whose temporary is destroyed;  *)
(* CommBuffer::Free: o = owner_t()                                          *)
AllocateFor(p, o) ==
  LET got    == Get(p)
      handle == [key |-> got.keyc, object |-> got.inuse[got.keyc].object]
  IN  ReferenceCountedFree(Assign(AddCount(got, got.keyc), o, handle), got.keyc)

Release(p, o) == Assign(p, o, Nobody)

-----------------------------------------------------------------------------
VARIABLES
  pool,       \* pool_map of every rank, for the size of these buffers
  num_alloc,  \* num_alloc_ of the variable of every MeshData
  sendInfo,   \* bnd_info of the sending caches
  setInfo     \* bnd_info of the receiving caches

cacheVars == <<pool, num_alloc, sendInfo, setInfo>>

Home(e) == IF e[2] = "receiver" THEN Rank[e[1][2]] ELSE Rank[e[1][1]]
Handle(e) == pool[Home(e)].owner[e]

(* mutant: only whether there is storage, not which *)
StatusFlag(p) == IF allocated[p] THEN 1 ELSE 0

(* Variable::GetAllocationStatus, and the storage that data refers to *)
GetAllocationStatus(p) == IF allocated[p] THEN num_alloc[p] ELSE 0

DataOf(p) == IF allocated[p] THEN num_alloc[p] ELSE 0

NoInfo == [status |-> -1, data |-> -1, buf |-> Nobody, buf_allocated |-> FALSE]

CacheInit ==
  /\ Init
  /\ pool = [r \in Ranks |-> NewPool]
  /\ num_alloc = [p \in Parts |-> IF allocated[p] THEN 1 ELSE 0]
  /\ sendInfo = [e \in UNION {SendEnds[p] : p \in Parts} |-> NoInfo]
  /\ setInfo  = [e \in UNION {RecvEnds[p] : p \in Parts} |-> NoInfo]

(* CommBuffer::Allocate or Free on e, whichever after says *)
Follow(p, e, after) == IF after[e].active THEN AllocateFor(p, e) ELSE Release(p, e)

(* one buffer after the other *)
FollowAll(p, order, after) ==
  LET followed[n \in 0 .. Len(order)] ==
        IF n = 0 THEN p ELSE Follow(followed[n - 1], order[n], after)
  IN  followed[Len(order)]

(* the storage of the buffers follows active_ *)
FollowBuffers(r) ==
  \E after \in {buffer'} :
    LET changed == {e \in Ends : Home(e) = r /\ after[e].active # buffer[e].active}
    IN  pool' = [pool EXCEPT ![r] = FollowAll(@, SetToSeq(changed), after)]

(* the BndInfo constructor *)
BndInfo(p, handle, received) ==
  [status |-> GetAllocationStatus(p), data |-> DataOf(p), buf |-> handle, buf_allocated |-> received]

(* handle[e] is the storage that e's buffer holds *)
RebuildSend(p, handle) ==
  \E e \in SendEnds[p] :
    \/ sendInfo[e].status # GetAllocationStatus(p)
    \/ sendInfo[e].buf.key # handle[e].key

RebuildSet(p) ==
  \E e \in RecvEnds[p] :
    \/ setInfo[e].status # GetAllocationStatus(p)
    \/ setInfo[e].buf.key # Handle(e).key
    \/ buffer[e].state = "received" /\ ~setInfo[e].buf_allocated
    \/ buffer[e].state = "received_null" /\ setInfo[e].buf_allocated

(* SendBoundBufs loads the buffers through the BndInfo of the boundaries *)
CachedSend(r, p) ==
  /\ SendBoundBufs(r, p)
  /\ FollowBuffers(r)
  /\ LET handle == [e \in SendEnds[p] |-> pool'[r].owner[e]] IN
       sendInfo' = IF RebuildSend(p, handle)
                   THEN [e \in DOMAIN sendInfo |->
                           IF e \in SendEnds[p] THEN BndInfo(p, handle[e], TRUE) ELSE sendInfo[e]]
                   ELSE sendInfo
  /\ UNCHANGED <<num_alloc, setInfo>>

CachedSet(r, p) ==
  /\ SetBounds(r, p)
  /\ setInfo' = IF RebuildSet(p)
                THEN [e \in DOMAIN setInfo |->
                        IF e \in RecvEnds[p] THEN BndInfo(p, Handle(e), buffer[e].state = "received")
                        ELSE setInfo[e]]
                ELSE setInfo
  /\ UNCHANGED <<pool, num_alloc, sendInfo>>

(* the other tasks only change which buffers have storage, and allocate the *)
(* variable                                                                 *)
OtherTask(r, p) ==
  /\ SendBlocked(r, p) \/ StartReceiveBoundBufs(r, p) \/ ReceiveBoundBufs(r, p)
  /\ FollowBuffers(r)
  /\ num_alloc' = [num_alloc EXCEPT ![p] = IF allocated'[p] /\ ~allocated[p] THEN @ + 1 ELSE @]
  /\ UNCHANGED <<sendInfo, setInfo>>

(* SparseDealloc may drop the variable before the package allocates it anew *)
CachedCompute(r, p) ==
  /\ Compute(r, p)
  /\ \E kept \in SparseDealloc(p) :
       /\ kept => allocated'[p]
       /\ num_alloc' = [num_alloc EXCEPT ![p] = IF allocated'[p] /\ ~kept THEN @ + 1 ELSE @]
  /\ UNCHANGED <<pool, sendInfo, setInfo>>

CachedTask(r) ==
  /\ queue[r] # <<>>
  /\ LET p == Head(queue[r]).part
     IN  CachedSend(r, p) \/ CachedSet(r, p) \/ OtherTask(r, p) \/ CachedCompute(r, p)

CacheNext == \E r \in Ranks : CachedTask(r)

CacheSpec == CacheInit /\ [][CacheNext]_<<vars, cacheVars>>

(* the fairness of the exchange: the caches never keep a task from running *)
FairCacheSpec == CacheSpec /\ Fairness

-----------------------------------------------------------------------------
Holders(p, key) == {o \in Owners : p.owner[o].key = key}

(* An object is on the stack once or held under one key, never both; all    *)
(* owners of a key hold the same object.                                    *)
HandedOutOnce(p) ==
  /\ IsInjective(p.available)
  /\ \A k \in DOMAIN p.inuse : p.inuse[k].object \notin ToSet(p.available)
  /\ \A k, l \in DOMAIN p.inuse : p.inuse[k].object = p.inuse[l].object => k = l
  /\ \A o \in Owners : p.owner[o] # Nobody =>
       IsValid(p, p.owner[o].key) /\ p.inuse[p.owner[o].key].object = p.owner[o].object

(* The count of an object is the number of its owners, and an object that   *)
(* has none is on the stack: the pool never loses one.                      *)
CountsAreOwners(p) ==
  /\ \A k \in DOMAIN p.inuse : p.inuse[k].count = Cardinality(Holders(p, k)) /\ p.inuse[k].count > 0
  /\ ToSet(p.available) \cup {p.inuse[k].object : k \in DOMAIN p.inuse} = 1 .. p.made

(* Every object of a pool is available once or held by the owners of one    *)
(* buffer, and none is lost: no two channels ever share storage             *)
(* (object_pool.hpp, build_boundary_buffers.cpp get_resource_method).       *)
StorageHandedOutOnce == \A r \in Ranks : HandedOutOnce(pool[r]) /\ CountsAreOwners(pool[r])

(* Data is loaded from, and set in, the storage that the variable has now,  *)
(* through the storage that the buffer has now, and default values are set  *)
(* exactly where a null message came, although the BndInfo are those of an  *)
(* earlier exchange unless the checks found a difference.                   *)
CopiesUseCurrentStorage ==
  [][\A r \in Ranks, p \in Parts :
       /\ AtHead(r, Task(p, "send")) /\ Len(queue'[r]) < Len(queue[r]) =>
            \A e \in SendEnds[p] : sendInfo'[e].data = DataOf(p) /\ sendInfo'[e].buf = Handle(e)'
       /\ AtHead(r, Task(p, "set")) /\ queue'[r] # queue[r] =>
            \A e \in RecvEnds[p] :
              /\ setInfo'[e].data = DataOf(p) /\ setInfo'[e].buf = Handle(e)
              /\ setInfo'[e].buf_allocated <=> buffer[e].state = "received"]_<<vars, cacheVars>>
=============================================================================
