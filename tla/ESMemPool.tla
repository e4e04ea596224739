----------------------------- MODULE ESMemPool ------------------------------
(***************************************************************************)
(* The ES generic memory pool (spec.md 2, 4.4): a pool carved on demand    *)
(* from a caller's buffer into blocks of a few size classes.  A block      *)
(* descriptor (BD_t) sits in front of each block, holding the check-bit    *)
(* pattern, the allocated marker and the block size.  Each class has a    *)
(* free list that freed blocks are pushed onto.                            *)
(*                                                                         *)
(* The ES source is not in the repository.  The actions follow spec 4.4    *)
(* and what TestESMempool (es_UT.c) asserts of CFE_ES_GetPoolBuf,          *)
(* CFE_ES_PutPoolBuf and CFE_ES_GetPoolBufInfo.  Lengths are in abstract   *)
(* units, and a buffer address is a handle: the pool it lies in and the    *)
(* index of its block in carving order.  Index 0 stands for an address     *)
(* inside the pool that is no block's start, like the test's pointer one *)
(* word past the pool handle.                                              *)
(*                                                                         *)
(* The pools here are created with a mutex (CFE_ES_PoolCreate), so each    *)
(* call is one atomic step, and callers of any task interleave between     *)
(* calls.  The fault model is a user buffer overrun into the descriptor of *)
(* a neighbouring block.  It always spoils the check bits, and the         *)
(* allocated marker and size it leaves are arbitrary.  The free-list link  *)
(* is assumed intact (see the README).                                     *)
(***************************************************************************)
EXTENDS Naturals, Sequences, FiniteSets, Bags, BagsExt, Functions

CONSTANTS
  Pools,        \* pools created with CFE_ES_PoolCreate
  Sizes,        \* the pool's block-size table
  PoolSize,     \* room for blocks and descriptors in each pool
  BDSize,       \* sizeof(BD_t)
  Reqs,         \* sizes callers request, some larger than any class
  MaxFaults     \* bound on descriptor corruptions

ASSUME /\ Sizes \subseteq Nat \ {0} /\ Sizes # {}
       /\ BDSize \in Nat \ {0}
       /\ Reqs \subseteq Nat \ {0}

MinSize == CHOOSE s \in Sizes : \A t \in Sizes : s <= t
MaxSize == CHOOSE s \in Sizes : \A t \in Sizes : s >= t
MaxBlocks == PoolSize \div (BDSize + MinSize)

\* The allocated marker: 0xaaaa when allocated, something else otherwise.
ALLOCATED == "ALLOCATED"
DEALLOCATED == "DEALLOCATED"
GARBAGE == "GARBAGE"
\* A size field beyond CFE_PLATFORM_ES_MAX_BLOCK_SIZE, as the test writes.
TOO_BIG == MaxSize + 1

Handle == [pool : Pools, idx : 0..MaxBlocks]
BD == [checkOK : BOOLEAN, allocated : {ALLOCATED, DEALLOCATED, GARBAGE},
       size : Sizes \cup {TOO_BIG}]

VARIABLES
  bd,         \* the descriptors of each pool's carved blocks, in carving order
  current,    \* Pool_t.Current: the carving cursor, from the pool's start
  freeList,   \* the free list of each size class, head first
  trueSize,   \* ghost: the size each block was carved with
  held,       \* ghost: a bag of [h, req], one for each allocation not yet freed
  faults      \* number of descriptor corruptions so far

vars == <<bd, current, freeList, trueSize, held, faults>>

TypeOK ==
  /\ bd \in [Pools -> Seq(BD)]
  /\ current \in [Pools -> 0..PoolSize]
  /\ freeList \in [Pools -> [Sizes -> Seq(Handle)]]
  /\ trueSize \in [Pools -> Seq(Sizes)]
  /\ IsABag(held) /\ BagToSet(held) \subseteq [h : Handle, req : Reqs]
  /\ faults \in 0..MaxFaults

\* Every pool has just been created: nothing is carved and the lists are empty.
Init ==
  /\ bd = [p \in Pools |-> <<>>]
  /\ current = [p \in Pools |-> 0]
  /\ freeList = [p \in Pools |-> [s \in Sizes |-> <<>>]]
  /\ trueSize = [p \in Pools |-> <<>>]
  /\ held = EmptyBag
  /\ faults = 0

-----------------------------------------------------------------------------
(* Allocation.                                                             *)

\* The classes large enough for a request; the smallest one is used.
Fits(req) == {s \in Sizes : s >= req}
SmallestFit(req) == CHOOSE s \in Fits(req) : \A t \in Fits(req) : s <= t

\* A fresh descriptor of an allocated block of size s.
Allocated(s) == [checkOK |-> TRUE, allocated |-> ALLOCATED, size |-> s]

\* CFE_ES_GetPoolBuf: reuse the head of the class's free list.  The
\* descriptor is rewritten whatever it held.
GetFromFreeList(p, req, s) ==
  /\ freeList[p][s] # <<>>
  /\ LET h == Head(freeList[p][s]) IN
       /\ bd' = [bd EXCEPT ![h.pool][h.idx] = Allocated(s)]
       /\ freeList' = [freeList EXCEPT ![p][s] = Tail(@)]
       /\ held' = held (+) SetToBag({[h |-> h, req |-> req]})
  /\ UNCHANGED <<current, trueSize>>

\* CFE_ES_GetPoolBuf: the list is empty, so a new block is carved at the
\* cursor when its descriptor and its block fit in the room left.
(* Mutant: the room check leaves out the descriptor. *)
GetCarvedNoBD(p, req, s) ==
  /\ freeList[p][s] = <<>>
  /\ current[p] + s <= PoolSize
  /\ bd' = [bd EXCEPT ![p] = Append(@, Allocated(s))]
  /\ trueSize' = [trueSize EXCEPT ![p] = Append(@, s)]
  /\ current' = [current EXCEPT ![p] = @ + BDSize + s]
  /\ held' = held (+) SetToBag({[h |-> [pool |-> p, idx |-> Len(bd[p]) + 1], req |-> req]})
  /\ UNCHANGED freeList

GetCarved(p, req, s) ==
  /\ freeList[p][s] = <<>>
  /\ current[p] + BDSize + s <= PoolSize
  /\ bd' = [bd EXCEPT ![p] = Append(@, Allocated(s))]
  /\ trueSize' = [trueSize EXCEPT ![p] = Append(@, s)]
  /\ current' = [current EXCEPT ![p] = @ + BDSize + s]
  /\ held' = held (+) SetToBag({[h |-> [pool |-> p, idx |-> Len(bd[p]) + 1], req |-> req]})
  /\ UNCHANGED freeList

\* CFE_ES_GetPoolBuf: no class fits, or the class's list is empty and no
\* room is left: CFE_ES_ERR_MEM_BLOCK_SIZE, and nothing changes.
GetRefused(p, req) ==
  /\ \/ Fits(req) = {}
     \/ /\ Fits(req) # {}
        /\ LET s == SmallestFit(req) IN
             freeList[p][s] = <<>> /\ current[p] + BDSize + s > PoolSize
  /\ UNCHANGED vars

GetPoolBuf ==
  \E p \in Pools, req \in Reqs :
    \/ /\ Fits(req) # {}
       /\ \/ GetFromFreeList(p, req, SmallestFit(req))
          \/ GetCarved(p, req, SmallestFit(req))
       /\ UNCHANGED faults
    \/ GetRefused(p, req)

-----------------------------------------------------------------------------
(* Freeing.                                                                *)

\* The buffer lies in this pool and at a block's start, so a descriptor is
\* in front of it (else CFE_ES_BUFFER_NOT_IN_POOL / ERR_MEM_HANDLE).
InPool(p, h) == h.pool = p /\ h.idx \in 1..Len(bd[p])

\* The descriptor can be trusted: the check bits are 0x5a5a, the block is
\* marked allocated and its size is not beyond the largest block.
(* Mutant: the check bits are not compared. *)
ValidDescriptorNoCheckBits(d) ==
  /\ d.allocated = ALLOCATED
  /\ d.size <= MaxSize

(* Mutant: the allocated marker is not compared. *)
ValidDescriptorNoAllocated(d) ==
  /\ d.checkOK
  /\ d.size <= MaxSize

ValidDescriptor(d) ==
  /\ d.checkOK
  /\ d.allocated = ALLOCATED
  /\ d.size <= MaxSize

\* One outstanding allocation of h ends (the ghost does not change when no
\* caller holds h).
Release(h) ==
  IF \E x \in BagToSet(held) : x.h = h
    THEN held' = BagRemove(held, CHOOSE x \in BagToSet(held) : x.h = h)
    ELSE UNCHANGED held

\* CFE_ES_PutPoolBuf accepting a buffer: mark the block deallocated and push
\* it onto the free list of the size its descriptor gives.
PutAccepted(p, h) ==
  /\ InPool(p, h)
  /\ ValidDescriptor(bd[h.pool][h.idx])
  /\ LET s == bd[h.pool][h.idx].size IN
       /\ bd' = [bd EXCEPT ![h.pool][h.idx].allocated = DEALLOCATED]
       /\ freeList' = [freeList EXCEPT ![p][s] = <<h>> \o @]
  /\ Release(h)
  /\ UNCHANGED <<current, trueSize, faults>>

\* CFE_ES_PutPoolBuf refusing a buffer: CFE_ES_ERR_MEM_HANDLE, and nothing
\* changes (a corrupt block stays out of every list).
PutRefused(p, h) ==
  /\ ~(InPool(p, h) /\ ValidDescriptor(bd[h.pool][h.idx]))
  /\ UNCHANGED vars

\* A caller of any task frees any address: one it holds, one it already
\* freed, another pool's, or one at no block's start.
PutPoolBuf ==
  \E p \in Pools, q \in Pools :
    \E i \in 0..Len(bd[q]) :
      LET h == [pool |-> q, idx |-> i] IN
      PutAccepted(p, h) \/ PutRefused(p, h)

-----------------------------------------------------------------------------
(* Faults.                                                                 *)

\* A user overrun writes over the descriptor of a carved block: the check
\* bits are spoiled, and the marker and size are left as any value.
Overrun ==
  /\ faults < MaxFaults
  /\ \E p \in Pools : \E i \in 1..Len(bd[p]) :
       \E a \in {ALLOCATED, DEALLOCATED, GARBAGE}, s \in Sizes \cup {TOO_BIG} :
         bd' = [bd EXCEPT ![p][i] = [checkOK |-> FALSE, allocated |-> a, size |-> s]]
  /\ faults' = faults + 1
  /\ UNCHANGED <<current, freeList, trueSize, held>>

Next == GetPoolBuf \/ PutPoolBuf \/ Overrun

Spec == Init /\ [][Next]_vars

-----------------------------------------------------------------------------
(* Properties.                                                             *)

\* How often h stands in a list, in the lists of pool p, and in `held'.
Occ(seq, h) == Cardinality({k \in 1..Len(seq) : seq[k] = h})
ListedCount(p, h) == SumFunctionOnSet([s \in Sizes |-> Occ(freeList[p][s], h)], Sizes)
HeldCount(h) == SumFunctionOnSet(held, {x \in BagToSet(held) : x.h = h})

\* Every block carved from a pool is at most one of: held by one caller, or
\* listed once, in its own pool, on the free list of the size it was carved
\* with.  Only a corrupt block a caller gave back is neither.  No other
\* address is ever on a list.  Double frees, frees to the wrong pool, frees
\* of addresses at no block's start, and overruns must never let a block
\* be handed out twice or leave a list holding a foreign or misfiled block.
BlocksPartitioned ==
  /\ \A p \in Pools : \A s \in Sizes : \A k \in 1..Len(freeList[p][s]) :
       LET h == freeList[p][s][k] IN
       h.pool = p /\ h.idx \in 1..Len(bd[p]) /\ trueSize[p][h.idx] = s
  /\ \A p \in Pools : \A i \in 1..Len(bd[p]) :
       LET h == [pool |-> p, idx |-> i] IN HeldCount(h) + ListedCount(p, h) <= 1

\* Every buffer a caller holds is at least as large as the request it was
\* returned for: the class lookup and the reuse of freed blocks never hand
\* out a block smaller than asked for.
HeldBlockFitsRequest ==
  \A x \in BagToSet(held) :
    x.h.idx \in 1..Len(trueSize[x.h.pool]) /\ trueSize[x.h.pool][x.h.idx] >= x.req

=============================================================================
