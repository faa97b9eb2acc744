------------------------ MODULE PooledStorageProofs ------------------------
(***************************************************************************)
(* Safety of PooledStorage for every number of threads, pages, classes,    *)
(* modes and buckets: the inductive invariant, one lemma per step outside  *)
(* and under a pool's mutex, the invariance proof and the refinement of    *)
(* HeapPromise.                                                            *)
(***************************************************************************)
EXTENDS PooledStorage, FiniteSetTheorems, TLAPS

\* Most leaves need no arithmetic: Zenon first, then SMT.
USE ZenonT(10), SMTT(20)

\* The names of the intrusive lists are lists, and no two of them coincide.
LEMMA ListNames ==
  /\ \A p \in Pages : FreeList(p) \in Lists
  /\ \A t \in Threads, c \in Classes : TCacheBin(t, c) \in Lists
  /\ \A i \in Buckets : RemoteQueue(i) \in Lists
  /\ \A t \in Threads : Detached(t) \in Lists /\ InHand(t) \in Lists
  /\ Registry \in Lists /\ Abandoned \in Lists
BY DEF Lists, FreeLists, TCacheBins, RemoteQueues, DetachedLists, Hands

\* Free lists are named by their page: no other list is a page's free list.
LEMMA FreeListNames ==
  ASSUME NEW p
  PROVE /\ \A q : FreeList(q) = FreeList(p) => q = p
        /\ \A t, c : TCacheBin(t, c) # FreeList(p)
        /\ \A i : RemoteQueue(i) # FreeList(p)
        /\ \A t : Detached(t) # FreeList(p) /\ InHand(t) # FreeList(p)
        /\ Registry # FreeList(p) /\ Abandoned # FreeList(p)
BY DEF FreeList, TCacheBin, RemoteQueue, Detached, InHand, Registry, Abandoned

\* Magazine bins are named by their thread and class.
LEMMA TCacheNames ==
  ASSUME NEW u, NEW d
  PROVE /\ \A t, c : TCacheBin(t, c) = TCacheBin(u, d) => t = u /\ c = d
        /\ \A i : RemoteQueue(i) # TCacheBin(u, d)
        /\ \A t : Detached(t) # TCacheBin(u, d) /\ InHand(t) # TCacheBin(u, d)
        /\ Registry # TCacheBin(u, d) /\ Abandoned # TCacheBin(u, d)
BY DEF TCacheBin, RemoteQueue, Detached, InHand, Registry, Abandoned

\* The remaining lists (queues, detached lists, hands) have distinct names as well.
LEMMA OtherNames ==
  /\ \A i, j : RemoteQueue(i) = RemoteQueue(j) => i = j
  /\ \A t, u : Detached(t) = Detached(u) => t = u
  /\ \A t, u : InHand(t) = InHand(u) => t = u
  /\ \A i, t : RemoteQueue(i) # Detached(t) /\ RemoteQueue(i) # InHand(t)
  /\ \A t, u : Detached(t) # InHand(u)
  /\ \A i : Registry # RemoteQueue(i) /\ Abandoned # RemoteQueue(i)
  /\ \A t : Registry # Detached(t) /\ Abandoned # Detached(t)
  /\ \A t : Registry # InHand(t) /\ Abandoned # InHand(t)
  /\ Registry # Abandoned
BY DEF RemoteQueue, Detached, InHand, Registry, Abandoned

----------------------------------------------------------------------------
(* Finiteness and the layout of a page                                      *)

\* A page is the set of its Capacity blocks; there are finitely many blocks.
LEMMA PageLayout ==
  /\ IsFiniteSet(Blocks)
  /\ \A b \in Blocks : PageOf(b) \in Pages /\ b \in BlocksOf(PageOf(b))
  /\ \A p \in Pages :
       /\ BlocksOf(p) \subseteq Blocks
       /\ \A b \in BlocksOf(p) : PageOf(b) = p
       /\ IsFiniteSet(BlocksOf(p))
       /\ Cardinality(BlocksOf(p)) = Capacity
<1>1. /\ IsFiniteSet(1 .. Capacity) /\ Cardinality(1 .. Capacity) = Capacity
  BY FS_Interval, ConstantTypes
<1>2. IsFiniteSet(Blocks)
  BY <1>1, FS_Product, Finiteness DEF Blocks
<1>3. \A b \in Blocks : PageOf(b) \in Pages /\ b \in BlocksOf(PageOf(b))
  BY DEF Blocks, PageOf, BlocksOf
<1>4. ASSUME NEW p \in Pages
      PROVE /\ BlocksOf(p) \subseteq Blocks
            /\ \A b \in BlocksOf(p) : PageOf(b) = p
            /\ IsFiniteSet(BlocksOf(p))
            /\ Cardinality(BlocksOf(p)) = Capacity
  <2>1. IsFiniteSet({p}) /\ Cardinality({p}) = 1
    BY FS_Singleton
  <2>2. /\ IsFiniteSet(BlocksOf(p))
        /\ Cardinality(BlocksOf(p)) = 1 * Capacity
    <3>1. PICK S, T : S = {p} /\ T = 1 .. Capacity
      OBVIOUS
    <3>2. IsFiniteSet(S \X T) /\ Cardinality(S \X T) = Cardinality(S) * Cardinality(T)
      BY <1>1, <2>1, <3>1, FS_Product
    <3> QED BY <1>1, <2>1, <3>1, <3>2 DEF BlocksOf
  <2>3. /\ BlocksOf(p) \subseteq Blocks
        /\ \A b \in BlocksOf(p) : PageOf(b) = p
    BY DEF Blocks, BlocksOf, PageOf
  <2> QED BY <2>2, <2>3, ConstantTypes
<1> QED BY <1>2, <1>3, <1>4

\* A page has Capacity blocks.
LEMMA PageSize ==
  ASSUME NEW p \in Pages
  PROVE IsFiniteSet(BlocksOf(p)) /\ Cardinality(BlocksOf(p)) = Capacity
BY PageLayout

\* Sets of blocks are finite, with a natural number of elements.
LEMMA FiniteBlocks ==
  ASSUME NEW S \in SUBSET Blocks
  PROVE IsFiniteSet(S) /\ Cardinality(S) \in Nat
BY PageLayout, FS_Subset, FS_CardinalityType

----------------------------------------------------------------------------
(* The inductive invariant                                                  *)

AllocPCs == {"check", "drain", "push", "load", "sub", "pop", "pop_again",
             "pool", "insert"}

\* A running allocation knows its class and mode, a pending free its block.
ArgsOK ==
  \A t \in Threads :
    /\ pc[t] \in AllocPCs => call[t].cls \in Classes /\ call[t].mode \in Modes
    /\ pc[t] \in {"direct", "free_old"} => call[t].old # NoBlock
    /\ pc[t] = "idle" => call[t].old = NoBlock

\* The blocks of a mapped page are stamped with the mode of some allocation.
Stamped == \A b \in Blocks : Mapped(PageOf(b)) => mode[b] \in Modes

IInv ==
  /\ TypeOK
  /\ ArgsOK
  /\ Stamped
  /\ OneListPerBlock
  /\ LiveCountExact
  /\ MagicMeansLive
  /\ ReallocSourceLive

LiveLists == {Registry} \cup Hands

\* Moving headers between two lists other than the pages' free lists keeps
\* every block on one list and every live_count exact.
LEMMA MoveKeepsLists ==
  ASSUME TypeOK, OneListPerBlock, LiveCountExact,
         NEW k \in Lists, NEW l \in Lists, k # l,
         \A p \in Pages : k # FreeList(p) /\ l # FreeList(p),
         NEW B \in SUBSET on[k],
         on' = Move(B, k, l), UNCHANGED pageVars
  PROVE /\ on' \in [Lists -> SUBSET Blocks]
        /\ OneListPerBlock' /\ LiveCountExact'
<1>1. on' = [on EXCEPT ![k] = @ \ B, ![l] = @ \cup B]
  BY DEF Move
<1>2. on \in [Lists -> SUBSET Blocks]
  BY DEF TypeOK
<1>3. /\ on'[k] = on[k] \ B /\ on'[l] = on[l] \cup B
      /\ \A j \in Lists \ {k, l} : on'[j] = on[j]
  BY <1>1, <1>2
<1>4. on' \in [Lists -> SUBSET Blocks]
  BY <1>1, <1>2
<1>5. OneListPerBlock'
  <2>1. \A i, j \in Lists : i # j => on'[i] \cap on'[j] = {}
    BY <1>3 DEF OneListPerBlock
  <2>2. \A b \in Blocks : (\E j \in Lists : b \in on'[j]) <=> (\E j \in Lists : b \in on[j])
    BY <1>3
  <2> QED BY <2>1, <2>2 DEF OneListPerBlock, Mapped, pageVars
<1>6. LiveCountExact'
  <2>1. \A p \in Pages : on'[FreeList(p)] = on[FreeList(p)]
    BY <1>3, ListNames
  <2> QED BY <2>1 DEF LiveCountExact, Mapped, pageVars
<1> QED BY <1>4, <1>5, <1>6

\* ... and keeps the magic exact when it is set or cleared with the move.
LEMMA MoveKeepsMagic ==
  ASSUME TypeOK, OneListPerBlock, MagicMeansLive,
         NEW k \in Lists, NEW l \in Lists, k # l,
         NEW B \in SUBSET on[k],
         on' = Move(B, k, l),
         \A b \in Blocks : magic'[b] = IF b \in B THEN l \in LiveLists ELSE magic[b]
  PROVE MagicMeansLive'
<1>1. on \in [Lists -> SUBSET Blocks]
  BY DEF TypeOK
<1>3. /\ on'[k] = on[k] \ B /\ on'[l] = on[l] \cup B
      /\ \A j \in Lists \ {k, l} : on'[j] = on[j]
  BY <1>1 DEF Move
<1>4. LiveLists \subseteq Lists
  BY DEF LiveLists, Lists
<1>5. SUFFICES ASSUME NEW b \in Blocks
               PROVE magic'[b] <=> \E j \in LiveLists : b \in on'[j]
  BY DEF MagicMeansLive, LiveLists
<1>6. CASE b \in B
  <2>1. \A j \in Lists : b \in on'[j] => j = l
    BY <1>3, <1>6 DEF OneListPerBlock
  <2>2. b \in on'[l] /\ (magic'[b] = (l \in LiveLists))
    BY <1>3, <1>6
  <2> QED BY <2>1, <2>2, <1>4
<1>7. CASE b \notin B
  <2>1. \A j \in Lists : b \in on'[j] <=> b \in on[j]
    BY <1>3, <1>7
  <2>2. magic'[b] = magic[b]
    BY <1>7
  <2> QED BY <2>1, <2>2, <1>4 DEF MagicMeansLive, LiveLists
<1> QED BY <1>6, <1>7

----------------------------------------------------------------------------
(* Control: the program counter and the arguments of a call                 *)

\* The arguments of an idle thread are well typed.
LEMMA NoCallType ==
  ASSUME NEW t \in Threads
  PROVE NoCall(t) \in Calls /\ NoCall(t).old = NoBlock
<1>1. Home[t] \in Buckets /\ 0 \in 0 .. DrainLimit
  BY ConstantTypes
<1> QED BY <1>1 DEF NoCall, Calls

\* The caller's arguments survive a step inside an allocation; the sources of
\* running reallocs stay registered when the registry only grows.
LEMMA ControlStep ==
  ASSUME IInv, NEW t \in Threads,
         NEW q \in AllocPCs \cup {"free_old"}, pc' = [pc EXCEPT ![t] = q],
         pc[t] \in AllocPCs,
         NEW c \in Calls, call' = [call EXCEPT ![t] = c],
         c.cls = call[t].cls, c.mode = call[t].mode, c.old = call[t].old,
         q = "free_old" => c.old # NoBlock,
         on[Registry] \subseteq on'[Registry]
  PROVE /\ pc' \in [Threads -> PCs] /\ call' \in [Threads -> Calls]
        /\ ArgsOK' /\ ReallocSourceLive'
<1> USE DEF IInv, TypeOK
<1>1. /\ q \in PCs /\ q # "idle" /\ q # "release" /\ q # "direct"
      /\ pc[t] # "idle" /\ pc[t] # "release"
  BY DEF AllocPCs, PCs
<1>2. pc' \in [Threads -> PCs] /\ call' \in [Threads -> Calls]
  BY <1>1
<1>3. \A u \in Threads : call'[u].old = call[u].old /\ call'[u].cls = call[u].cls
                           /\ call'[u].mode = call[u].mode
  OBVIOUS
<1>4. pc'[t] = q /\ \A u \in Threads \ {t} : pc'[u] = pc[u]
  OBVIOUS
<1>5. ArgsOK'
  BY <1>1, <1>3, <1>4 DEF ArgsOK
<1>6. ReallocSourceLive'
  BY <1>1, <1>3, <1>4 DEF ReallocSourceLive
<1> QED BY <1>2, <1>5, <1>6

\* A call that returns leaves the other calls as they were.
LEMMA ControlReturn ==
  ASSUME IInv, NEW t \in Threads, Return(t), on[Registry] \subseteq on'[Registry]
  PROVE /\ pc' \in [Threads -> PCs] /\ call' \in [Threads -> Calls]
        /\ ArgsOK' /\ ReallocSourceLive'
<1> USE DEF IInv, TypeOK, Return, Goto
<1>1. NoCall(t) \in Calls /\ NoCall(t).old = NoBlock
  BY NoCallType
<1>2. pc' \in [Threads -> PCs] /\ call' \in [Threads -> Calls]
  BY <1>1 DEF PCs
<1>3. pc'[t] = "idle" /\ call'[t].old = NoBlock
      /\ \A u \in Threads \ {t} : pc'[u] = pc[u] /\ call'[u] = call[u]
  BY <1>1
<1>4. ArgsOK' /\ ReallocSourceLive'
  BY <1>3 DEF ArgsOK, ReallocSourceLive, AllocPCs
<1> QED BY <1>2, <1>4

----------------------------------------------------------------------------
(* One lemma per action of a running allocation                             *)

\* Steps that move no header keep everything but control.
LEMMA QuietStep ==
  ASSUME IInv, UNCHANGED <<on, pageVars, hdrVars>>,
         bucketOwner' \in [Buckets -> Threads \cup {NoThread}], pending' \in Int,
         pc' \in [Threads -> PCs], call' \in [Threads -> Calls],
         ArgsOK', ReallocSourceLive'
  PROVE IInv'
BY DEF IInv, TypeOK, OneListPerBlock, LiveCountExact, MagicMeansLive, Stamped,
       Mapped, pageVars, hdrVars

\* Entering allocate_size_class / allocate_span or reallocate.
LEMMA BeginStep ==
  ASSUME IInv, NEW t \in Threads, NEW c \in Classes, NEW m \in Modes,
         NEW old \in Blocks \cup {NoBlock}, Begin(t, c, m, old),
         old # NoBlock => old \in on[Registry] \ BeingReallocated
  PROVE IInv'
<1> USE DEF IInv, TypeOK
<1> DEFINE new == [NoCall(t) EXCEPT !.cls = c, !.mode = m, !.old = old]
           q == IF Policy[m].use_thread_cache THEN "check" ELSE "pool"
<1>1. pc[t] = "idle" /\ pc' = [pc EXCEPT ![t] = q] /\ call' = [call EXCEPT ![t] = new]
      /\ UNCHANGED <<on, pageVars, hdrVars, remoteVars>>
  BY DEF Begin, Goto
<1>2. new \in Calls /\ new.cls = c /\ new.mode = m /\ new.old = old
  BY NoCallType DEF Calls
<1>3. q \in {"check", "pool"}
  OBVIOUS
<1> HIDE DEF new, q
<1>4. pc' \in [Threads -> PCs] /\ call' \in [Threads -> Calls]
  BY <1>1, <1>2, <1>3 DEF PCs
<1>5. pc'[t] = q /\ call'[t] = new
      /\ \A u \in Threads \ {t} : pc'[u] = pc[u] /\ call'[u] = call[u]
  BY <1>1
<1>6. ArgsOK'
  BY <1>2, <1>3, <1>5 DEF ArgsOK, AllocPCs
<1>7. ReallocSourceLive'
  <2>1. on' = on
    BY <1>1
  <2>2. \A u \in Threads : pc[u] # "idle" /\ old # NoBlock => call[u].old # old
    BY DEF BeingReallocated
  <2> QED BY <1>2, <1>3, <1>5, <2>1, <2>2 DEF ReallocSourceLive
<1> QED BY <1>1, <1>4, <1>6, <1>7, QuietStep DEF remoteVars

\* Entering reallocate for a size that is mapped directly.
LEMMA ReallocDirectStep ==
  ASSUME IInv, NEW t \in Threads, NEW b \in Blocks, ReallocDirect(t, b)
  PROVE IInv'
<1> USE DEF IInv, TypeOK
<1> DEFINE new == [NoCall(t) EXCEPT !.mode = mode[b], !.old = b]
<1>1. /\ pc[t] = "idle" /\ pc' = [pc EXCEPT ![t] = "direct"] /\ call' = [call EXCEPT ![t] = new]
      /\ b \in on[Registry] \ BeingReallocated
      /\ UNCHANGED <<on, pageVars, hdrVars, remoteVars>>
  BY DEF ReallocDirect, Goto
<1>2. new \in Calls /\ new.old = b /\ b # NoBlock
  BY NoCallType, Sentinels DEF Calls, Blocks
<1> HIDE DEF new
<1>3. pc' \in [Threads -> PCs] /\ call' \in [Threads -> Calls]
  BY <1>1, <1>2 DEF PCs
<1>4. pc'[t] = "direct" /\ call'[t] = new
      /\ \A u \in Threads \ {t} : pc'[u] = pc[u] /\ call'[u] = call[u]
  BY <1>1
<1>5. ArgsOK'
  BY <1>2, <1>4 DEF ArgsOK, AllocPCs
<1>6. ReallocSourceLive'
  <2>1. on' = on /\ b \in on[Registry]
    BY <1>1
  <2>2. \A u \in Threads : pc[u] # "idle" => call[u].old # b
    BY <1>1 DEF BeingReallocated
  <2> QED BY <1>2, <1>4, <2>1, <2>2 DEF ReallocSourceLive
<1> QED BY <1>1, <1>3, <1>5, <1>6, QuietStep DEF remoteVars

\* The direct mapping is made, or mmap fails.
LEMMA DirectResultStep ==
  ASSUME IInv, NEW t \in Threads, DirectResult(t)
  PROVE IInv'
<1> USE DEF IInv, TypeOK
<1>1. pc[t] = "direct" /\ UNCHANGED <<on, pageVars, hdrVars, remoteVars>>
  BY DEF DirectResult
<1>2. CASE Return(t)
  BY <1>1, <1>2, ControlReturn, QuietStep DEF remoteVars
<1>3. CASE pc' = [pc EXCEPT ![t] = "free_old"] /\ call' = call
  <2>1. pc' \in [Threads -> PCs] /\ call' \in [Threads -> Calls]
    BY <1>3 DEF PCs
  <2>2. pc'[t] = "free_old" /\ \A u \in Threads \ {t} : pc'[u] = pc[u]
    BY <1>3
  <2>3. ArgsOK'
    BY <1>1, <1>3, <2>2 DEF ArgsOK, AllocPCs
  <2>4. ReallocSourceLive'
    BY <1>1, <1>3, <2>2 DEF ReallocSourceLive
  <2> QED BY <1>1, <2>1, <2>3, <2>4, QuietStep DEF remoteVars
<1> QED BY <1>2, <1>3 DEF DirectResult, Return, Goto

\* Reading g_remote_pending.
LEMMA CheckPendingStep ==
  ASSUME IInv, NEW t \in Threads, CheckPending(t) \/ DrainLoad(t) \/ DrainSub(t)
  PROVE IInv'
<1> USE DEF IInv, TypeOK
<1>1. PICK q \in AllocPCs : pc' = [pc EXCEPT ![t] = q]
  BY DEF CheckPending, DrainLoad, DrainSub, Goto, AllocPCs
<1>2. pc[t] \in AllocPCs /\ UNCHANGED <<on, pageVars, hdrVars, bucketOwner, call>>
      /\ pending' \in Int
  BY DEF CheckPending, DrainLoad, DrainSub, AllocPCs, remoteVars
<1>3. q # "free_old" /\ call' = [call EXCEPT ![t] = call[t]] /\ call[t] \in Calls
  BY <1>2 DEF AllocPCs
<1>4. /\ pc' \in [Threads -> PCs] /\ call' \in [Threads -> Calls]
      /\ ArgsOK' /\ ReallocSourceLive'
  BY <1>1, <1>2, <1>3, ControlStep
<1> QED BY <1>2, <1>4, QuietStep

\* An empty magazine bin.
LEMMA PopMissStep ==
  ASSUME IInv, NEW t \in Threads, PopMiss(t)
  PROVE IInv'
<1> USE DEF IInv, TypeOK
<1>1. PICK q \in {"drain", "pool"} :
        /\ pc' = [pc EXCEPT ![t] = q]
        /\ \/ call' = call
           \/ call' = [call EXCEPT ![t] = [@ EXCEPT !.ret = "pop_again"]]
  BY DEF PopMiss, Goto
<1>2. pc[t] \in AllocPCs /\ UNCHANGED <<on, pageVars, hdrVars, remoteVars>>
  BY DEF PopMiss, AllocPCs
<1>3. PICK c \in Calls : /\ call' = [call EXCEPT ![t] = c]
                         /\ c.cls = call[t].cls /\ c.mode = call[t].mode
                         /\ c.old = call[t].old
  <2>1. call[t] \in Calls /\ call = [call EXCEPT ![t] = call[t]]
    OBVIOUS
  <2>2. [call[t] EXCEPT !.ret = "pop_again"] \in Calls
    BY <2>1 DEF Calls
  <2> QED BY <1>1, <2>1, <2>2 DEF Calls
<1>4. /\ pc' \in [Threads -> PCs] /\ call' \in [Threads -> Calls]
      /\ ArgsOK' /\ ReallocSourceLive'
  BY <1>1, <1>2, <1>3, ControlStep DEF AllocPCs
<1> QED BY <1>2, <1>4, QuietStep DEF remoteVars

\* mmap fails in create_pool_page.
LEMMA PoolAllocFailStep ==
  ASSUME IInv, NEW t \in Threads, PoolAllocFail(t)
  PROVE IInv'
<1>1. Return(t) /\ UNCHANGED <<on, pageVars, hdrVars, remoteVars>>
  BY DEF PoolAllocFail, Return
<1> QED BY <1>1, ControlReturn, QuietStep DEF remoteVars, IInv, TypeOK


\* The lists whose headers carry the magic: the registry and the threads' hands.
LEMMA LiveNames ==
  /\ Registry \in LiveLists /\ \A t \in Threads : InHand(t) \in LiveLists
  /\ \A t, c : TCacheBin(t, c) \notin LiveLists
  /\ \A i : RemoteQueue(i) \notin LiveLists
  /\ \A t : Detached(t) \notin LiveLists
  /\ \A p : FreeList(p) \notin LiveLists
  /\ Abandoned \notin LiveLists
BY FreeListNames, TCacheNames, OtherNames DEF LiveLists, Hands

\* The magic of a linked header tells whether its list is one of the live ones.
LEMMA MagicOn ==
  ASSUME IInv, NEW k \in Lists, NEW b \in on[k]
  PROVE b \in Blocks /\ magic[b] = (k \in LiveLists)
<1>1. b \in Blocks /\ magic[b] \in BOOLEAN
  BY DEF IInv, TypeOK
<1>2. magic[b] <=> \E l \in LiveLists : b \in on[l]
  BY <1>1 DEF IInv, MagicMeansLive, LiveLists
<1>3. \A l \in Lists : b \in on[l] => l = k
  BY DEF IInv, OneListPerBlock
<1>4. LiveLists \subseteq Lists
  BY DEF LiveLists, Lists
<1> QED BY <1>1, <1>2, <1>3, <1>4

\* A linked header lies in a mapped page.
LEMMA LinkedIsMapped ==
  ASSUME IInv, NEW k \in Lists, NEW b \in on[k]
  PROVE PageOf(b) \in Pages /\ Mapped(PageOf(b)) /\ ClassOf(b) \in Classes
<1>1. b \in Blocks /\ PageOf(b) \in Pages
  BY PageLayout DEF IInv, TypeOK
<1>2. Mapped(PageOf(b))
  BY <1>1 DEF IInv, OneListPerBlock
<1> QED BY <1>1, <1>2 DEF IInv, TypeOK, Mapped, ClassOf

\* The list part of the invariant after a move between two such lists.
LEMMA MoveStep ==
  ASSUME IInv,
         NEW k \in Lists, NEW l \in Lists, k # l,
         \A p \in Pages : k # FreeList(p) /\ l # FreeList(p),
         NEW B \in SUBSET on[k], on' = Move(B, k, l), UNCHANGED pageVars,
         \/ magic' = magic /\ (k \in LiveLists <=> l \in LiveLists)
         \/ \E b, v : /\ B = {b} /\ v \in BOOLEAN /\ (v <=> l \in LiveLists)
                      /\ magic' = [magic EXCEPT ![b] = v]
  PROVE /\ on' \in [Lists -> SUBSET Blocks] /\ magic' \in [Blocks -> BOOLEAN]
        /\ OneListPerBlock' /\ LiveCountExact' /\ MagicMeansLive'
<1>1. /\ on' \in [Lists -> SUBSET Blocks]
      /\ OneListPerBlock' /\ LiveCountExact'
  BY MoveKeepsLists DEF IInv
<1>2. \A b \in B : b \in Blocks /\ magic[b] = (k \in LiveLists)
  BY MagicOn
<1>3. magic \in [Blocks -> BOOLEAN]
  BY DEF IInv, TypeOK
<1>4. /\ magic' \in [Blocks -> BOOLEAN]
      /\ \A b \in Blocks : magic'[b] = IF b \in B THEN l \in LiveLists ELSE magic[b]
  <2>1. CASE magic' = magic /\ (k \in LiveLists <=> l \in LiveLists)
    BY <1>2, <1>3, <2>1
  <2>2. ASSUME NEW b, NEW v \in BOOLEAN, B = {b}, v <=> l \in LiveLists,
               magic' = [magic EXCEPT ![b] = v]
        PROVE /\ magic' \in [Blocks -> BOOLEAN]
              /\ \A x \in Blocks : magic'[x] = IF x \in B THEN l \in LiveLists ELSE magic[x]
    BY <1>2, <1>3, <2>2
  <2> QED BY <2>1, <2>2
<1>5. MagicMeansLive'
  BY <1>4, MoveKeepsMagic DEF IInv
<1> QED BY <1>1, <1>4, <1>5

\* drain_remote_frees_for takes the whole queue of its bucket.
LEMMA DrainDetachStep ==
  ASSUME IInv, NEW t \in Threads, DrainDetach(t)
  PROVE IInv'
<1>1. pc[t] \in AllocPCs /\ call[t] \in Calls
      /\ UNCHANGED <<pageVars, hdrVars, remoteVars>>
  BY DEF DrainDetach, AllocPCs, IInv, TypeOK
<1>2. CASE Goto(t, call[t].ret) /\ UNCHANGED <<on, call>>
  <2>1. call[t].ret \in AllocPCs /\ call[t].ret # "free_old"
    BY <1>1 DEF Calls, AllocPCs
  <2>2. call' = [call EXCEPT ![t] = call[t]]
    BY <1>2 DEF IInv, TypeOK
  <2>3. /\ pc' \in [Threads -> PCs] /\ call' \in [Threads -> Calls]
        /\ ArgsOK' /\ ReallocSourceLive'
    BY <1>1, <1>2, <2>1, <2>2, ControlStep DEF Goto
  <2> QED BY <1>1, <1>2, <2>3, QuietStep DEF remoteVars, IInv, TypeOK
<1>3. ASSUME NEW i \in Buckets,
             on' = Move(on[RemoteQueue(i)], RemoteQueue(i), Detached(t)),
             call' = [call EXCEPT ![t] = [@ EXCEPT !.bucket = i, !.drained = 0]],
             Goto(t, "push")
      PROVE IInv'
  <2> DEFINE c == [call[t] EXCEPT !.bucket = i, !.drained = 0]
  <2>1. c \in Calls /\ c.cls = call[t].cls /\ c.mode = call[t].mode /\ c.old = call[t].old
    <3>1. 0 \in 0 .. DrainLimit
      BY ConstantTypes
    <3> QED BY <1>1, <3>1 DEF Calls
  <2>2. call' = [call EXCEPT ![t] = c]
    BY <1>3
  <2>3. /\ RemoteQueue(i) \in Lists /\ Detached(t) \in Lists
        /\ RemoteQueue(i) # Detached(t) /\ Registry # RemoteQueue(i) /\ Registry # Detached(t)
        /\ \A p \in Pages : RemoteQueue(i) # FreeList(p) /\ Detached(t) # FreeList(p)
        /\ RemoteQueue(i) \notin LiveLists /\ Detached(t) \notin LiveLists
    BY ListNames, OtherNames, FreeListNames, LiveNames
  <2>4. on[Registry] = on'[Registry]
    BY <1>3, <2>3, ListNames DEF Move, IInv, TypeOK
  <2>5. /\ pc' \in [Threads -> PCs] /\ call' \in [Threads -> Calls]
        /\ ArgsOK' /\ ReallocSourceLive'
    <3> HIDE DEF c
    <3>1. "push" \in AllocPCs /\ "push" # "free_old" /\ pc' = [pc EXCEPT ![t] = "push"]
      BY <1>3 DEF Goto, AllocPCs
    <3> QED BY <1>1, <2>1, <2>2, <2>4, <3>1, ControlStep
  <2>6. /\ on' \in [Lists -> SUBSET Blocks] /\ magic' \in [Blocks -> BOOLEAN]
        /\ OneListPerBlock' /\ LiveCountExact' /\ MagicMeansLive'
    BY <1>1, <1>3, <2>3, MoveStep DEF hdrVars
  <2> QED BY <1>1, <2>5, <2>6 DEF pageVars, hdrVars, remoteVars, IInv, TypeOK, Stamped, Mapped
<1> QED BY <1>2, <1>3 DEF DrainDetach

\* drain_remote_frees_for caches one detached block.
LEMMA DrainPushStep ==
  ASSUME IInv, NEW t \in Threads, DrainPush(t)
  PROVE IInv'
<1>1. PICK b \in on[Detached(t)] :
        /\ on' = Move({b}, Detached(t), TCacheBin(t, ClassOf(b)))
        /\ magic' = [magic EXCEPT ![b] = FALSE]
        /\ owner' = [owner EXCEPT ![b] = NoThread]
  BY DEF DrainPush
<1>2. /\ pc[t] \in AllocPCs /\ pc' = [pc EXCEPT ![t] = "load"]
      /\ call[t] \in Calls /\ call[t].drained < DrainLimit
      /\ call' = [call EXCEPT ![t] = [@ EXCEPT !.drained = call[t].drained + 1]]
      /\ UNCHANGED <<pageVars, mode, remoteVars>>
  BY DEF DrainPush, Goto, AllocPCs, IInv, TypeOK
<1> DEFINE c == [call[t] EXCEPT !.drained = call[t].drained + 1]
           bin == TCacheBin(t, ClassOf(b))
<1>3. c \in Calls /\ c.cls = call[t].cls /\ c.mode = call[t].mode /\ c.old = call[t].old
  BY <1>2, ConstantTypes DEF Calls
<1>4. call' = [call EXCEPT ![t] = c]
  BY <1>2
<1>5. b \in Blocks /\ ClassOf(b) \in Classes
  BY ListNames, LinkedIsMapped, MagicOn
<1>6. /\ Detached(t) \in Lists /\ bin \in Lists
      /\ Detached(t) # bin /\ Registry # Detached(t) /\ Registry # bin
      /\ \A p \in Pages : Detached(t) # FreeList(p) /\ bin # FreeList(p)
      /\ bin \notin LiveLists
  BY <1>5, ListNames, OtherNames, TCacheNames, FreeListNames, LiveNames
<1>7. on[Registry] = on'[Registry]
  BY <1>1, <1>6, ListNames DEF Move, IInv, TypeOK
<1> HIDE DEF c, bin
<1>8. /\ pc' \in [Threads -> PCs] /\ call' \in [Threads -> Calls]
      /\ ArgsOK' /\ ReallocSourceLive'
  <2>1. "load" \in AllocPCs /\ "load" # "free_old"
    BY DEF AllocPCs
  <2> QED BY <1>2, <1>3, <1>4, <1>7, <2>1, ControlStep
<1>9. /\ on' \in [Lists -> SUBSET Blocks] /\ magic' \in [Blocks -> BOOLEAN]
      /\ OneListPerBlock' /\ LiveCountExact' /\ MagicMeansLive'
  <2>1. on' = Move({b}, Detached(t), bin) /\ {b} \in SUBSET on[Detached(t)]
    BY <1>1 DEF bin
  <2> QED BY <1>1, <1>2, <1>6, <2>1, MoveStep
<1> QED BY <1>1, <1>2, <1>5, <1>8, <1>9 DEF pageVars, remoteVars, IInv, TypeOK, Stamped, Mapped


\* drain_remote_frees_for splices the rest back.
LEMMA DrainEndStep ==
  ASSUME IInv, NEW t \in Threads, DrainEnd(t)
  PROVE IInv'
<1> DEFINE queue == RemoteQueue(call[t].bucket)
<1>1. /\ pc[t] \in AllocPCs /\ pc' = [pc EXCEPT ![t] = call[t].ret]
      /\ call[t] \in Calls /\ call' = call
      /\ on' = Move(on[Detached(t)], Detached(t), queue)
      /\ UNCHANGED <<pageVars, hdrVars, remoteVars>>
  BY DEF DrainEnd, Goto, AllocPCs, IInv, TypeOK
<1>2. call[t].bucket \in Buckets /\ call[t].ret \in AllocPCs /\ call[t].ret # "free_old"
  BY <1>1 DEF Calls, AllocPCs
<1>3. /\ Detached(t) \in Lists /\ queue \in Lists
      /\ Detached(t) # queue /\ Registry # Detached(t) /\ Registry # queue
      /\ \A p \in Pages : Detached(t) # FreeList(p) /\ queue # FreeList(p)
      /\ queue \notin LiveLists /\ Detached(t) \notin LiveLists
  BY <1>2, ListNames, OtherNames, FreeListNames, LiveNames
<1> HIDE DEF queue
<1>4. on[Registry] = on'[Registry]
  BY <1>1, <1>3, ListNames DEF Move, IInv, TypeOK
<1>5. call' = [call EXCEPT ![t] = call[t]]
  BY <1>1 DEF IInv, TypeOK
<1>6. /\ pc' \in [Threads -> PCs] /\ call' \in [Threads -> Calls]
      /\ ArgsOK' /\ ReallocSourceLive'
  BY <1>1, <1>2, <1>4, <1>5, ControlStep
<1>7. /\ on' \in [Lists -> SUBSET Blocks] /\ magic' \in [Blocks -> BOOLEAN]
      /\ OneListPerBlock' /\ LiveCountExact' /\ MagicMeansLive'
  BY <1>1, <1>3, MoveStep DEF hdrVars
<1> QED BY <1>1, <1>6, <1>7 DEF pageVars, hdrVars, remoteVars, IInv, TypeOK, Stamped, Mapped

\* pop_tcache hands a cached block to the running call.
LEMMA PopTCacheStep ==
  ASSUME IInv, NEW t \in Threads, PopTCache(t)
  PROVE IInv'
<1> DEFINE bin == TCacheBin(t, call[t].cls)
<1>1. PICK b \in on[bin] :
        /\ on' = Move({b}, bin, InHand(t))
        /\ magic' = [magic EXCEPT ![b] = TRUE]
        /\ owner' = [owner EXCEPT ![b] = t]
        /\ mode' = [mode EXCEPT ![b] = call[t].mode]
  BY DEF PopTCache, Finalize
<1>2. /\ pc[t] \in AllocPCs /\ pc' = [pc EXCEPT ![t] = "insert"]
      /\ call[t] \in Calls /\ call' = call /\ UNCHANGED <<pageVars, remoteVars>>
  BY DEF PopTCache, Goto, AllocPCs, IInv, TypeOK
<1>3. call[t].cls \in Classes /\ call[t].mode \in Modes
  BY <1>2 DEF IInv, ArgsOK
<1>4. /\ bin \in Lists /\ InHand(t) \in Lists
      /\ bin # InHand(t) /\ Registry # bin /\ Registry # InHand(t)
      /\ \A p \in Pages : bin # FreeList(p) /\ InHand(t) # FreeList(p)
      /\ InHand(t) \in LiveLists
  BY <1>3, ListNames, OtherNames, TCacheNames, FreeListNames, LiveNames
<1> HIDE DEF bin
<1>5. b \in Blocks
  BY <1>4, MagicOn
<1>6. on[Registry] = on'[Registry]
  BY <1>1, <1>4, ListNames DEF Move, IInv, TypeOK
<1>7. call' = [call EXCEPT ![t] = call[t]]
  BY <1>2 DEF IInv, TypeOK
<1>8. /\ pc' \in [Threads -> PCs] /\ call' \in [Threads -> Calls]
      /\ ArgsOK' /\ ReallocSourceLive'
  <2>1. "insert" \in AllocPCs /\ "insert" # "free_old"
    BY DEF AllocPCs
  <2> QED BY <1>2, <1>6, <1>7, <2>1, ControlStep
<1>9. /\ on' \in [Lists -> SUBSET Blocks] /\ magic' \in [Blocks -> BOOLEAN]
      /\ OneListPerBlock' /\ LiveCountExact' /\ MagicMeansLive'
  BY <1>1, <1>2, <1>4, MoveStep
<1>10. Stamped'
  BY <1>1, <1>2, <1>3, <1>5 DEF Stamped, Mapped, pageVars, IInv, TypeOK
<1> QED BY <1>1, <1>2, <1>3, <1>5, <1>8, <1>9, <1>10 DEF pageVars, remoteVars, IInv, TypeOK

\* registry_insert gives the block to the program.
LEMMA RegistryInsertStep ==
  ASSUME IInv, NEW t \in Threads, RegistryInsert(t)
  PROVE IInv'
<1>0. PICK b \in on[InHand(t)] : on' = Move({b}, InHand(t), Registry)
  BY DEF RegistryInsert
<1>1. /\ pc[t] \in AllocPCs /\ call[t] \in Calls
      /\ {b} \in SUBSET on[InHand(t)] /\ on' = Move({b}, InHand(t), Registry)
      /\ UNCHANGED <<pageVars, hdrVars, remoteVars>>
  BY <1>0 DEF RegistryInsert, AllocPCs, IInv, TypeOK
<1>2. /\ InHand(t) \in Lists /\ Registry \in Lists /\ Registry # InHand(t)
      /\ \A p \in Pages : InHand(t) # FreeList(p) /\ Registry # FreeList(p)
      /\ InHand(t) \in LiveLists /\ Registry \in LiveLists
  BY ListNames, OtherNames, FreeListNames, LiveNames
<1>3. on[Registry] \subseteq on'[Registry]
  BY <1>1, <1>2 DEF Move, IInv, TypeOK
<1>4. /\ pc' \in [Threads -> PCs] /\ call' \in [Threads -> Calls]
      /\ ArgsOK' /\ ReallocSourceLive'
  <2>1. CASE call[t].old = NoBlock
    <3>1. Return(t)
      BY <2>1 DEF RegistryInsert, Return
    <3> QED BY <1>3, <3>1, ControlReturn
  <2>2. CASE call[t].old # NoBlock
    <3>1. pc' = [pc EXCEPT ![t] = "free_old"] /\ call' = [call EXCEPT ![t] = call[t]]
      BY <2>2 DEF RegistryInsert, Goto, IInv, TypeOK
    <3> QED BY <1>1, <1>3, <2>2, <3>1, ControlStep
  <2> QED BY <2>1, <2>2
<1>5. /\ on' \in [Lists -> SUBSET Blocks] /\ magic' \in [Blocks -> BOOLEAN]
      /\ OneListPerBlock' /\ LiveCountExact' /\ MagicMeansLive'
  BY <1>1, <1>2, MoveStep DEF hdrVars
<1> QED BY <1>1, <1>4, <1>5 DEF pageVars, hdrVars, remoteVars, IInv, TypeOK, Stamped, Mapped

----------------------------------------------------------------------------
(* One lemma per action of a release                                        *)

\* registry_remove takes the block back from the program.
LEMMA RegistryRemoveStep ==
  ASSUME IInv, NEW t \in Threads, NEW b \in on[Registry], RegistryRemove(t, b),
         \A u \in Threads \ {t} : pc[u] # "idle" => call[u].old # b,
         pc[t] \in {"idle", "free_old"}
  PROVE IInv'
<1>1. /\ on' = Move({b}, Registry, InHand(t)) /\ call' = call
      /\ pc' = [pc EXCEPT ![t] = "release"]
      /\ UNCHANGED <<pageVars, hdrVars, remoteVars>>
  BY DEF RegistryRemove, Goto
<1>2. /\ InHand(t) \in Lists /\ Registry \in Lists /\ Registry # InHand(t)
      /\ \A p \in Pages : InHand(t) # FreeList(p) /\ Registry # FreeList(p)
      /\ InHand(t) \in LiveLists /\ Registry \in LiveLists
  BY ListNames, OtherNames, FreeListNames, LiveNames
<1>3. on'[Registry] = on[Registry] \ {b}
  BY <1>1, <1>2 DEF Move, IInv, TypeOK
<1>4. pc' \in [Threads -> PCs] /\ call' \in [Threads -> Calls]
  BY <1>1 DEF PCs, IInv, TypeOK
<1>5. pc'[t] = "release" /\ \A u \in Threads \ {t} : pc'[u] = pc[u]
  BY <1>1 DEF IInv, TypeOK
<1>6. ArgsOK'
  BY <1>1, <1>5 DEF ArgsOK, AllocPCs, IInv
<1>7. ReallocSourceLive'
  <2> SUFFICES ASSUME NEW u \in Threads, pc'[u] \notin {"idle", "release"},
                      call[u].old # NoBlock
               PROVE /\ call[u].old \in on'[Registry]
                     /\ \A v \in Threads \ {u} : pc'[v] # "idle" => call[v].old # call[u].old
    BY <1>1 DEF ReallocSourceLive
  <2>1. u # t /\ pc[u] \notin {"idle", "release"}
    BY <1>5
  <2>2. /\ call[u].old \in on[Registry]
        /\ \A v \in Threads \ {u} : pc[v] # "idle" => call[v].old # call[u].old
    BY <2>1 DEF IInv, ReallocSourceLive
  <2>3. call[t].old # call[u].old
    BY <2>1, <2>2 DEF IInv, ArgsOK
  <2> QED BY <1>3, <1>5, <2>1, <2>2, <2>3
<1>8. /\ on' \in [Lists -> SUBSET Blocks] /\ magic' \in [Blocks -> BOOLEAN]
      /\ OneListPerBlock' /\ LiveCountExact' /\ MagicMeansLive'
  <2>1. {b} \in SUBSET on[Registry]
    OBVIOUS
  <2> QED BY <1>1, <1>2, <2>1, MoveStep DEF hdrVars
<1> QED BY <1>1, <1>4, <1>6, <1>7, <1>8 DEF pageVars, hdrVars, remoteVars, IInv, TypeOK, Stamped, Mapped

\* Both callers of registry_remove: free, and the end of reallocate.
LEMMA FreeStep ==
  ASSUME IInv, NEW t \in Threads,
         FreeOld(t) \/ \E b \in Blocks : Free(t, b)
  PROVE IInv'
<1>1. CASE FreeOld(t)
  <2>1. pc[t] = "free_old" /\ RegistryRemove(t, call[t].old)
    BY <1>1 DEF FreeOld
  <2>2. call[t].old # NoBlock
    BY <2>1 DEF IInv, ArgsOK
  <2>3. /\ call[t].old \in on[Registry]
        /\ \A u \in Threads \ {t} : pc[u] # "idle" => call[u].old # call[t].old
    BY <2>1, <2>2 DEF IInv, ReallocSourceLive
  <2> QED BY <2>1, <2>3, RegistryRemoveStep
<1>2. ASSUME NEW b \in Blocks, Free(t, b) PROVE IInv'
  <2>1. pc[t] = "idle" /\ RegistryRemove(t, b) /\ b \in on[Registry]
        /\ b \notin BeingReallocated
    BY <1>2 DEF Free
  <2>2. \A u \in Threads \ {t} : pc[u] # "idle" => call[u].old # b
    BY <2>1 DEF BeingReallocated
  <2> QED BY <2>1, <2>2, RegistryRemoveStep
<1> QED BY <1>1, <1>2


\* enqueue_remote_free puts the block on its owner's queue.
LEMMA EnqueueRemoteStep ==
  ASSUME IInv, NEW t \in Threads, EnqueueRemote(t)
  PROVE IInv'
<1>1. PICK b \in on[InHand(t)], i \in Buckets :
        /\ bucketOwner' = [bucketOwner EXCEPT ![i] = owner[b]]
        /\ on' = Move({b}, InHand(t), RemoteQueue(i))
        /\ magic' = [magic EXCEPT ![b] = FALSE]
  BY DEF EnqueueRemote, FirstBucket, Claimable
<1>2. Return(t) /\ pending' = pending + 1 /\ UNCHANGED <<pageVars, owner, mode>>
  BY DEF EnqueueRemote
<1>3. /\ InHand(t) \in Lists /\ RemoteQueue(i) \in Lists
      /\ InHand(t) # RemoteQueue(i) /\ Registry # InHand(t) /\ Registry # RemoteQueue(i)
      /\ \A p \in Pages : InHand(t) # FreeList(p) /\ RemoteQueue(i) # FreeList(p)
      /\ RemoteQueue(i) \notin LiveLists
  BY ListNames, OtherNames, FreeListNames, LiveNames
<1>4. b \in Blocks /\ {b} \in SUBSET on[InHand(t)]
  BY <1>3, MagicOn
<1>5. on[Registry] = on'[Registry]
  BY <1>1, <1>3, ListNames DEF Move, IInv, TypeOK
<1>6. /\ pc' \in [Threads -> PCs] /\ call' \in [Threads -> Calls]
      /\ ArgsOK' /\ ReallocSourceLive'
  BY <1>2, <1>5, ControlReturn
<1>7. /\ on' \in [Lists -> SUBSET Blocks] /\ magic' \in [Blocks -> BOOLEAN]
      /\ OneListPerBlock' /\ LiveCountExact' /\ MagicMeansLive'
  BY <1>1, <1>2, <1>3, <1>4, MoveStep
<1>8. bucketOwner' \in [Buckets -> Threads \cup {NoThread}] /\ pending' \in Int
  <2>1. owner[b] \in Threads \cup {NoThread}
    BY <1>4 DEF IInv, TypeOK
  <2> QED BY <1>1, <1>2, <2>1 DEF IInv, TypeOK
<1> QED BY <1>2, <1>6, <1>7, <1>8 DEF pageVars, IInv, TypeOK, Stamped, Mapped

\* deallocate caches the block in the magazine.
LEMMA PushTCacheStep ==
  ASSUME IInv, NEW t \in Threads, PushTCache(t)
  PROVE IInv'
<1>1. PICK b \in on[InHand(t)] :
        /\ on' = Move({b}, InHand(t), TCacheBin(t, ClassOf(b)))
        /\ magic' = [magic EXCEPT ![b] = FALSE]
        /\ owner' = [owner EXCEPT ![b] = NoThread]
  BY DEF PushTCache
<1>2. Return(t) /\ UNCHANGED <<pageVars, mode, remoteVars>>
  BY DEF PushTCache
<1> DEFINE bin == TCacheBin(t, ClassOf(b))
<1>3. b \in Blocks /\ ClassOf(b) \in Classes /\ {b} \in SUBSET on[InHand(t)]
  BY ListNames, LinkedIsMapped, MagicOn
<1>4. /\ InHand(t) \in Lists /\ bin \in Lists
      /\ InHand(t) # bin /\ Registry # InHand(t) /\ Registry # bin
      /\ \A p \in Pages : InHand(t) # FreeList(p) /\ bin # FreeList(p)
      /\ bin \notin LiveLists
  BY <1>3, ListNames, OtherNames, TCacheNames, FreeListNames, LiveNames
<1>5. on' = Move({b}, InHand(t), bin)
  BY <1>1
<1> HIDE DEF bin
<1>6. on[Registry] = on'[Registry]
  BY <1>5, <1>4, ListNames DEF Move, IInv, TypeOK
<1>7. /\ pc' \in [Threads -> PCs] /\ call' \in [Threads -> Calls]
      /\ ArgsOK' /\ ReallocSourceLive'
  BY <1>2, <1>6, ControlReturn
<1>8. /\ on' \in [Lists -> SUBSET Blocks] /\ magic' \in [Blocks -> BOOLEAN]
      /\ OneListPerBlock' /\ LiveCountExact' /\ MagicMeansLive'
  BY <1>1, <1>2, <1>3, <1>4, <1>5, MoveStep
<1> QED BY <1>1, <1>2, <1>3, <1>7, <1>8 DEF pageVars, remoteVars, IInv, TypeOK, Stamped, Mapped



----------------------------------------------------------------------------
(* The sections under a pool's mutex                                        *)

\* Popping a block and refilling a magazine from one page: the blocks that
\* leave the free list are exactly those live_count gains.
LEMMA TakeFromStep ==
  ASSUME IInv, NEW t \in Threads, pc[t] = "pool",
         NEW p \in Pages, NEW free \in SUBSET BlocksOf(p), NEW b \in free,
         NEW before \in Nat, before = Capacity - Cardinality(free),
         TakeFrom(t, p, b, free, before),
         NEW f, f = [on EXCEPT ![FreeList(p)] = free],
         \A i, j \in Lists : i # j => f[i] \cap f[j] = {},
         \A x \in Blocks : (\E j \in Lists : x \in f[j]) <=> Mapped(PageOf(x))',
         \A q \in Pages \ {p} : Mapped(q)' <=> Mapped(q)
  PROVE /\ on' \in [Lists -> SUBSET Blocks] /\ live' \in [Pages -> Nat]
        /\ magic' = [magic EXCEPT ![b] = TRUE] /\ owner' = [owner EXCEPT ![b] = t]
        /\ on'[Registry] = on[Registry]
        /\ OneListPerBlock' /\ LiveCountExact' /\ MagicMeansLive'
<1> DEFINE bin == TCacheBin(t, call[t].cls)
<1>1. PICK refill \in SUBSET (free \ {b}) :
        /\ on' = [on EXCEPT ![FreeList(p)] = free \ ({b} \cup refill),
                            ![bin] = @ \cup refill,
                            ![InHand(t)] = @ \cup {b}]
        /\ live' = [live EXCEPT ![p] = before + 1 + Cardinality(refill)]
        /\ magic' = [magic EXCEPT ![b] = TRUE]
        /\ owner' = [owner EXCEPT ![b] = t]
  BY DEF TakeFrom, Finalize
<1>2. call[t].cls \in Classes
  BY DEF IInv, ArgsOK, AllocPCs
<1>3. /\ FreeList(p) \in Lists /\ bin \in Lists /\ InHand(t) \in Lists /\ Registry \in Lists
      /\ FreeList(p) # bin /\ FreeList(p) # InHand(t) /\ bin # InHand(t)
      /\ Registry # FreeList(p) /\ Registry # bin /\ Registry # InHand(t)
      /\ \A q \in Pages : FreeList(q) # bin /\ FreeList(q) # InHand(t)
      /\ \A q \in Pages \ {p} : FreeList(q) # FreeList(p)
      /\ \A q \in Pages : FreeList(q) \in Lists
      /\ bin \notin LiveLists /\ FreeList(p) \notin LiveLists /\ InHand(t) \in LiveLists
  BY <1>2, ListNames, OtherNames, TCacheNames, FreeListNames, LiveNames
<1> HIDE DEF bin
<1>4. on \in [Lists -> SUBSET Blocks] /\ free \subseteq Blocks
  BY PageLayout DEF IInv, TypeOK
<1>5. /\ on'[FreeList(p)] = free \ ({b} \cup refill)
      /\ on'[bin] = f[bin] \cup refill
      /\ on'[InHand(t)] = f[InHand(t)] \cup {b}
      /\ \A j \in Lists \ {FreeList(p), bin, InHand(t)} : on'[j] = f[j] /\ f[j] = on[j]
      /\ f[FreeList(p)] = free
      /\ f[bin] = on[bin] /\ f[InHand(t)] = on[InHand(t)]
  BY <1>1, <1>3, <1>4
<1>6. on' \in [Lists -> SUBSET Blocks]
  BY <1>1, <1>3, <1>4
<1>7. OneListPerBlock'
  <2>1. \A i, j \in Lists : i # j => on'[i] \cap on'[j] = {}
    BY <1>3, <1>5
  <2>2. \A x \in Blocks : (\E j \in Lists : x \in on'[j]) <=> (\E j \in Lists : x \in f[j])
    BY <1>3, <1>5
  <2> QED BY <2>1, <2>2 DEF OneListPerBlock
<1>8. IsFiniteSet(refill) /\ Cardinality(refill) \in Nat
  BY <1>4, FiniteBlocks
<1>9. live' \in [Pages -> Nat]
  BY <1>1, <1>8 DEF IInv, TypeOK
<1>10. LiveCountExact'
  <2>1. Cardinality(free \ ({b} \cup refill)) = Cardinality(free) - (1 + Cardinality(refill))
    <3>1. free \ ({b} \cup refill) = (free \ {b}) \ refill
      OBVIOUS
    <3>2. IsFiniteSet(free \ {b}) /\ Cardinality(free \ {b}) = Cardinality(free) - 1
          /\ Cardinality(free) \in Nat
      BY <1>4, FiniteBlocks, FS_RemoveElement
    <3>3. (free \ {b}) \cap refill = refill
      OBVIOUS
    <3> DEFINE rest == free \ {b}
    <3>4. Cardinality(rest \ refill) = Cardinality(rest) - Cardinality(refill)
      <4>1. IsFiniteSet(rest) /\ rest \cap refill = refill
        BY <3>2, <3>3
      <4> HIDE DEF rest
      <4>2. Cardinality(rest \ refill) = Cardinality(rest) - Cardinality(rest \cap refill)
        BY <4>1, FS_Difference
      <4> QED BY <4>1, <4>2
    <3>5. Cardinality(free \ ({b} \cup refill)) = Cardinality(rest \ refill)
          /\ Cardinality(rest) = Cardinality(free) - 1
      BY <3>1, <3>2
    <3> HIDE DEF rest
    <3> QED BY <3>2, <3>4, <3>5, <1>8
  <2>2. live'[p] = Capacity - Cardinality(on'[FreeList(p)])
    <3>1. live'[p] = before + 1 + Cardinality(refill)
      BY <1>1 DEF IInv, TypeOK
    <3>2. Cardinality(free) \in Nat
      BY <1>4, FiniteBlocks
    <3> QED BY <1>5, <1>8, <2>1, <3>1, <3>2, ConstantTypes
  <2>3. on'[FreeList(p)] \subseteq BlocksOf(p)
    BY <1>5
  <2>4. \A q \in Pages \ {p} : on'[FreeList(q)] = on[FreeList(q)] /\ live'[q] = live[q]
    BY <1>1, <1>3, <1>5 DEF IInv, TypeOK
  <2> QED BY <2>2, <2>3, <2>4 DEF LiveCountExact, IInv
<1>11. MagicMeansLive'
  <2>1. LiveLists \subseteq Lists
    BY DEF LiveLists, Lists
  <2>2. magic \in [Blocks -> BOOLEAN] /\ b \in Blocks
    BY <1>4 DEF IInv, TypeOK
  <2>3. \A x \in Blocks \ {b} : magic'[x] = magic[x]
    BY <1>1, <2>2
  <2>4. magic'[b] = TRUE
    BY <1>1, <2>2
  <2>5. \A x \in Blocks \ {b}, j \in LiveLists : x \in on'[j] <=> x \in on[j]
    BY <1>3, <1>5, <2>1
  <2>6. b \in on'[InHand(t)]
    BY <1>5
  <2>7. \A x \in Blocks : magic'[x] <=> \E j \in LiveLists : x \in on'[j]
    BY <1>3, <2>3, <2>4, <2>5, <2>6 DEF IInv, MagicMeansLive, LiveLists
  <2> QED BY <2>7 DEF MagicMeansLive, LiveLists
<1>12. on'[Registry] = on[Registry]
  BY <1>3, <1>5
<1> QED BY <1>1, <1>6, <1>7, <1>9, <1>10, <1>11, <1>12

\* What both successful pool allocations do to the control state.
LEMMA PoolControl ==
  ASSUME IInv, NEW t \in Threads, pc[t] = "pool", Goto(t, "insert"), call' = call,
         on'[Registry] = on[Registry]
  PROVE /\ pc' \in [Threads -> PCs] /\ call' \in [Threads -> Calls]
        /\ ArgsOK' /\ ReallocSourceLive'
<1>1. call[t] \in Calls /\ call' = [call EXCEPT ![t] = call[t]]
      /\ pc' = [pc EXCEPT ![t] = "insert"] /\ pc[t] \in AllocPCs
      /\ "insert" \in AllocPCs /\ "insert" # "free_old"
  BY DEF IInv, TypeOK, Goto, AllocPCs
<1> QED BY <1>1, ControlStep


\* allocate_size_class takes blocks of a page that is already in the pool.
LEMMA PoolAllocReuseStep ==
  ASSUME IInv, NEW t \in Threads, PoolAllocReuse(t)
  PROVE IInv' /\ on'[Registry] = on[Registry]
<1>0. PICK p \in Pages :
        /\ pageClass[p] = call[t].cls
        /\ \E b \in on[FreeList(p)] :
             /\ TakeFrom(t, p, b, on[FreeList(p)], live[p])
             /\ mode' = [mode EXCEPT ![b] = call[t].mode]
  BY DEF PoolAllocReuse, SelectPage, Selectable
<1>1. PICK b \in on[FreeList(p)] :
        /\ pageClass[p] = call[t].cls
        /\ TakeFrom(t, p, b, on[FreeList(p)], live[p])
        /\ mode' = [mode EXCEPT ![b] = call[t].mode]
  BY <1>0
<1>2. /\ pc[t] = "pool" /\ Goto(t, "insert") /\ call' = call
      /\ pageClass' = pageClass /\ UNCHANGED remoteVars
  BY DEF PoolAllocReuse
<1>3. call[t].cls \in Classes /\ call[t].mode \in Modes
  BY <1>2 DEF IInv, ArgsOK, AllocPCs
<1>4. Mapped(p)
  BY <1>1, <1>3, Sentinels DEF Mapped
<1>5. /\ live[p] \in Nat /\ live[p] = Capacity - Cardinality(on[FreeList(p)])
      /\ on[FreeList(p)] \in SUBSET BlocksOf(p)
  BY <1>4 DEF IInv, TypeOK, LiveCountExact
<1>6. on = [on EXCEPT ![FreeList(p)] = on[FreeList(p)]]
  BY DEF IInv, TypeOK
<1>7. /\ \A i, j \in Lists : i # j => on[i] \cap on[j] = {}
      /\ \A x \in Blocks : (\E j \in Lists : x \in on[j]) <=> Mapped(PageOf(x))'
      /\ \A q \in Pages \ {p} : Mapped(q)' <=> Mapped(q)
  BY <1>2 DEF IInv, OneListPerBlock, Mapped
<1>8. /\ on' \in [Lists -> SUBSET Blocks] /\ live' \in [Pages -> Nat]
      /\ magic' = [magic EXCEPT ![b] = TRUE] /\ owner' = [owner EXCEPT ![b] = t]
      /\ on'[Registry] = on[Registry]
      /\ OneListPerBlock' /\ LiveCountExact' /\ MagicMeansLive'
  BY <1>1, <1>2, <1>5, <1>6, <1>7, TakeFromStep
<1>9. /\ pc' \in [Threads -> PCs] /\ call' \in [Threads -> Calls]
      /\ ArgsOK' /\ ReallocSourceLive'
  BY <1>2, <1>8, PoolControl
<1>10. /\ magic' \in [Blocks -> BOOLEAN]
       /\ owner' \in [Blocks -> Threads \cup {NoThread}]
       /\ mode' \in [Blocks -> Modes \cup {NoMode}]
  BY <1>1, <1>3, <1>8 DEF IInv, TypeOK
<1>11. Stamped'
  BY <1>1, <1>2, <1>3 DEF Stamped, Mapped, IInv, TypeOK
<1> QED BY <1>2, <1>8, <1>9, <1>10, <1>11 DEF IInv, TypeOK, remoteVars

\* create_pool_page maps a page and carves it.
LEMMA PoolAllocFreshStep ==
  ASSUME IInv, NEW t \in Threads, PoolAllocFresh(t)
  PROVE IInv' /\ on'[Registry] = on[Registry]
<1>0. PICK p \in Pages :
        /\ ~ Mapped(p)
        /\ pageClass' = [pageClass EXCEPT ![p] = call[t].cls]
        /\ \E b \in BlocksOf(p) : TakeFrom(t, p, b, BlocksOf(p), 0)
        /\ mode' = [x \in Blocks |-> IF PageOf(x) = p THEN call[t].mode ELSE mode[x]]
  BY DEF PoolAllocFresh
<1>1. PICK b \in BlocksOf(p) :
        /\ ~ Mapped(p)
        /\ pageClass' = [pageClass EXCEPT ![p] = call[t].cls]
        /\ TakeFrom(t, p, b, BlocksOf(p), 0)
        /\ mode' = [x \in Blocks |-> IF PageOf(x) = p THEN call[t].mode ELSE mode[x]]
  BY <1>0
<1>2. /\ pc[t] = "pool" /\ Goto(t, "insert") /\ call' = call /\ UNCHANGED remoteVars
  BY DEF PoolAllocFresh
<1>3. call[t].cls \in Classes /\ call[t].mode \in Modes
  BY <1>2 DEF IInv, ArgsOK, AllocPCs
<1>4. 0 \in Nat /\ 0 = Capacity - Cardinality(BlocksOf(p)) /\ BlocksOf(p) \subseteq Blocks
      /\ BlocksOf(p) \in SUBSET BlocksOf(p)
  BY PageLayout, ConstantTypes
<1> DEFINE f == [on EXCEPT ![FreeList(p)] = BlocksOf(p)]
<1>5. /\ f[FreeList(p)] = BlocksOf(p) /\ FreeList(p) \in Lists
      /\ \A j \in Lists \ {FreeList(p)} : f[j] = on[j]
  BY ListNames DEF IInv, TypeOK
<1>6. \A j \in Lists : on[j] \cap BlocksOf(p) = {}
  BY <1>1, <1>4, PageLayout DEF IInv, OneListPerBlock
<1>7. /\ Mapped(p)'
      /\ \A q \in Pages \ {p} : Mapped(q)' <=> Mapped(q)
  BY <1>1, <1>3, Sentinels DEF IInv, TypeOK, Mapped
<1>8. /\ f = [on EXCEPT ![FreeList(p)] = BlocksOf(p)]
      /\ \A i, j \in Lists : i # j => f[i] \cap f[j] = {}
      /\ \A x \in Blocks : (\E j \in Lists : x \in f[j]) <=> Mapped(PageOf(x))'
  <2> HIDE DEF f
  <2>1. \A i, j \in Lists : i # j => f[i] \cap f[j] = {}
    BY <1>5, <1>6 DEF IInv, OneListPerBlock
  <2>2. ASSUME NEW x \in Blocks
        PROVE (\E j \in Lists : x \in f[j]) <=> Mapped(PageOf(x))'
    <3>1. CASE PageOf(x) = p
      BY <1>5, <1>7, <3>1, PageLayout
    <3>2. CASE PageOf(x) # p
      <4>1. x \notin BlocksOf(p) /\ PageOf(x) \in Pages \ {p}
        BY <3>2, PageLayout
      <4>2. x \notin on[FreeList(p)]
        BY <4>1 DEF IInv, LiveCountExact
      <4>3. (\E j \in Lists : x \in f[j]) <=> \E j \in Lists : x \in on[j]
        BY <1>5, <4>1, <4>2
      <4> QED BY <1>7, <4>1, <4>3 DEF IInv, OneListPerBlock
    <3> QED BY <3>1, <3>2
  <2> QED BY <2>1, <2>2 DEF f
<1> HIDE DEF f
<1>9. /\ on' \in [Lists -> SUBSET Blocks] /\ live' \in [Pages -> Nat]
      /\ magic' = [magic EXCEPT ![b] = TRUE] /\ owner' = [owner EXCEPT ![b] = t]
      /\ on'[Registry] = on[Registry]
      /\ OneListPerBlock' /\ LiveCountExact' /\ MagicMeansLive'
  BY <1>1, <1>2, <1>4, <1>7, <1>8, TakeFromStep
<1>10. /\ pc' \in [Threads -> PCs] /\ call' \in [Threads -> Calls]
       /\ ArgsOK' /\ ReallocSourceLive'
  BY <1>2, <1>9, PoolControl
<1>11. /\ pageClass' \in [Pages -> Classes \cup {NoClass}]
       /\ magic' \in [Blocks -> BOOLEAN]
       /\ owner' \in [Blocks -> Threads \cup {NoThread}]
       /\ mode' \in [Blocks -> Modes \cup {NoMode}]
  BY <1>1, <1>3, <1>9 DEF IInv, TypeOK
<1>12. Stamped'
  BY <1>1, <1>3, <1>7, PageLayout DEF Stamped, IInv
<1> QED BY <1>2, <1>9, <1>10, <1>11, <1>12 DEF IInv, TypeOK, remoteVars

\* A thread's magazine is stranded when it ends.
LEMMA ThreadExitStep ==
  ASSUME IInv, NEW t \in Threads, ThreadExit(t)
  PROVE IInv'
<1> DEFINE bins == {TCacheBin(t, c) : c \in Classes}
           cached == UNION {on[TCacheBin(t, c)] : c \in Classes}
<1>1. /\ on' = [l \in Lists |-> CASE l \in bins -> {}
                                 [] l = Abandoned -> on[l] \cup cached
                                 [] OTHER -> on[l]]
      /\ UNCHANGED <<pageVars, hdrVars, remoteVars, pc, call>>
  BY DEF ThreadExit
<1>2. /\ bins \subseteq Lists /\ Abandoned \in Lists /\ Abandoned \notin bins
      /\ Registry \in Lists /\ Registry \notin bins /\ Registry # Abandoned
      /\ \A p \in Pages : FreeList(p) \in Lists /\ FreeList(p) \notin bins
                          /\ FreeList(p) # Abandoned
      /\ \A l \in LiveLists : l \in Lists /\ l \notin bins /\ l # Abandoned
  <2>1. LiveLists \subseteq Lists
    BY DEF LiveLists, Lists
  <2> QED BY <2>1, ListNames, OtherNames, TCacheNames, FreeListNames, LiveNames
<1>3. \A x : x \in cached <=> \E l \in bins : x \in on[l]
  OBVIOUS
<1>4. on \in [Lists -> SUBSET Blocks]
  BY DEF IInv, TypeOK
<1> HIDE DEF bins, cached
<1>5. /\ \A l \in bins : on'[l] = {}
      /\ on'[Abandoned] = on[Abandoned] \cup cached
      /\ \A l \in Lists : l \notin bins /\ l # Abandoned => on'[l] = on[l]
  BY <1>1, <1>2
<1>6. on' \in [Lists -> SUBSET Blocks]
  BY <1>1, <1>2, <1>3, <1>4
<1>7. OneListPerBlock'
  <2>1. ASSUME NEW i \in Lists, NEW j \in Lists, i # j, NEW x \in on'[i], x \in on'[j]
        PROVE FALSE
    BY <1>2, <1>3, <1>5, <2>1 DEF IInv, OneListPerBlock
  <2>2. \A x \in Blocks : (\E j \in Lists : x \in on'[j]) <=> (\E j \in Lists : x \in on[j])
    BY <1>2, <1>3, <1>5
  <2> QED BY <1>1, <2>1, <2>2 DEF IInv, OneListPerBlock, Mapped, pageVars
<1>8. LiveCountExact'
  <2>1. \A p \in Pages : on'[FreeList(p)] = on[FreeList(p)]
    BY <1>2, <1>5
  <2> QED BY <1>1, <2>1 DEF IInv, LiveCountExact, Mapped, pageVars
<1>9. MagicMeansLive'
  <2>1. \A l \in LiveLists : on'[l] = on[l]
    BY <1>2, <1>5
  <2> QED BY <1>1, <2>1 DEF IInv, MagicMeansLive, LiveLists, hdrVars
<1>10. on'[Registry] = on[Registry]
  BY <1>2, <1>5
<1>11. ArgsOK' /\ ReallocSourceLive'
  BY <1>1, <1>10 DEF IInv, ArgsOK, ReallocSourceLive
<1> QED BY <1>1, <1>6, <1>7, <1>8, <1>9, <1>11
        DEF IInv, TypeOK, pageVars, hdrVars, remoteVars, Stamped, Mapped


\* A page whose live_count is zero has all its blocks on its own free list.
LEMMA FullFreeList ==
  ASSUME NEW p \in Pages, NEW S \in SUBSET BlocksOf(p), Capacity - Cardinality(S) = 0
  PROVE S = BlocksOf(p)
<1>1. IsFiniteSet(BlocksOf(p)) /\ Cardinality(BlocksOf(p)) = Capacity
  BY PageSize
<1>2. Cardinality(S) \in Nat
  BY <1>1, FS_Subset, FS_CardinalityType
<1>3. Cardinality(S) = Cardinality(BlocksOf(p))
  BY <1>1, <1>2, ConstantTypes
<1> QED BY <1>1, <1>3, FS_Subset

\* The locked section of deallocate: the block goes back to its page, and the
\* pages it unmaps have no block anywhere but on their own free lists.
LEMMA PoolFreeStep ==
  ASSUME IInv, NEW t \in Threads, PoolFree(t)
  PROVE IInv' /\ on'[Registry] = on[Registry] /\ \A q \in Pages : Mapped(q)' => Mapped(q)
<1>1. PICK b \in on[InHand(t)] :
        LET p == PageOf(b)
            liveNow == [live EXCEPT ![p] = IF @ > 0 THEN @ - 1 ELSE @]
        IN \E R \in Released(ClassOf(b), p, liveNow, Decision(b)) :
             /\ on' = [l \in Lists |->
                         CASE l \in {FreeList(q) : q \in R} -> {}
                           [] l = FreeList(p) /\ p \notin R -> on[l] \cup {b}
                           [] l = InHand(t) -> on[l] \ {b}
                           [] OTHER -> on[l]]
             /\ pageClass' = [q \in Pages |-> IF q \in R THEN NoClass ELSE pageClass[q]]
             /\ live' = [q \in Pages |-> IF q \in R THEN 0 ELSE liveNow[q]]
             /\ magic' = Unmap(R, [magic EXCEPT ![b] = FALSE], FALSE)
             /\ owner' = Unmap(R, [owner EXCEPT ![b] = NoThread], NoThread)
             /\ mode' = Unmap(R, mode, NoMode)
  BY DEF PoolFree
<1> DEFINE p == PageOf(b)
           liveNow == [live EXCEPT ![p] = IF @ > 0 THEN @ - 1 ELSE @]
<1>2. PICK R \in Released(ClassOf(b), p, liveNow, Decision(b)) :
        /\ on' = [l \in Lists |->
                    CASE l \in {FreeList(q) : q \in R} -> {}
                      [] l = FreeList(p) /\ p \notin R -> on[l] \cup {b}
                      [] l = InHand(t) -> on[l] \ {b}
                      [] OTHER -> on[l]]
        /\ pageClass' = [q \in Pages |-> IF q \in R THEN NoClass ELSE pageClass[q]]
        /\ live' = [q \in Pages |-> IF q \in R THEN 0 ELSE liveNow[q]]
        /\ magic' = Unmap(R, [magic EXCEPT ![b] = FALSE], FALSE)
        /\ owner' = Unmap(R, [owner EXCEPT ![b] = NoThread], NoThread)
        /\ mode' = Unmap(R, mode, NoMode)
  BY <1>1
<1>3. Return(t) /\ UNCHANGED remoteVars
  BY DEF PoolFree
<1>4. b \in Blocks /\ p \in Pages /\ Mapped(p) /\ b \in BlocksOf(p)
  BY ListNames, MagicOn, LinkedIsMapped, PageLayout
<1>5. R \subseteq Pages /\ \A q \in R : pageClass[q] = ClassOf(b) /\ liveNow[q] = 0
  BY <1>4 DEF Released
<1>6. \A q \in R : Mapped(q)
  BY <1>4, <1>5 DEF Mapped, ClassOf
<1> HIDE DEF p, liveNow
<1>7. /\ InHand(t) \in Lists /\ FreeList(p) \in Lists /\ Registry \in Lists
      /\ InHand(t) # FreeList(p) /\ Registry # InHand(t)
      /\ \A q \in Pages : FreeList(q) \in Lists /\ FreeList(q) # InHand(t)
                          /\ FreeList(q) # Registry /\ FreeList(q) \notin LiveLists
      /\ \A q, r \in Pages : FreeList(q) = FreeList(r) => q = r
      /\ InHand(t) \in LiveLists /\ LiveLists \subseteq Lists
  <2>1. LiveLists \subseteq Lists
    BY DEF LiveLists, Lists
  <2> QED BY <1>4, <2>1, ListNames, OtherNames, FreeListNames, LiveNames
<1>8. on \in [Lists -> SUBSET Blocks]
      /\ \A i, j \in Lists : i # j => on[i] \cap on[j] = {}
  BY DEF IInv, TypeOK, OneListPerBlock
<1> DEFINE g == [l \in Lists |-> IF l = FreeList(p) THEN on[l] \cup {b}
                                 ELSE IF l = InHand(t) THEN on[l] \ {b} ELSE on[l]]
<1>9. /\ g[FreeList(p)] = on[FreeList(p)] \cup {b} /\ g[InHand(t)] = on[InHand(t)] \ {b}
      /\ \A l \in Lists : l # FreeList(p) /\ l # InHand(t) => g[l] = on[l]
      /\ \A l \in Lists : g[l] \in SUBSET Blocks
  BY <1>4, <1>7, <1>8
<1>10. /\ \A q \in R : on'[FreeList(q)] = {}
       /\ \A l \in Lists : (\A q \in R : l # FreeList(q)) => on'[l] = g[l]
  BY <1>2, <1>4, <1>5, <1>7
<1>11. on' \in [Lists -> SUBSET Blocks]
  <2>1. \A l \in Lists : on'[l] \in SUBSET Blocks
    BY <1>9, <1>10
  <2> QED BY <1>2, <2>1
<1> HIDE DEF g
<1>12. /\ \A i, j \in Lists : i # j => g[i] \cap g[j] = {}
       /\ \A x \in Blocks : (\E j \in Lists : x \in g[j]) <=> Mapped(PageOf(x))
  <2>1. \A i, j \in Lists : i # j => g[i] \cap g[j] = {}
    BY <1>7, <1>8, <1>9
  <2>2. \A x \in Blocks : (\E j \in Lists : x \in g[j]) <=> (\E j \in Lists : x \in on[j])
    BY <1>7, <1>9
  <2> QED BY <2>1, <2>2 DEF IInv, OneListPerBlock
<1>13. \A q \in Pages : /\ g[FreeList(q)] \subseteq BlocksOf(q)
                        /\ Mapped(q) => liveNow[q] = Capacity - Cardinality(g[FreeList(q)])
  <2>1. ASSUME NEW q \in Pages \ {p}
        PROVE /\ g[FreeList(q)] = on[FreeList(q)] /\ liveNow[q] = live[q]
    BY <1>4, <1>7, <1>9 DEF liveNow, IInv, TypeOK
  <2>2. b \notin on[FreeList(p)]
    BY <1>7, <1>8
  <2>3. /\ on[FreeList(p)] \subseteq BlocksOf(p) /\ live[p] \in Nat
        /\ live[p] = Capacity - Cardinality(on[FreeList(p)])
    BY <1>4 DEF IInv, LiveCountExact, TypeOK
  <2>4. Cardinality(g[FreeList(p)]) = Cardinality(on[FreeList(p)]) + 1
        /\ Cardinality(on[FreeList(p)]) \in Nat
    <3>1. IsFiniteSet(on[FreeList(p)]) /\ Cardinality(on[FreeList(p)]) \in Nat
      BY <1>7, <1>8, FiniteBlocks
    <3> QED BY <1>9, <2>2, <3>1, FS_AddElement
  <2>5. Cardinality(g[FreeList(p)]) \in Nat /\ Cardinality(g[FreeList(p)]) <= Capacity
    <3>1. g[FreeList(p)] \in SUBSET BlocksOf(p)
      BY <1>4, <1>9, <2>3
    <3>2. IsFiniteSet(BlocksOf(p)) /\ Cardinality(BlocksOf(p)) = Capacity
      BY <1>4, PageLayout
    <3>3. Cardinality(g[FreeList(p)]) <= Cardinality(BlocksOf(p))
      BY <3>1, <3>2, FS_Subset
    <3> QED BY <2>4, <3>2, <3>3
  <2>6. liveNow[p] = live[p] - 1
    <3>1. live[p] > 0
      BY <2>3, <2>4, <2>5, ConstantTypes
    <3> QED BY <1>4, <3>1 DEF liveNow, IInv, TypeOK
  <2>7. /\ g[FreeList(p)] \subseteq BlocksOf(p)
        /\ liveNow[p] = Capacity - Cardinality(g[FreeList(p)])
    BY <1>4, <1>9, <2>3, <2>4, <2>6, ConstantTypes
  <2> QED BY <2>1, <2>7 DEF IInv, LiveCountExact
<1>14. \A q \in R : g[FreeList(q)] = BlocksOf(q)
  BY <1>5, <1>6, <1>13, FullFreeList
<1>15. \A q \in Pages : Mapped(q)' <=> Mapped(q) /\ q \notin R
  BY <1>2 DEF Mapped
<1>16. OneListPerBlock'
  <2>1. \A i, j \in Lists : i # j => on'[i] \cap on'[j] = {}
    BY <1>7, <1>10, <1>12
  <2>2. ASSUME NEW x \in Blocks
        PROVE (\E j \in Lists : x \in on'[j]) <=> Mapped(PageOf(x))'
    <3>1. CASE PageOf(x) \in R
      <4>1. x \in g[FreeList(PageOf(x))]
        BY <3>1, <1>14, PageLayout
      <4>2. \A j \in Lists : x \in g[j] => j = FreeList(PageOf(x))
        BY <3>1, <4>1, <1>5, <1>7, <1>12
      <4>3. \A j \in Lists : x \notin on'[j]
        BY <3>1, <4>2, <1>10
      <4> QED BY <3>1, <4>3, <1>5, <1>15
    <3>2. CASE PageOf(x) \notin R
      <4>1. \A j \in Lists : x \in on'[j] <=> x \in g[j]
        <5>1. \A q \in R : x \notin g[FreeList(q)]
          BY <3>2, <1>5, <1>14, PageLayout
        <5> QED BY <5>1, <1>10
      <4> QED BY <3>2, <4>1, <1>12, <1>15, PageLayout
    <3> QED BY <3>1, <3>2
  <2> QED BY <2>1, <2>2 DEF OneListPerBlock
<1>17. LiveCountExact'
  <2>1. ASSUME NEW q \in Pages
        PROVE /\ on'[FreeList(q)] \subseteq BlocksOf(q)
              /\ Mapped(q)' => live'[q] = Capacity - Cardinality(on'[FreeList(q)])
    <3>1. CASE q \in R
      BY <3>1, <1>10, <1>15
    <3>2. CASE q \notin R
      <4>1. on'[FreeList(q)] = g[FreeList(q)]
        BY <3>2, <1>5, <1>7, <1>10
      <4>2. live'[q] = liveNow[q]
        BY <3>2, <1>2
      <4> QED BY <3>2, <4>1, <4>2, <1>13, <1>15
    <3> QED BY <3>1, <3>2
  <2> QED BY <2>1 DEF LiveCountExact
<1>18. \A j \in LiveLists : on'[j] = g[j]
  BY <1>5, <1>7, <1>10
<1>19. magic \in [Blocks -> BOOLEAN] /\ owner \in [Blocks -> Threads \cup {NoThread}]
       /\ mode \in [Blocks -> Modes \cup {NoMode}]
  BY DEF IInv, TypeOK
<1>20. MagicMeansLive'
  <2>1. ASSUME NEW x \in Blocks
        PROVE magic'[x] <=> \E j \in LiveLists : x \in on'[j]
    <3>1. CASE PageOf(x) \in R
      <4>1. magic'[x] = FALSE
        BY <3>1, <1>2 DEF Unmap
      <4>2. \A j \in LiveLists : x \notin on'[j]
        BY <3>1, <1>15, <1>16, <1>7, PageLayout DEF OneListPerBlock
      <4> QED BY <4>1, <4>2
    <3>2. CASE x = b /\ PageOf(x) \notin R
      <4>1. magic'[x] = FALSE
        BY <3>2, <1>2, <1>19 DEF Unmap
      <4>2. \A j \in LiveLists : x \notin on'[j]
        BY <3>2, <1>4, <1>18, <1>7, <1>9, <1>12
      <4> QED BY <4>1, <4>2
    <3>3. CASE x # b /\ PageOf(x) \notin R
      <4>1. magic'[x] = magic[x]
        BY <3>3, <1>2, <1>19 DEF Unmap
      <4>2. \A j \in LiveLists : x \in on'[j] <=> x \in on[j]
        BY <3>3, <1>18, <1>7, <1>9
      <4> QED BY <4>1, <4>2 DEF IInv, MagicMeansLive, LiveLists
    <3> QED BY <3>1, <3>2, <3>3
  <2> QED BY <2>1 DEF MagicMeansLive, LiveLists
<1>21. on'[Registry] = on[Registry]
  BY <1>4, <1>5, <1>7, <1>9, <1>10
<1>22. /\ pc' \in [Threads -> PCs] /\ call' \in [Threads -> Calls]
       /\ ArgsOK' /\ ReallocSourceLive'
  BY <1>3, <1>21, ControlReturn
<1>23. /\ pageClass' \in [Pages -> Classes \cup {NoClass}]
       /\ live' \in [Pages -> Nat]
  <2>1. liveNow \in [Pages -> Nat]
    <3>1. live[p] \in Nat /\ (IF live[p] > 0 THEN live[p] - 1 ELSE live[p]) \in Nat
      BY <1>4 DEF IInv, TypeOK
    <3> QED BY <3>1 DEF liveNow, IInv, TypeOK
  <2> QED BY <1>2, <2>1 DEF IInv, TypeOK
<1>24. /\ magic' \in [Blocks -> BOOLEAN]
       /\ owner' \in [Blocks -> Threads \cup {NoThread}]
       /\ mode' \in [Blocks -> Modes \cup {NoMode}]
  BY <1>2, <1>19 DEF Unmap
<1>25. Stamped'
  BY <1>2, <1>15, PageLayout DEF Stamped, Unmap, IInv
<1> QED BY <1>3, <1>11, <1>16, <1>17, <1>15, <1>20, <1>21, <1>22, <1>23, <1>24, <1>25
        DEF IInv, TypeOK, remoteVars


----------------------------------------------------------------------------
(* The theorems                                                             *)

\* The empty heap satisfies the invariant.
LEMMA InitIInv == Init => IInv
<1> SUFFICES ASSUME Init PROVE IInv
  OBVIOUS
<1>1. TypeOK
  <2>1. \A t \in Threads : NoCall(t) \in Calls
    BY NoCallType
  <2>2. "idle" \in PCs
    BY DEF PCs
  <2> QED BY <2>1, <2>2 DEF Init, TypeOK
<1>2. ArgsOK
  <2>1. \A t \in Threads : pc[t] = "idle" /\ call[t].old = NoBlock
    BY NoCallType DEF Init
  <2> QED BY <2>1 DEF ArgsOK, AllocPCs
<1>3. OneListPerBlock
  <2>1. \A p \in Pages : ~ Mapped(p)
    BY DEF Init, Mapped
  <2>2. \A l \in Lists : on[l] = {}
    BY DEF Init
  <2> QED BY <2>1, <2>2, PageLayout DEF OneListPerBlock
<1>4. LiveCountExact
  BY ListNames DEF Init, LiveCountExact, Mapped
<1>5. MagicMeansLive
  <2>1. LiveLists \subseteq Lists
    BY DEF LiveLists, Lists
  <2>2. \A l \in LiveLists : on[l] = {}
    BY <2>1 DEF Init
  <2> QED BY <2>2 DEF Init, MagicMeansLive, LiveLists
<1>6. ReallocSourceLive
  BY DEF Init, ReallocSourceLive
<1>7. Stamped
  BY PageLayout DEF Init, Stamped, Mapped
<1> QED BY <1>1, <1>2, <1>3, <1>4, <1>5, <1>6, <1>7 DEF IInv

\* Every step preserves the invariant.
LEMMA NextIInv == IInv /\ [Next]_vars => IInv'
<1> SUFFICES ASSUME IInv, [Next]_vars PROVE IInv'
  OBVIOUS
<1>1. CASE UNCHANGED vars
  BY <1>1 DEF vars, IInv, TypeOK, ArgsOK, Stamped, OneListPerBlock, LiveCountExact,
              Mapped, MagicMeansLive, ReallocSourceLive
<1>2. ASSUME NEW t \in Threads, Step(t) PROVE IInv'
  BY <1>2, CheckPendingStep, DrainDetachStep, DrainPushStep, DrainEndStep,
     PopTCacheStep, PopMissStep, PoolAllocReuseStep, PoolAllocFreshStep,
     PoolAllocFailStep, RegistryInsertStep, DirectResultStep, FreeStep, EnqueueRemoteStep,
     PushTCacheStep, PoolFreeStep DEF Step
<1>3. ASSUME NEW t \in Threads, NEW c \in Classes, NEW m \in Modes, Malloc(t, c, m)
      PROVE IInv'
  BY <1>3, BeginStep DEF Malloc
<1>4. ASSUME NEW t \in Threads, NEW b \in Blocks, NEW c \in Classes, Realloc(t, b, c)
      PROVE IInv'
  <2>1. b \in on[Registry] \ BeingReallocated /\ Begin(t, c, mode[b], b)
    BY <1>4 DEF Realloc
  <2>2. mode[b] \in Modes
    BY <2>1, ListNames, LinkedIsMapped DEF IInv, Stamped
  <2> QED BY <2>1, <2>2, BeginStep
<1>5. ASSUME NEW t \in Threads, NEW b \in Blocks, Free(t, b) PROVE IInv'
  BY <1>5, FreeStep
<1>6. ASSUME NEW t \in Threads, ThreadExit(t) PROVE IInv'
  BY <1>6, ThreadExitStep
<1>7. ASSUME NEW t \in Threads, NEW b \in Blocks, ReallocDirect(t, b) PROVE IInv'
  BY <1>7, ReallocDirectStep
<1> QED BY <1>1, <1>2, <1>3, <1>4, <1>5, <1>6, <1>7 DEF Next, Client


\* The invariant holds in every reachable state.
LEMMA Inductive == Spec => []IInv
BY InitIInv, NextIInv, PTL DEF Spec

\* The state of the pooled layer is always well typed: every operation returns
\* the headers, counters and arguments it changes inside their types.
THEOREM TypeCorrect == Spec => []TypeOK
BY Inductive, PTL DEF IInv

\* However threads, modes, remote frees, drains and reclaims interleave, every
\* block of a mapped page is on exactly one list, and no list refers to memory
\* that release_page_locked has unmapped.
THEOREM EveryBlockOnOneList == Spec => []OneListPerBlock
BY Inductive, PTL DEF IInv

\* live_count is exact, so a page the reclaimer unmaps has no block in use,
\* in a magazine or in a remote queue.
THEOREM LiveCountIsExact == Spec => []LiveCountExact
BY Inductive, PTL DEF IInv

\* A block that is on any free, cached or queued list carries magic 0: freeing
\* it again is recognised by header_from_user.
THEOREM MagicIsExact == Spec => []MagicMeansLive
BY Inductive, PTL DEF IInv

\* The old block of a realloc stays with the client until its copy is complete.
THEOREM ReallocKeepsSource == Spec => []ReallocSourceLive
BY Inductive, PTL DEF IInv


----------------------------------------------------------------------------
(* PooledStorage implements HeapPromise                                     *)

MappedPages == {p \in Pages : Mapped(p)}

\* A move between two other lists leaves the registry alone.
LEMMA MoveElsewhere ==
  ASSUME IInv, NEW k \in Lists, NEW l \in Lists, k # Registry, l # Registry, NEW B,
         on' = Move(B, k, l), pageClass' = pageClass
  PROVE on'[Registry] = on[Registry] /\ MappedPages' = MappedPages
BY ListNames DEF Move, IInv, TypeOK, MappedPages, Mapped

\* Steps the client does not see.
LEMMA HiddenStep ==
  ASSUME IInv, NEW t \in Threads,
         \/ CheckPending(t) \/ DrainDetach(t) \/ DrainPush(t) \/ DrainLoad(t)
         \/ DrainSub(t) \/ DrainEnd(t) \/ PopTCache(t) \/ PopMiss(t)
         \/ PoolAllocReuse(t) \/ PoolAllocFail(t) \/ EnqueueRemote(t) \/ PushTCache(t)
         \/ DirectResult(t)
  PROVE on'[Registry] = on[Registry] /\ MappedPages' = MappedPages
<1>1. CASE UNCHANGED <<on, pageVars>>
  BY <1>1 DEF MappedPages, Mapped, pageVars
<1>2. CASE DrainDetach(t)
  <2>1. ASSUME NEW i \in Buckets,
               on' = Move(on[RemoteQueue(i)], RemoteQueue(i), Detached(t))
        PROVE on'[Registry] = on[Registry] /\ MappedPages' = MappedPages
    BY <1>2, <2>1, MoveElsewhere, ListNames, OtherNames DEF DrainDetach, pageVars
  <2> QED BY <1>1, <1>2, <2>1 DEF DrainDetach
<1>3. CASE DrainPush(t)
  <2>1. PICK b \in on[Detached(t)] : on' = Move({b}, Detached(t), TCacheBin(t, ClassOf(b)))
    BY <1>3 DEF DrainPush
  <2>2. ClassOf(b) \in Classes
    BY ListNames, LinkedIsMapped
  <2> QED BY <1>3, <2>1, <2>2, MoveElsewhere, ListNames, OtherNames, TCacheNames
          DEF DrainPush, pageVars
<1>4. CASE DrainEnd(t)
  <2>1. call[t].bucket \in Buckets
    BY DEF IInv, TypeOK, Calls
  <2>2. on' = Move(on[Detached(t)], Detached(t), RemoteQueue(call[t].bucket))
        /\ pageClass' = pageClass
    BY <1>4 DEF DrainEnd, pageVars
  <2> QED BY <2>1, <2>2, MoveElsewhere, ListNames, OtherNames
<1>5. CASE PopTCache(t)
  <2>1. call[t].cls \in Classes
    BY <1>5 DEF PopTCache, IInv, ArgsOK, AllocPCs
  <2>2. PICK b : on' = Move({b}, TCacheBin(t, call[t].cls), InHand(t))
    BY <1>5 DEF PopTCache
  <2> QED BY <1>5, <2>1, <2>2, MoveElsewhere, ListNames, OtherNames, TCacheNames
          DEF PopTCache, pageVars
<1>6. CASE PoolAllocReuse(t)
  BY <1>6, PoolAllocReuseStep DEF PoolAllocReuse, MappedPages, Mapped
<1>7. CASE EnqueueRemote(t)
  <2>1. PICK b \in on[InHand(t)], i \in Buckets : on' = Move({b}, InHand(t), RemoteQueue(i))
    BY <1>7 DEF EnqueueRemote, FirstBucket, Claimable
  <2> QED BY <1>7, <2>1, MoveElsewhere, ListNames, OtherNames DEF EnqueueRemote, pageVars
<1>8. CASE PushTCache(t)
  <2>1. PICK b \in on[InHand(t)] : on' = Move({b}, InHand(t), TCacheBin(t, ClassOf(b)))
    BY <1>8 DEF PushTCache
  <2>2. ClassOf(b) \in Classes
    BY ListNames, LinkedIsMapped
  <2> QED BY <1>8, <2>1, <2>2, MoveElsewhere, ListNames, OtherNames, TCacheNames
          DEF PushTCache, pageVars
<1> QED BY <1>1, <1>2, <1>3, <1>4, <1>5, <1>6, <1>7, <1>8
        DEF CheckPending, DrainLoad, DrainSub, PopMiss, PoolAllocFail, DirectResult

\* registry_remove is the abstract specification's Release.
LEMMA RemoveIsRelease ==
  ASSUME IInv, NEW t \in Threads, NEW b \in on[Registry], RegistryRemove(t, b)
  PROVE Promise!Next
<1>1. on'[Registry] = on[Registry] \ {b} /\ b \in Blocks
  BY ListNames, OtherNames DEF RegistryRemove, Move, IInv, TypeOK
<1>2. MappedPages' = MappedPages
  BY DEF RegistryRemove, MappedPages, Mapped, pageVars
<1>3. Promise!Release(b)
  BY <1>1, <1>2 DEF Promise!Release, MappedPages
<1> QED BY <1>1, <1>3 DEF Promise!Next, Promise!Blocks, Blocks

\* Every step is a step of HeapPromise or leaves its two variables alone.
LEMMA PromiseStep ==
  ASSUME IInv, IInv', [Next]_vars
  PROVE Promise!Next \/ UNCHANGED <<on[Registry], MappedPages>>
<1>1. CASE UNCHANGED vars
  BY <1>1 DEF vars, MappedPages, Mapped
<1>2. ASSUME NEW t \in Threads, PoolAllocFresh(t) PROVE Promise!Next
  <2>1. PICK p \in Pages : ~ Mapped(p) /\ pageClass' = [pageClass EXCEPT ![p] = call[t].cls]
    BY <1>2 DEF PoolAllocFresh
  <2>2. call[t].cls \in Classes
    BY <1>2 DEF PoolAllocFresh, IInv, ArgsOK, AllocPCs
  <2>3. p \notin MappedPages /\ MappedPages' = MappedPages \cup {p}
    BY <2>1, <2>2, Sentinels DEF MappedPages, Mapped, IInv, TypeOK
  <2>4. on'[Registry] = on[Registry]
    BY <1>2, PoolAllocFreshStep
  <2>5. Promise!Map(p)
    BY <2>3, <2>4 DEF Promise!Map, MappedPages
  <2> QED BY <2>5 DEF Promise!Next
<1>3. ASSUME NEW t \in Threads, PoolFree(t) PROVE Promise!Next
  <2> DEFINE R == MappedPages \ MappedPages'
  <2>1. on'[Registry] = on[Registry] /\ MappedPages' \subseteq MappedPages
    BY <1>3, PoolFreeStep DEF MappedPages
  <2>2. \A b \in on[Registry] : b[1] \notin R
    <3>1. \A b \in on'[Registry] : b \in Blocks /\ Mapped(PageOf(b))'
      BY ListNames DEF IInv, TypeOK, OneListPerBlock
    <3> QED BY <2>1, <3>1, PageLayout DEF PageOf, MappedPages
  <2>3. R \subseteq MappedPages /\ MappedPages' = MappedPages \ R /\ R \in SUBSET Pages
    BY <2>1 DEF MappedPages
  <2>4. Promise!Unmap(R)
    <3> HIDE DEF R
    <3> QED BY <2>1, <2>2, <2>3 DEF Promise!Unmap, MappedPages
  <2> QED BY <2>3, <2>4 DEF Promise!Next
<1>4. ASSUME NEW t \in Threads, RegistryInsert(t) PROVE Promise!Next
  <2>1. PICK b \in on[InHand(t)] : on' = Move({b}, InHand(t), Registry)
    BY <1>4 DEF RegistryInsert
  <2>2. /\ on'[Registry] = on[Registry] \cup {b} /\ b \in Blocks
        /\ b \notin on[Registry]
    BY <2>1, ListNames, OtherNames DEF Move, IInv, TypeOK, OneListPerBlock
  <2>3. b[1] \in MappedPages /\ MappedPages' = MappedPages
    BY <1>4, ListNames, LinkedIsMapped DEF RegistryInsert, PageOf, MappedPages, Mapped, pageVars
  <2>4. Promise!Allocate(b)
    BY <2>2, <2>3 DEF Promise!Allocate, MappedPages
  <2> QED BY <2>2, <2>4 DEF Promise!Next, Promise!Blocks, Blocks
<1>5. ASSUME NEW t \in Threads, FreeOld(t) PROVE Promise!Next
  <2>1. call[t].old \in on[Registry]
    BY <1>5 DEF FreeOld, IInv, ArgsOK, ReallocSourceLive
  <2> QED BY <1>5, <2>1, RemoveIsRelease DEF FreeOld
<1>6. ASSUME NEW t \in Threads, NEW b \in Blocks, Free(t, b) PROVE Promise!Next
  BY <1>6, RemoveIsRelease DEF Free
<1>7. ASSUME NEW t \in Threads, NEW c, NEW m, NEW b, Begin(t, c, m, b)
      PROVE UNCHANGED <<on[Registry], MappedPages>>
  BY <1>7 DEF Begin, MappedPages, Mapped, pageVars
<1>8. ASSUME NEW t \in Threads, ThreadExit(t)
      PROVE UNCHANGED <<on[Registry], MappedPages>>
  <2>1. Registry \in Lists /\ Registry # Abandoned
        /\ Registry \notin {TCacheBin(t, c) : c \in Classes}
    BY ListNames, OtherNames, TCacheNames
  <2>2. on'[Registry] = on[Registry]
    BY <1>8, <2>1 DEF ThreadExit
  <2> QED BY <1>8, <2>2 DEF ThreadExit, MappedPages, Mapped, pageVars
<1>9. ASSUME NEW t \in Threads, NEW b \in Blocks, ReallocDirect(t, b)
      PROVE UNCHANGED <<on[Registry], MappedPages>>
  BY <1>9 DEF ReallocDirect, MappedPages, Mapped, pageVars
<1> QED
  BY <1>1, <1>2, <1>3, <1>4, <1>5, <1>6, <1>7, <1>8, <1>9, HiddenStep
     DEF Next, Step, Client, Malloc, Realloc

\* The pooled layer implements the promise to the program: it hands out a block
\* only while nobody owns it and from mapped memory, and it unmaps only memory
\* of which the program owns nothing.
THEOREM ImplementsHeapPromise == Spec => KeepsPromise
<1>1. Init => Promise!Init
  <2> SUFFICES ASSUME Init PROVE Promise!Init
    OBVIOUS
  <2>1. on[Registry] = {} /\ {p \in Pages : Mapped(p)} = {}
    BY ListNames DEF Init, Mapped
  <2> QED BY <2>1 DEF Promise!Init
<1>2. IInv /\ IInv' /\ [Next]_vars
        => [Promise!Next]_<<on[Registry], {p \in Pages : Mapped(p)}>>
  BY PromiseStep DEF MappedPages
<1> QED BY <1>1, <1>2, Inductive, PTL DEF Spec, KeepsPromise, Promise!Spec
-----------------------------------------------------------------------------
(* The remote-free queues and the magazines: a block waits only in its     *)
(* owner's queue, g_remote_pending is exact, magazines hold blocks of their *)
(* own class, and neither they nor the empty pages a pool keeps outgrow the *)
(* limits of the modes.                                                     *)

Draining == {"push", "load", "sub"}

\* A call holds at most one block in its hands, and only on its way in or out.
HandsOK ==
  \A t \in Threads :
    /\ pc[t] \notin {"insert", "release"} => on[InHand(t)] = {}
    /\ \A a, b \in on[InHand(t)] : a = b

\* Only a running drain has a detached list.
DetachedOK == \A t \in Threads : pc[t] \notin Draining => on[Detached(t)] = {}

\* A block in use has an owner to whom it can be sent back.
OwnersOK == \A b \in Blocks : magic[b] => owner[b] \in Threads

\* A thread claims the first bucket on its probe path that is free or its own,
\* so the buckets before the one it has are taken by others.
ProbesOK ==
  \A i, j \in Buckets :
    /\ bucketOwner[j] # NoThread
    /\ ProbeDistance(bucketOwner[j], i) < ProbeDistance(bucketOwner[j], j)
    => bucketOwner[i] # NoThread /\ bucketOwner[i] # bucketOwner[j]

\* A queue has an owner before it has blocks, and they are that owner's.
QueuedHome ==
  /\ \A i \in Buckets : bucketOwner[i] = NoThread => on[RemoteQueue(i)] = {}
  /\ \A i \in Buckets : \A b \in on[RemoteQueue(i)] : owner[b] = bucketOwner[i]
  /\ \A t \in Threads : \A b \in on[Detached(t)] :
       owner[b] = t /\ bucketOwner[call[t].bucket] = t

QInv ==
  /\ IInv
  /\ HandsOK
  /\ DetachedOK
  /\ OwnersOK
  /\ ProbesOK
  /\ QueuedHome
  /\ RightClass
  /\ PendingExact

----------------------------------------------------------------------------
(* Facts about lists                                                        *)

\* What a move does to each list.
LEMMA Relinked ==
  ASSUME IInv, NEW k \in Lists, NEW l \in Lists, k # l, NEW B, on' = Move(B, k, l)
  PROVE /\ on'[k] = on[k] \ B /\ on'[l] = on[l] \cup B
        /\ \A j \in Lists : j # k /\ j # l => on'[j] = on[j]
<1>1. on \in [Lists -> SUBSET Blocks] /\ on' = [on EXCEPT ![k] = @ \ B, ![l] = @ \cup B]
  BY DEF IInv, TypeOK, Move
<1> QED BY <1>1, SMT

\* A block is linked on one list only.
LEMMA Apart ==
  ASSUME IInv, NEW k \in Lists, NEW b \in on[k]
  PROVE b \in Blocks /\ \A l \in Lists : b \in on[l] => l = k
BY DEF IInv, TypeOK, OneListPerBlock

\* A thread that moves on leaves the others where they are.
LEMMA Others ==
  ASSUME IInv, NEW t \in Threads, NEW q, pc' = [pc EXCEPT ![t] = q]
  PROVE pc'[t] = q /\ \A u \in Threads \ {t} : pc'[u] = pc[u]
BY DEF IInv, TypeOK

\* Nor does it touch the arguments of their calls.
LEMMA OtherCalls ==
  ASSUME IInv, NEW t \in Threads, NEW c, call' = [call EXCEPT ![t] = c]
  PROVE call'[t] = c /\ \A u \in Threads \ {t} : call'[u] = call[u]
BY DEF IInv, TypeOK

\* The queue side of the invariant when no queue, detached list, bucket or
\* pending decrement is touched.
LEMMA QueueFrame ==
  ASSUME QInv, NEW t \in Threads, UNCHANGED remoteVars,
         \A u \in Threads \ {t} : pc'[u] = pc[u] /\ call'[u] = call[u],
         pc[t] \notin Draining, pc'[t] \notin Draining,
         \A i \in Buckets : /\ on'[RemoteQueue(i)] = on[RemoteQueue(i)]
                            /\ \A b \in on[RemoteQueue(i)] : owner'[b] = owner[b],
         \A u \in Threads : /\ on'[Detached(u)] = on[Detached(u)]
                            /\ \A b \in on[Detached(u)] : owner'[b] = owner[b]
  PROVE DetachedOK' /\ ProbesOK' /\ QueuedHome' /\ PendingExact'
<1>1. bucketOwner' = bucketOwner /\ pending' = pending
  BY DEF remoteVars
<1>2. on'[Detached(t)] = {}
  BY DEF QInv, DetachedOK
<1>3. DetachedOK'
  BY <1>2 DEF QInv, DetachedOK
<1>4. ProbesOK'
  BY <1>1 DEF QInv, ProbesOK
<1>5. QueuedHome'
  <2>1. /\ \A i \in Buckets : bucketOwner'[i] = NoThread => on'[RemoteQueue(i)] = {}
        /\ \A i \in Buckets : \A b \in on'[RemoteQueue(i)] : owner'[b] = bucketOwner'[i]
    BY <1>1 DEF QInv, QueuedHome
  <2>2. ASSUME NEW u \in Threads, NEW b \in on'[Detached(u)]
        PROVE owner'[b] = u /\ bucketOwner'[call'[u].bucket] = u
    <3>1. u # t /\ b \in on[Detached(u)]
      BY <1>2, <2>2
    <3> QED BY <1>1, <3>1 DEF QInv, QueuedHome
  <2> QED BY <2>1, <2>2 DEF QueuedHome
<1>6. PendingExact'
  <2>1. \A l \in RemoteQueues \cup DetachedLists : on'[l] = on[l]
    BY DEF RemoteQueues, DetachedLists
  <2>2. AwaitingDrain' = AwaitingDrain
    BY <2>1 DEF AwaitingDrain
  <2>3. \A u \in Threads : pc'[u] \in {"load", "sub"} <=> pc[u] \in {"load", "sub"}
    BY DEF Draining
  <2>4. AwaitingSub' = AwaitingSub
    BY <2>3 DEF AwaitingSub
  <2> QED BY <1>1, <2>2, <2>4 DEF QInv, PendingExact
<1> QED BY <1>3, <1>4, <1>5, <1>6

\* The magazine side of the invariant, from what a step of t does to its own
\* hands and to the magazines.
LEMMA HandFrame ==
  ASSUME QInv, NEW t \in Threads,
         \A u \in Threads \ {t} : pc'[u] = pc[u] /\ call'[u] = call[u],
         \A u \in Threads \ {t} :
           /\ on'[InHand(u)] = on[InHand(u)]
           /\ \A b \in on[InHand(u)] : owner'[b] = owner[b] /\ ClassOf(b)' = ClassOf(b),
         pc'[t] \notin {"insert", "release"} => on'[InHand(t)] = {},
         \A a, b \in on'[InHand(t)] : a = b,
         pc'[t] = "insert" =>
           \A b \in on'[InHand(t)] : ClassOf(b)' = call'[t].cls /\ owner'[b] = t,
         \A u \in Threads, c \in Classes : \A b \in on'[TCacheBin(u, c)] : ClassOf(b)' = c
  PROVE HandsOK' /\ RightClass'
<1>1. HandsOK'
  BY DEF QInv, HandsOK
<1>2. ASSUME NEW u \in Threads, pc'[u] = "insert", NEW b \in on'[InHand(u)]
      PROVE ClassOf(b)' = call'[u].cls /\ owner'[b] = u
  <2>1. CASE u = t
    BY <1>2, <2>1
  <2>2. CASE u # t
    BY <1>2, <2>2 DEF QInv, RightClass
  <2> QED BY <2>1, <2>2
<1> QED BY <1>1, <1>2 DEF RightClass

\* Steps that move no header and do not touch the drain's counter.
LEMMA QuietQueue ==
  ASSUME QInv, IInv', NEW t \in Threads, UNCHANGED <<on, pageVars, hdrVars, remoteVars>>,
         NEW q, pc' = [pc EXCEPT ![t] = q], NEW c, call' = [call EXCEPT ![t] = c],
         pc[t] \notin Draining \cup {"insert", "release"},
         q \notin Draining \cup {"insert", "release"}
  PROVE QInv'
<1>1. IInv /\ pc'[t] = q /\ \A u \in Threads \ {t} : pc'[u] = pc[u] /\ call'[u] = call[u]
  BY Others, OtherCalls DEF QInv
<1>2. UNCHANGED <<on, owner, magic, pageClass>> /\ \A b : ClassOf(b)' = ClassOf(b)
  BY DEF pageVars, hdrVars, ClassOf
<1>3. DetachedOK' /\ ProbesOK' /\ QueuedHome' /\ PendingExact'
  BY <1>1, <1>2, QueueFrame
<1>4. on'[InHand(t)] = {}
  BY <1>2 DEF QInv, HandsOK
<1>5. HandsOK' /\ RightClass'
  <2>1. \A u \in Threads, d \in Classes : \A b \in on'[TCacheBin(u, d)] : ClassOf(b)' = d
    BY <1>2 DEF QInv, RightClass
  <2> QED BY <1>1, <1>2, <1>4, <2>1, HandFrame
<1>6. OwnersOK'
  BY <1>2 DEF QInv, OwnersOK
<1> QED BY <1>3, <1>5, <1>6 DEF QInv

----------------------------------------------------------------------------
(* One lemma per action that leaves the queues alone                        *)

\* A call begins, looks at g_remote_pending, misses, or fails.
LEMMA QuietActions ==
  ASSUME QInv, IInv', NEW t \in Threads,
         \/ CheckPending(t) \/ PopMiss(t) \/ PoolAllocFail(t)
         \/ \E c, m, old : Begin(t, c, m, old)
         \/ DirectResult(t) \/ \E b \in Blocks : ReallocDirect(t, b)
  PROVE QInv'
<1>1. call = [call EXCEPT ![t] = call[t]]
  BY DEF QInv, IInv, TypeOK
<1>2. CASE CheckPending(t)
  <2>1. PICK q \in {"drain", "pop"} : pc' = [pc EXCEPT ![t] = q]
    BY <1>2 DEF CheckPending, Goto
  <2>2. pc[t] = "check" /\ call' = [call EXCEPT ![t] = call[t]]
        /\ UNCHANGED <<on, pageVars, hdrVars, remoteVars>>
    BY <1>1, <1>2 DEF CheckPending
  <2>3. q \notin Draining \cup {"insert", "release"} /\ pc[t] \notin Draining \cup {"insert", "release"}
    BY <2>1, <2>2 DEF Draining
  <2> QED BY <2>1, <2>2, <2>3, QuietQueue
<1>3. CASE PopMiss(t)
  <2>1. PICK q, c : q \in {"drain", "pool"} /\ pc' = [pc EXCEPT ![t] = q] /\ call' = [call EXCEPT ![t] = c]
    BY <1>1, <1>3 DEF PopMiss, Goto
  <2>2. pc[t] \in {"pop", "pop_again"} /\ UNCHANGED <<on, pageVars, hdrVars, remoteVars>>
    BY <1>3 DEF PopMiss
  <2>3. q \notin Draining \cup {"insert", "release"} /\ pc[t] \notin Draining \cup {"insert", "release"}
    BY <2>1, <2>2 DEF Draining
  <2> QED BY <2>1, <2>2, <2>3, QuietQueue
<1>4. CASE PoolAllocFail(t)
  <2>1. pc' = [pc EXCEPT ![t] = "idle"] /\ call' = [call EXCEPT ![t] = NoCall(t)]
        /\ pc[t] = "pool" /\ UNCHANGED <<on, pageVars, hdrVars, remoteVars>>
    BY <1>4 DEF PoolAllocFail, Goto
  <2>2. "idle" \notin Draining \cup {"insert", "release"} /\ pc[t] \notin Draining \cup {"insert", "release"}
    BY <2>1 DEF Draining
  <2> QED BY <2>1, <2>2, QuietQueue
<1>5. ASSUME NEW c, NEW m, NEW old, Begin(t, c, m, old)
      PROVE QInv'
  <2>1. PICK q, d : q \in {"check", "pool"} /\ pc' = [pc EXCEPT ![t] = q] /\ call' = [call EXCEPT ![t] = d]
    BY <1>5 DEF Begin, Goto
  <2>2. pc[t] = "idle" /\ UNCHANGED <<on, pageVars, hdrVars, remoteVars>>
    BY <1>5 DEF Begin
  <2>3. q \notin Draining \cup {"insert", "release"} /\ pc[t] \notin Draining \cup {"insert", "release"}
    BY <2>1, <2>2 DEF Draining
  <2> QED BY <2>1, <2>2, <2>3, QuietQueue
<1>6. CASE DirectResult(t)
  <2>1. PICK q, d : q \in {"free_old", "idle"} /\ pc' = [pc EXCEPT ![t] = q] /\ call' = [call EXCEPT ![t] = d]
    BY <1>1, <1>6 DEF DirectResult, Goto
  <2>2. pc[t] = "direct" /\ UNCHANGED <<on, pageVars, hdrVars, remoteVars>>
    BY <1>6 DEF DirectResult
  <2>3. q \notin Draining \cup {"insert", "release"} /\ pc[t] \notin Draining \cup {"insert", "release"}
    BY <2>1, <2>2 DEF Draining
  <2> QED BY <2>1, <2>2, <2>3, QuietQueue
<1>7. ASSUME NEW b \in Blocks, ReallocDirect(t, b)
      PROVE QInv'
  <2>1. PICK d : pc' = [pc EXCEPT ![t] = "direct"] /\ call' = [call EXCEPT ![t] = d]
    BY <1>7 DEF ReallocDirect, Goto
  <2>2. pc[t] = "idle" /\ UNCHANGED <<on, pageVars, hdrVars, remoteVars>>
    BY <1>7 DEF ReallocDirect
  <2>3. "direct" \notin Draining \cup {"insert", "release"} /\ pc[t] \notin Draining \cup {"insert", "release"}
    BY <2>2 DEF Draining
  <2> QED BY <2>1, <2>2, <2>3, QuietQueue
<1> QED BY <1>2, <1>3, <1>4, <1>5, <1>6, <1>7

\* A block linked on another list than the one that is moved keeps its owner.
LEMMA OwnerElsewhere ==
  ASSUME IInv, NEW k \in Lists, NEW b \in on[k], NEW x,
         owner' = owner \/ owner' = [owner EXCEPT ![b] = x],
         NEW l \in Lists, l # k
  PROVE \A a \in on[l] : owner'[a] = owner[a]
<1>1. SUFFICES ASSUME NEW a \in on[l] PROVE owner'[a] = owner[a]
  OBVIOUS
<1>2. a # b /\ a \in Blocks
  BY Apart
<1>3. owner \in [Blocks -> Threads \cup {NoThread}]
  BY DEF IInv, TypeOK
<1> QED BY <1>2, <1>3

\* Moves of one block between lists that are neither queues nor detached.
LEMMA MoveQueueFrame ==
  ASSUME QInv, NEW t \in Threads, UNCHANGED remoteVars,
         \A u \in Threads \ {t} : pc'[u] = pc[u] /\ call'[u] = call[u],
         pc[t] \notin Draining, pc'[t] \notin Draining,
         NEW k \in Lists, NEW l \in Lists, k # l, NEW b \in on[k], on' = Move({b}, k, l),
         NEW x, owner' = owner \/ owner' = [owner EXCEPT ![b] = x],
         \A i \in Buckets : RemoteQueue(i) # k /\ RemoteQueue(i) # l,
         \A u \in Threads : Detached(u) # k /\ Detached(u) # l
  PROVE DetachedOK' /\ ProbesOK' /\ QueuedHome' /\ PendingExact'
<1>1. IInv /\ \A j \in Lists : j # k /\ j # l => on'[j] = on[j]
  BY Relinked DEF QInv
<1>2. \A j \in Lists : j # k => \A a \in on[j] : owner'[a] = owner[a]
  BY <1>1, OwnerElsewhere
<1>3. \A i \in Buckets : /\ on'[RemoteQueue(i)] = on[RemoteQueue(i)]
                         /\ \A a \in on[RemoteQueue(i)] : owner'[a] = owner[a]
  BY <1>1, <1>2, ListNames
<1>4. \A u \in Threads : /\ on'[Detached(u)] = on[Detached(u)]
                         /\ \A a \in on[Detached(u)] : owner'[a] = owner[a]
  BY <1>1, <1>2, ListNames
<1> QED BY <1>3, <1>4, QueueFrame

\* registry_insert empties the hands of the call.
LEMMA RegistryInsertQueue ==
  ASSUME QInv, IInv', NEW t \in Threads, RegistryInsert(t)
  PROVE QInv'
<1>1. IInv /\ pc[t] = "insert" /\ UNCHANGED <<pageClass, owner, magic, remoteVars>>
  BY DEF QInv, RegistryInsert, pageVars, hdrVars
<1>2. PICK b \in on[InHand(t)] : on' = Move({b}, InHand(t), Registry)
  BY DEF RegistryInsert
<1>3. PICK q, c : q \in {"idle", "free_old"} /\ pc' = [pc EXCEPT ![t] = q] /\ call' = [call EXCEPT ![t] = c]
  <2>1. call = [call EXCEPT ![t] = call[t]]
    BY DEF QInv, IInv, TypeOK
  <2> QED BY <2>1 DEF RegistryInsert, Goto
<1>4. pc'[t] = q /\ \A u \in Threads \ {t} : pc'[u] = pc[u] /\ call'[u] = call[u]
  BY <1>1, <1>3, Others, OtherCalls
<1>5. pc[t] \notin Draining /\ pc'[t] \notin Draining \cup {"insert", "release"}
  BY <1>1, <1>3, <1>4 DEF Draining
<1>6. /\ InHand(t) \in Lists /\ Registry \in Lists /\ InHand(t) # Registry
      /\ \A i : RemoteQueue(i) # InHand(t) /\ RemoteQueue(i) # Registry
      /\ \A u : Detached(u) # InHand(t) /\ Detached(u) # Registry
  BY ListNames, OtherNames
<1>7. DetachedOK' /\ ProbesOK' /\ QueuedHome' /\ PendingExact'
  BY <1>1, <1>2, <1>4, <1>5, <1>6, MoveQueueFrame
<1>8. /\ on'[InHand(t)] = on[InHand(t)] \ {b}
      /\ \A j \in Lists : j # InHand(t) /\ j # Registry => on'[j] = on[j]
  BY <1>1, <1>2, <1>6, Relinked
<1>9. on'[InHand(t)] = {}
  BY <1>8 DEF QInv, HandsOK
<1>10. HandsOK' /\ RightClass'
  <2>1. \A a : ClassOf(a)' = ClassOf(a)
    BY <1>1 DEF ClassOf
  <2>2. \A u \in Threads, d \in Classes : on'[TCacheBin(u, d)] = on[TCacheBin(u, d)]
    BY <1>8, ListNames, TCacheNames
  <2>3. \A u \in Threads, d \in Classes : \A a \in on'[TCacheBin(u, d)] : ClassOf(a)' = d
    BY <2>1, <2>2 DEF QInv, RightClass
  <2>4. \A u \in Threads \ {t} : on'[InHand(u)] = on[InHand(u)]
    BY <1>8, ListNames, OtherNames
  <2> QED BY <1>1, <1>4, <1>5, <1>9, <2>1, <2>3, <2>4, HandFrame
<1>11. OwnersOK'
  BY <1>1 DEF QInv, OwnersOK
<1> QED BY <1>7, <1>10, <1>11 DEF QInv

\* registry_remove puts a block into empty hands.
LEMMA RegistryRemoveQueue ==
  ASSUME QInv, IInv', NEW t \in Threads, NEW b \in on[Registry], RegistryRemove(t, b),
         pc[t] \in {"idle", "free_old"}
  PROVE QInv'
<1>1. IInv /\ UNCHANGED <<pageClass, owner, magic, remoteVars, call>>
      /\ on' = Move({b}, Registry, InHand(t)) /\ pc' = [pc EXCEPT ![t] = "release"]
  BY DEF QInv, RegistryRemove, pageVars, hdrVars, Goto
<1>4. pc'[t] = "release" /\ \A u \in Threads \ {t} : pc'[u] = pc[u] /\ call'[u] = call[u]
  BY <1>1, Others
<1>5. pc[t] \notin Draining \cup {"insert", "release"} /\ pc'[t] \notin Draining
  BY <1>4 DEF Draining
<1>6. /\ InHand(t) \in Lists /\ Registry \in Lists /\ InHand(t) # Registry
      /\ \A i : RemoteQueue(i) # InHand(t) /\ RemoteQueue(i) # Registry
      /\ \A u : Detached(u) # InHand(t) /\ Detached(u) # Registry
  BY ListNames, OtherNames
<1>7. DetachedOK' /\ ProbesOK' /\ QueuedHome' /\ PendingExact'
  BY <1>1, <1>4, <1>5, <1>6, MoveQueueFrame
<1>8. /\ on'[InHand(t)] = on[InHand(t)] \cup {b}
      /\ \A j \in Lists : j # InHand(t) /\ j # Registry => on'[j] = on[j]
  <2>1. PICK k \in Lists, l \in Lists : k = Registry /\ l = InHand(t)
    BY <1>6
  <2>2. PICK B : B = {b}
    OBVIOUS
  <2>3. IInv /\ k # l /\ on' = Move(B, k, l)
    BY <1>1, <1>6, <2>1, <2>2
  <2>4. /\ on'[k] = on[k] \ B /\ on'[l] = on[l] \cup B
        /\ \A j \in Lists : j # k /\ j # l => on'[j] = on[j]
    BY <2>3, Relinked
  <2> QED BY <2>1, <2>2, <2>4
<1>9. on'[InHand(t)] = {b}
  BY <1>5, <1>8 DEF QInv, HandsOK
<1>10. HandsOK' /\ RightClass'
  <2>1. \A a : ClassOf(a)' = ClassOf(a)
    BY <1>1 DEF ClassOf
  <2>2. \A u \in Threads, d \in Classes : on'[TCacheBin(u, d)] = on[TCacheBin(u, d)]
    BY <1>8, ListNames, TCacheNames
  <2>3. \A u \in Threads, d \in Classes : \A a \in on'[TCacheBin(u, d)] : ClassOf(a)' = d
    BY <2>1, <2>2 DEF QInv, RightClass
  <2>4. \A u \in Threads \ {t} : on'[InHand(u)] = on[InHand(u)]
    BY <1>8, ListNames, OtherNames
  <2>5. "release" # "insert"
    OBVIOUS
  <2> QED BY <1>1, <1>4, <1>9, <2>1, <2>3, <2>4, <2>5, HandFrame
<1>11. OwnersOK'
  BY <1>1 DEF QInv, OwnersOK
<1> QED BY <1>7, <1>10, <1>11 DEF QInv

\* pop_tcache takes a block of the class the call asks for.
LEMMA PopTCacheQueue ==
  ASSUME QInv, IInv', NEW t \in Threads, PopTCache(t)
  PROVE QInv'
<1> DEFINE bin == TCacheBin(t, call[t].cls)
<1>1. IInv /\ pc[t] \in {"pop", "pop_again"} /\ UNCHANGED <<pageClass, remoteVars, call>>
      /\ pc' = [pc EXCEPT ![t] = "insert"]
  BY DEF QInv, PopTCache, pageVars, Goto
<1>2. PICK b \in on[bin] :
        /\ on' = Move({b}, bin, InHand(t))
        /\ magic' = [magic EXCEPT ![b] = TRUE]
        /\ owner' = [owner EXCEPT ![b] = t]
  BY DEF PopTCache, Finalize
<1>3. call[t].cls \in Classes
  BY <1>1 DEF IInv, ArgsOK, AllocPCs
<1>4. pc'[t] = "insert" /\ \A u \in Threads \ {t} : pc'[u] = pc[u] /\ call'[u] = call[u]
  BY <1>1, Others
<1>5. pc[t] \notin Draining \cup {"insert", "release"} /\ pc'[t] \notin Draining
  BY <1>1, <1>4 DEF Draining
<1>6. /\ bin \in Lists /\ InHand(t) \in Lists /\ bin # InHand(t)
      /\ \A i : RemoteQueue(i) # bin /\ RemoteQueue(i) # InHand(t)
      /\ \A u : Detached(u) # bin /\ Detached(u) # InHand(t)
      /\ \A u : InHand(u) # bin
  BY <1>3, ListNames, OtherNames, TCacheNames
<1>a. \A c \in Classes : \A a \in on[TCacheBin(t, c)] : ClassOf(a) = c
  BY DEF QInv, RightClass
<1>b. ClassOf(b) = call[t].cls
  BY <1>3, <1>a
<1> HIDE DEF bin
<1>7. DetachedOK' /\ ProbesOK' /\ QueuedHome' /\ PendingExact'
  BY <1>1, <1>2, <1>4, <1>5, <1>6, MoveQueueFrame
<1>8. /\ on'[InHand(t)] = on[InHand(t)] \cup {b} /\ on'[bin] = on[bin] \ {b}
      /\ \A j \in Lists : j # InHand(t) /\ j # bin => on'[j] = on[j]
  <2>1. IInv /\ bin \in Lists /\ InHand(t) \in Lists /\ bin # InHand(t) /\ on' = Move({b}, bin, InHand(t))
    BY <1>1, <1>2, <1>6
  <2> QED BY <2>1, Relinked
<1>9. on'[InHand(t)] = {b}
  BY <1>5, <1>8 DEF QInv, HandsOK
<1>10. owner'[b] = t /\ b \in Blocks
  BY <1>1, <1>2, <1>6, Apart DEF IInv, TypeOK
<1>11. HandsOK' /\ RightClass'
  <2>1. \A a : ClassOf(a)' = ClassOf(a)
    BY <1>1 DEF ClassOf
  <2>2. \A u \in Threads, d \in Classes : on'[TCacheBin(u, d)] \subseteq on[TCacheBin(u, d)]
    BY <1>8, ListNames, TCacheNames
  <2>3. \A u \in Threads, d \in Classes : \A a \in on'[TCacheBin(u, d)] : ClassOf(a)' = d
    BY <2>1, <2>2 DEF QInv, RightClass
  <2>4. \A u \in Threads \ {t} : on'[InHand(u)] = on[InHand(u)]
    BY <1>6, <1>8, ListNames, OtherNames
  <2>5. \A u \in Threads \ {t} : \A a \in on[InHand(u)] : owner'[a] = owner[a]
    BY <1>1, <1>2, <1>6, ListNames, OwnerElsewhere
  <2> QED BY <1>1, <1>4, <1>9, <1>10, <1>b, <2>1, <2>3, <2>4, <2>5, HandFrame
<1>12. OwnersOK'
  <2>1. \A a \in Blocks \ {b} : magic'[a] = magic[a] /\ owner'[a] = owner[a]
    BY <1>1, <1>2 DEF IInv, TypeOK
  <2> QED BY <1>10, <2>1 DEF QInv, OwnersOK
<1> QED BY <1>7, <1>11, <1>12 DEF QInv

\* push_tcache caches the block in the magazine of its class.
LEMMA PushTCacheQueue ==
  ASSUME QInv, IInv', NEW t \in Threads, PushTCache(t)
  PROVE QInv'
<1>1. IInv /\ pc[t] = "release" /\ UNCHANGED <<pageClass, remoteVars>>
      /\ pc' = [pc EXCEPT ![t] = "idle"] /\ call' = [call EXCEPT ![t] = NoCall(t)]
  BY DEF QInv, PushTCache, pageVars, Goto, Return
<1>2. PICK b \in on[InHand(t)] :
        /\ on' = Move({b}, InHand(t), TCacheBin(t, ClassOf(b)))
        /\ magic' = [magic EXCEPT ![b] = FALSE]
        /\ owner' = [owner EXCEPT ![b] = NoThread]
  BY DEF PushTCache
<1> DEFINE bin == TCacheBin(t, ClassOf(b))
<1>3. ClassOf(b) \in Classes /\ b \in Blocks
  BY <1>1, ListNames, LinkedIsMapped, Apart
<1>4. pc'[t] = "idle" /\ \A u \in Threads \ {t} : pc'[u] = pc[u] /\ call'[u] = call[u]
  BY <1>1, Others, OtherCalls
<1>5. pc[t] \notin Draining /\ pc'[t] \notin Draining \cup {"insert", "release"}
  BY <1>1, <1>4 DEF Draining
<1>6. /\ bin \in Lists /\ InHand(t) \in Lists /\ bin # InHand(t)
      /\ \A i : RemoteQueue(i) # bin /\ RemoteQueue(i) # InHand(t)
      /\ \A u : Detached(u) # bin /\ Detached(u) # InHand(t)
      /\ \A u : InHand(u) # bin
  BY <1>3, ListNames, OtherNames, TCacheNames
<1>a. \A u, d : TCacheBin(u, d) = bin => d = ClassOf(b)
  BY TCacheNames
<1>b. on' = Move({b}, InHand(t), bin)
  BY <1>2
<1> HIDE DEF bin
<1>7. DetachedOK' /\ ProbesOK' /\ QueuedHome' /\ PendingExact'
  BY <1>1, <1>2, <1>b, <1>4, <1>5, <1>6, MoveQueueFrame
<1>8. /\ on'[InHand(t)] = on[InHand(t)] \ {b} /\ on'[bin] = on[bin] \cup {b}
      /\ \A j \in Lists : j # InHand(t) /\ j # bin => on'[j] = on[j]
  <2>1. bin \in Lists /\ InHand(t) \in Lists /\ InHand(t) # bin
    BY <1>6
  <2>2. on \in [Lists -> SUBSET Blocks] /\ on' = [on EXCEPT ![InHand(t)] = @ \ {b}, ![bin] = @ \cup {b}]
    BY <1>1, <1>b DEF IInv, TypeOK, Move
  <2> QED BY <2>1, <2>2, SMT
<1>9. on'[InHand(t)] = {}
  BY <1>8 DEF QInv, HandsOK
<1>11. HandsOK' /\ RightClass'
  <2>1. \A a : ClassOf(a)' = ClassOf(a)
    BY <1>1 DEF ClassOf
  <2>3. ASSUME NEW u \in Threads, NEW d \in Classes, NEW a \in on'[TCacheBin(u, d)]
        PROVE ClassOf(a)' = d
    <3>1. a \in on[TCacheBin(u, d)] \/ (a = b /\ TCacheBin(u, d) = bin)
      BY <1>8, ListNames, TCacheNames
    <3> QED BY <1>a, <2>1, <3>1 DEF QInv, RightClass
  <2>4. \A u \in Threads \ {t} : on'[InHand(u)] = on[InHand(u)]
    BY <1>6, <1>8, ListNames, OtherNames
  <2>5. \A u \in Threads \ {t} : \A a \in on[InHand(u)] : owner'[a] = owner[a]
    <3>1. \A u \in Threads \ {t} : InHand(u) \in Lists /\ InHand(u) # InHand(t)
      BY ListNames, OtherNames
    <3>2. IInv /\ InHand(t) \in Lists /\ owner' = [owner EXCEPT ![b] = NoThread]
      BY <1>1, <1>2, <1>6
    <3> QED BY <3>1, <3>2, OwnerElsewhere
  <2> QED BY <1>1, <1>4, <1>5, <1>9, <2>1, <2>3, <2>4, <2>5, HandFrame
<1>12. OwnersOK'
  <2>1. /\ \A a \in Blocks \ {b} : magic'[a] = magic[a] /\ owner'[a] = owner[a]
        /\ magic'[b] = FALSE
    BY <1>1, <1>2, <1>3 DEF IInv, TypeOK
  <2> QED BY <2>1 DEF QInv, OwnersOK
<1> QED BY <1>7, <1>11, <1>12 DEF QInv

\* The magazine of a thread that ends is emptied, and nothing else.
LEMMA ThreadExitQueue ==
  ASSUME QInv, IInv', NEW t \in Threads, ThreadExit(t)
  PROVE QInv'
<1>1. IInv /\ UNCHANGED <<pageClass, owner, magic, remoteVars, pc, call>> /\ pc[t] = "idle"
  BY DEF QInv, ThreadExit, pageVars, hdrVars
<1>2. /\ \A l \in Lists : l # Abandoned => on'[l] = on[l] \/ on'[l] = {}
      /\ \A l \in Lists : (\A c \in Classes : l # TCacheBin(t, c)) /\ l # Abandoned => on'[l] = on[l]
  BY SMT DEF ThreadExit
<1>3. /\ \A i \in Buckets : on'[RemoteQueue(i)] = on[RemoteQueue(i)]
      /\ \A u \in Threads : on'[Detached(u)] = on[Detached(u)] /\ on'[InHand(u)] = on[InHand(u)]
  BY <1>2, ListNames, TCacheNames, OtherNames
<1>4. DetachedOK' /\ ProbesOK' /\ QueuedHome' /\ PendingExact'
  <2>1. pc[t] \notin Draining
    BY <1>1 DEF Draining
  <2> QED BY <1>1, <1>3, <2>1, QueueFrame
<1>5. HandsOK' /\ RightClass'
  <2>1. \A a : ClassOf(a)' = ClassOf(a)
    BY <1>1 DEF ClassOf
  <2>2. \A u \in Threads, d \in Classes : on'[TCacheBin(u, d)] \subseteq on[TCacheBin(u, d)]
    BY <1>2, ListNames, TCacheNames
  <2> QED BY <1>1, <1>3, <2>1, <2>2 DEF QInv, HandsOK, RightClass
<1>6. OwnersOK'
  BY <1>1 DEF QInv, OwnersOK
<1> QED BY <1>4, <1>5, <1>6 DEF QInv

\* What taking a block and refilling a magazine does to the lists.
Took(t, p, b, free, before) ==
  \E refill \in SUBSET (free \ {b}) :
      /\ Cardinality(refill) = RefillCount(t, Cardinality(free) - 1)
      /\ owner' = [owner EXCEPT ![b] = t] /\ magic' = [magic EXCEPT ![b] = TRUE]
      /\ live' = [live EXCEPT ![p] = before + 1 + Cardinality(refill)]
      /\ on'[InHand(t)] = on[InHand(t)] \cup {b}
      /\ on'[TCacheBin(t, call[t].cls)] = on[TCacheBin(t, call[t].cls)] \cup refill
      /\ \A l \in Lists : l # FreeList(p) /\ l # TCacheBin(t, call[t].cls) /\ l # InHand(t)
                            => on'[l] = on[l]

\* A locked take from a pool has that effect.
LEMMA Taken ==
  ASSUME IInv, NEW t \in Threads, pc[t] = "pool", NEW p \in Pages, NEW b, NEW free, NEW before,
         TakeFrom(t, p, b, free, before)
  PROVE Took(t, p, b, free, before)
<1> DEFINE bin == TCacheBin(t, call[t].cls)
<1>1. PICK refill \in SUBSET (free \ {b}) :
        /\ Cardinality(refill) = RefillCount(t, Cardinality(free) - 1)
        /\ on' = [on EXCEPT ![FreeList(p)] = free \ ({b} \cup refill),
                            ![bin] = @ \cup refill,
                            ![InHand(t)] = @ \cup {b}]
        /\ live' = [live EXCEPT ![p] = before + 1 + Cardinality(refill)]
        /\ magic' = [magic EXCEPT ![b] = TRUE]
        /\ owner' = [owner EXCEPT ![b] = t]
  BY DEF TakeFrom, Finalize
<1>2. call[t].cls \in Classes
  BY DEF IInv, ArgsOK, AllocPCs
<1>3. /\ FreeList(p) \in Lists /\ bin \in Lists /\ InHand(t) \in Lists
      /\ FreeList(p) # bin /\ FreeList(p) # InHand(t) /\ bin # InHand(t)
  BY <1>2, ListNames, TCacheNames, FreeListNames
<1>4. on \in [Lists -> SUBSET Blocks]
  BY DEF IInv, TypeOK
<1> HIDE DEF bin
<1>5. /\ on'[InHand(t)] = on[InHand(t)] \cup {b} /\ on'[bin] = on[bin] \cup refill
      /\ \A l \in Lists : l # FreeList(p) /\ l # bin /\ l # InHand(t) => on'[l] = on[l]
  BY <1>1, <1>3, <1>4, SMT
<1> QED BY <1>1, <1>5 DEF bin, Took

\* A pool allocation: the block goes to the call, the refill to the magazine
\* of the same class.
LEMMA TakeQueue ==
  ASSUME QInv, IInv', NEW t \in Threads, pc[t] = "pool", Goto(t, "insert"), call' = call,
         UNCHANGED remoteVars,
         NEW p \in Pages, NEW free \in SUBSET BlocksOf(p), NEW b \in free, NEW before,
         TakeFrom(t, p, b, free, before), pageClass'[p] = call[t].cls,
         \A l \in Lists : l # FreeList(p) => on[l] \cap free = {},
         \A l \in Lists : \A x \in on[l] : ClassOf(x)' = ClassOf(x)
  PROVE QInv'
<1> DEFINE bin == TCacheBin(t, call[t].cls)
<1>1. IInv /\ pc' = [pc EXCEPT ![t] = "insert"]
  BY DEF QInv, Goto
<1>2. PICK refill \in SUBSET (free \ {b}) :
          /\ Cardinality(refill) = RefillCount(t, Cardinality(free) - 1)
          /\ owner' = [owner EXCEPT ![b] = t] /\ magic' = [magic EXCEPT ![b] = TRUE]
          /\ live' = [live EXCEPT ![p] = before + 1 + Cardinality(refill)]
          /\ on'[InHand(t)] = on[InHand(t)] \cup {b}
          /\ on'[TCacheBin(t, call[t].cls)] = on[TCacheBin(t, call[t].cls)] \cup refill
          /\ \A l \in Lists : l # FreeList(p) /\ l # TCacheBin(t, call[t].cls) /\ l # InHand(t)
                                => on'[l] = on[l]
  <2>1. Took(t, p, b, free, before)
    BY <1>1, Taken
  <2> QED BY <2>1 DEF Took
<1>3. \A l \in Lists : l # FreeList(p) /\ l # bin /\ l # InHand(t) => on'[l] = on[l]
  BY <1>2
<1>a. on'[bin] = on[bin] \cup refill
  BY <1>2
<1>4. call[t].cls \in Classes
  BY <1>1 DEF IInv, ArgsOK, AllocPCs
<1>5. pc'[t] = "insert" /\ \A u \in Threads \ {t} : pc'[u] = pc[u] /\ call'[u] = call[u]
  BY <1>1, Others
<1>6. pc[t] \notin Draining \cup {"insert", "release"} /\ pc'[t] \notin Draining
  BY <1>5 DEF Draining
<1>7. b \in Blocks /\ owner \in [Blocks -> Threads \cup {NoThread}] /\ magic \in [Blocks -> BOOLEAN]
      /\ on \in [Lists -> SUBSET Blocks]
  BY <1>1, PageLayout DEF IInv, TypeOK
<1>8. owner'[b] = t /\ \A a \in Blocks \ {b} : owner'[a] = owner[a] /\ magic'[a] = magic[a]
  BY <1>2, <1>7
<1>9. \A l \in Lists : l # FreeList(p) => \A a \in on[l] : owner'[a] = owner[a]
  BY <1>7, <1>8
<1>10. \A x \in free : ClassOf(x)' = call[t].cls
  BY PageLayout DEF ClassOf
<1>11. \A u, d : TCacheBin(u, d) = bin => d = call[t].cls
  BY TCacheNames
<1>12. /\ \A i \in Buckets : /\ RemoteQueue(i) \in Lists /\ RemoteQueue(i) # FreeList(p)
                             /\ RemoteQueue(i) # bin /\ RemoteQueue(i) # InHand(t)
       /\ \A u \in Threads : /\ Detached(u) \in Lists /\ Detached(u) # FreeList(p)
                             /\ Detached(u) # bin /\ Detached(u) # InHand(t)
       /\ \A u \in Threads \ {t} : /\ InHand(u) \in Lists /\ InHand(u) # FreeList(p)
                                   /\ InHand(u) # bin /\ InHand(u) # InHand(t)
       /\ \A u \in Threads, d \in Classes :
            /\ TCacheBin(u, d) \in Lists /\ TCacheBin(u, d) # FreeList(p)
            /\ TCacheBin(u, d) # InHand(t)
       /\ bin \in Lists
  BY <1>4, ListNames, OtherNames, TCacheNames, FreeListNames
<1> HIDE DEF bin
<1>13. DetachedOK' /\ ProbesOK' /\ QueuedHome' /\ PendingExact'
  <2>1. \A i \in Buckets : /\ on'[RemoteQueue(i)] = on[RemoteQueue(i)]
                           /\ \A a \in on[RemoteQueue(i)] : owner'[a] = owner[a]
    BY <1>3, <1>9, <1>12
  <2>2. \A u \in Threads : /\ on'[Detached(u)] = on[Detached(u)]
                           /\ \A a \in on[Detached(u)] : owner'[a] = owner[a]
    BY <1>3, <1>9, <1>12
  <2> QED BY <1>5, <1>6, <2>1, <2>2, QueueFrame
<1>14. on'[InHand(t)] = {b}
  BY <1>2, <1>6 DEF QInv, HandsOK
<1>15. HandsOK' /\ RightClass'
  <2>1. \A u \in Threads \ {t} :
           /\ on'[InHand(u)] = on[InHand(u)]
           /\ \A a \in on[InHand(u)] : owner'[a] = owner[a] /\ ClassOf(a)' = ClassOf(a)
    BY <1>3, <1>9, <1>12
  <2>2. ASSUME NEW u \in Threads, NEW d \in Classes, NEW a \in on'[TCacheBin(u, d)]
        PROVE ClassOf(a)' = d
    <3>1. CASE a \in on[TCacheBin(u, d)]
      <4>1. ClassOf(a) = d
        BY <3>1 DEF QInv, RightClass
      <4> QED BY <3>1, <4>1, <1>12
    <3>2. CASE a \notin on[TCacheBin(u, d)]
      <4>1. TCacheBin(u, d) = bin
        BY <1>3, <1>12, <2>2, <3>2
      <4>2. a \in free
        BY <1>a, <2>2, <3>2, <4>1
      <4> QED BY <1>10, <1>11, <4>1, <4>2
    <3> QED BY <3>1, <3>2
  <2>3. /\ \A x, a \in on'[InHand(t)] : x = a
        /\ \A a \in on'[InHand(t)] : ClassOf(a)' = call'[t].cls /\ owner'[a] = t
    BY <1>8, <1>10, <1>14
  <2> QED BY <1>5, <2>1, <2>2, <2>3, HandFrame
<1>16. OwnersOK'
  BY <1>8 DEF QInv, OwnersOK
<1> QED BY <1>13, <1>15, <1>16 DEF QInv

\* The pool is served from a page it has.
LEMMA PoolAllocReuseQueue ==
  ASSUME QInv, IInv', NEW t \in Threads, PoolAllocReuse(t)
  PROVE QInv'
<1>1. IInv /\ pc[t] = "pool" /\ Goto(t, "insert") /\ call' = call
      /\ pageClass' = pageClass /\ UNCHANGED remoteVars
  BY DEF QInv, PoolAllocReuse
<1>2. PICK p \in Pages : /\ pageClass[p] = call[t].cls
                         /\ \E b \in on[FreeList(p)] : TakeFrom(t, p, b, on[FreeList(p)], live[p])
  BY DEF PoolAllocReuse, SelectPage, Selectable
<1>3. PICK b \in on[FreeList(p)] : TakeFrom(t, p, b, on[FreeList(p)], live[p])
  BY <1>2
<1>4. on[FreeList(p)] \in SUBSET BlocksOf(p)
  BY <1>1 DEF IInv, LiveCountExact
<1>5. \A l \in Lists : l # FreeList(p) => on[l] \cap on[FreeList(p)] = {}
  BY <1>1, ListNames DEF IInv, OneListPerBlock
<1>6. pageClass'[p] = call[t].cls /\ \A l \in Lists : \A x \in on[l] : ClassOf(x)' = ClassOf(x)
  BY <1>1, <1>2 DEF ClassOf
<1> QED BY <1>1, <1>3, <1>4, <1>5, <1>6, TakeQueue

\* The pool maps a page of which no block was linked anywhere.
LEMMA PoolAllocFreshQueue ==
  ASSUME QInv, IInv', NEW t \in Threads, PoolAllocFresh(t)
  PROVE QInv'
<1>1. IInv /\ pc[t] = "pool" /\ Goto(t, "insert") /\ call' = call /\ UNCHANGED remoteVars
  BY DEF QInv, PoolAllocFresh
<1>2. PICK p \in Pages : /\ ~ Mapped(p)
                         /\ pageClass' = [pageClass EXCEPT ![p] = call[t].cls]
                         /\ \E b \in BlocksOf(p) : TakeFrom(t, p, b, BlocksOf(p), 0)
  BY DEF PoolAllocFresh
<1>3. PICK b \in BlocksOf(p) : TakeFrom(t, p, b, BlocksOf(p), 0)
  BY <1>2
<1>4. \A l \in Lists : \A x \in on[l] : PageOf(x) \in Pages /\ PageOf(x) # p
  BY <1>1, <1>2, LinkedIsMapped
<1>5. \A l \in Lists : l # FreeList(p) => on[l] \cap BlocksOf(p) = {}
  BY <1>4, PageLayout
<1>6. pageClass'[p] = call[t].cls /\ \A q \in Pages \ {p} : pageClass'[q] = pageClass[q]
  BY <1>1, <1>2 DEF IInv, TypeOK
<1>7. \A l \in Lists : \A x \in on[l] : ClassOf(x)' = ClassOf(x)
  BY <1>4, <1>6 DEF ClassOf
<1>8. BlocksOf(p) \in SUBSET BlocksOf(p)
  OBVIOUS
<1> QED BY <1>1, <1>3, <1>5, <1>6, <1>7, <1>8, TakeQueue

\* What the locked section of deallocate does to the lists and the headers.
LEMMA Freed ==
  ASSUME IInv, IInv', NEW t \in Threads, PoolFree(t)
  PROVE \E b \in on[InHand(t)] :
          /\ on'[InHand(t)] = on[InHand(t)] \ {b}
          /\ \A l \in Lists : (\A q \in Pages : l # FreeList(q)) /\ l # InHand(t) => on'[l] = on[l]
          /\ \A x \in Blocks : x # b /\ Mapped(PageOf(x))' =>
               owner'[x] = owner[x] /\ magic'[x] = magic[x] /\ ClassOf(x)' = ClassOf(x)
          /\ \A x \in Blocks : magic'[x] => x # b /\ Mapped(PageOf(x))'
<1>1. PICK b \in on[InHand(t)] :
        LET p == PageOf(b)
            liveNow == [live EXCEPT ![p] = IF @ > 0 THEN @ - 1 ELSE @]
        IN \E R \in Released(ClassOf(b), p, liveNow, Decision(b)) :
             /\ on' = [l \in Lists |->
                         CASE l \in {FreeList(q) : q \in R} -> {}
                           [] l = FreeList(p) /\ p \notin R -> on[l] \cup {b}
                           [] l = InHand(t) -> on[l] \ {b}
                           [] OTHER -> on[l]]
             /\ pageClass' = [q \in Pages |-> IF q \in R THEN NoClass ELSE pageClass[q]]
             /\ magic' = Unmap(R, [magic EXCEPT ![b] = FALSE], FALSE)
             /\ owner' = Unmap(R, [owner EXCEPT ![b] = NoThread], NoThread)
  BY DEF PoolFree
<1> DEFINE p == PageOf(b)
           liveNow == [live EXCEPT ![p] = IF @ > 0 THEN @ - 1 ELSE @]
<1>2. PICK R \in Released(ClassOf(b), p, liveNow, Decision(b)) :
        /\ on' = [l \in Lists |->
                    CASE l \in {FreeList(q) : q \in R} -> {}
                      [] l = FreeList(p) /\ p \notin R -> on[l] \cup {b}
                      [] l = InHand(t) -> on[l] \ {b}
                      [] OTHER -> on[l]]
        /\ pageClass' = [q \in Pages |-> IF q \in R THEN NoClass ELSE pageClass[q]]
        /\ magic' = Unmap(R, [magic EXCEPT ![b] = FALSE], FALSE)
        /\ owner' = Unmap(R, [owner EXCEPT ![b] = NoThread], NoThread)
  BY <1>1
<1>3. b \in Blocks /\ p \in Pages
  BY ListNames, MagicOn, PageLayout
<1>4. R \subseteq Pages
  BY <1>3 DEF Released
<1>5. InHand(t) \in Lists /\ \A q : FreeList(q) # InHand(t)
  BY ListNames, FreeListNames
<1> HIDE DEF p, liveNow
<1>6. /\ on'[InHand(t)] = on[InHand(t)] \ {b}
      /\ \A l \in Lists : (\A q \in Pages : l # FreeList(q)) /\ l # InHand(t) => on'[l] = on[l]
  BY <1>2, <1>3, <1>4, <1>5, SMT
<1>7. magic \in [Blocks -> BOOLEAN] /\ owner \in [Blocks -> Threads \cup {NoThread}]
  BY DEF IInv, TypeOK
<1>8. \A x \in Blocks : /\ PageOf(x) \in R => magic'[x] = FALSE /\ ~ Mapped(PageOf(x))'
                        /\ PageOf(x) \notin R => /\ ClassOf(x)' = ClassOf(x)
                                                 /\ x # b => owner'[x] = owner[x] /\ magic'[x] = magic[x]
  BY <1>2, <1>4, <1>7, PageLayout DEF Unmap, Mapped, ClassOf
<1>9. magic'[b] = FALSE
  BY <1>2, <1>3, <1>7 DEF Unmap
<1>10. \A x \in Blocks : magic'[x] => Mapped(PageOf(x))'
  <2>1. \A x \in Blocks : magic'[x] => \E l \in LiveLists : x \in on'[l]
    BY DEF IInv, MagicMeansLive, LiveLists
  <2>2. LiveLists \subseteq Lists
    BY DEF LiveLists, Lists
  <2> QED BY <2>1, <2>2 DEF IInv, OneListPerBlock
<1> QED BY <1>6, <1>8, <1>9, <1>10

\* A block goes back to its page; what is unmapped was on no other list.
LEMMA PoolFreeQueue ==
  ASSUME QInv, IInv', NEW t \in Threads, PoolFree(t)
  PROVE QInv'
<1>1. IInv /\ pc[t] = "release" /\ UNCHANGED remoteVars
      /\ pc' = [pc EXCEPT ![t] = "idle"] /\ call' = [call EXCEPT ![t] = NoCall(t)]
  BY DEF QInv, PoolFree, Return, Goto
<1>2. PICK b \in on[InHand(t)] :
          /\ on'[InHand(t)] = on[InHand(t)] \ {b}
          /\ \A l \in Lists : (\A q \in Pages : l # FreeList(q)) /\ l # InHand(t) => on'[l] = on[l]
          /\ \A x \in Blocks : x # b /\ Mapped(PageOf(x))' =>
               owner'[x] = owner[x] /\ magic'[x] = magic[x] /\ ClassOf(x)' = ClassOf(x)
          /\ \A x \in Blocks : magic'[x] => x # b /\ Mapped(PageOf(x))'
  BY <1>1, Freed
<1>3. pc'[t] = "idle" /\ \A u \in Threads \ {t} : pc'[u] = pc[u] /\ call'[u] = call[u]
  BY <1>1, Others, OtherCalls
<1>4. pc[t] \notin Draining /\ pc'[t] \notin Draining \cup {"insert", "release"}
  BY <1>1, <1>3 DEF Draining
<1>5. \A l \in Lists : (\A q \in Pages : l # FreeList(q)) /\ l # InHand(t) =>
        /\ on'[l] = on[l]
        /\ \A a \in on[l] : owner'[a] = owner[a] /\ ClassOf(a)' = ClassOf(a)
  <2> SUFFICES ASSUME NEW l \in Lists, \A q \in Pages : l # FreeList(q), l # InHand(t),
                      NEW a \in on[l]
               PROVE owner'[a] = owner[a] /\ ClassOf(a)' = ClassOf(a)
    BY <1>2
  <2>1. a \in Blocks /\ a # b
    BY <1>1, ListNames, Apart
  <2>2. a \in on'[l]
    BY <1>2
  <2>3. Mapped(PageOf(a))'
    BY <2>1, <2>2 DEF IInv, OneListPerBlock
  <2> QED BY <1>2, <2>1, <2>3
<1>6. /\ \A i \in Buckets : /\ RemoteQueue(i) \in Lists /\ RemoteQueue(i) # InHand(t)
                            /\ \A q \in Pages : RemoteQueue(i) # FreeList(q)
      /\ \A u \in Threads : /\ Detached(u) \in Lists /\ Detached(u) # InHand(t)
                            /\ \A q \in Pages : Detached(u) # FreeList(q)
      /\ \A u \in Threads \ {t} : /\ InHand(u) \in Lists /\ InHand(u) # InHand(t)
                                  /\ \A q \in Pages : InHand(u) # FreeList(q)
      /\ \A u \in Threads, d \in Classes :
           /\ TCacheBin(u, d) \in Lists /\ TCacheBin(u, d) # InHand(t)
           /\ \A q \in Pages : TCacheBin(u, d) # FreeList(q)
  BY ListNames, OtherNames, TCacheNames, FreeListNames
<1>7. DetachedOK' /\ ProbesOK' /\ QueuedHome' /\ PendingExact'
  <2>1. \A i \in Buckets : /\ on'[RemoteQueue(i)] = on[RemoteQueue(i)]
                           /\ \A a \in on[RemoteQueue(i)] : owner'[a] = owner[a]
    BY <1>5, <1>6
  <2>2. \A u \in Threads : /\ on'[Detached(u)] = on[Detached(u)]
                           /\ \A a \in on[Detached(u)] : owner'[a] = owner[a]
    BY <1>5, <1>6
  <2> QED BY <1>1, <1>3, <1>4, <2>1, <2>2, QueueFrame
<1>8. HandsOK' /\ RightClass'
  <2>1. \A u \in Threads \ {t} :
           /\ on'[InHand(u)] = on[InHand(u)]
           /\ \A a \in on[InHand(u)] : owner'[a] = owner[a] /\ ClassOf(a)' = ClassOf(a)
    BY <1>5, <1>6
  <2>2. on'[InHand(t)] = {}
    BY <1>2 DEF QInv, HandsOK
  <2>3. ASSUME NEW u \in Threads, NEW d \in Classes, NEW a \in on'[TCacheBin(u, d)]
        PROVE ClassOf(a)' = d
    <3>1. a \in on[TCacheBin(u, d)] /\ ClassOf(a)' = ClassOf(a)
      BY <1>5, <1>6, <2>3
    <3> QED BY <3>1 DEF QInv, RightClass
  <2> QED BY <1>3, <1>4, <2>1, <2>2, <2>3, HandFrame
<1>9. OwnersOK'
  BY <1>2 DEF QInv, OwnersOK
<1> QED BY <1>7, <1>8, <1>9 DEF QInv

----------------------------------------------------------------------------
(* The actions on the queues                                                *)

\* The magazine side of the invariant when the step is one of a drain.
LEMMA DrainFrame ==
  ASSUME QInv, NEW t \in Threads, pageClass' = pageClass,
         pc[t] \notin {"insert", "release"}, pc'[t] \notin {"insert", "release"},
         \A u \in Threads \ {t} : pc'[u] = pc[u] /\ call'[u] = call[u],
         \A u \in Threads : /\ on'[InHand(u)] = on[InHand(u)]
                            /\ \A b \in on[InHand(u)] : owner'[b] = owner[b],
         \A u \in Threads, c \in Classes : \A b \in on'[TCacheBin(u, c)] :
           b \in on[TCacheBin(u, c)] \/ ClassOf(b) = c
  PROVE HandsOK' /\ RightClass'
<1>1. \A a : ClassOf(a)' = ClassOf(a)
  BY DEF ClassOf
<1>2. on'[InHand(t)] = {}
  BY DEF QInv, HandsOK
<1>3. ASSUME NEW u \in Threads, NEW d \in Classes, NEW a \in on'[TCacheBin(u, d)]
      PROVE ClassOf(a)' = d
  BY <1>1, <1>3 DEF QInv, RightClass
<1> QED BY <1>1, <1>2, <1>3, HandFrame

\* Steps that change neither buckets, queues nor detached lists.
LEMMA DrainQuiet ==
  ASSUME QInv, NEW t \in Threads, UNCHANGED <<on, owner, bucketOwner, call>>,
         \A u \in Threads \ {t} : pc'[u] = pc[u], pc[t] \in Draining, pc'[t] \in Draining
  PROVE DetachedOK' /\ ProbesOK' /\ QueuedHome' /\ AwaitingDrain' = AwaitingDrain
<1>1. DetachedOK'
  BY DEF QInv, DetachedOK
<1>2. ProbesOK'
  BY DEF QInv, ProbesOK
<1>3. QueuedHome'
  BY DEF QInv, QueuedHome
<1> QED BY <1>1, <1>2, <1>3 DEF AwaitingDrain

\* The two sets g_remote_pending counts are finite.
LEMMA Counted ==
  ASSUME IInv
  PROVE /\ IsFiniteSet(AwaitingDrain) /\ Cardinality(AwaitingDrain) \in Nat
        /\ IsFiniteSet(AwaitingSub) /\ Cardinality(AwaitingSub) \in Nat
<1>1. AwaitingDrain \in SUBSET Blocks /\ AwaitingSub \subseteq Threads
  BY DEF AwaitingDrain, AwaitingSub
<1> QED BY <1>1, FiniteBlocks, Finiteness, FS_Subset, FS_CardinalityType

\* The drain reads the counter, which its own debt keeps above zero.
LEMMA DrainLoadQueue ==
  ASSUME QInv, IInv', NEW t \in Threads, DrainLoad(t)
  PROVE QInv'
<1>1. IInv /\ pc[t] = "load" /\ UNCHANGED <<on, pageClass, owner, magic, bucketOwner, pending, call>>
  BY DEF QInv, DrainLoad, pageVars, hdrVars, remoteVars
<1>2. pending > 0
  <2>1. t \in AwaitingSub
    BY <1>1 DEF AwaitingSub
  <2>2. Cardinality(AwaitingSub) # 0
    BY <1>1, <2>1, Counted, FS_EmptySet
  <2>3. /\ Cardinality(AwaitingDrain) \in Nat /\ Cardinality(AwaitingSub) \in Nat
        /\ pending = Cardinality(AwaitingDrain) + Cardinality(AwaitingSub)
    BY <1>1, Counted DEF QInv, PendingExact
  <2> QED BY <2>2, <2>3, SMT
<1>3. pc' = [pc EXCEPT ![t] = "sub"]
  BY <1>2 DEF DrainLoad, Goto
<1>4. pc'[t] = "sub" /\ \A u \in Threads \ {t} : pc'[u] = pc[u]
  BY <1>1, <1>3, Others
<1>5. pc[t] \in Draining /\ pc'[t] \in Draining
      /\ pc[t] \notin {"insert", "release"} /\ pc'[t] \notin {"insert", "release"}
  BY <1>1, <1>4 DEF Draining
<1>6. DetachedOK' /\ ProbesOK' /\ QueuedHome' /\ AwaitingDrain' = AwaitingDrain
  BY <1>1, <1>4, <1>5, DrainQuiet
<1>7. HandsOK' /\ RightClass'
  BY <1>1, <1>4, <1>5, DrainFrame
<1>8. \A u \in Threads : pc'[u] \in {"load", "sub"} <=> pc[u] \in {"load", "sub"}
  BY <1>1, <1>4
<1>9. AwaitingSub' = AwaitingSub
  BY <1>8 DEF AwaitingSub
<1>10. PendingExact' /\ OwnersOK'
  BY <1>1, <1>6, <1>9 DEF QInv, PendingExact, OwnersOK
<1> QED BY <1>6, <1>7, <1>10 DEF QInv

\* The drain pays one decrement.
LEMMA DrainSubQueue ==
  ASSUME QInv, IInv', NEW t \in Threads, DrainSub(t)
  PROVE QInv'
<1>1. IInv /\ pc[t] = "sub" /\ UNCHANGED <<on, pageClass, owner, magic, bucketOwner, call>>
      /\ pending' = pending - 1 /\ pc' = [pc EXCEPT ![t] = "push"]
  BY DEF QInv, DrainSub, Goto, pageVars, hdrVars
<1>2. pc'[t] = "push" /\ \A u \in Threads \ {t} : pc'[u] = pc[u]
  BY <1>1, Others
<1>3. pc[t] \in Draining /\ pc'[t] \in Draining
      /\ pc[t] \notin {"insert", "release"} /\ pc'[t] \notin {"insert", "release"}
  BY <1>1, <1>2 DEF Draining
<1>4. DetachedOK' /\ ProbesOK' /\ QueuedHome' /\ AwaitingDrain' = AwaitingDrain
  BY <1>1, <1>2, <1>3, DrainQuiet
<1>5. HandsOK' /\ RightClass'
  BY <1>1, <1>2, <1>3, DrainFrame
<1>6. t \in AwaitingSub /\ AwaitingSub' = AwaitingSub \ {t}
  BY <1>1, <1>2 DEF AwaitingSub
<1>7. Cardinality(AwaitingSub') = Cardinality(AwaitingSub) - 1
  BY <1>1, <1>6, Counted, FS_RemoveElement
<1>8. PendingExact'
  <2>1. /\ Cardinality(AwaitingDrain) \in Nat /\ Cardinality(AwaitingSub) \in Nat
        /\ pending = Cardinality(AwaitingDrain) + Cardinality(AwaitingSub)
    BY <1>1, Counted DEF QInv, PendingExact
  <2>2. pending' = Cardinality(AwaitingDrain') + Cardinality(AwaitingSub')
    BY <1>1, <1>4, <1>7, <2>1, SMT
  <2> QED BY <2>2 DEF PendingExact
<1>9. OwnersOK'
  BY <1>1 DEF QInv, OwnersOK
<1> QED BY <1>4, <1>5, <1>8, <1>9 DEF QInv

\* Blocks that move between a queue and a detached list still await their drain.
LEMMA StillAwaiting ==
  ASSUME IInv, NEW k \in RemoteQueues \cup DetachedLists, NEW l \in RemoteQueues \cup DetachedLists,
         k # l, NEW B \in SUBSET on[k], on' = Move(B, k, l)
  PROVE AwaitingDrain' = AwaitingDrain
<1>1. k \in Lists /\ l \in Lists /\ RemoteQueues \cup DetachedLists \subseteq Lists
  BY DEF Lists
<1>2. /\ on'[k] = on[k] \ B /\ on'[l] = on[l] \cup B
      /\ \A j \in Lists : j # k /\ j # l => on'[j] = on[j]
  BY <1>1, Relinked
<1>3. \A b : (\E j \in RemoteQueues \cup DetachedLists : b \in on'[j])
               <=> (\E j \in RemoteQueues \cup DetachedLists : b \in on[j])
  BY <1>1, <1>2, SMT
<1> QED BY <1>3 DEF AwaitingDrain

\* A queue is detached whole by the thread it belongs to.
LEMMA DrainDetachQueue ==
  ASSUME QInv, IInv', NEW t \in Threads, DrainDetach(t)
  PROVE QInv'
<1>1. IInv /\ pc[t] = "drain" /\ UNCHANGED <<pageClass, owner, magic, bucketOwner, pending>>
      /\ UNCHANGED <<pageVars, hdrVars, remoteVars>>
  BY DEF QInv, DrainDetach, pageVars, hdrVars, remoteVars
<1>2. pc[t] \notin Draining \cup {"insert", "release"} /\ "push" \in Draining
  BY <1>1 DEF Draining
<1>3. CASE pc' = [pc EXCEPT ![t] = call[t].ret] /\ UNCHANGED <<on, call>>
  <2>1. call[t].ret \in {"pop", "pop_again"} /\ call' = [call EXCEPT ![t] = call[t]]
    BY <1>1, <1>3 DEF IInv, TypeOK, Calls
  <2>2. call[t].ret \notin Draining \cup {"insert", "release"}
    BY <2>1 DEF Draining
  <2> QED BY <1>1, <1>2, <1>3, <2>1, <2>2, QuietQueue
<1>4. ASSUME NEW i \in Buckets, bucketOwner[i] = t,
             on' = Move(on[RemoteQueue(i)], RemoteQueue(i), Detached(t)),
             call' = [call EXCEPT ![t] = [@ EXCEPT !.bucket = i, !.drained = 0]],
             pc' = [pc EXCEPT ![t] = "push"]
      PROVE QInv'
  <2>1. pc'[t] = "push" /\ \A u \in Threads \ {t} : pc'[u] = pc[u]
    BY <1>1, <1>4, Others
  <2>2. call'[t].bucket = i /\ \A u \in Threads \ {t} : call'[u] = call[u]
    BY <1>1, <1>4 DEF IInv, TypeOK, Calls
  <2>3. /\ RemoteQueue(i) \in Lists /\ Detached(t) \in Lists /\ RemoteQueue(i) # Detached(t)
        /\ RemoteQueue(i) \in RemoteQueues \cup DetachedLists
        /\ Detached(t) \in RemoteQueues \cup DetachedLists
    BY ListNames, OtherNames DEF RemoteQueues, DetachedLists
  <2>4. /\ on'[RemoteQueue(i)] = {}
        /\ on'[Detached(t)] = on[Detached(t)] \cup on[RemoteQueue(i)]
        /\ \A j \in Lists : j # RemoteQueue(i) /\ j # Detached(t) => on'[j] = on[j]
    BY <1>1, <1>4, <2>3, Relinked
  <2>5. on'[Detached(t)] = on[RemoteQueue(i)]
    BY <1>2, <2>4 DEF QInv, DetachedOK
  <2>6. /\ \A u \in Threads \ {t} : on'[Detached(u)] = on[Detached(u)]
        /\ \A j \in Buckets \ {i} : on'[RemoteQueue(j)] = on[RemoteQueue(j)]
        /\ \A u \in Threads : on'[InHand(u)] = on[InHand(u)]
        /\ \A u \in Threads, c \in Classes : on'[TCacheBin(u, c)] = on[TCacheBin(u, c)]
    BY <2>4, ListNames, OtherNames, TCacheNames
  <2>7. DetachedOK'
    BY <1>2, <2>1, <2>6 DEF QInv, DetachedOK
  <2>8. ProbesOK' /\ OwnersOK'
    BY <1>1 DEF QInv, ProbesOK, OwnersOK
  <2>9. QueuedHome'
    <3>1. /\ \A j \in Buckets : bucketOwner'[j] = NoThread => on'[RemoteQueue(j)] = {}
          /\ \A j \in Buckets : \A b \in on'[RemoteQueue(j)] : owner'[b] = bucketOwner'[j]
      BY <1>1, <2>4, <2>6 DEF QInv, QueuedHome
    <3>2. ASSUME NEW u \in Threads, NEW b \in on'[Detached(u)]
          PROVE owner'[b] = u /\ bucketOwner'[call'[u].bucket] = u
      <4>1. CASE u = t
        BY <1>1, <1>4, <2>2, <2>5, <3>2, <4>1 DEF QInv, QueuedHome
      <4>2. CASE u # t
        BY <1>1, <2>2, <2>6, <3>2, <4>2 DEF QInv, QueuedHome
      <4> QED BY <4>1, <4>2
    <3> QED BY <3>1, <3>2 DEF QueuedHome
  <2>10. HandsOK' /\ RightClass'
    <3>1. pc[t] \notin {"insert", "release"} /\ pc'[t] \notin {"insert", "release"}
      BY <1>2, <2>1
    <3> QED BY <1>1, <2>1, <2>2, <2>6, <3>1, DrainFrame
  <2>11. PendingExact'
    <3>1. AwaitingDrain' = AwaitingDrain
      BY <1>1, <1>4, <2>3, StillAwaiting
    <3>2. \A u \in Threads : pc'[u] \in {"load", "sub"} <=> pc[u] \in {"load", "sub"}
      BY <1>1, <2>1
    <3>3. AwaitingSub' = AwaitingSub
      BY <3>2 DEF AwaitingSub
    <3> QED BY <1>1, <3>1, <3>3 DEF QInv, PendingExact
  <2> QED BY <2>7, <2>8, <2>9, <2>10, <2>11 DEF QInv
<1> QED BY <1>3, <1>4 DEF DrainDetach, Goto

\* A detached block is cached and its decrement is owed.
LEMMA DrainPushQueue ==
  ASSUME QInv, IInv', NEW t \in Threads, DrainPush(t)
  PROVE QInv'
<1>1. IInv /\ pc[t] = "push" /\ UNCHANGED <<pageClass, bucketOwner, pending>>
      /\ pc' = [pc EXCEPT ![t] = "load"]
  BY DEF QInv, DrainPush, pageVars, remoteVars, Goto
<1>2. PICK b \in on[Detached(t)] :
        /\ on' = Move({b}, Detached(t), TCacheBin(t, ClassOf(b)))
        /\ magic' = [magic EXCEPT ![b] = FALSE]
        /\ owner' = [owner EXCEPT ![b] = NoThread]
  BY DEF DrainPush
<1>3. call' = [call EXCEPT ![t] = [@ EXCEPT !.drained = call[t].drained + 1]]
  BY DEF DrainPush
<1>4. /\ pc'[t] = "load" /\ \A u \in Threads \ {t} : pc'[u] = pc[u] /\ call'[u] = call[u]
      /\ \A u \in Threads : call'[u].bucket = call[u].bucket
  <2>1. call \in [Threads -> Calls] /\ pc \in [Threads -> PCs]
    BY <1>1 DEF IInv, TypeOK
  <2>2. call'[t].bucket = call[t].bucket
    BY <1>3, <2>1 DEF Calls
  <2> QED BY <1>1, <1>3, <2>1, <2>2
<1>5. ClassOf(b) \in Classes /\ b \in Blocks
  BY <1>1, ListNames, LinkedIsMapped, Apart
<1> DEFINE bin == TCacheBin(t, ClassOf(b))
<1>6. /\ bin \in Lists /\ Detached(t) \in Lists /\ Detached(t) # bin
      /\ \A i \in Buckets : RemoteQueue(i) # bin /\ RemoteQueue(i) # Detached(t)
      /\ \A u \in Threads : Detached(u) # bin /\ InHand(u) # bin /\ InHand(u) # Detached(t)
      /\ \A u \in Threads, c \in Classes : TCacheBin(u, c) # Detached(t)
      /\ \A u, c : TCacheBin(u, c) = bin => c = ClassOf(b)
  BY <1>5, ListNames, OtherNames, TCacheNames
<1>7. on \in [Lists -> SUBSET Blocks] /\ on' = [on EXCEPT ![Detached(t)] = @ \ {b}, ![bin] = @ \cup {b}]
  BY <1>1, <1>2 DEF IInv, TypeOK, Move
<1> HIDE DEF bin
<1>8. /\ on'[Detached(t)] = on[Detached(t)] \ {b} /\ on'[bin] = on[bin] \cup {b}
      /\ \A j \in Lists : j # Detached(t) /\ j # bin => on'[j] = on[j]
  BY <1>6, <1>7, SMT
<1>9. /\ \A u \in Threads \ {t} : on'[Detached(u)] = on[Detached(u)]
      /\ \A i \in Buckets : on'[RemoteQueue(i)] = on[RemoteQueue(i)]
      /\ \A u \in Threads : on'[InHand(u)] = on[InHand(u)]
  BY <1>6, <1>8, ListNames, OtherNames
<1>10. \A a \in Blocks : a # b => owner'[a] = owner[a] /\ magic'[a] = magic[a]
  BY <1>1, <1>2 DEF IInv, TypeOK
<1>11. \A l \in Lists : l # Detached(t) => \A a \in on[l] : a # b /\ owner'[a] = owner[a]
  BY <1>1, <1>2, <1>6, <1>10, Apart
<1>12. DetachedOK'
  <2>1. "load" \in Draining
    BY DEF Draining
  <2> QED BY <1>4, <1>9, <2>1 DEF QInv, DetachedOK
<1>13. ProbesOK'
  BY <1>1 DEF QInv, ProbesOK
<1>14. QueuedHome'
  <2>1. \A i \in Buckets : RemoteQueue(i) \in Lists /\ RemoteQueue(i) # Detached(t)
    BY ListNames, OtherNames
  <2>2. /\ \A i \in Buckets : bucketOwner'[i] = NoThread => on'[RemoteQueue(i)] = {}
        /\ \A i \in Buckets : \A a \in on'[RemoteQueue(i)] : owner'[a] = bucketOwner'[i]
    BY <1>1, <1>9, <1>11, <2>1 DEF QInv, QueuedHome
  <2>3. ASSUME NEW u \in Threads, NEW a \in on'[Detached(u)]
        PROVE owner'[a] = u /\ bucketOwner'[call'[u].bucket] = u
    <3>1. a \in on[Detached(u)]
      BY <1>8, <1>9, <2>3
    <3>2. a # b /\ a \in Blocks
      <4>1. CASE u = t
        BY <1>1, <1>8, <2>3, <3>1, <4>1, ListNames, Apart
      <4>2. CASE u # t
        BY <1>1, <1>11, <3>1, <4>2, ListNames, OtherNames, Apart
      <4> QED BY <4>1, <4>2
    <3> QED BY <1>1, <1>4, <1>10, <3>1, <3>2 DEF QInv, QueuedHome
  <2> QED BY <2>2, <2>3 DEF QueuedHome
<1>15. HandsOK' /\ RightClass'
  <2>1. \A u \in Threads : \A a \in on[InHand(u)] : owner'[a] = owner[a]
    BY <1>6, <1>11, ListNames
  <2>2. ASSUME NEW u \in Threads, NEW c \in Classes, NEW a \in on'[TCacheBin(u, c)]
        PROVE a \in on[TCacheBin(u, c)] \/ ClassOf(a) = c
    BY <1>6, <1>8, <2>2, ListNames
  <2>3. pc[t] \notin {"insert", "release"} /\ pc'[t] \notin {"insert", "release"}
    BY <1>1, <1>4
  <2> QED BY <1>1, <1>4, <1>9, <2>1, <2>2, <2>3, DrainFrame
<1>16. OwnersOK'
  <2>1. magic'[b] = FALSE
    BY <1>1, <1>2, <1>5 DEF IInv, TypeOK
  <2> QED BY <1>10, <2>1 DEF QInv, OwnersOK
<1>17. PendingExact'
  <2>1. AwaitingDrain' = AwaitingDrain \ {b} /\ b \in AwaitingDrain
    <3>1. Detached(t) \in RemoteQueues \cup DetachedLists /\ RemoteQueues \cup DetachedLists \subseteq Lists
          /\ bin \notin RemoteQueues \cup DetachedLists
      BY <1>6 DEF RemoteQueues, DetachedLists, Lists
    <3>2. \A a : (\E l \in RemoteQueues \cup DetachedLists : a \in on'[l])
                   <=> a # b /\ \E l \in RemoteQueues \cup DetachedLists : a \in on[l]
      BY <1>8, <1>11, <3>1
    <3> QED BY <1>2, <1>5, <3>1, <3>2 DEF AwaitingDrain
  <2>2. t \notin AwaitingSub /\ AwaitingSub' = AwaitingSub \cup {t}
    BY <1>1, <1>4 DEF AwaitingSub
  <2>3. Cardinality(AwaitingDrain') = Cardinality(AwaitingDrain) - 1
    BY <1>1, <2>1, Counted, FS_RemoveElement
  <2>4. Cardinality(AwaitingSub') = Cardinality(AwaitingSub) + 1
    BY <1>1, <2>2, Counted, FS_AddElement
  <2>5. /\ Cardinality(AwaitingDrain) \in Nat /\ Cardinality(AwaitingSub) \in Nat
        /\ pending = Cardinality(AwaitingDrain) + Cardinality(AwaitingSub)
    BY <1>1, Counted DEF QInv, PendingExact
  <2>6. pending' = Cardinality(AwaitingDrain') + Cardinality(AwaitingSub')
    BY <1>1, <2>3, <2>4, <2>5, SMT
  <2> QED BY <2>6 DEF PendingExact
<1> QED BY <1>12, <1>13, <1>14, <1>15, <1>16, <1>17 DEF QInv

\* What a drain leaves goes back to the queue it came from.
LEMMA DrainEndQueue ==
  ASSUME QInv, IInv', NEW t \in Threads, DrainEnd(t)
  PROVE QInv'
<1> DEFINE i == call[t].bucket
<1>1. IInv /\ pc[t] = "push" /\ UNCHANGED <<pageClass, owner, magic, bucketOwner, pending, call>>
      /\ pc' = [pc EXCEPT ![t] = call[t].ret]
      /\ on' = Move(on[Detached(t)], Detached(t), RemoteQueue(i))
  BY DEF QInv, DrainEnd, pageVars, hdrVars, remoteVars, Goto
<1>2. i \in Buckets /\ call[t].ret \in {"pop", "pop_again"}
  BY <1>1 DEF IInv, TypeOK, Calls
<1> HIDE DEF i
<1>3. pc'[t] \in {"pop", "pop_again"} /\ \A u \in Threads \ {t} : pc'[u] = pc[u]
  BY <1>1, <1>2, Others
<1>4. /\ RemoteQueue(i) \in Lists /\ Detached(t) \in Lists /\ RemoteQueue(i) # Detached(t)
      /\ RemoteQueue(i) \in RemoteQueues \cup DetachedLists
      /\ Detached(t) \in RemoteQueues \cup DetachedLists
  BY <1>2, ListNames, OtherNames DEF RemoteQueues, DetachedLists
<1>5. /\ on'[Detached(t)] = {}
      /\ on'[RemoteQueue(i)] = on[RemoteQueue(i)] \cup on[Detached(t)]
      /\ \A j \in Lists : j # RemoteQueue(i) /\ j # Detached(t) => on'[j] = on[j]
  <2>1. PICK k \in Lists, l \in Lists : k = Detached(t) /\ l = RemoteQueue(i)
    BY <1>4
  <2>2. k # l /\ on' = Move(on[k], k, l)
    BY <1>1, <1>4, <2>1
  <2>3. /\ on'[k] = {} /\ on'[l] = on[l] \cup on[k]
        /\ \A j \in Lists : j # k /\ j # l => on'[j] = on[j]
    BY <1>1, <2>2, Relinked
  <2> QED BY <2>1, <2>3
<1>6. /\ \A u \in Threads \ {t} : on'[Detached(u)] = on[Detached(u)]
      /\ \A j \in Buckets \ {i} : on'[RemoteQueue(j)] = on[RemoteQueue(j)]
      /\ \A u \in Threads : on'[InHand(u)] = on[InHand(u)]
      /\ \A u \in Threads, c \in Classes : on'[TCacheBin(u, c)] = on[TCacheBin(u, c)]
  BY <1>5, ListNames, OtherNames, TCacheNames
<1>7. DetachedOK'
  BY <1>3, <1>5, <1>6 DEF QInv, DetachedOK
<1>8. ProbesOK' /\ OwnersOK'
  BY <1>1 DEF QInv, ProbesOK, OwnersOK
<1>9. QueuedHome'
  <2>1. \A b \in on[Detached(t)] : owner[b] = t /\ bucketOwner[i] = t
    BY DEF QInv, QueuedHome, i
  <2>2. t # NoThread
    BY Sentinels
  <2>3. \A j \in Buckets : bucketOwner'[j] = NoThread => on'[RemoteQueue(j)] = {}
    BY <1>1, <1>5, <1>6, <2>1, <2>2 DEF QInv, QueuedHome
  <2>4. \A j \in Buckets : \A b \in on'[RemoteQueue(j)] : owner'[b] = bucketOwner'[j]
    <3>1. \A b \in on'[RemoteQueue(i)] : owner[b] = bucketOwner[i]
      BY <1>2, <1>5, <2>1 DEF QInv, QueuedHome
    <3>2. ASSUME NEW j \in Buckets \ {i} PROVE \A b \in on'[RemoteQueue(j)] : owner[b] = bucketOwner[j]
      BY <1>6 DEF QInv, QueuedHome
    <3> QED BY <1>1, <3>1, <3>2
  <2>5. \A u \in Threads : \A b \in on'[Detached(u)] :
          owner'[b] = u /\ bucketOwner'[call'[u].bucket] = u
    BY <1>1, <1>5, <1>6 DEF QInv, QueuedHome
  <2> QED BY <2>3, <2>4, <2>5 DEF QueuedHome
<1>10. HandsOK' /\ RightClass'
  <2>1. pc[t] \notin {"insert", "release"} /\ pc'[t] \notin {"insert", "release"}
    BY <1>1, <1>3
  <2> QED BY <1>1, <1>3, <1>6, <2>1, DrainFrame
<1>11. PendingExact'
  <2>1. AwaitingDrain' = AwaitingDrain
    BY <1>1, <1>4, StillAwaiting
  <2>2. \A u \in Threads : pc'[u] \in {"load", "sub"} <=> pc[u] \in {"load", "sub"}
    BY <1>1, <1>3
  <2>3. AwaitingSub' = AwaitingSub
    BY <2>2 DEF AwaitingSub
  <2> QED BY <1>1, <2>1, <2>3 DEF QInv, PendingExact
<1> QED BY <1>7, <1>8, <1>9, <1>10, <1>11 DEF QInv

\* Where a thread's home bucket is, the probe distance is a number.
LEMMA Distances ==
  ASSUME NEW x \in Threads, NEW i \in Buckets
  PROVE ProbeDistance(x, i) \in Int
<1>1. Home[x] \in 0 .. NumBuckets - 1 /\ NumBuckets \in Nat \ {0} /\ i \in 0 .. NumBuckets - 1
  BY ConstantTypes DEF Buckets
<1>2. i - Home[x] + NumBuckets \in Nat
  BY <1>1, SMT
<1> QED BY <1>1, <1>2, SMT DEF ProbeDistance

\* The bucket claimed for x is the first on x's path that is free or x's own.
LEMMA ClaimKeepsProbes ==
  ASSUME QInv, NEW x \in Threads, NEW i \in FirstBucket(x),
         bucketOwner' = [bucketOwner EXCEPT ![i] = x]
  PROVE ProbesOK'
<1>1. bucketOwner \in [Buckets -> Threads \cup {NoThread}] /\ i \in Buckets /\ x # NoThread
      /\ (bucketOwner[i] = NoThread \/ bucketOwner[i] = x)
      /\ \A j \in Buckets : bucketOwner[j] = NoThread \/ bucketOwner[j] = x =>
           ProbeDistance(x, i) <= ProbeDistance(x, j)
  BY Sentinels DEF QInv, IInv, TypeOK, FirstBucket, Claimable
<1>2. bucketOwner'[i] = x /\ \A j \in Buckets : j # i => bucketOwner'[j] = bucketOwner[j]
  BY <1>1
<1> SUFFICES ASSUME NEW h \in Buckets, NEW j \in Buckets, bucketOwner'[j] # NoThread,
                    ProbeDistance(bucketOwner'[j], h) < ProbeDistance(bucketOwner'[j], j)
             PROVE bucketOwner'[h] # NoThread /\ bucketOwner'[h] # bucketOwner'[j]
  BY DEF ProbesOK
<1>3. CASE j = i
  <2>1. ProbeDistance(x, h) < ProbeDistance(x, i)
    BY <1>2, <1>3
  <2>2. ~ (ProbeDistance(x, i) <= ProbeDistance(x, h)) /\ h # i
    <3>1. ProbeDistance(x, h) \in Int /\ ProbeDistance(x, i) \in Int
      BY <1>1, Distances
    <3> HIDE DEF ProbeDistance
    <3> QED BY <2>1, <3>1, SMT
  <2> QED BY <1>1, <1>2, <1>3, <2>2
<1>4. CASE j # i
  <2>1. bucketOwner'[j] = bucketOwner[j]
    BY <1>2, <1>4
  <2>2. bucketOwner[h] # NoThread /\ bucketOwner[h] # bucketOwner[j]
    BY <2>1 DEF QInv, ProbesOK
  <2> QED BY <1>1, <1>2, <2>1, <2>2
<1> QED BY <1>3, <1>4

\* A remote free queues the block with its owner.
LEMMA EnqueueRemoteQueue ==
  ASSUME QInv, IInv', NEW t \in Threads, EnqueueRemote(t)
  PROVE QInv'
<1>1. IInv /\ pc[t] = "release" /\ UNCHANGED <<pageClass, owner>> /\ pending' = pending + 1
      /\ pc' = [pc EXCEPT ![t] = "idle"] /\ call' = [call EXCEPT ![t] = NoCall(t)]
  BY DEF QInv, EnqueueRemote, pageVars, Return, Goto
<1>2. PICK b \in on[InHand(t)] :
        /\ \E i \in FirstBucket(owner[b]) :
             /\ bucketOwner' = [bucketOwner EXCEPT ![i] = owner[b]]
             /\ on' = Move({b}, InHand(t), RemoteQueue(i))
        /\ magic' = [magic EXCEPT ![b] = FALSE]
  BY DEF EnqueueRemote
<1>3. PICK i \in FirstBucket(owner[b]) :
             /\ bucketOwner' = [bucketOwner EXCEPT ![i] = owner[b]]
             /\ on' = Move({b}, InHand(t), RemoteQueue(i))
  BY <1>2
<1>4. b \in Blocks /\ owner[b] \in Threads
  <2>1. b \in Blocks /\ magic[b]
    BY <1>1, ListNames, LiveNames, MagicOn
  <2> QED BY <2>1 DEF QInv, OwnersOK
<1>5. i \in Buckets /\ (bucketOwner[i] = NoThread \/ bucketOwner[i] = owner[b])
  BY DEF FirstBucket, Claimable
<1>6. bucketOwner'[i] = owner[b] /\ \A j \in Buckets : j # i => bucketOwner'[j] = bucketOwner[j]
  BY <1>1, <1>3, <1>5 DEF IInv, TypeOK
<1>7. pc'[t] = "idle" /\ \A u \in Threads \ {t} : pc'[u] = pc[u] /\ call'[u] = call[u]
  BY <1>1, Others, OtherCalls
<1>8. /\ InHand(t) \in Lists /\ RemoteQueue(i) \in Lists /\ InHand(t) # RemoteQueue(i)
  BY <1>5, ListNames, OtherNames
<1>9. /\ on'[InHand(t)] = on[InHand(t)] \ {b} /\ on'[RemoteQueue(i)] = on[RemoteQueue(i)] \cup {b}
      /\ \A j \in Lists : j # InHand(t) /\ j # RemoteQueue(i) => on'[j] = on[j]
  BY <1>1, <1>3, <1>8, Relinked
<1>10. /\ \A u \in Threads : on'[Detached(u)] = on[Detached(u)]
       /\ \A j \in Buckets \ {i} : on'[RemoteQueue(j)] = on[RemoteQueue(j)]
       /\ \A u \in Threads \ {t} : on'[InHand(u)] = on[InHand(u)]
       /\ \A u \in Threads, c \in Classes : on'[TCacheBin(u, c)] = on[TCacheBin(u, c)]
  BY <1>9, ListNames, OtherNames, TCacheNames
<1>11. pc[t] \notin Draining /\ pc'[t] \notin Draining \cup {"insert", "release"}
  BY <1>1, <1>7 DEF Draining
<1>12. DetachedOK'
  BY <1>7, <1>10, <1>11 DEF QInv, DetachedOK
<1>13. ProbesOK'
  BY <1>3, <1>4, ClaimKeepsProbes
<1>14. QueuedHome'
  <2>1. owner[b] # NoThread
    BY <1>4, Sentinels
  <2>2. bucketOwner[i] # owner[b] => on[RemoteQueue(i)] = {}
    BY <1>5 DEF QInv, QueuedHome
  <2>3. \A j \in Buckets : bucketOwner'[j] = NoThread => on'[RemoteQueue(j)] = {}
    BY <1>6, <1>10, <2>1 DEF QInv, QueuedHome
  <2>4. \A j \in Buckets : \A a \in on'[RemoteQueue(j)] : owner'[a] = bucketOwner'[j]
    <3>1. \A a \in on'[RemoteQueue(i)] : owner[a] = owner[b]
      BY <1>5, <1>9, <2>2 DEF QInv, QueuedHome
    <3>2. \A j \in Buckets \ {i} : \A a \in on'[RemoteQueue(j)] : owner[a] = bucketOwner[j]
      BY <1>10 DEF QInv, QueuedHome
    <3> QED BY <1>1, <1>6, <3>1, <3>2
  <2>5. ASSUME NEW u \in Threads, NEW a \in on'[Detached(u)]
        PROVE owner'[a] = u /\ bucketOwner'[call'[u].bucket] = u
    <3>1. a \in on[Detached(u)] /\ u # t
      BY <1>10, <1>11, <2>5 DEF QInv, DetachedOK
    <3>2. owner[a] = u /\ bucketOwner[call[u].bucket] = u /\ call'[u] = call[u]
      BY <1>7, <3>1 DEF QInv, QueuedHome
    <3>3. call[u].bucket \in Buckets
      BY <1>1 DEF IInv, TypeOK, Calls
    <3>4. u # NoThread
      BY Sentinels
    <3> QED BY <1>1, <1>5, <1>6, <3>2, <3>3, <3>4
  <2> QED BY <2>3, <2>4, <2>5 DEF QueuedHome
<1>15. HandsOK' /\ RightClass'
  <2>1. on'[InHand(t)] = {}
    BY <1>9 DEF QInv, HandsOK
  <2>2. \A a : ClassOf(a)' = ClassOf(a)
    BY <1>1 DEF ClassOf
  <2>3. \A u \in Threads, c \in Classes : \A a \in on'[TCacheBin(u, c)] : ClassOf(a)' = c
    BY <1>10, <2>2 DEF QInv, RightClass
  <2> QED BY <1>1, <1>7, <1>10, <1>11, <2>1, <2>2, <2>3, HandFrame
<1>16. OwnersOK'
  BY <1>1, <1>2, <1>4 DEF QInv, OwnersOK, IInv, TypeOK
<1>17. PendingExact'
  <2>1. AwaitingDrain' = AwaitingDrain \cup {b} /\ b \notin AwaitingDrain
    <3>1. RemoteQueue(i) \in RemoteQueues \cup DetachedLists /\ RemoteQueues \cup DetachedLists \subseteq Lists
          /\ InHand(t) \notin RemoteQueues \cup DetachedLists
      BY <1>5, OtherNames DEF RemoteQueues, DetachedLists, Lists
    <3>2. \A l \in RemoteQueues \cup DetachedLists : b \notin on[l]
      BY <1>1, <1>8, <3>1, Apart
    <3>3. \A a : (\E l \in RemoteQueues \cup DetachedLists : a \in on'[l])
                   <=> a = b \/ \E l \in RemoteQueues \cup DetachedLists : a \in on[l]
      BY <1>9, <3>1
    <3> QED BY <1>4, <3>2, <3>3 DEF AwaitingDrain
  <2>2. \A u \in Threads : pc'[u] \in {"load", "sub"} <=> pc[u] \in {"load", "sub"}
    BY <1>1, <1>7
  <2>3. AwaitingSub' = AwaitingSub
    BY <2>2 DEF AwaitingSub
  <2>4. Cardinality(AwaitingDrain') = Cardinality(AwaitingDrain) + 1
    BY <1>1, <2>1, Counted, FS_AddElement
  <2>5. /\ Cardinality(AwaitingDrain) \in Nat /\ Cardinality(AwaitingSub) \in Nat
        /\ pending = Cardinality(AwaitingDrain) + Cardinality(AwaitingSub)
    BY <1>1, Counted DEF QInv, PendingExact
  <2>6. pending' = Cardinality(AwaitingDrain') + Cardinality(AwaitingSub')
    BY <1>1, <2>3, <2>4, <2>5, SMT
  <2> QED BY <2>6 DEF PendingExact
<1> QED BY <1>12, <1>13, <1>14, <1>15, <1>16, <1>17 DEF QInv

----------------------------------------------------------------------------
(* The theorems about queues and magazines                                  *)

\* Nothing is queued, cached or owed at the start.
LEMMA InitQInv == Init => QInv
<1> SUFFICES ASSUME Init PROVE QInv
  OBVIOUS
<1>1. IInv
  BY InitIInv
<1>2. \A l \in Lists : on[l] = {}
  BY DEF Init
<1>3. HandsOK /\ DetachedOK /\ QueuedHome /\ RightClass
  <2>1. /\ \A t \in Threads : on[InHand(t)] = {} /\ on[Detached(t)] = {}
        /\ \A i \in Buckets : on[RemoteQueue(i)] = {}
        /\ \A t \in Threads, c \in Classes : on[TCacheBin(t, c)] = {}
    BY <1>2, ListNames
  <2> QED BY <2>1 DEF HandsOK, DetachedOK, QueuedHome, RightClass
<1>4. OwnersOK /\ ProbesOK
  BY DEF Init, OwnersOK, ProbesOK
<1>5. PendingExact
  <2>1. RemoteQueues \cup DetachedLists \subseteq Lists
    BY DEF Lists
  <2>2. AwaitingDrain = {}
    BY <1>2, <2>1 DEF AwaitingDrain
  <2>3. AwaitingSub = {}
    BY DEF Init, AwaitingSub
  <2>4. Cardinality(AwaitingDrain) = 0 /\ Cardinality(AwaitingSub) = 0
    BY <2>2, <2>3, FS_EmptySet
  <2>5. pending = 0
    BY DEF Init
  <2>6. pending = Cardinality(AwaitingDrain) + Cardinality(AwaitingSub)
    BY <2>4, <2>5, SMT
  <2> QED BY <2>6 DEF PendingExact
<1> QED BY <1>1, <1>3, <1>4, <1>5 DEF QInv

\* Every step preserves the invariant of the queues.
LEMMA NextQInv == QInv /\ [Next]_vars => QInv'
<1> SUFFICES ASSUME QInv, [Next]_vars PROVE QInv'
  OBVIOUS
<1>0. IInv /\ IInv'
  BY NextIInv DEF QInv
<1>1. CASE UNCHANGED vars
  <2>1. UNCHANGED <<on, pageClass, live, magic, owner, mode, bucketOwner, pending, pc, call>>
    BY <1>1 DEF vars
  <2>2. HandsOK' /\ DetachedOK' /\ OwnersOK' /\ ProbesOK' /\ QueuedHome'
    BY <2>1 DEF QInv, HandsOK, DetachedOK, OwnersOK, ProbesOK, QueuedHome
  <2>3. RightClass' /\ PendingExact'
    BY <2>1 DEF QInv, RightClass, ClassOf, PendingExact, AwaitingDrain, AwaitingSub
  <2> QED BY <1>0, <2>2, <2>3 DEF QInv
<1>2. ASSUME NEW t \in Threads, FreeOld(t) PROVE QInv'
  <2>1. pc[t] = "free_old" /\ RegistryRemove(t, call[t].old)
    BY <1>2 DEF FreeOld
  <2>2. call[t].old \in on[Registry]
    BY <1>0, <2>1 DEF IInv, ArgsOK, ReallocSourceLive
  <2> QED BY <1>0, <2>1, <2>2, RegistryRemoveQueue
<1>3. ASSUME NEW t \in Threads, NEW b \in Blocks, Free(t, b) PROVE QInv'
  BY <1>0, <1>3, RegistryRemoveQueue DEF Free
<1>4. ASSUME NEW t \in Threads, Step(t) PROVE QInv'
  BY <1>0, <1>2, <1>4, QuietActions, DrainDetachQueue, DrainPushQueue, DrainLoadQueue,
     DrainSubQueue, DrainEndQueue, PopTCacheQueue, PoolAllocReuseQueue, PoolAllocFreshQueue,
     RegistryInsertQueue, EnqueueRemoteQueue, PushTCacheQueue, PoolFreeQueue DEF Step
<1>5. ASSUME NEW t \in Threads, NEW c, NEW m, NEW old, Begin(t, c, m, old) PROVE QInv'
  BY <1>0, <1>5, QuietActions
<1>6. ASSUME NEW t \in Threads, ThreadExit(t) PROVE QInv'
  BY <1>0, <1>6, ThreadExitQueue
<1>7. ASSUME NEW t \in Threads, NEW b \in Blocks, ReallocDirect(t, b) PROVE QInv'
  BY <1>0, <1>7, QuietActions
<1> QED BY <1>1, <1>3, <1>4, <1>5, <1>6, <1>7 DEF Next, Client, Malloc, Realloc

\* The invariant of the queues holds in every reachable state.
LEMMA InductiveQ == Spec => []QInv
BY InitQInv, NextQInv, PTL DEF Spec

\* Quotient and remainder of a natural number.
LEMMA DivMod ==
  ASSUME NEW a \in Nat, NEW n \in Nat \ {0}
  PROVE a = n * (a \div n) + (a % n) /\ a % n \in 0 .. n - 1 /\ a \div n \in Nat
  OBVIOUS

\* Two buckets at the same distance from a thread's home are one bucket.
LEMMA OneBucketPerDistance ==
  ASSUME NEW x \in Threads, NEW i \in Buckets, NEW j \in Buckets,
         ProbeDistance(x, i) = ProbeDistance(x, j)
  PROVE i = j
<1>1. Home[x] \in 0 .. NumBuckets - 1 /\ NumBuckets \in Nat \ {0}
      /\ i \in 0 .. NumBuckets - 1 /\ j \in 0 .. NumBuckets - 1
  BY ConstantTypes DEF Buckets
<1>2. ASSUME NEW n \in Nat \ {0}, NEW a \in 1 .. 2 * n - 1
      PROVE a % n = IF a < n THEN a ELSE a - n
  <2>1. a % n \in 0 .. n - 1 /\ a = n * (a \div n) + (a % n) /\ a \div n \in Nat
    <3>1. a \in Nat
      BY SMT
    <3> QED BY <3>1, DivMod
  <2>2. a \div n = 0 \/ a \div n = 1
    <3>1. a \div n >= 2 => n * (a \div n) >= n * 2
      <4>1. ASSUME NEW k \in Nat PROVE n * (2 + k) >= n * 2
        <5>1. n * (2 + k) = n * 2 + n * k /\ n * k >= 0
          BY SMT
        <5> QED BY <5>1, SMT
      <4>2. a \div n >= 2 => a \div n - 2 \in Nat /\ a \div n = 2 + (a \div n - 2)
        BY <2>1, SMT
      <4> QED BY <4>1, <4>2
    <3> QED BY <2>1, <3>1, SMT
  <2> QED BY <2>1, <2>2, SMT
<1> DEFINE a == i - Home[x] + NumBuckets
           b == j - Home[x] + NumBuckets
<1>3. a \in 1 .. 2 * NumBuckets - 1 /\ b \in 1 .. 2 * NumBuckets - 1
  BY <1>1, SMT
<1>4. a % NumBuckets = b % NumBuckets
  BY DEF ProbeDistance
<1>5. /\ a % NumBuckets = IF a < NumBuckets THEN a ELSE a - NumBuckets
      /\ b % NumBuckets = IF b < NumBuckets THEN b ELSE b - NumBuckets
  BY <1>1, <1>2, <1>3
<1>6. (IF a < NumBuckets THEN a ELSE a - NumBuckets) = (IF b < NumBuckets THEN b ELSE b - NumBuckets)
  BY <1>4, <1>5
<1> QED BY <1>1, <1>6, SMT

\* The probe order gives every thread one bucket.
LEMMA OneBucketPerThread ==
  ASSUME QInv, NEW i \in Buckets, NEW j \in Buckets,
         bucketOwner[i] = bucketOwner[j], bucketOwner[i] # NoThread
  PROVE i = j
<1>1. bucketOwner[i] \in Threads
  BY DEF QInv, IInv, TypeOK
<1> DEFINE di == ProbeDistance(bucketOwner[i], i)
           dj == ProbeDistance(bucketOwner[i], j)
<1>2. di \in Int /\ dj \in Int
  BY <1>1, Distances
<1>3. ~ (di < dj) /\ ~ (dj < di)
  BY DEF QInv, ProbesOK
<1>4. di = dj
  <2> HIDE DEF di, dj
  <2> QED BY <1>2, <1>3, SMT
<1> QED BY <1>1, <1>4, OneBucketPerDistance

\* A block freed by another thread waits only in its owner's queue, a drain
\* splices its leftover back where it belongs, and every thread has at most one
\* queue, however the bucket probes of enqueue_remote_free collide.
THEOREM BlocksQueueForOwner == Spec => []QueuedForOwner
<1>1. QInv => QueuedForOwner
  BY OneBucketPerThread DEF QueuedForOwner, QInv, QueuedHome
<1> QED BY <1>1, InductiveQ, PTL

\* g_remote_pending is the number of blocks queued or detached plus the
\* decrements owed: although drain_remote_frees_for loads and decrements it in
\* two steps, no interleaving takes it below zero or loses a count.
THEOREM PendingIsExact == Spec => []PendingExact
<1>1. QInv => PendingExact
  BY DEF QInv
<1> QED BY <1>1, InductiveQ, PTL

\* A magazine holds blocks of its own class, and an allocation returns a block
\* of the class it asked for, owned by the caller, whichever path supplied it.
THEOREM ClassesStayRight == Spec => []RightClass
<1>1. QInv => RightClass
  BY DEF QInv
<1> QED BY <1>1, InductiveQ, PTL

----------------------------------------------------------------------------
(* Bounds: magazines and empty pages                                        *)

\* The limits of a mode are natural numbers.
LEMMA Limits ==
  ASSUME NEW m \in Modes
  PROVE Policy[m].empty_keep_limit \in Nat /\ \A c \in Classes : Policy[m].tcache_limit[c] \in Nat
BY ConstantTypes DEF PolicyRecord

\* Part of a set of blocks is no larger than the set.
LEMMA FewerBlocks ==
  ASSUME NEW S \in SUBSET Blocks, NEW T \in SUBSET S
  PROVE Cardinality(T) \in Nat /\ Cardinality(S) \in Nat /\ Cardinality(T) <= Cardinality(S)
BY FiniteBlocks, FS_Subset, FS_CardinalityType

\* A magazine only outgrows its bound when it grows.
LEMMA BoundKept ==
  ASSUME IInv, MagazineBounded, NEW t \in Threads, NEW c \in Classes,
         on'[TCacheBin(t, c)] \subseteq on[TCacheBin(t, c)]
  PROVE \E m \in Modes : Cardinality(on'[TCacheBin(t, c)]) <= Policy[m].tcache_limit[c]
<1> DEFINE S == on[TCacheBin(t, c)]
           T == on'[TCacheBin(t, c)]
<1>1. PICK m \in Modes : Cardinality(S) <= Policy[m].tcache_limit[c]
  BY DEF MagazineBounded
<1>2. S \in SUBSET Blocks /\ T \in SUBSET S
  BY ListNames DEF IInv, TypeOK
<1>3. Cardinality(T) \in Nat /\ Cardinality(S) \in Nat /\ Cardinality(T) <= Cardinality(S)
  BY <1>2, FewerBlocks
<1>4. Policy[m].tcache_limit[c] \in Nat
  BY Limits
<1> HIDE DEF S, T
<1>5. Cardinality(T) <= Policy[m].tcache_limit[c]
  BY <1>1, <1>3, <1>4, SMT
<1> QED BY <1>5 DEF T

\* Adding n blocks where the limit of a mode leaves room for n.
LEMMA BoundMet ==
  ASSUME IInv, NEW t \in Threads, NEW c \in Classes, NEW m \in Modes, NEW B \in SUBSET Blocks,
         on'[TCacheBin(t, c)] = on[TCacheBin(t, c)] \cup B,
         Cardinality(on[TCacheBin(t, c)]) + Cardinality(B) <= Policy[m].tcache_limit[c]
  PROVE Cardinality(on'[TCacheBin(t, c)]) <= Policy[m].tcache_limit[c]
<1> DEFINE S == on[TCacheBin(t, c)]
<1>1. S \in SUBSET Blocks
  BY ListNames DEF IInv, TypeOK
<1>2. Cardinality(S) + Cardinality(B) <= Policy[m].tcache_limit[c]
  OBVIOUS
<1> HIDE DEF S
<1>3. /\ IsFiniteSet(S) /\ Cardinality(S) \in Nat /\ IsFiniteSet(B) /\ Cardinality(B) \in Nat
      /\ S \cap B \in SUBSET Blocks /\ S \cup B \in SUBSET Blocks
      /\ Cardinality(S \cap B) \in Nat /\ Cardinality(S \cup B) \in Nat
  BY <1>1, FiniteBlocks
<1>4. Cardinality(S \cup B) = Cardinality(S) + Cardinality(B) - Cardinality(S \cap B)
  BY <1>3, FS_Union
<1>5. Policy[m].tcache_limit[c] \in Nat
  BY Limits
<1>6. Cardinality(S \cup B) <= Policy[m].tcache_limit[c]
  BY <1>2, <1>3, <1>4, <1>5, SMT
<1> QED BY <1>6 DEF S

\* A bin that is not full has room for one more block.
LEMMA RoomForOne ==
  ASSUME IInv, NEW t \in Threads, NEW c \in Classes, NEW m \in Modes, ~ BinFull(t, c, m),
         NEW b \in Blocks, on'[TCacheBin(t, c)] = on[TCacheBin(t, c)] \cup {b}
  PROVE Cardinality(on'[TCacheBin(t, c)]) <= Policy[m].tcache_limit[c]
<1> DEFINE S == on[TCacheBin(t, c)]
<1>1. S \in SUBSET Blocks /\ {b} \in SUBSET Blocks
  BY ListNames DEF IInv, TypeOK
<1>2. Cardinality(S) \in Nat /\ Policy[m].tcache_limit[c] \in Nat /\ Cardinality({b}) = 1
  BY <1>1, FiniteBlocks, Limits, FS_Singleton
<1>3. ~ (Cardinality(S) >= Policy[m].tcache_limit[c])
  BY DEF BinFull
<1>4. Cardinality(S) + Cardinality({b}) <= Policy[m].tcache_limit[c]
  <2> HIDE DEF S
  <2> QED BY <1>2, <1>3, SMT
<1> QED BY <1>1, <1>4, BoundMet

\* A refill stops at the limit of the mode the call runs in.
LEMMA RefillFits ==
  ASSUME IInv, MagazineBounded, NEW t \in Threads, pc[t] = "pool",
         NEW p \in Pages, NEW free \in SUBSET Blocks, NEW b \in free, NEW before,
         Took(t, p, b, free, before)
  PROVE \E m \in Modes : Cardinality(on'[TCacheBin(t, call[t].cls)]) <= Policy[m].tcache_limit[call[t].cls]
<1> DEFINE c == call[t].cls
           m == call[t].mode
           S == on[TCacheBin(t, c)]
           room == Policy[m].tcache_limit[c] - Cardinality(S)
           avail == Cardinality(free) - 1
<1>1. c \in Classes /\ m \in Modes
  BY DEF IInv, ArgsOK, AllocPCs
<1>2. PICK refill \in SUBSET (free \ {b}) :
        Cardinality(refill) = RefillCount(t, avail) /\ on'[TCacheBin(t, c)] = S \cup refill
  BY DEF Took
<1>3. refill \in SUBSET Blocks /\ S \in SUBSET Blocks
  BY <1>1, ListNames DEF IInv, TypeOK
<1>4. IsFiniteSet(refill) /\ Cardinality(refill) \in Nat /\ Cardinality(S) \in Nat /\ Cardinality(free) \in Nat
  BY <1>3, FiniteBlocks
<1>5. Policy[m].tcache_limit[c] \in Nat /\ Policy[m].batch_size \in Nat
  BY <1>1, ConstantTypes DEF PolicyRecord
<1>6. RefillCount(t, avail) = 0 \/ RefillCount(t, avail) <= room
  <2> DEFINE batch == Policy[m].batch_size - 1
             Least(x, y) == IF x <= y THEN x ELSE y
  <2>1. RefillCount(t, avail) = IF Policy[m].use_thread_cache /\ room > 0 /\ batch > 0
                                THEN Least(avail, Least(room, batch)) ELSE 0
    BY DEF RefillCount, Plan
  <2>2. room \in Int /\ batch \in Int /\ avail \in Int
    BY <1>4, <1>5, SMT
  <2> HIDE DEF room, batch, avail
  <2>3. Least(avail, Least(room, batch)) <= room
    BY <2>2, SMT
  <2> HIDE DEF Least
  <2> QED BY <2>1, <2>3
<1>7. CASE RefillCount(t, avail) = 0
  <2>1. refill = {}
    BY <1>2, <1>4, <1>7, FS_EmptySet
  <2>2. on'[TCacheBin(t, c)] \subseteq on[TCacheBin(t, c)]
    BY <1>2, <2>1
  <2> QED BY <1>1, <2>2, BoundKept
<1>8. CASE RefillCount(t, avail) <= room
  <2>1. Cardinality(S) + Cardinality(refill) <= Policy[m].tcache_limit[c]
    <3>1. Cardinality(refill) <= Policy[m].tcache_limit[c] - Cardinality(S)
      BY <1>2, <1>8
    <3> HIDE DEF S, c, m
    <3> QED BY <1>4, <1>5, <3>1, SMT
  <2>2. Cardinality(on'[TCacheBin(t, c)]) <= Policy[m].tcache_limit[c]
    <3> HIDE DEF c, m
    <3> QED BY <1>1, <1>2, <1>3, <2>1, BoundMet
  <2> QED BY <1>1, <2>2
<1> QED BY <1>6, <1>7, <1>8

\* Magazines keep their bound when none grows, or one grows within a limit.
LEMMA MagazinesKept ==
  ASSUME IInv, MagazineBounded, NEW t, NEW c,
         \A u \in Threads, d \in Classes : TCacheBin(u, d) # TCacheBin(t, c) =>
           on'[TCacheBin(u, d)] \subseteq on[TCacheBin(u, d)],
         \/ on'[TCacheBin(t, c)] \subseteq on[TCacheBin(t, c)]
         \/ \E m \in Modes : Cardinality(on'[TCacheBin(t, c)]) <= Policy[m].tcache_limit[c]
  PROVE MagazineBounded'
<1> SUFFICES ASSUME NEW u \in Threads, NEW d \in Classes
             PROVE \E m \in Modes : Cardinality(on'[TCacheBin(u, d)]) <= Policy[m].tcache_limit[d]
  BY DEF MagazineBounded
<1>1. CASE on'[TCacheBin(u, d)] \subseteq on[TCacheBin(u, d)]
  BY <1>1, BoundKept
<1>2. CASE ~ (on'[TCacheBin(u, d)] \subseteq on[TCacheBin(u, d)])
  <2>1. TCacheBin(u, d) = TCacheBin(t, c)
    BY <1>2
  <2>2. u = t /\ d = c
    BY <2>1, TCacheNames
  <2> QED BY <1>2, <2>2
<1> QED BY <1>1, <1>2

\* A move to a list that is not a magazine.
LEMMA MoveKeepsMagazines ==
  ASSUME IInv, MagazineBounded, NEW k \in Lists, NEW l \in Lists, k # l, NEW B, on' = Move(B, k, l),
         \A u \in Threads, d \in Classes : TCacheBin(u, d) # l
  PROVE MagazineBounded'
<1>1. /\ on'[k] = on[k] \ B
      /\ \A j \in Lists : j # k /\ j # l => on'[j] = on[j]
  BY Relinked
<1>2. \A u \in Threads, d \in Classes : on'[TCacheBin(u, d)] \subseteq on[TCacheBin(u, d)]
  BY <1>1, ListNames
<1>3. \A u \in Threads, d \in Classes :
        \E m \in Modes : Cardinality(on'[TCacheBin(u, d)]) <= Policy[m].tcache_limit[d]
  BY <1>2, BoundKept
<1> QED BY <1>3 DEF MagazineBounded

\* Every step keeps the bound of the magazines.
LEMMA MagazineStep ==
  ASSUME IInv, IInv', MagazineBounded, [Next]_vars
  PROVE MagazineBounded'
<1>1. ASSUME on' = on PROVE MagazineBounded'
  BY <1>1 DEF MagazineBounded
<1>2. ASSUME NEW t \in Threads, DrainDetach(t) PROVE MagazineBounded'
  <2>1. ASSUME NEW i \in Buckets, on' = Move(on[RemoteQueue(i)], RemoteQueue(i), Detached(t))
        PROVE MagazineBounded'
    BY <2>1, MoveKeepsMagazines, ListNames, OtherNames, TCacheNames
  <2> QED BY <1>1, <1>2, <2>1 DEF DrainDetach
<1>3. ASSUME NEW t \in Threads, DrainPush(t) PROVE MagazineBounded'
  <2>1. PICK b \in on[Detached(t)] :
          ~ BinFull(t, ClassOf(b), call[t].mode) /\ on' = Move({b}, Detached(t), TCacheBin(t, ClassOf(b)))
    BY <1>3 DEF DrainPush
  <2>2. ClassOf(b) \in Classes /\ b \in Blocks /\ call[t].mode \in Modes
    <3>1. pc[t] = "push"
      BY <1>3 DEF DrainPush
    <3> QED BY <3>1, ListNames, LinkedIsMapped, Apart DEF IInv, ArgsOK, AllocPCs
  <2> DEFINE c == ClassOf(b)
             bin == TCacheBin(t, c)
  <2>3. bin \in Lists /\ Detached(t) \in Lists /\ Detached(t) # bin
        /\ \A u \in Threads, d \in Classes : TCacheBin(u, d) \in Lists /\ TCacheBin(u, d) # Detached(t)
    BY <2>2, ListNames, TCacheNames
  <2>4. on \in [Lists -> SUBSET Blocks] /\ on' = [on EXCEPT ![Detached(t)] = @ \ {b}, ![bin] = @ \cup {b}]
    BY <2>1 DEF IInv, TypeOK, Move
  <2>5. on'[bin] = on[bin] \cup {b} /\ \A j \in Lists : j # Detached(t) /\ j # bin => on'[j] = on[j]
    <3> HIDE DEF bin
    <3> QED BY <2>3, <2>4, SMT
  <2>6. Cardinality(on'[bin]) <= Policy[call[t].mode].tcache_limit[c]
    <3> HIDE DEF c
    <3>1. ~ BinFull(t, c, call[t].mode) /\ c \in Classes
      BY <2>1, <2>2 DEF c
    <3> QED BY <2>2, <2>5, <3>1, RoomForOne
  <2>7. \A u \in Threads, d \in Classes : TCacheBin(u, d) # bin => on'[TCacheBin(u, d)] \subseteq on[TCacheBin(u, d)]
    BY <2>3, <2>5
  <2> HIDE DEF c
  <2> QED BY <2>2, <2>6, <2>7, MagazinesKept
<1>4. ASSUME NEW t \in Threads, DrainEnd(t) PROVE MagazineBounded'
  <2>1. call[t].bucket \in Buckets
    BY DEF IInv, TypeOK, Calls
  <2>2. on' = Move(on[Detached(t)], Detached(t), RemoteQueue(call[t].bucket))
    BY <1>4 DEF DrainEnd
  <2> QED BY <2>1, <2>2, MoveKeepsMagazines, ListNames, OtherNames, TCacheNames
<1>5. ASSUME NEW t \in Threads, PopTCache(t) PROVE MagazineBounded'
  <2>1. call[t].cls \in Classes
    BY <1>5 DEF PopTCache, IInv, ArgsOK, AllocPCs
  <2>2. PICK b : on' = Move({b}, TCacheBin(t, call[t].cls), InHand(t))
    BY <1>5 DEF PopTCache
  <2> QED BY <2>1, <2>2, MoveKeepsMagazines, ListNames, TCacheNames
<1>6. ASSUME NEW t \in Threads, NEW p \in Pages, NEW free \in SUBSET Blocks, NEW b \in free, NEW before,
             pc[t] = "pool", TakeFrom(t, p, b, free, before)
      PROVE MagazineBounded'
  <2>1. Took(t, p, b, free, before)
    BY <1>6, Taken
  <2>2. \E m \in Modes : Cardinality(on'[TCacheBin(t, call[t].cls)]) <= Policy[m].tcache_limit[call[t].cls]
    BY <1>6, <2>1, RefillFits
  <2>3. \A l \in Lists : l # FreeList(p) /\ l # TCacheBin(t, call[t].cls) /\ l # InHand(t) => on'[l] = on[l]
    BY <2>1 DEF Took
  <2>4. \A u \in Threads, d \in Classes : TCacheBin(u, d) # TCacheBin(t, call[t].cls) =>
          on'[TCacheBin(u, d)] \subseteq on[TCacheBin(u, d)]
    BY <2>3, ListNames, FreeListNames, TCacheNames
  <2> DEFINE c == call[t].cls
  <2>5. /\ \E m \in Modes : Cardinality(on'[TCacheBin(t, c)]) <= Policy[m].tcache_limit[c]
        /\ \A u \in Threads, d \in Classes : TCacheBin(u, d) # TCacheBin(t, c) =>
              on'[TCacheBin(u, d)] \subseteq on[TCacheBin(u, d)]
    BY <2>2, <2>4
  <2> HIDE DEF c
  <2> QED BY <2>5, MagazinesKept
<1>7. ASSUME NEW t \in Threads, PoolAllocReuse(t) \/ PoolAllocFresh(t) PROVE MagazineBounded'
  <2>1. ASSUME NEW p \in Pages, NEW b \in on[FreeList(p)], TakeFrom(t, p, b, on[FreeList(p)], live[p]),
               pc[t] = "pool"
        PROVE MagazineBounded'
    <3>1. on[FreeList(p)] \in SUBSET Blocks
      BY ListNames DEF IInv, TypeOK
    <3> QED BY <1>6, <2>1, <3>1
  <2>2. ASSUME NEW p \in Pages, NEW b \in BlocksOf(p), TakeFrom(t, p, b, BlocksOf(p), 0), pc[t] = "pool"
        PROVE MagazineBounded'
    BY <1>6, <2>2, PageLayout
  <2> QED BY <1>7, <2>1, <2>2 DEF PoolAllocReuse, PoolAllocFresh, SelectPage, Selectable
<1>8. ASSUME NEW t \in Threads, RegistryInsert(t) PROVE MagazineBounded'
  <2>1. PICK b : on' = Move({b}, InHand(t), Registry)
    BY <1>8 DEF RegistryInsert
  <2> QED BY <2>1, MoveKeepsMagazines, ListNames, OtherNames, TCacheNames
<1>9. ASSUME NEW t \in Threads, NEW b, RegistryRemove(t, b) PROVE MagazineBounded'
  <2>1. on' = Move({b}, Registry, InHand(t))
    BY <1>9 DEF RegistryRemove
  <2> QED BY <2>1, MoveKeepsMagazines, ListNames, OtherNames, TCacheNames
<1>10. ASSUME NEW t \in Threads, EnqueueRemote(t) PROVE MagazineBounded'
  <2>1. PICK b \in on[InHand(t)], i \in Buckets : on' = Move({b}, InHand(t), RemoteQueue(i))
    BY <1>10 DEF EnqueueRemote, FirstBucket, Claimable
  <2> QED BY <2>1, MoveKeepsMagazines, ListNames, OtherNames, TCacheNames
<1>11. ASSUME NEW t \in Threads, PushTCache(t) PROVE MagazineBounded'
  <2>1. PICK b \in on[InHand(t)] :
          ~ BinFull(t, ClassOf(b), mode[b]) /\ on' = Move({b}, InHand(t), TCacheBin(t, ClassOf(b)))
    BY <1>11 DEF PushTCache, UsesTCache
  <2>2. ClassOf(b) \in Classes /\ b \in Blocks /\ mode[b] \in Modes
    <3>1. ClassOf(b) \in Classes /\ b \in Blocks /\ Mapped(PageOf(b))
      BY ListNames, LinkedIsMapped, Apart
    <3> QED BY <3>1 DEF IInv, Stamped
  <2> DEFINE c == ClassOf(b)
             bin == TCacheBin(t, c)
  <2>3. bin \in Lists /\ InHand(t) \in Lists /\ InHand(t) # bin
        /\ \A u \in Threads, d \in Classes : TCacheBin(u, d) \in Lists /\ TCacheBin(u, d) # InHand(t)
    BY <2>2, ListNames, TCacheNames
  <2>4. on \in [Lists -> SUBSET Blocks] /\ on' = [on EXCEPT ![InHand(t)] = @ \ {b}, ![bin] = @ \cup {b}]
    BY <2>1 DEF IInv, TypeOK, Move
  <2>5. on'[bin] = on[bin] \cup {b} /\ \A j \in Lists : j # InHand(t) /\ j # bin => on'[j] = on[j]
    <3> HIDE DEF bin
    <3> QED BY <2>3, <2>4, SMT
  <2>6. Cardinality(on'[bin]) <= Policy[mode[b]].tcache_limit[c]
    <3> HIDE DEF c
    <3>1. ~ BinFull(t, c, mode[b]) /\ c \in Classes
      BY <2>1, <2>2 DEF c
    <3> QED BY <2>2, <2>5, <3>1, RoomForOne
  <2>7. \A u \in Threads, d \in Classes : TCacheBin(u, d) # bin => on'[TCacheBin(u, d)] \subseteq on[TCacheBin(u, d)]
    BY <2>3, <2>5
  <2> HIDE DEF c
  <2> QED BY <2>2, <2>6, <2>7, MagazinesKept
<1>12. ASSUME NEW t \in Threads, PoolFree(t) PROVE MagazineBounded'
  <2>1. \A l \in Lists : (\A q \in Pages : l # FreeList(q)) /\ l # InHand(t) => on'[l] = on[l]
    BY <1>12, Freed
  <2>2. \A u \in Threads, d \in Classes : on'[TCacheBin(u, d)] \subseteq on[TCacheBin(u, d)]
    BY <2>1, ListNames, FreeListNames, TCacheNames
  <2> QED BY <2>2, BoundKept DEF MagazineBounded
<1>13. ASSUME NEW t \in Threads, ThreadExit(t) PROVE MagazineBounded'
  <2>1. \A l \in Lists : l # Abandoned => on'[l] = on[l] \/ on'[l] = {}
    BY <1>13, SMT DEF ThreadExit
  <2>2. \A u \in Threads, d \in Classes : on'[TCacheBin(u, d)] \subseteq on[TCacheBin(u, d)]
    BY <2>1, ListNames, TCacheNames
  <2> QED BY <2>2, BoundKept DEF MagazineBounded
<1>14. ASSUME NEW t \in Threads, Step(t) PROVE MagazineBounded'
  BY <1>1, <1>2, <1>3, <1>4, <1>5, <1>7, <1>8, <1>9, <1>10, <1>11, <1>12, <1>14
     DEF Step, CheckPending, DrainLoad, DrainSub, PopMiss, PoolAllocFail, DirectResult, FreeOld
<1>15. ASSUME NEW t \in Threads, Client(t) PROVE MagazineBounded'
  BY <1>1, <1>9, <1>13, <1>15 DEF Client, Malloc, Realloc, ReallocDirect, Begin, Free
<1> QED BY <1>1, <1>14, <1>15 DEF Next, vars

Empty(c) == {p \in Pages : pageClass[p] = c /\ live[p] = 0}

\* Part of a set of pages is no larger than the set.
LEMMA FewerPages ==
  ASSUME NEW S \in SUBSET Pages, NEW T \in SUBSET S
  PROVE /\ IsFiniteSet(S) /\ IsFiniteSet(T)
        /\ Cardinality(T) \in Nat /\ Cardinality(S) \in Nat /\ Cardinality(T) <= Cardinality(S)
<1>1. IsFiniteSet(S)
  BY Finiteness, FS_Subset
<1> QED BY <1>1, FS_Subset, FS_CardinalityType

\* A pool that gains no empty page keeps its bound.
LEMMA EmptyKept ==
  ASSUME EmptyPagesBounded, NEW c \in Classes, Empty(c)' \subseteq Empty(c)
  PROVE \E m \in Modes : Cardinality(Empty(c)') <= Policy[m].empty_keep_limit
<1> DEFINE S == Empty(c)
           T == Empty(c)'
<1>1. PICK m \in Modes : Cardinality(S) <= Policy[m].empty_keep_limit
  BY DEF EmptyPagesBounded, Empty
<1>2. S \in SUBSET Pages /\ T \in SUBSET S
  BY DEF Empty
<1>3. Policy[m].empty_keep_limit \in Nat
  BY Limits
<1> HIDE DEF S, T
<1>4. Cardinality(T) \in Nat /\ Cardinality(S) \in Nat /\ Cardinality(T) <= Cardinality(S)
  BY <1>2, FewerPages
<1>5. Cardinality(T) <= Policy[m].empty_keep_limit
  BY <1>1, <1>3, <1>4, SMT
<1> QED BY <1>5 DEF T

\* Taking a block from a page leaves it in use.
LEMMA TakeKeepsEmpty ==
  ASSUME IInv, EmptyPagesBounded, NEW t \in Threads, pc[t] = "pool", NEW p \in Pages,
         NEW free \in SUBSET Blocks, NEW b \in free, NEW before \in Nat, TakeFrom(t, p, b, free, before),
         \A q \in Pages \ {p} : pageClass'[q] = pageClass[q]
  PROVE EmptyPagesBounded'
<1>1. Took(t, p, b, free, before)
  BY Taken
<1>2. PICK refill \in SUBSET (free \ {b}) : live' = [live EXCEPT ![p] = before + 1 + Cardinality(refill)]
  BY <1>1 DEF Took
<1>3. live \in [Pages -> Nat] /\ Cardinality(refill) \in Nat
  BY FiniteBlocks DEF IInv, TypeOK
<1>4. live'[p] # 0 /\ \A q \in Pages \ {p} : live'[q] = live[q]
  BY <1>2, <1>3, SMT
<1>5. \A c \in Classes : Empty(c)' \subseteq Empty(c)
  BY <1>4 DEF Empty
<1> QED BY <1>5, EmptyKept DEF EmptyPagesBounded, Empty

\* deallocate empties at most one page and then releases what is beyond the
\* limit of the block's mode.
LEMMA FreeKeepsEmpty ==
  ASSUME IInv, EmptyPagesBounded, NEW t \in Threads, PoolFree(t)
  PROVE EmptyPagesBounded'
<1>1. PICK b \in on[InHand(t)] :
        LET p == PageOf(b)
            liveNow == [live EXCEPT ![p] = IF @ > 0 THEN @ - 1 ELSE @]
        IN \E R \in Released(ClassOf(b), p, liveNow, Decision(b)) :
             /\ pageClass' = [q \in Pages |-> IF q \in R THEN NoClass ELSE pageClass[q]]
             /\ live' = [q \in Pages |-> IF q \in R THEN 0 ELSE liveNow[q]]
  BY DEF PoolFree
<1>a. b \in Blocks /\ PageOf(b) \in Pages /\ Mapped(PageOf(b)) /\ ClassOf(b) \in Classes
  BY ListNames, LinkedIsMapped, Apart
<1>k. PICK k \in Classes : k = ClassOf(b)
  BY <1>a
<1> DEFINE p == PageOf(b)
           liveNow == [live EXCEPT ![p] = IF @ > 0 THEN @ - 1 ELSE @]
           empty == {q \in Pages : pageClass[q] = k /\ liveNow[q] = 0}
           limit == Policy[mode[b]].empty_keep_limit
<1>2. PICK R \in Released(k, p, liveNow, Decision(b)) :
        /\ pageClass' = [q \in Pages |-> IF q \in R THEN NoClass ELSE pageClass[q]]
        /\ live' = [q \in Pages |-> IF q \in R THEN 0 ELSE liveNow[q]]
  BY <1>1, <1>k
<1>3. b \in Blocks /\ p \in Pages /\ Mapped(p) /\ k \in Classes /\ pageClass[p] = k
  BY <1>a, <1>k DEF ClassOf
<1>4. mode[b] \in Modes /\ limit \in Nat
  BY <1>3, Limits DEF IInv, Stamped
<1>5. \A q \in Pages \ {p} : liveNow[q] = live[q]
  BY <1>3 DEF IInv, TypeOK
<1>6. empty \subseteq Pages /\ (p \notin empty => empty \subseteq Empty(k)) /\ empty \ {p} \subseteq Empty(k)
  BY <1>5 DEF Empty
<1>7. \/ R = {p}
      \/ p \notin empty /\ R \subseteq empty
      \/ R \subseteq empty /\ Cardinality(R) = IF Cardinality(empty) - limit > 0
                                               THEN Cardinality(empty) - limit ELSE 0
  <2> DEFINE d == Decision(b)
             purge == d.action \in {"Purge", "Unmap"}
             keep == IF purge THEN 0 ELSE d.empty_keep_limit
  <2>1. R \in IF purge /\ p \in empty THEN {{p}}
              ELSE {Q \in SUBSET empty : Cardinality(Q) = IF Cardinality(empty) - keep > 0
                                                          THEN Cardinality(empty) - keep ELSE 0}
    BY <1>2 DEF Released
  <2>2. d.empty_keep_limit = limit
    BY DEF Decision
  <2> HIDE DEF empty, limit, d
  <2>3. CASE purge /\ p \in empty
    BY <2>1, <2>3
  <2>4. CASE purge /\ p \notin empty
    BY <2>1, <2>4
  <2>5. CASE ~ purge
    BY <2>1, <2>2, <2>5
  <2> QED BY <2>3, <2>4, <2>5
<1>8. R \subseteq Pages /\ \A q \in R : pageClass[q] = k
  BY <1>3, <1>6, <1>7
<1>9. NoClass \notin Classes
  BY Sentinels
<1> HIDE DEF p, liveNow, limit
<1>10. ASSUME NEW c \in Classes, c # k
       PROVE \E m \in Modes : Cardinality(Empty(c)') <= Policy[m].empty_keep_limit
  <2>1. Empty(c)' \subseteq Empty(c)
    BY <1>2, <1>3, <1>5, <1>9, <1>10 DEF Empty
  <2> QED BY <2>1, EmptyKept
<1>11. Empty(k)' = empty \ R
  BY <1>2, <1>3, <1>9 DEF Empty
<1>12. \E m \in Modes : Cardinality(Empty(k)') <= Policy[m].empty_keep_limit
  <2>1. CASE R = {p} \/ (p \notin empty /\ R \subseteq empty)
    <3>1. Empty(k)' \subseteq Empty(k)
      BY <1>6, <1>11, <2>1
    <3> QED BY <1>3, <3>1, EmptyKept
  <2>2. CASE R \subseteq empty /\ Cardinality(R) = IF Cardinality(empty) - limit > 0
                                                   THEN Cardinality(empty) - limit ELSE 0
    <3> HIDE DEF empty
    <3>1. /\ IsFiniteSet(empty) /\ Cardinality(R) \in Nat /\ Cardinality(empty) \in Nat
      BY <1>6, <2>2, FewerPages
    <3>2. empty \cap R = R
      BY <2>2
    <3>3. Cardinality(empty \ R) = Cardinality(empty) - Cardinality(R)
      BY <3>1, <3>2, FS_Difference
    <3>4. Cardinality(empty \ R) <= limit
      BY <1>4, <2>2, <3>1, <3>3, SMT
    <3> QED BY <1>4, <1>11, <3>4 DEF limit
  <2> QED BY <1>7, <2>1, <2>2
<1>13. \A c \in Classes : \E m \in Modes : Cardinality(Empty(c)') <= Policy[m].empty_keep_limit
  BY <1>10, <1>12
<1> QED BY <1>13 DEF EmptyPagesBounded, Empty

\* Every step keeps the bound of the empty pages.
LEMMA EmptyStep ==
  ASSUME IInv, EmptyPagesBounded, [Next]_vars
  PROVE EmptyPagesBounded'
<1>1. ASSUME UNCHANGED <<pageClass, live>> PROVE EmptyPagesBounded'
  BY <1>1 DEF EmptyPagesBounded
<1>2. ASSUME NEW t \in Threads, PoolAllocReuse(t) PROVE EmptyPagesBounded'
  <2>1. PICK p \in Pages : \E b \in on[FreeList(p)] : TakeFrom(t, p, b, on[FreeList(p)], live[p])
    BY <1>2 DEF PoolAllocReuse, SelectPage, Selectable
  <2>2. PICK b \in on[FreeList(p)] : TakeFrom(t, p, b, on[FreeList(p)], live[p])
    BY <2>1
  <2>3. pc[t] = "pool" /\ pageClass' = pageClass
    BY <1>2 DEF PoolAllocReuse
  <2>4. on[FreeList(p)] \in SUBSET Blocks /\ live[p] \in Nat
    BY ListNames DEF IInv, TypeOK
  <2> QED BY <2>2, <2>3, <2>4, TakeKeepsEmpty
<1>3. ASSUME NEW t \in Threads, PoolAllocFresh(t) PROVE EmptyPagesBounded'
  <2>1. PICK p \in Pages : /\ pageClass' = [pageClass EXCEPT ![p] = call[t].cls]
                           /\ \E b \in BlocksOf(p) : TakeFrom(t, p, b, BlocksOf(p), 0)
    BY <1>3 DEF PoolAllocFresh
  <2>2. PICK b \in BlocksOf(p) : TakeFrom(t, p, b, BlocksOf(p), 0)
    BY <2>1
  <2>3. pc[t] = "pool" /\ \A q \in Pages \ {p} : pageClass'[q] = pageClass[q]
    BY <1>3, <2>1 DEF PoolAllocFresh, IInv, TypeOK
  <2>4. BlocksOf(p) \in SUBSET Blocks /\ 0 \in Nat
    BY PageLayout
  <2> QED BY <2>2, <2>3, <2>4, TakeKeepsEmpty
<1>4. ASSUME NEW t \in Threads, PoolFree(t) PROVE EmptyPagesBounded'
  BY <1>4, FreeKeepsEmpty
<1>5. ASSUME NEW t \in Threads, Step(t) PROVE EmptyPagesBounded'
  BY <1>1, <1>2, <1>3, <1>4, <1>5
     DEF Step, CheckPending, DrainDetach, DrainPush, DrainLoad, DrainSub, DrainEnd, PopTCache, PopMiss,
         PoolAllocFail, RegistryInsert, DirectResult, FreeOld, RegistryRemove, EnqueueRemote, PushTCache, pageVars
<1>6. ASSUME NEW t \in Threads, Client(t) PROVE EmptyPagesBounded'
  BY <1>1, <1>6 DEF Client, Malloc, Realloc, ReallocDirect, Begin, Free, RegistryRemove, ThreadExit,
                    pageVars
<1> QED BY <1>1, <1>5, <1>6 DEF Next, vars

\* Magazines and empty pages start within every limit.
LEMMA InitBounds == Init => MagazineBounded /\ EmptyPagesBounded
<1> SUFFICES ASSUME Init PROVE MagazineBounded /\ EmptyPagesBounded
  OBVIOUS
<1>1. PICK m \in Modes : TRUE
  BY ConstantTypes
<1>2. Policy[m].empty_keep_limit \in Nat /\ \A c \in Classes : Policy[m].tcache_limit[c] \in Nat
  BY Limits
<1>3. MagazineBounded
  <2>1. \A t \in Threads, c \in Classes : on[TCacheBin(t, c)] = {}
    BY ListNames DEF Init
  <2>2. \A t \in Threads, c \in Classes : Cardinality(on[TCacheBin(t, c)]) <= Policy[m].tcache_limit[c]
    <3>1. \A t \in Threads, c \in Classes : Cardinality(on[TCacheBin(t, c)]) = 0
      BY <2>1, FS_EmptySet
    <3> QED BY <1>2, <3>1, SMT
  <2> QED BY <2>2 DEF MagazineBounded
<1>4. EmptyPagesBounded
  <2>1. \A c \in Classes : Empty(c) = {}
    BY Sentinels DEF Init, Empty
  <2>2. \A c \in Classes : Cardinality(Empty(c)) <= Policy[m].empty_keep_limit
    <3>1. \A c \in Classes : Cardinality(Empty(c)) = 0
      BY <2>1, FS_EmptySet
    <3> QED BY <1>2, <3>1, SMT
  <2> QED BY <2>2 DEF EmptyPagesBounded, Empty
<1> QED BY <1>3, <1>4

\* Whatever sequence of refills, frees, drains, soft switches and thread exits
\* fills it, a magazine never outgrows the largest tcache limit of a mode.
THEOREM MagazinesStayBounded == Spec => []MagazineBounded
<1>1. IInv /\ IInv' /\ MagazineBounded /\ [Next]_vars => MagazineBounded'
  BY MagazineStep
<1>2. Init => MagazineBounded
  BY InitBounds
<1> QED BY <1>1, <1>2, Inductive, PTL DEF Spec

\* The empty pages a pool keeps never exceed the largest empty_keep_limit of a
\* mode, although Purge and Unmap reclaim only the page they emptied.
THEOREM EmptyPagesStayBounded == Spec => []EmptyPagesBounded
<1>1. IInv /\ EmptyPagesBounded /\ [Next]_vars => EmptyPagesBounded'
  BY EmptyStep
<1>2. Init => EmptyPagesBounded
  BY InitBounds
<1> QED BY <1>1, <1>2, Inductive, PTL DEF Spec

=============================================================================
