---------------------------- MODULE PooledStorage ----------------------------
(***************************************************************************)
(* The pooled half of the shared memory management layer                   *)
(* (src/adaptive_services.cpp): size-class pages and spans, the per-thread *)
(* magazines (tcache), the owner-keyed remote-free queues and the reclaim  *)
(* of empty pages, under any number of threads and any mix of modes.       *)
(*                                                                         *)
(* Every free block is linked through AdaptiveHeader::registry_next, on    *)
(* exactly one intrusive list at a time; the registry of live objects uses *)
(* the same link.  on[l] is the set of headers linked on list l: the order *)
(* of a list is abstracted (any block of it may be the head), and so is    *)
(* the order of a pool's pages.  A section under one mutex is one action;  *)
(* what the code does between two mutexes is split into separate actions.  *)
(***************************************************************************)
EXTENDS Integers, FiniteSets

CONSTANTS
  Threads,      \* thread tokens (pthread_self)
  Pages,        \* addresses at which a pool page may be mapped
  Classes,      \* (storage, class_index) pairs: one pool and one mutex each
  Capacity,     \* blocks in a page
  Modes,        \* AdaptiveModeId
  Policy,       \* per mode: the fields of AllocationPlan and ReleaseDecision
  NumBuckets,   \* ADAPTIVE_REMOTE_QUEUE_BUCKETS
  Home,         \* remote_bucket_index of each thread
  DrainLimit,   \* ADAPTIVE_REMOTE_DRAIN_LIMIT
  NoThread, NoClass, NoMode, NoBlock

Buckets == 0 .. NumBuckets - 1

ReleaseActions == {"Cache", "ReturnToCentralPool", "Purge", "Unmap"}

\* AllocationPlan (first five fields) and ReleaseDecision (the others) of a mode.
PolicyRecord ==
  [use_thread_cache : BOOLEAN, drain_remote_queue : BOOLEAN,
   prefer_occupancy_packing : BOOLEAN, batch_size : Nat,
   tcache_limit : [Classes -> Nat],      \* tcache_limit_for: small or medium limit
   action : ReleaseActions, use_remote_queue : BOOLEAN, empty_keep_limit : Nat]

ASSUME ConstantTypes ==
  /\ Modes # {}
  /\ Capacity \in Nat \ {0}
  /\ DrainLimit \in Nat
  /\ NumBuckets \in Nat \ {0}
  /\ Policy \in [Modes -> PolicyRecord]
  /\ Home \in [Threads -> Buckets]

ASSUME Finiteness ==
  IsFiniteSet(Threads) /\ IsFiniteSet(Pages) /\ IsFiniteSet(Classes)

ASSUME Sentinels ==
  /\ NoThread \notin Threads
  /\ NoClass \notin Classes
  /\ NoMode \notin Modes
  /\ NoBlock \notin Pages \X (1 .. Capacity)

Blocks == Pages \X (1 .. Capacity)
BlocksOf(p) == {p} \X (1 .. Capacity)
PageOf(b) == b[1]

\* The intrusive lists a header can be linked on.
FreeList(p)    == <<"free_list", p, 0>>
TCacheBin(t, c) == <<"tcache", t, c>>
RemoteQueue(i) == <<"remote", i, 0>>
Detached(t)    == <<"detached", t, 0>>   \* local `list' of drain_remote_frees_for
InHand(t)      == <<"in_hand", t, 0>>    \* local `hdr' of a running call
Registry       == <<"registry", 0, 0>>   \* g_registry_head: objects the client owns
Abandoned      == <<"abandoned", 0, 0>>  \* magazines of threads that have exited

FreeLists    == {FreeList(p) : p \in Pages}
TCacheBins   == {TCacheBin(t, c) : t \in Threads, c \in Classes}
RemoteQueues == {RemoteQueue(i) : i \in Buckets}
DetachedLists == {Detached(t) : t \in Threads}
Hands        == {InHand(t) : t \in Threads}

Lists == FreeLists \cup TCacheBins \cup RemoteQueues \cup DetachedLists
           \cup Hands \cup {Registry, Abandoned}

VARIABLES
  on,           \* on[l]: the headers linked on list l
  pageClass,    \* pool a page is linked in, NoClass when it is not mapped
  live,         \* AdaptivePage::live_count
  magic,        \* header carries ADAPTIVE_MAGIC
  owner,        \* AdaptiveHeader::owner_thread
  mode,         \* AdaptiveHeader::mode_id
  bucketOwner,  \* RemoteQueueBucket::owner_thread
  pending,      \* g_remote_pending
  pc, call      \* where each thread is, and the arguments of its running call

vars == <<on, pageClass, live, magic, owner, mode, bucketOwner, pending, pc, call>>

PCs == {"idle", "check", "drain", "push", "load", "sub", "pop", "pop_again",
        "pool", "insert", "direct", "free_old", "release"}

Calls == [cls : Classes \cup {NoClass}, mode : Modes \cup {NoMode},
          ret : {"pop", "pop_again"}, bucket : Buckets, drained : 0 .. DrainLimit,
          old : Blocks \cup {NoBlock}]

NoCall(t) == [cls |-> NoClass, mode |-> NoMode, ret |-> "pop", bucket |-> Home[t],
              drained |-> 0, old |-> NoBlock]

\* Every counter and link stays in its range; in particular `drained' never
\* passes ADAPTIVE_REMOTE_DRAIN_LIMIT.
TypeOK ==
  /\ on \in [Lists -> SUBSET Blocks]
  /\ pageClass \in [Pages -> Classes \cup {NoClass}]
  /\ live \in [Pages -> Nat]
  /\ magic \in [Blocks -> BOOLEAN]
  /\ owner \in [Blocks -> Threads \cup {NoThread}]
  /\ mode \in [Blocks -> Modes \cup {NoMode}]
  /\ bucketOwner \in [Buckets -> Threads \cup {NoThread}]
  /\ pending \in Int
  /\ pc \in [Threads -> PCs]
  /\ call \in [Threads -> Calls]

Init ==
  /\ on = [l \in Lists |-> {}]
  /\ pageClass = [p \in Pages |-> NoClass]
  /\ live = [p \in Pages |-> 0]
  /\ magic = [b \in Blocks |-> FALSE]
  /\ owner = [b \in Blocks |-> NoThread]
  /\ mode = [b \in Blocks |-> NoMode]
  /\ bucketOwner = [i \in Buckets |-> NoThread]
  /\ pending = 0
  /\ pc = [t \in Threads |-> "idle"]
  /\ call = [t \in Threads |-> NoCall(t)]

Mapped(p) == pageClass[p] # NoClass
ClassOf(b) == pageClass[PageOf(b)]
Plan(t) == Policy[call[t].mode]
Goto(t, label) == pc' = [pc EXCEPT ![t] = label]

\* Unlink the headers of B from one list and link them on another.
Move(B, from, to) == [on EXCEPT ![from] = @ \ B, ![to] = @ \cup B]

pageVars == <<pageClass, live>>
hdrVars  == <<magic, owner, mode>>
remoteVars == <<bucketOwner, pending>>

----------------------------------------------------------------------------
(* Allocation: allocate_size_class / allocate_span                          *)

\* Mutant: reallocate gives the old block up before the new one is allocated.
BeginDropsOld(t, c, m, old) ==
  /\ pc[t] = "idle"
  /\ call' = [call EXCEPT ![t] = [NoCall(t) EXCEPT !.cls = c, !.mode = m, !.old = old]]
  /\ Goto(t, IF Policy[m].use_thread_cache THEN "check" ELSE "pool")
  /\ on' = IF old = NoBlock THEN on ELSE Move({old}, Registry, Abandoned)
  /\ UNCHANGED <<pageVars, hdrVars, remoteVars>>

Begin(t, c, m, old) ==
  /\ pc[t] = "idle"
  /\ call' = [call EXCEPT ![t] = [NoCall(t) EXCEPT !.cls = c, !.mode = m, !.old = old]]
  /\ Goto(t, IF Policy[m].use_thread_cache THEN "check" ELSE "pool")
  /\ UNCHANGED <<on, pageVars, hdrVars, remoteVars>>

\* A client call that needs a block of class c while mode m is active, or a
\* realloc in mode m of a direct mapping whose larger block a pool serves.
Malloc(t, c, m) == Begin(t, c, m, NoBlock)

BeingReallocated == {call[u].old : u \in {v \in Threads : pc[v] # "idle"}}

\* MemoryServices::reallocate of b when the new size exceeds b's usable size:
\* the new block is requested in b's allocation-time mode, b is freed afterwards.
Realloc(t, b, c) ==
  /\ b \in on[Registry] \ BeingReallocated
  /\ Begin(t, c, mode[b], b)

\* The same when the mode's plan sends the new size to a direct mapping: it is
\* made outside the pools (DirectMapping) ...
ReallocDirect(t, b) ==
  /\ pc[t] = "idle"
  /\ b \in on[Registry] \ BeingReallocated
  /\ call' = [call EXCEPT ![t] = [NoCall(t) EXCEPT !.mode = mode[b], !.old = b]]
  /\ Goto(t, "direct")
  /\ UNCHANGED <<on, pageVars, hdrVars, remoteVars>>

\* ... and b is freed afterwards, or stays when mmap fails.
DirectResult(t) ==
  /\ pc[t] = "direct"
  /\ \/ Goto(t, "free_old") /\ UNCHANGED call
     \/ Goto(t, "idle") /\ call' = [call EXCEPT ![t] = NoCall(t)]
  /\ UNCHANGED <<on, pageVars, hdrVars, remoteVars>>

\* g_remote_pending is read once, before the magazine is tried.
CheckPending(t) ==
  /\ pc[t] = "check"
  /\ Goto(t, IF Plan(t).drain_remote_queue /\ pending > 0 THEN "drain" ELSE "pop")
  /\ UNCHANGED <<on, pageVars, hdrVars, remoteVars, call>>

\* drain_remote_frees_for: detach the whole queue of the first bucket that
\* belongs to t and is not empty, under the bucket's mutex.
DrainDetach(t) ==
  LET mine == {i \in Buckets : bucketOwner[i] = t /\ on[RemoteQueue(i)] # {}}
  IN /\ pc[t] = "drain"
     /\ \/ /\ mine = {}
           /\ Goto(t, call[t].ret)
           /\ UNCHANGED <<on, call>>
        \/ \E i \in mine :
             /\ on' = Move(on[RemoteQueue(i)], RemoteQueue(i), Detached(t))
             /\ call' = [call EXCEPT ![t] = [@ EXCEPT !.bucket = i, !.drained = 0]]
             /\ Goto(t, "push")
     /\ UNCHANGED <<pageVars, hdrVars, remoteVars>>

\* Mutant: the limit is compared with > instead of >=.
BinFullOffByOne(t, c, m) ==
  Cardinality(on[TCacheBin(t, c)]) > Policy[m].tcache_limit[c]

BinFull(t, c, m) == Cardinality(on[TCacheBin(t, c)]) >= Policy[m].tcache_limit[c]

\* push_tcache of the next detached block; no mutex is held.
DrainPush(t) ==
  /\ pc[t] = "push"
  /\ call[t].drained < DrainLimit
  /\ \E b \in on[Detached(t)] :
       /\ ~ BinFull(t, ClassOf(b), call[t].mode)
       /\ on' = Move({b}, Detached(t), TCacheBin(t, ClassOf(b)))
       /\ magic' = [magic EXCEPT ![b] = FALSE]
       /\ owner' = [owner EXCEPT ![b] = NoThread]
  /\ call' = [call EXCEPT ![t] = [@ EXCEPT !.drained = call[t].drained + 1]]
  /\ Goto(t, "load")
  /\ UNCHANGED <<pageVars, mode, remoteVars>>

\* Mutant: a drained block is not counted down.
DrainLoadOnly(t) ==
  /\ pc[t] = "load"
  /\ Goto(t, "push")
  /\ UNCHANGED <<on, pageVars, hdrVars, remoteVars, call>>

\* The counter is loaded and, if it is not zero, decremented by a second access.
DrainLoad(t) ==
  /\ pc[t] = "load"
  /\ Goto(t, IF pending > 0 THEN "sub" ELSE "push")
  /\ UNCHANGED <<on, pageVars, hdrVars, remoteVars, call>>

DrainSub(t) ==
  /\ pc[t] = "sub"
  /\ pending' = pending - 1
  /\ Goto(t, "push")
  /\ UNCHANGED <<on, pageVars, hdrVars, bucketOwner, call>>

\* The drain ends: what is left (limit reached, or a block whose bin is full)
\* is spliced back in front of the queue under the bucket's mutex.
DrainEnd(t) ==
  /\ pc[t] = "push"
  /\ \/ on[Detached(t)] = {}
     \/ call[t].drained = DrainLimit
     \/ \E b \in on[Detached(t)] : BinFull(t, ClassOf(b), call[t].mode)
  /\ on' = Move(on[Detached(t)], Detached(t), RemoteQueue(call[t].bucket))
  /\ Goto(t, call[t].ret)
  /\ UNCHANGED <<pageVars, hdrVars, remoteVars, call>>

\* Mutant: the magic of a recycled header is not restored.
FinalizeNoMagic(t, b) ==
  /\ owner' = [owner EXCEPT ![b] = t]
  /\ UNCHANGED magic

\* finalize_pooled_header
Finalize(t, b) ==
  /\ magic' = [magic EXCEPT ![b] = TRUE]
  /\ owner' = [owner EXCEPT ![b] = t]

PopTCache(t) ==
  /\ pc[t] \in {"pop", "pop_again"}
  /\ \E b \in on[TCacheBin(t, call[t].cls)] :
       /\ on' = Move({b}, TCacheBin(t, call[t].cls), InHand(t))
       /\ Finalize(t, b)
       /\ mode' = [mode EXCEPT ![b] = call[t].mode]
  /\ Goto(t, "insert")
  /\ UNCHANGED <<pageVars, remoteVars, call>>

\* Mutant: every miss drains again instead of falling through to the pool.
PopMissRetries(t) ==
  /\ pc[t] \in {"pop", "pop_again"}
  /\ on[TCacheBin(t, call[t].cls)] = {}
  /\ Goto(t, IF Plan(t).drain_remote_queue THEN "drain" ELSE "pool")
  /\ UNCHANGED <<on, pageVars, hdrVars, remoteVars, call>>

\* A miss: drain (again) and retry once if the plan drains, else use the pool.
PopMiss(t) ==
  /\ pc[t] \in {"pop", "pop_again"}
  /\ on[TCacheBin(t, call[t].cls)] = {}
  /\ IF pc[t] = "pop" /\ Plan(t).drain_remote_queue
     THEN Goto(t, "drain") /\ call' = [call EXCEPT ![t] = [@ EXCEPT !.ret = "pop_again"]]
     ELSE Goto(t, "pool") /\ UNCHANGED call
  /\ UNCHANGED <<on, pageVars, hdrVars, remoteVars>>

\* Mutant: the pools of all classes are searched.
SelectableAnyClass(c) == {p \in Pages : Mapped(p) /\ on[FreeList(p)] # {}}

\* select_pool_page_locked: a page with a free block, the fullest one when packing.
Selectable(c) == {p \in Pages : pageClass[p] = c /\ on[FreeList(p)] # {}}
SelectPage(c, packing) ==
  {p \in Selectable(c) : packing => \A q \in Selectable(c) : live[q] <= live[p]}

\* refill_tcache_locked: how many blocks it moves when `avail' are free.
RefillCount(t, avail) ==
  LET room  == Plan(t).tcache_limit[call[t].cls] - Cardinality(on[TCacheBin(t, call[t].cls)])
      batch == Plan(t).batch_size - 1
      Least(x, y) == IF x <= y THEN x ELSE y
  IN IF Plan(t).use_thread_cache /\ room > 0 /\ batch > 0
     THEN Least(avail, Least(room, batch))
     ELSE 0

\* Mutant: the refilled blocks are not added to live_count.
TakeFromUncounted(t, p, b, free, liveBefore) ==
  \E refill \in SUBSET (free \ {b}) :
    /\ Cardinality(refill) = RefillCount(t, Cardinality(free) - 1)
    /\ on' = [on EXCEPT ![FreeList(p)] = free \ ({b} \cup refill),
                        ![TCacheBin(t, call[t].cls)] = @ \cup refill,
                        ![InHand(t)] = @ \cup {b}]
    /\ live' = [live EXCEPT ![p] = liveBefore + 1]
    /\ Finalize(t, b)

\* Pop block b of page p, whose free list is `free', and refill the magazine.
TakeFrom(t, p, b, free, liveBefore) ==
  \E refill \in SUBSET (free \ {b}) :
    /\ Cardinality(refill) = RefillCount(t, Cardinality(free) - 1)
    /\ on' = [on EXCEPT ![FreeList(p)] = free \ ({b} \cup refill),
                        ![TCacheBin(t, call[t].cls)] = @ \cup refill,
                        ![InHand(t)] = @ \cup {b}]
    /\ live' = [live EXCEPT ![p] = liveBefore + 1 + Cardinality(refill)]
    /\ Finalize(t, b)

\* The pool's mutex is held: reuse a page of the pool ...
PoolAllocReuse(t) ==
  /\ pc[t] = "pool"
  /\ \E p \in SelectPage(call[t].cls, Plan(t).prefer_occupancy_packing) :
       \E b \in on[FreeList(p)] :
         /\ TakeFrom(t, p, b, on[FreeList(p)], live[p])
         /\ mode' = [mode EXCEPT ![b] = call[t].mode]
  /\ Goto(t, "insert")
  /\ UNCHANGED <<pageClass, remoteVars, call>>

\* ... or map a new one (create_pool_page: every block starts on its
\* free list, stamped with the requesting mode) ...
PoolAllocFresh(t) ==
  /\ pc[t] = "pool"
  /\ Selectable(call[t].cls) = {}
  /\ \E p \in Pages :
       /\ ~ Mapped(p)
       /\ pageClass' = [pageClass EXCEPT ![p] = call[t].cls]
       /\ \E b \in BlocksOf(p) : TakeFrom(t, p, b, BlocksOf(p), 0)
       /\ mode' = [b \in Blocks |-> IF PageOf(b) = p THEN call[t].mode ELSE mode[b]]
  /\ Goto(t, "insert")
  /\ UNCHANGED <<remoteVars, call>>

\* ... or fail, when mmap does: the caller gets nullptr, a realloc keeps its block.
PoolAllocFail(t) ==
  /\ pc[t] = "pool"
  /\ Selectable(call[t].cls) = {}
  /\ Goto(t, "idle")
  /\ call' = [call EXCEPT ![t] = NoCall(t)]
  /\ UNCHANGED <<on, pageVars, hdrVars, remoteVars>>

\* registry_insert; the block now belongs to the client.
RegistryInsert(t) ==
  /\ pc[t] = "insert"
  /\ \E b \in on[InHand(t)] : on' = Move({b}, InHand(t), Registry)
  /\ IF call[t].old = NoBlock
     THEN Goto(t, "idle") /\ call' = [call EXCEPT ![t] = NoCall(t)]
     ELSE Goto(t, "free_old") /\ UNCHANGED call
  /\ UNCHANGED <<pageVars, hdrVars, remoteVars>>

----------------------------------------------------------------------------
(* Release: MemoryServices::deallocate                                      *)

\* Mutant: registry_remove does not relink the successors of b.
RegistryRemoveDropsTail(t, b) ==
  /\ on' = [on EXCEPT ![Registry] = {}, ![InHand(t)] = @ \cup {b}]
  /\ Goto(t, "release")
  /\ UNCHANGED <<pageVars, hdrVars, remoteVars, call>>

RegistryRemove(t, b) ==
  /\ on' = Move({b}, Registry, InHand(t))
  /\ Goto(t, "release")
  /\ UNCHANGED <<pageVars, hdrVars, remoteVars, call>>

Free(t, b) ==
  /\ pc[t] = "idle"
  /\ b \in on[Registry] \ BeingReallocated
  /\ RegistryRemove(t, b)

FreeOld(t) ==
  /\ pc[t] = "free_old"
  /\ RegistryRemove(t, call[t].old)

Return(t) == Goto(t, "idle") /\ call' = [call EXCEPT ![t] = NoCall(t)]

\* The decision is the one of the block's allocation-time mode.
Decision(b) == Policy[mode[b]]
Remote(t, b) == owner[b] # t

\* enqueue_remote_free and drain_remote_frees_for probe from the owner's home bucket.
ProbeDistance(x, i) == (i - Home[x] + NumBuckets) % NumBuckets
\* Mutant: a bucket is used without looking at its owner.
ClaimableAny(x) == Buckets

Claimable(x) == {i \in Buckets : bucketOwner[i] \in {NoThread, x}}

FirstBucket(x) == {i \in Claimable(x) :
                     \A j \in Claimable(x) : ProbeDistance(x, i) <= ProbeDistance(x, j)}

UsesRemoteQueue(t, b) ==
  Decision(b).use_remote_queue /\ Remote(t, b) /\ Claimable(owner[b]) # {}
UsesTCache(t, b) ==
  Decision(b).action = "Cache" /\ ~ Remote(t, b) /\ ~ BinFull(t, ClassOf(b), mode[b])

\* The bucket's owner is set by the first enqueue and never changes, so the
\* buckets skipped by the probe stay skipped: the probe is one step.
EnqueueRemote(t) ==
  /\ pc[t] = "release"
  /\ \E b \in on[InHand(t)] :
       /\ UsesRemoteQueue(t, b)
       /\ \E i \in FirstBucket(owner[b]) :
            /\ bucketOwner' = [bucketOwner EXCEPT ![i] = owner[b]]
            /\ on' = Move({b}, InHand(t), RemoteQueue(i))
       /\ magic' = [magic EXCEPT ![b] = FALSE]
  /\ pending' = pending + 1
  /\ Return(t)
  /\ UNCHANGED <<pageVars, owner, mode>>

PushTCache(t) ==
  /\ pc[t] = "release"
  /\ \E b \in on[InHand(t)] :
       /\ ~ UsesRemoteQueue(t, b)
       /\ UsesTCache(t, b)
       /\ on' = Move({b}, InHand(t), TCacheBin(t, ClassOf(b)))
       /\ magic' = [magic EXCEPT ![b] = FALSE]
       /\ owner' = [owner EXCEPT ![b] = NoThread]
  /\ Return(t)
  /\ UNCHANGED <<pageVars, mode, remoteVars>>

\* Mutants: Purge unmaps the page without looking at live_count; Purge
\* leaves the page it emptied to a later sweep.
ReleasedUnchecked(c, p, liveNow, d) ==
  IF d.action \in {"Purge", "Unmap"} THEN {{p}} ELSE {{}}

ReleasedLater(c, p, liveNow, d) ==
  LET empty == {q \in Pages : pageClass[q] = c /\ liveNow[q] = 0}
      excess == Cardinality(empty) - d.empty_keep_limit
  IN IF d.action \in {"Purge", "Unmap"} THEN {{}}
     ELSE {R \in SUBSET empty : Cardinality(R) = IF excess > 0 THEN excess ELSE 0}

\* The pages the locked section of deallocate unmaps once b is back on the
\* free list of page p: the emptied page alone under Purge and Unmap
\* (release_target_empty_locked), else the empty pages beyond the keep limit
\* (release_empty_locked).
Released(c, p, liveNow, d) ==
  LET purge == d.action \in {"Purge", "Unmap"}
      empty == {q \in Pages : pageClass[q] = c /\ liveNow[q] = 0}
      keep  == IF purge THEN 0 ELSE d.empty_keep_limit
      excess == Cardinality(empty) - keep
  IN IF purge /\ p \in empty
     THEN {{p}}
     ELSE {R \in SUBSET empty : Cardinality(R) = IF excess > 0 THEN excess ELSE 0}

Unmap(R, f, v) == [b \in Blocks |-> IF PageOf(b) \in R THEN v ELSE f[b]]

\* The pool's mutex is held: free list, live_count, reclaim.
PoolFree(t) ==
  /\ pc[t] = "release"
  /\ \E b \in on[InHand(t)] :
       LET p == PageOf(b)
           liveNow == [live EXCEPT ![p] = IF @ > 0 THEN @ - 1 ELSE @]
       IN /\ ~ UsesRemoteQueue(t, b)
          /\ ~ UsesTCache(t, b)
          /\ \E R \in Released(ClassOf(b), p, liveNow, Decision(b)) :
               /\ on' = [l \in Lists |->
                           CASE l \in {FreeList(q) : q \in R} -> {}
                             [] l = FreeList(p) /\ p \notin R -> on[l] \cup {b}
                             [] l = InHand(t) -> on[l] \ {b}
                             [] OTHER -> on[l]]
               /\ pageClass' = [q \in Pages |-> IF q \in R THEN NoClass ELSE pageClass[q]]
               /\ live' = [q \in Pages |-> IF q \in R THEN 0 ELSE liveNow[q]]
               /\ magic' = Unmap(R, [magic EXCEPT ![b] = FALSE], FALSE)
               /\ owner' = Unmap(R, [owner EXCEPT ![b] = NoThread], NoThread)
               /\ mode' = Unmap(R, mode, NoMode)
  /\ Return(t)
  /\ UNCHANGED remoteVars

\* A thread ends: t_thread_cache has no destructor, its blocks are stranded.
\* A later thread may get the same pthread_self token and an empty magazine.
ThreadExit(t) ==
  /\ pc[t] = "idle"
  /\ \E c \in Classes : on[TCacheBin(t, c)] # {}
  /\ on' = [l \in Lists |->
              CASE l \in {TCacheBin(t, c) : c \in Classes} -> {}
                [] l = Abandoned -> on[l] \cup UNION {on[TCacheBin(t, c)] : c \in Classes}
                [] OTHER -> on[l]]
  /\ UNCHANGED <<pageVars, hdrVars, remoteVars, pc, call>>

----------------------------------------------------------------------------
\* A step of a call already running: the scheduler must take it eventually.
Step(t) ==
  \/ CheckPending(t) \/ DrainDetach(t) \/ DrainPush(t) \/ DrainLoad(t)
  \/ DrainSub(t) \/ DrainEnd(t) \/ PopTCache(t) \/ PopMiss(t)
  \/ PoolAllocReuse(t) \/ PoolAllocFresh(t) \/ PoolAllocFail(t)
  \/ RegistryInsert(t) \/ DirectResult(t) \/ FreeOld(t)
  \/ EnqueueRemote(t) \/ PushTCache(t) \/ PoolFree(t)

\* What the client program does: call in, or let a thread end.
Client(t) ==
  \/ \E c \in Classes, m \in Modes : Malloc(t, c, m)
  \/ \E b \in Blocks, c \in Classes : Realloc(t, b, c)
  \/ \E b \in Blocks : ReallocDirect(t, b)
  \/ \E b \in Blocks : Free(t, b)
  \/ ThreadExit(t)

Next == \E t \in Threads : Step(t) \/ Client(t)

Spec == Init /\ [][Next]_vars

FairSpec == Spec /\ \A t \in Threads : WF_vars(Step(t))

----------------------------------------------------------------------------
(* Properties                                                               *)

\* Every block of a mapped page is linked on exactly one list (pool, magazine,
\* remote queue, registry, ...), and no list holds a block of an unmapped page:
\* release_page_locked never unmaps a page some list still points into.
OneListPerBlock ==
  /\ \A k, l \in Lists : k # l => on[k] \cap on[l] = {}
  /\ \A b \in Blocks : (\E l \in Lists : b \in on[l]) <=> Mapped(PageOf(b))

\* AdaptivePage::live_count is the number of the page's blocks that are not on
\* its own free list: those in magazines and queues count as live, so that a
\* count of zero is the reclaimer's licence to unmap.
LiveCountExact ==
  \A p \in Pages :
    /\ on[FreeList(p)] \subseteq BlocksOf(p)
    /\ Mapped(p) => live[p] = Capacity - Cardinality(on[FreeList(p)])

AwaitingDrain ==
  {b \in Blocks : \E l \in RemoteQueues \cup DetachedLists : b \in on[l]}
AwaitingSub == {t \in Threads : pc[t] \in {"load", "sub"}}

\* g_remote_pending counts exactly the blocks queued or detached plus the
\* decrements still owed: the load / fetch_sub pair of drain_remote_frees_for
\* never takes it below zero although it is not one atomic step.
PendingExact ==
  pending = Cardinality(AwaitingDrain) + Cardinality(AwaitingSub)

\* A header carries the magic exactly while its block belongs to the client or
\* to the call that is handing it over: a second free of a block that sits in
\* any list finds magic 0 and is counted, not executed (header_from_user).
MagicMeansLive ==
  \A b \in Blocks :
    magic[b] <=> \E l \in {Registry} \cup Hands : b \in on[l]

\* A block waits only in the queue of the thread that allocated it, and a drain
\* splices its leftover back into a queue that still belongs to it; no thread has
\* a second queue, which a drain, serving one bucket per call, would not reach.
QueuedForOwner ==
  /\ \A i, j \in Buckets :
       bucketOwner[i] = bucketOwner[j] /\ bucketOwner[i] # NoThread => i = j
  /\ \A i \in Buckets : \A b \in on[RemoteQueue(i)] : owner[b] = bucketOwner[i]
  /\ \A t \in Threads : \A b \in on[Detached(t)] :
       owner[b] = t /\ bucketOwner[call[t].bucket] = t

\* Magazines hold blocks of their own class, and what a call hands over is a
\* block of the class it asked for, whichever thread and mode recycled it.
RightClass ==
  /\ \A t \in Threads, c \in Classes : \A b \in on[TCacheBin(t, c)] : ClassOf(b) = c
  /\ \A t \in Threads : pc[t] = "insert" =>
       \A b \in on[InHand(t)] : ClassOf(b) = call[t].cls /\ owner[b] = t

\* A magazine never outgrows the largest limit any mode gives it, whatever
\* sequence of refills, frees, drains and soft switches filled it.
MagazineBounded ==
  \A t \in Threads, c \in Classes :
    \E m \in Modes : Cardinality(on[TCacheBin(t, c)]) <= Policy[m].tcache_limit[c]

\* The empty pages a pool keeps never exceed the largest empty_keep_limit of a
\* mode, although Purge and Unmap reclaim only the page they emptied.
EmptyPagesBounded ==
  \A c \in Classes :
    \E m \in Modes :
      Cardinality({p \in Pages : pageClass[p] = c /\ live[p] = 0})
        <= Policy[m].empty_keep_limit

\* The source of a running realloc stays with the client until the copy has
\* been made, and for good when the new allocation fails.
ReallocSourceLive ==
  \A t \in Threads :
    pc[t] \notin {"idle", "release"} /\ call[t].old # NoBlock
      => /\ call[t].old \in on[Registry]
         /\ \A u \in Threads \ {t} : pc[u] # "idle" => call[u].old # call[t].old

\* Every allocator call returns: the drain loop, which runs against concurrent
\* enqueues, terminates as long as the thread keeps running.
CallsReturn == \A t \in Threads : pc[t] # "idle" ~> pc[t] = "idle"

Promise == INSTANCE HeapPromise
  WITH allocated <- on[Registry], mapped <- {p \in Pages : Mapped(p)}

\* The layer keeps its promise to the program: exclusive blocks in mapped memory.
KeepsPromise == Promise!Spec

=============================================================================
