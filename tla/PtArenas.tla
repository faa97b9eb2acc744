------------------------------ MODULE PtArenas ------------------------------
(***************************************************************************)
(* The arenas of the classic ptmalloc strategy (classic/ptmalloc): which   *)
(* arena a thread allocates from, the mutexes it takes on the way, and how *)
(* a freed block finds the arena it is given back to.                      *)
(*                                                                         *)
(* A block stands for the memory it lies in: 0 is the main arena's memory, *)
(* h > 0 the heap segment h, Mapped a mapping of its own.  What the bins   *)
(* and chunk headers hold is left open: wherever the code branches on them *)
(* every branch may be taken, so nothing here rests on their contents.     *)
(***************************************************************************)
EXTENDS Integers, Sequences, FiniteSets

CONSTANTS
  Threads,
  MAX_ARENAS,
  MaxHeaps,    \* bound: heap segments the system maps
  MaxCalls,    \* bound: calls of all threads
  None

ASSUME Bounds ==
  /\ MAX_ARENAS \in Nat \ {0} /\ MaxHeaps \in Nat /\ MaxCalls \in Nat
  /\ IsFiniteSet(Threads) /\ Threads # {} /\ None \notin Threads /\ None \notin Int

Main == 0
Mapped == -1
Memory == Mapped .. MaxHeaps

VARIABLES
  lock,          \* by arena: the thread that holds its mutex
  thread_arena,  \* thread-local
  tcache,        \* thread-local: the number of cached blocks, by memory, or None
  narenas,       \* arenas are 0 .. narenas - 1
  ar_ptr,        \* by heap segment: its arena
  registry,      \* heap segments on the list HeapRegistry::head_ starts
  lost,          \* history: the segments that were once dropped from that list
  bins,          \* by arena: where the chunks freed into it lie
  live,          \* blocks the program holds: their number, by memory
  call,          \* by thread: the call it is in
  early,         \* history: the thread that took the main mutex before get_arena
  calls

list == <<registry, lost>>
heaps == <<narenas, ar_ptr, list>>
vars == <<lock, thread_arena, tcache, heaps, bins, live, call, early, calls>>

Arenas == 0 .. narenas - 1
AllArenas == 0 .. MAX_ARENAS + Cardinality(Threads)

\* A call: its place in the code, the arena it works on, whether the request
\* is small, the block passed in, where get_arena returns to, the segment it
\* registers and the list that segment is linked in front of (h->prev).
Idle == [pc |-> "idle", av |-> None, fast |-> FALSE, old |-> None,
         ret |-> None, seg |-> None, prev |-> {}]
pc(t) == call[t].pc
av(t) == call[t].av

\* After pt_malloc_init: the main arena, with memory of its own.
Init ==
  /\ lock = [a \in AllArenas |-> None]
  /\ thread_arena = [t \in Threads |-> None]
  /\ tcache = [t \in Threads |-> None]
  /\ narenas = 1 /\ ar_ptr = <<>> /\ registry = {} /\ lost = {}
  /\ bins = [a \in AllArenas |-> {}]
  /\ live = [m \in Memory |-> 0]
  /\ call = [t \in Threads |-> Idle] /\ early = None /\ calls = 0

----------------------------------------------------------------------------
(* Steps every operation is made of.                                        *)

Goto(t, c) == call' = [call EXCEPT ![t] = c]
At(c, p, a) == [c EXCEPT !.pc = p, !.av = a]
Lock(t, a) == lock[a] = None /\ lock' = [lock EXCEPT ![a] = t]
Unlock(a) == lock' = [lock EXCEPT ![a] = None]

\* Mutant: every block is taken for one of the main arena.
AlwaysMain(m) == Main

find_arena(m) == IF m \in registry THEN ar_ptr[m] ELSE Main

\* pt_free on the block of call c.  A mapping is unmapped; a header that looks
\* wrong, or a block that looks freed already, is ignored; otherwise it is
\* cached, or goes to the arena of its segment.
FreeEntry(t, c) ==
  \/ Goto(t, Idle) /\ UNCHANGED tcache
  \/ /\ c.old # Mapped /\ tcache[t] # None
     /\ tcache' = [tcache EXCEPT ![t][c.old] = @ + 1] /\ Goto(t, Idle)
  \/ c.old # Mapped /\ Goto(t, At(c, "free_lock", find_arena(c.old))) /\ UNCHANGED tcache

\* The request of call c ends with memory m.  Inside realloc the block passed
\* in is freed next, or stays with the program when there is no new one.
Result(t, c, m) ==
  LET got == IF m = None THEN c.old ELSE m
  IN /\ live' = IF got = None THEN live ELSE [live EXCEPT ![got] = @ + 1]
     /\ Goto(t, IF c.old # None /\ m # None THEN At(c, "free", None) ELSE Idle)

\* The memory arena a may hand out: its own, and that of chunks freed into it.
Holds(a) == {h \in DOMAIN ar_ptr : ar_ptr[h] = a} \cup bins[a]
            \cup (IF a = Main THEN {0} ELSE {})

----------------------------------------------------------------------------
(* pt_malloc.                                                               *)

\* pt_malloc up to its first mutex.  tcache_init is taken to succeed; a cached
\* block serves the request without an arena.
MallocEntry(t, c) ==
  \/ /\ tcache[t] # None
     /\ \E m \in Memory :
          /\ tcache[t][m] > 0
          /\ tcache' = [tcache EXCEPT ![t][m] = @ - 1]
          /\ Result(t, c, m)
  \/ /\ tcache' = [tcache EXCEPT ![t] = IF @ = None THEN [m \in Memory |-> 0] ELSE @]
     /\ Goto(t, At(c, IF ~c.fast THEN "choose"
                      ELSE IF thread_arena[t] = None THEN "first" ELSE "fast", None))
     /\ UNCHANGED live

\* A thread without an arena takes the main one's mutex before get_arena.
FirstLock(t) ==
  /\ pc(t) = "first" /\ Lock(t, Main) /\ Goto(t, At(call[t], "fast", None))
  /\ early' = t
  /\ UNCHANGED <<thread_arena, tcache, heaps, bins, live, calls>>

\* get_arena returns arena a, locked.  The second of its callers makes a the
\* thread's arena; get_arena itself does so with a new one.
Return(t, a, new) ==
  /\ Goto(t, At(call[t], call[t].ret, a))
  /\ thread_arena' = IF new \/ call[t].ret = "carve" THEN [thread_arena EXCEPT ![t] = a]
                     ELSE thread_arena

\* get_arena: the thread's own arena, if it is not the main one.
get_arena(t, ret) ==
  LET a == thread_arena[t] IN
  IF a \notin {None, Main} /\ lock[a] = None
  THEN Lock(t, a) /\ Goto(t, At(call[t], ret, a))
  ELSE Goto(t, [At(call[t], "main", None) EXCEPT !.ret = ret]) /\ UNCHANGED lock

GetFast(t) ==
  /\ pc(t) = "fast" /\ get_arena(t, "fastbin")
  /\ UNCHANGED <<thread_arena, tcache, heaps, bins, live, early, calls>>

TryMain(t) ==
  /\ pc(t) = "main"
  /\ IF lock[Main] = None THEN Lock(t, Main) /\ Return(t, Main, FALSE)
     ELSE Goto(t, At(call[t], "new", None)) /\ UNCHANGED <<lock, thread_arena>>
  /\ UNCHANGED <<tcache, heaps, bins, live, early, calls>>

\* Mutant: the number of arenas is not tested.
NewArenaUntested(t) ==
  /\ pc(t) = "new"
  /\ Goto(t, At(call[t], "link", None))
  /\ UNCHANGED <<lock, thread_arena, tcache, heaps, bins, live, early, calls>>

\* get_free_arena never has one; new_arena reads the count, maps the arena...
new_arena(t) ==
  /\ pc(t) = "new"
  /\ \/ narenas < MAX_ARENAS /\ Goto(t, At(call[t], "link", None))
     \/ Goto(t, At(call[t], "wait", None))
  /\ UNCHANGED <<lock, thread_arena, tcache, heaps, bins, live, early, calls>>

\* A segment mapped for arena a, and the first half of register_heap: h->prev = head_.
new_heap(t, a, p) ==
  /\ Len(ar_ptr) < MaxHeaps
  /\ ar_ptr' = Append(ar_ptr, a)
  /\ Goto(t, [At(call[t], p, a) EXCEPT !.seg = Len(ar_ptr) + 1, !.prev = registry])

\* ... links it, under the list's mutex, and maps its first heap.  Nobody else
\* can be at the new arena yet: its mutex is taken in the same step.
LinkArena(t) ==
  /\ pc(t) = "link"
  /\ narenas' = narenas + 1
  /\ \/ new_heap(t, narenas, "register") /\ UNCHANGED <<lock, thread_arena>>
     \/ Lock(t, narenas) /\ Return(t, narenas, TRUE) /\ UNCHANGED ar_ptr
  /\ UNCHANGED <<tcache, list, bins, live, early, calls>>

\* The second half of register_heap: head_ = h.
SetHead(t) ==
  /\ registry' = call[t].prev \cup {call[t].seg}
  /\ lost' = lost \cup (registry \ registry')

register_heap(t) ==
  /\ pc(t) = "register" /\ SetHead(t)
  /\ Lock(t, av(t)) /\ Return(t, av(t), TRUE)
  /\ UNCHANGED <<tcache, narenas, ar_ptr, bins, live, early, calls>>

WaitMain(t) ==
  /\ pc(t) = "wait" /\ Lock(t, Main) /\ Return(t, Main, FALSE)
  /\ UNCHANGED <<tcache, heaps, bins, live, early, calls>>

\* Mutant: the chunk of a fastbin is returned without av->unlock().
FastbinHeld(t) ==
  /\ pc(t) = "fastbin"
  /\ \/ \E m \in bins[av(t)] : Result(t, call[t], m) /\ UNCHANGED lock
     \/ Goto(t, At(call[t], "choose", None)) /\ Unlock(av(t)) /\ UNCHANGED live
  /\ UNCHANGED <<thread_arena, tcache, heaps, bins, early, calls>>

\* A fastbin serves the request, or the arena is let go and chosen anew.
Fastbin(t) ==
  /\ pc(t) = "fastbin" /\ Unlock(av(t))
  /\ \/ \E m \in bins[av(t)] : Result(t, call[t], m)
     \/ Goto(t, At(call[t], "choose", None)) /\ UNCHANGED live
  /\ UNCHANGED <<thread_arena, tcache, heaps, bins, early, calls>>

Choose(t) ==
  /\ pc(t) = "choose"
  /\ LET a == thread_arena[t] IN
     IF a # None /\ lock[a] = None THEN Lock(t, a) /\ Goto(t, At(call[t], "carve", a))
     ELSE Goto(t, At(call[t], "slow", None)) /\ UNCHANGED lock
  /\ UNCHANGED <<thread_arena, tcache, heaps, bins, live, early, calls>>

GetSlow(t) ==
  /\ pc(t) = "slow" /\ get_arena(t, "carve")
  /\ UNCHANGED <<thread_arena, tcache, heaps, bins, live, early, calls>>

\* Bins, top chunk or a mapping serve the request, or nothing does; a new
\* heap segment of an arena other than the main one is registered first.
Carve(t) ==
  /\ pc(t) = "carve"
  /\ \/ /\ \E m \in Holds(av(t)) \cup {None} \cup (IF call[t].fast THEN {} ELSE {Mapped}) :
             Result(t, call[t], m)
        /\ Unlock(av(t)) /\ UNCHANGED ar_ptr
     \/ av(t) # Main /\ new_heap(t, av(t), "extend") /\ UNCHANGED <<lock, live>>
  /\ UNCHANGED <<thread_arena, tcache, narenas, list, bins, early, calls>>

Extend(t) ==
  /\ pc(t) = "extend" /\ SetHead(t)
  /\ Result(t, call[t], call[t].seg)
  /\ Unlock(av(t))
  /\ UNCHANGED <<thread_arena, tcache, narenas, ar_ptr, bins, early, calls>>

----------------------------------------------------------------------------
(* pt_free and pt_realloc.                                                  *)

\* pt_realloc frees the block it replaced.
FreeOld(t) ==
  /\ pc(t) = "free" /\ FreeEntry(t, call[t])
  /\ UNCHANGED <<lock, thread_arena, heaps, bins, live, early, calls>>

\* The mutex of the block's arena, in pt_free and in pt_realloc.
HomeLock(t) ==
  /\ \/ pc(t) = "free_lock" /\ Goto(t, At(call[t], "freeing", av(t)))
     \/ pc(t) = "resize_lock" /\ Goto(t, At(call[t], "resizing", av(t)))
  /\ Lock(t, av(t))
  /\ UNCHANGED <<thread_arena, tcache, heaps, bins, live, early, calls>>

Freed(t) ==
  /\ pc(t) = "freeing"
  /\ bins' = [bins EXCEPT ![av(t)] = @ \cup {call[t].old}]
  /\ Unlock(av(t)) /\ Goto(t, Idle)
  /\ UNCHANGED <<thread_arena, tcache, heaps, live, early, calls>>

\* Mutant: a block that cannot grow in place is tried again.
ResizedAgain(t) ==
  /\ pc(t) = "resizing" /\ Unlock(av(t))
  /\ \/ Result(t, call[t], None)
     \/ Goto(t, At(call[t], "resize_lock", av(t))) /\ UNCHANGED live
  /\ UNCHANGED <<thread_arena, tcache, heaps, bins, early, calls>>

\* The block grows in place, or a new one is asked for.
Resized(t) ==
  /\ pc(t) = "resizing" /\ Unlock(av(t))
  /\ \/ Result(t, call[t], None) /\ UNCHANGED tcache
     \/ MallocEntry(t, call[t])
  /\ UNCHANGED <<thread_arena, heaps, bins, early, calls>>

----------------------------------------------------------------------------
(* The program calls.  realloc(nullptr, n) is malloc, realloc(p, 0) is free, *)
(* and a block that is large enough comes back as it is.                    *)

Called(t) == pc(t) = "idle" /\ calls < MaxCalls /\ calls' = calls + 1
             /\ UNCHANGED early
Taken(m) == live[m] > 0 /\ live' = [live EXCEPT ![m] = @ - 1]

pt_malloc(t) ==
  /\ Called(t)
  /\ \E fast \in BOOLEAN : MallocEntry(t, [Idle EXCEPT !.fast = fast])
  /\ UNCHANGED <<lock, thread_arena, heaps, bins>>

pt_free(t) ==
  /\ Called(t)
  /\ \E m \in Memory : Taken(m) /\ FreeEntry(t, [Idle EXCEPT !.old = m])
  /\ UNCHANGED <<lock, thread_arena, heaps, bins>>

pt_realloc(t) ==
  /\ Called(t)
  /\ \E m \in Memory, fast \in BOOLEAN :
       LET c == [Idle EXCEPT !.fast = fast, !.old = m] IN
       /\ Taken(m)
       /\ IF m = Mapped THEN Goto(t, At(c, "malloc", None))
          ELSE Goto(t, At(c, "resize_lock", find_arena(m)))
  /\ UNCHANGED <<lock, thread_arena, tcache, heaps, bins>>

\* A block with a mapping of its own is always replaced.
Replace(t) ==
  /\ pc(t) = "malloc" /\ MallocEntry(t, call[t])
  /\ UNCHANGED <<lock, thread_arena, heaps, bins, early, calls>>

Step(t) ==
  \/ FirstLock(t) \/ GetFast(t) \/ TryMain(t) \/ new_arena(t)
  \/ LinkArena(t) \/ register_heap(t) \/ WaitMain(t)
  \/ Fastbin(t) \/ Choose(t) \/ GetSlow(t) \/ Carve(t) \/ Extend(t)
  \/ FreeOld(t) \/ Replace(t) \/ HomeLock(t) \/ Freed(t) \/ Resized(t)

Next == \E t \in Threads : Step(t) \/ pt_malloc(t) \/ pt_free(t) \/ pt_realloc(t)

Spec == Init /\ [][Next]_vars
\* A thread inside a call keeps running; a mutex that stays free is obtained.
FairSpec == Spec /\ \A t \in Threads : WF_vars(Step(t))

----------------------------------------------------------------------------
(* Properties.                                                              *)

Working(t) == pc(t) \in {"fastbin", "carve", "extend", "freeing", "resizing"}

\* The memory whose chunk headers a working thread may read or write.
Touches(t) == IF ~Working(t) THEN {}
              ELSE IF pc(t) \in {"freeing", "resizing"} THEN {call[t].old}
              ELSE Holds(av(t))

\* A thread is on an arena's bins only under that arena's mutex, and holds a
\* mutex only while it is: pt_malloc, pt_free and pt_realloc release on every
\* path what they, or get_arena, took.  The exception is the main mutex taken
\* for a thread's first request when that is small: it is never released.
LocksMatchWork ==
  /\ \A t \in Threads : Working(t) => lock[av(t)] = t
  /\ \A a \in Arenas : lock[a] # None => \/ Working(lock[a]) /\ av(lock[a]) = a
                                         \/ a = Main /\ lock[a] = early
  /\ early # None => lock[Main] = early

\* Two threads are on the chunks of one heap segment, or of the main arena's
\* memory, at the same time only if register_heap, which takes no mutex, has at
\* some time dropped that segment from the list.
OneThreadPerHeap ==
  \A t, u \in Threads : t # u => Touches(t) \cap Touches(u) \subseteq lost

\* new_arena tests the count before it links the arena: each thread but one
\* can pass the test late, and no more.
ArenasBounded == narenas <= MAX_ARENAS + Cardinality(Threads) - 1

\* Where a thread asks for the main arena's mutex and waits: before get_arena, at
\* get_arena's end, and to free or resize a block of the main arena's.
WaitsForMain(t) ==
  \/ pc(t) \in {"first", "wait"}
  \/ pc(t) \in {"free_lock", "resize_lock"} /\ av(t) = Main

\* Every call of malloc, free and realloc returns, but for one that waits for the main
\* mutex when a first small request has taken it for good: such a call is stuck.  Any
\* other call returns even then, and threads never wait for each other in a circle.
PtCallsReturn ==
  \A t \in Threads : pc(t) # "idle" ~> pc(t) = "idle" \/ (early # None /\ WaitsForMain(t))

=============================================================================
