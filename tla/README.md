# TLA+ models of my_malloc

This directory specifies in TLA+ the adaptive allocator of `my_malloc`, the preload
hooks in front of it, the arenas of the ptmalloc strategy, and the benchmark runner
with its telemetry server. The models are checked with TLC on small instances, and the
main properties of the adaptive allocator and of ptmalloc's arenas are proved with TLAPS
for every value of the constants. Paths below are relative to the repository root.
`PROJECT.json` maps every definition to the source lines it stands for.

## 1. The system

`my_malloc` is a set of teaching allocators plus one independent experimental
backend, the adaptive allocator. A program reaches either through the strategy API
or through the `LD_PRELOAD` hooks.

| Part | Source | Model |
|---|---|---|
| Adaptive facade: malloc, free, realloc, memalign | `src/adaptive_allocator.cpp` | `PooledStorage`, `DirectMapping`, `RequestSizing`, `MemalignRounding` |
| Shared layer: pools, magazines, remote queues, registry, reclaim | `src/adaptive_services.cpp` | `PooledStorage` (abstractly `HeapPromise`) |
| Shared layer: ownership table | `src/adaptive_services.cpp` | `OwnershipTable` |
| Shared layer: direct mappings, extent cache, quarantine | `src/adaptive_services.cpp` | `DirectMapping` |
| Shared layer: size classes and block layout | `src/adaptive_services.cpp` | `RequestSizing` |
| Shared layer: canaries, redzones, poison | `src/adaptive_services.cpp` | no: contents of memory |
| Mode policies | `src/adaptive_modes.cpp` | plans in `RequestSizing`; limits and release decisions as constants of `PooledStorage`, cases of `DirectMapping` |
| Runtime: active mode, window counter, cooldown | `src/adaptive_runtime.cpp` | `ModeSelector` |
| Selector: rules, hysteresis, events | `src/adaptive_selector.cpp` | `ModeSelector` |
| Cost-model selector | `src/adaptive_model_selector.cpp` | any pick and confidence, in `ModeSelector` |
| Telemetry: counters, windows, reset, gauges | `src/adaptive_telemetry.cpp` | `TelemetryWindow`; gauges in `DirectMapping` |
| `LD_PRELOAD` hooks | `src/hooks.cpp` | `PreloadHooks` |
| Teaching allocator ptmalloc | `classic/ptmalloc` | arenas, mutexes and heap registry in `PtArenas`; bins and chunks no |
| Teaching allocators mimalloc, tcmalloc, jemalloc | `classic/` | no: see section 5 |
| Telemetry server, strategy loader | `tools/telemetry_server.cpp`, `tools/strategy_loader.h` | `BenchSession` |
| Benchmark runner and its workloads | `tools/bench_runner.cpp` | `BenchWorkloads`, `BenchSession` |
| Strategy tables, validator, training scripts, viewer, plugin | `src/strategy.cpp`, `tools/`, `plugins/` | no: tables, I/O, numbers, presentation |

A request enters the facade, which asks the active mode for a plan. The shared layer
serves the plan from a pool (small and medium objects) or from a mapping of its own
(large ones), and stamps the mode into the block's header. `free` and `realloc`
follow the stamped mode, whatever the active one is by then. Every call bumps
telemetry counters. At a window boundary the calling thread extracts the window's
features and may switch the active mode.

Under `LD_PRELOAD` the hooks stand in front of the facade and decide which of three
allocators serves or takes back a pointer. The benchmark runner loads a strategy,
runs workloads against it on several threads, and may serve live figures over HTTP
meanwhile.

## 2. Modules

### PooledStorage, HeapPromise

`on[l]` is the set of headers linked on the intrusive list `l`. The lists are a
page's free list, a thread's magazine for a class, a remote-free queue, the registry
of live objects, and the lists held in local variables (`Detached`, `InHand`).
`pageClass`, `live`, `magic`, `owner` and `mode` are the fields of pages and headers.
`pc` and `call` are the position and locals of each thread's call.

| Action | Code |
|---|---|
| `Malloc`, `Realloc`, `Free`, `FreeOld` | entry of the facade's calls |
| `ReallocDirect`, `DirectResult` | growth of a pooled block into a direct mapping |
| `CheckPending`, `DrainDetach`, `DrainPush`, `DrainLoad`, `DrainSub`, `DrainEnd` | `drain_remote_frees_for` |
| `PopTCache`, `PopMiss` | `pop_tcache` and its second try after a drain |
| `PoolAllocReuse`, `PoolAllocFresh`, `PoolAllocFail` | allocation and refill under the pool mutex |
| `RegistryInsert` | publishing the object |
| `EnqueueRemote`, `PushTCache`, `PoolFree` | the three ways a release can go |
| `ThreadExit` | the end of a thread, whose magazine has no destructor |

A section under one mutex is one action. What the code does between two mutexes is
split, including the separate load and subtraction of the pending counter. The order
within a list, and of the pages of a pool, is abstracted: any member may be the head.
The probe for a thread's remote bucket is one step, because a bucket's owner is
written once. Relaxed atomics are treated as sequentially consistent throughout.

`HeapPromise` is what a program may rely on. A block is handed out only while nobody
owns it, and only from mapped memory. It comes back only by an explicit free. Memory
is unmapped only when no block of it is owned. `PooledStorage` implements it with
`allocated` read off the registry and `mapped` off the pages (`KeepsPromise`).

### OwnershipTable

The lock-free open-addressing set of mapped 4 KiB pages. `table` holds the slots.
Each load, compare-and-swap or store of a slot is one step of `register_region`,
`unregister_region` or `page_maybe_owned`; mmap and munmap are steps as well. A
lookup of an object the program owns pins its region, because the program does not
free the object during the call.

### DirectMapping

One region per direct mapping, with its header, its place in the registry, the
extent cache or quarantine, and the per-mode mapped and live byte gauges (the totals
are their sums). mmap, registration, publication, each gauge update, the release
decision, unregistration and munmap are separate steps. The kernel may hand an
address out again as soon as it is unmapped. The ownership table appears as a set,
which is what `OwnershipTable` establishes for pages that found a slot.

`reallocate` may serve the larger block from the other storage: a block of a pool that
outgrows it gets a mapping, and a mapping made for its alignment may be replaced by a
block of a pool, since the new block is asked for with alignment 16. Each module has its
own half of such a growth (`ReallocDirect` and `DirectResult` there, `PoolResult` here)
and leaves open whether the other half succeeds; the block that is new to a storage comes
from an ordinary `Malloc` of that storage.

`adaptive_stats_reset` clears the gauges mode by mode in the order of the enumeration,
the live bytes of a mode before its mapped bytes (`StatsReset`, `ClearLive`,
`ClearMapped`). The counters of invalid and double frees are left out.

### RequestSizing, MemalignRounding

The arithmetic between a request and its block: the storage each of the eight modes
plans, size classes, strides, page capacity, the layout of a direct mapping and the
rounding of alignments. All of it is `size_t` arithmetic modulo `Word`. mmap succeeds
when the mapping fits between the chosen address and the end of the address space.
`sizeof(AdaptivePage)` is 64. The guard on capacities above `UINT32_MAX` cannot fire
and is left out. `MemalignRounding` has the shift-and-or form of the alignment
rounding and compares it with the least power of two. The shift by 32 is left out,
since the word used for it is narrower.

### ModeSelector

Environment, active and previous mode, mode states, window counter, cooldown and
event sequence number. Nothing in this code is locked, so every atomic access is a
step: `Tick` counts a call, `Observe` runs at a window boundary and extracts
features, `Check` applies cooldown, rule or model, and hysteresis, `LoadOld`
to `MarkActive` are `adaptive_activate_mode`, then `SetCooldown` and `Record`.
`SetMode` is `adaptive_set_mode`. A feature is abstracted to the thresholds it is
compared with. The cost model may pick any mode of `ModelPicks`, with or without
enough confidence. The 64 slots of the event ring and the switch counter are left
out.

### TelemetryWindow

Event counters that any thread bumps, `adaptive_extract_window_features`, which
copies them one by one and then locks the baseline, and `adaptive_stats_reset`.
`happened`, `reported` and `cleared` are history variables. The floating-point ratios computed
from a window are not modelled.

### PreloadHooks

Which allocator a pointer belongs to: the bootstrap buffer, libc or the adaptive
allocator. The first `malloc` or `calloc` runs `hooks_init` in the middle of its own
call. Between the four `dlsym` look-ups any hook may be called again, by `dlsym`
itself. `FirstCall`, `hooks_init` and `FirstCallEnds` are the parts of that call;
`Malloc` (also `calloc`), `memalign`, `Free` and `Realloc` are the hooks once the flag
is set. `table` is the array of libc pointers. `found` says whether `dlsym` finds
libc. `misrouted` and `dropped` are history variables. Start-up is single-threaded,
and `dlsym` asks for more than 0 bytes: a 0-byte object at the end of an exactly full
buffer lies outside it, and `free` would not recognise it.

### PtArenas

How the ptmalloc strategy chooses, creates and locks arenas, and how a freed block
finds its arena. A block stands for the memory it lies in: the main arena's, a heap
segment's, or a mapping of its own. `pt_malloc`, `pt_free` and `pt_realloc` begin a
call; `Choose`, `get_arena`, `TryMain`, `new_arena`, `LinkArena`, `register_heap` and
`WaitMain` are the ways to an arena; `Carve`, `Extend`, `Fastbin`, `Freed` and
`Resized` work on one. `register_heap` takes no mutex, so its read of the list head and
its write (`SetHead`) are separate steps; `seg` and `prev` of a call are the segment
being registered and the list it read. `lost` is a history variable: the segments that
a later write of the head dropped from the list. Whatever the code reads from bins, chunk headers or
the thread cache is left open, and every branch on it may be taken. The thread cache
of a thread is assumed to initialise. `pt_calloc` and `pt_memalign` are not in the
strategy's table.

### BenchWorkloads, BenchSession

`BenchWorkloads` has the workloads as clients of an external allocator that hands out
any free block, may move a block on `reallocate`, and may refuse. A workload is a
program: a sequence of loops, each saying what a pass does, whether it counts, checks
payloads, skips null pointers or publishes. The actions (`PairAlloc`, `Fill`, `Sweep`,
`Resize`, `Drift`, ...) are one pass each. Worker threads handle their share of the
slots in any interleaving (`WorkerAlloc`, `WorkerFree`), and the main thread counts
what they did when it has joined them (`Join`). A payload is the seed it was
generated from.

`BenchSession` runs main from its first to its last line: `load_strategy`, the
comparison of fixed modes, `start`, the benchmarks, `unload_strategy`, and `stop`,
which is also the server's destructor. Beside it run the server's thread and a client
that may stop reading. `snap` is the published snapshot, written under a mutex and so
in one step. Time is counted in ticks of a realtime phase. A phase may be over before its
first tick, when the thread is held up before it reads the clock.

## 3. What is model-checked

Run any of these with `tlc -config <cfg> <MC module>`. Deadlock is checked except in
two runs. In `SelectorSettles` a program with a single thread that never calls
`adaptive_set_mode` may stop calling, as the model does at its bound on counted calls.
In `PtArenas` the bound on calls ends the program, and threads can really be stuck
behind the main mutex (see below).

### Runs that pass

| Run (`.cfg`) | What it shows |
|---|---|
| `PooledQueues` | Two threads, one page of three blocks, balanced, cross-thread and compact modes. Each block is on exactly one list; the pending counter equals what is queued or being drained (`PendingExact`); the live count of a page matches the lists; the magic is set exactly on live objects; a thread has one bucket and its queued blocks lie there; a magazine keeps to the largest limit. |
| `PooledClasses` | Two threads, two classes, two pages that are recycled between the classes. Cached blocks are in the bin of their class; a reallocated block stays owned until its copy is done; no more empty pages stay mapped than the most generous mode keeps, although Compact reclaims only the page it emptied; the pool implements `HeapPromise`; every call returns, in spite of other threads refilling the queue being drained. |
| `Ownership` | Three threads, three colliding pages, a two-page region, four slots, two probes. The table holds mapped pages once each, and a lookup of an owned page misses only if registration found no slot. |
| `SelectorRaces` | Two threads at overlapping boundaries and in `adaptive_set_mode`. At rest the active mode is marked Active, and each boundary records one event. |
| `SelectorSettles` | One thread, all rules, windows with and without the expected gain. Switches are a cooldown apart, and a workload that lasts for a cooldown has led to the mode the rules name if it shows the expected gain, and to no switch otherwise. |
| `WindowOnce` | One thread that extracts and resets in turn, counters moving while they are copied. Until the first reset every event is in exactly one window or still to come; no event is ever reported twice. |
| `DirectLifecycle` | Two threads, three regions, the streaming and the hardened mode. An owned pointer stays mapped, registered and intact; quarantined regions are kept, however often they are freed again. Until a reset the gauges equal what is mapped and live between calls, and mapped bytes cover live bytes within calls. |
| `SizingLayout` | All modes, boundary sizes, alignments and addresses. Blocks fit, do not overlap, are aligned and are large enough for every size of their class; a refusal means a lack of space, or a span too short for the largest class; the shift-and-or rounding of an alignment is the least power of two, or 0 when there is none. |
| `PreloadHooks` | Any order of hook calls, by the program and by `dlsym` inside the first call. No allocator is given a pointer of another one, and the table holds exactly the libc pointers still in use. |
| `PtArenas` | Two threads, two arenas allowed. An arena is worked on only under its mutex, and a mutex is held only for that (`LocksMatchWork`); two threads are on one heap segment only if the unlocked registry lost it; arenas stay bounded although the count is tested without its mutex; every call returns but one that waits for the main mutex after a first small request kept it, see below. |
| `BenchSession` | Thirty-three command lines: workloads, all phase kinds in benchmark and realtime mode, failing starts, the server. No block is freed twice or by a thread that does not own it, except on purpose; nothing is left behind on any way out of main; payload errors are reported only where the code misnumbers its records; published figures equal the heap and advance; main returns. |

### Bounds

* `PtArenas` has two threads and four calls between them, enough for both threads to
  pass the test of the arena count and to extend heaps at once. Two threads cannot
  lose a segment and then meet on it within four calls; with three threads, three
  arenas and five calls TLC finds that behaviour after 24 steps, which is why
  `OneThreadPerHeap` has its exception.
* `BenchSession` has four blocks for three slots, so that a block can move while all
  slots are full, two sizes, two workers, whose strided shares are unequal, three passes per loop,
  and one refused request. Loops and vectors of the code are longer versions of these.
* `PreloadHooks` has a buffer of three units, sizes that fill it exactly and that do
  not, and a table of two entries. Since only the first call tracks a pointer, the 64
  entries of the code are never exhausted.
* `PooledClasses` has one block per page and per bin, so a second free reaches the
  pool. With a single bucket the second thread has none and takes the path of a mode
  without queues, which is how ThroughputCache frees.
* Two threads suffice for the races of owner against freer and of two boundary
  threads. The ownership table gets three, so that a lookup can overlap an
  unregistration and a registration that reuses its slot.
* `PooledQueues` has three blocks, one more than a magazine holds and two more than
  `DrainLimit`. Overflow into the pool and a drain cut short both occur.
* `Ownership` has more pages with one home slot than probes, so registration can
  fail.
* `EventLimit`, `CallLimit`, `RepeatLimit` and `ResetLimit` bound counters that the
  code does not bound. `CallLimit` covers three window boundaries in the race run and
  six in `SelectorSettles`.
* The sizing runs use a word of 2^22. Constants keep their real values, and sizes lie
  on both sides of every threshold and of the end of the word.
* Symmetry is declared on threads, pages and regions, but not in `PooledClasses`,
  which checks liveness.
* `DirectLifecycle` has a region more than threads, so that an address can be unmapped
  and mapped again while both others are in use. Balanced is left out: it differs from
  streaming only in not looking into a cache that is empty.
* `SizingLayout` has the smallest span the code accepts and the default one.

### Fairness

* `CallsReturn` (`PooledClasses`): weak fairness of each thread's own steps (`Step`),
  which says that a thread inside the allocator is eventually scheduled. No call has to
  begin, and mutexes add no condition, since a section under a mutex is one action and
  always ends.
* `PtCallsReturn` (`PtArenas`): the same, per thread. Waiting for a mutex is a step of
  its own here, and weak fairness grants a mutex only if it stays free. That is enough
  because the number of calls is bounded.
* `Exits` (`BenchSession`): weak fairness of main, of the workers and of the server's
  thread, and of `ClientResumes`. The last is an assumption on the client: `send` has
  no timeout, and main would wait for ever for a client that neither reads nor hangs up.

### Disagreements between code and documentation

`WindowTwoExtractors` states a sentence of the documentation and finds it violated: an
older copy of the counters may be applied after a newer one, while a window should hold
only activity since the previous extraction (`docs/adaptive_allocator.md:102`).

Seven more were met while modelling. No run of their own shows them; the models contain
them, and the conditions of the properties above are where they appear:

* `docs/adaptive_allocator.md:31` lists extents cached "for streaming reuse".
  `large_stream_free` always answers Unmap, so nothing fills the extent cache
  (`NothingIsCached` proves it stays empty).
* `src/adaptive_runtime.cpp:104` accepts a medium span of 65536 bytes. Such a span has
  room for no object of the largest class (`src/adaptive_services.cpp:451`), and malloc
  fails. It is the last case of `RefusedOnlyWhenFull`.
* `docs/adaptive_allocator.md:117` puts mapped/live pressure second among the rules. The
  code (`src/adaptive_selector.cpp:101`) tests it after the remote-free and the
  large-bytes ratio, so a workload that shows two of these is sent elsewhere than
  documented. `SelectMode` follows the code.
* `docs/adaptive_workload_generator.md:97` describes payload checks that catch
  corruption. In the diagnostic phases the record's seed is read from the counter after
  its increment (`tools/bench_runner.cpp:1347`, `:1383`, `:1434`, `:1489`, `:1509`), so
  they report errors on a correct allocator (`AlarmsOnlyFromNumbering`).
* `classic/ptmalloc/heap.h:43` says that all heaps are tracked. `register_heap` takes no
  mutex and can lose one (`OneThreadPerHeap`).
* `classic/ptmalloc/config.h:61` calls `MAX_ARENAS` the "max number of non-main arenas".
  The count, which starts at the main arena, is tested without the mutex under which it
  grows, so it may pass the limit by as many arenas as there are other threads past the
  test (`ArenasBounded`): with three threads or more there can be more non-main arenas
  than the limit.
* The test `generated_workload_ptmalloc` (`CMakeLists.txt:132`) runs that strategy and
  expects the run to end. A thread that waits for the main mutex after a first small
  request kept it (`ptmalloc.cpp:77`) never returns (`PtCallsReturn`).

Other limits of the code show in the conditions of properties that hold:

* `OwnedIsFound` excepts pages that `register_region` found no slot for. The code
  drops them silently, and their pointers are not recognised.
* `CooldownSpacesSwitches` counts the window of a switch itself. With the default
  cooldown of 1 two adjacent windows may both switch.
* `CooldownSpacesSwitches` is stated for one thread. Two threads can both pass the
  cooldown test before either sets it.
* `SettlesOnRule` has two outcomes. The expected-gain test has no term for memory
  pressure, so pressure alone never leads to `CompactRSS`.
* `GaugesAreCurrent` holds until a reset. `adaptive_stats_reset` zeroes the gauges of
  objects that are still live.
* `LocksMatchWork` excepts the main arena's mutex once a thread's first request was
  small: `ptmalloc.cpp:77` takes it before `get_arena` takes one of its own choice, and
  nothing releases it. `PtCallsReturn` excepts, from then on, only calls that wait for
  this mutex: another thread's first small request, a request that ends in the main
  arena, and a free or a resize of one of its blocks. All other calls return.
* `NothingLeftBehind` excepts `random_workload`, which overwrites its pointer when
  `reallocate` is refused.

## 4. What is proved

The theorems hold for every value of the constants that satisfies the named
assumptions of the modules. Check them with `tlapm <module>`. Where a module of proofs
is about two components, the state formulas of one of them have a prefix (`WindowSpec`,
`SizingSpec`).

**PooledStorageProofs** (`TypeCorrect`, `EveryBlockOnOneList`, `LiveCountIsExact`,
`MagicIsExact`, `ReallocKeepsSource`, `ImplementsHeapPromise`). `IInv` is the
conjunction of the four safety properties with two facts on local state. A running
allocation knows its class and mode, and a pending free its block (`ArgsOK`). Blocks
of a mapped page carry the mode of some allocation (`Stamped`). The properties need
each other: a page may be unmapped when its live count is 0, and exactness of the
count turns that into "all its blocks are on its free list". Each action has a lemma.
Refinement follows because every step either moves blocks between lists other than
the registry (a stutter) or is one step of `HeapPromise`.

The same module proves what concerns the queues and the magazines
(`BlocksQueueForOwner`, `PendingIsExact`, `ClassesStayRight`, `MagazinesStayBounded`,
`EmptyPagesStayBounded`). `QInv` adds to `IInv` what the queues rest on.

* `ProbesOK`: a thread's bucket is the first on its probe path that was free or its own,
  so every bucket before it belongs to somebody else. Owners of buckets are written once;
  with that a thread can never claim a second bucket.
* `OwnersOK` and `QueuedHome`: a block in use has an owner, a bucket is claimed before
  blocks are queued on it, and a detached list belongs to the thread that detached it.
* `HandsOK` and `DetachedOK`: a call has at most one block in hand, and only a drain has a
  detached list. The counter is exact because each drain step moves one block and owes
  one decrement.

The two bounds are proved beside `IInv`, step by step: a refill takes at most the room
that is left, and a free that empties a page either keeps within the limit of the
block's mode or leaves no more empty pages than before. They use that there is a mode
(`Modes # {}` in `ConstantTypes`; `AdaptiveModeId` is a fixed enumeration).

**OwnershipTableProofs** (`TypeCorrect`, `TableIsTruthful`, `OwnedPagesAreFound`).
The key is `Reachable`: a page in the table sits behind used slots only. It is
preserved because a slot once used is never empty again. With it, a probe that stops
at an empty slot has seen everything. `ThreadOK` says how far each thread's loop has
come, and `Exclusive` that two threads never work on overlapping regions.

**AdaptationProofs**, for `TelemetryWindow` and `ModeSelector`: the windows the selector
looks at, and the selector.

The windows (`WindowsPartitionEvents`, `NoEventTwice`). The first assumes one extractor
(`SoleExtractor`); the property itself ends at the first reset. A copied value lies
between the baseline and the counter (`CopiesBetween`). `NoEventTwice` goes past resets
and assumes that one thread extracts and resets (`SoleCaller`); any number of others
count. `Accounted` says that what is reported and what the next window will report have
happened; it is suspended for counters a running reset has not reached. With two
extractors `NothingTwice` is false (`WindowTwoExtractors`).

The selector (`TypeCorrect`, `ActiveModeIsMarked`, `EveryWindowHasAnEvent`,
`SwitchesAreSpaced`, `SelectorSettles`). `MarkPending` strengthens the claim on the active
mode to states in the middle of a switch: an unmarked active mode is about to be marked
or replaced. The event count rests on lemmas about the quotient of the call counter by
the window. That only one mode is marked Active is not claimed, as overlapping switches
can leave two marks.

The last two assume a single thread (`SoleThread`): two threads that are both past the
cooldown test switch one right after the other. `Spacing` relates `cooldownUntil`
to the last boundary at each point of the call. `SelectorSettles` also assumes
`RulesDecide`: no cost model and no calls of `adaptive_set_mode`, for any set of features.
`Settling` says that only a running cooldown delays a switch that is wanted, that each
boundary with the same features uses up one window of it, and that a switch that is not
wanted does not begin (`Stayed`).

**DirectMappingProofs** (`HeldStaysIntact`, `QuarantineStays`, `NothingIsCached`). A call
has up to three regions in hand: a new one, one to free, one to return (`Hands`). `Apart`
says that the hands of calls, the program and the quarantine never share a region. It
rests on every region in use being mapped, so that `mmap` can only return another one.
`CallOK` gives, for each step of a call, how far its region is published or withdrawn.
A quarantined header has no magic, which is why a repeated free stops at
`header_from_user`. The proof assumes that `nullptr` is no region and that there is a
mode.

**RequestProofs**, for `RequestSizing` and `PreloadHooks`: what a request becomes, and who
serves it and takes its pointer back.

The layout (`BlocksFit`, `BlocksStayApart`, `BlocksAreAligned`,
`ClassesAreExact`, `RefusalMeansFull`, `MediumIsNeverDirect`). A state holds a call and its outcome, and
the inductive invariant `Consistent` says just that. The work is in lemmas on
rounding modulo `Word`, on page capacity and on the sums of a direct mapping.
`RefusalMeansFull` covers every span of 64 KiB or more: only the largest class can be
without a block, and only in a span shorter than 65712 bytes. `MediumIsNeverDirect` shows that the
waste test of the fragmentation mode never decides anything.

The hooks (`PointersGoHome`, `TableStaysExact`). What a pointer is depends on
how far the first call has come, so the invariant is a case distinction on it. `StartOK`
says which look-ups are done and which flags are set. `PlacesOK` says where the pointers
the program holds can be: only in the adaptive heap before the first call, in the buffer
if `dlsym` asked for them, and on libc's heap only once that call is over. `EntriesOK` says that an
entry of the table is a libc pointer that is held, and that no two entries agree. Routing
follows, because the three ranges are disjoint (`Layout`): the buffer is static storage,
and both heaps put a header before a block, so that no block of theirs starts in the buffer
or right at its end.

**PtArenasProofs** (`MutexesMatchWork`, `SegmentsStayApart`, `ArenasStayBounded`).
`LocksOK` ties every mutex to the call that works on its arena, or to the early lock of
the main arena. Two threads on one segment would then have to work on two arenas, so the
proof needs that memory goes back to the arena it came from (`HomeOK`), unless its segment
was lost. That in turn needs where memory can be: only in segments that were on the list
(`OutOK`, `KnownOK`), while a new arena is known to its maker alone (`FreshOK`).
`LinksOK` counts the threads between the test of the arena count and its increment.
`ArgsOK` gives each call the arguments its place needs.

**BenchWorkloadsProofs** and **BenchSessionProofs** (`RunnerInvariant`,
`RunnerFreesOnlyWhatItOwns`, `RunnerLeavesNothingBehind`, `RunnerAlarmsOnlyFromNumbering`).
The first module has the invariant, the loops and the programs, the second main, the
server and the theorems. That a workload frees only
what it owns takes an account of every pointer it has. `Refs` gives the block each slot,
and the local variable of an allocate-and-free loop, stands for; a slot whose block a
consumer has freed stands for none. `Owns` says that these blocks are live and that no two
places share one, `Lost` is the set of live blocks no place stands for. Four lemmas say
what allocating into a place, freeing it, resizing it and forgetting it do to both.

A loop that fills slots without looking would lose what they hold, so a program must be
`Tidy`: such a loop comes first or after one that empties the slots, and the consumers of a
neighbour's slots come after its producers. Each workload, generated phase and realtime
tick has a lemma that its program is `Tidy`, and whether it ends with empty slots. `StageOK`
follows the loops: which slots a half-done fill or sweep has dealt with, and which slots
belong to which worker. Shares are disjoint and cover the slots, for every number of slots
and workers (`SharesApart`, `SharesCover`, `VictimsCover`). `MainOK` and `Agenda` carry
this through main: only a realtime phase holds blocks between its programs, and its
cleanup frees them. `HeapOK` bounds the lost blocks by the refused requests and blames
`random_workload`. `ServerOK` orders plugin, server thread and socket.

The assumptions are that each loop makes a pass, that the allocator has finitely many
addresses, and that options are what the parser accepts. Vectors have at least two
elements, so that nine tenths of them are at least one; the code asks that only of
`run_rss_decay_hold_phase`, whose vector has 1024 or more.

### Only model-checked

* `CallsReturn`, `PtCallsReturn`, `Exits`: liveness is beyond the prover.
* `SmearingRounds`: bitwise operators are beyond it too.
* `GaugesAreCurrent`: it equates gauges with sums over regions, and what a sum over a set
  is takes an induction the prover cannot do.
* `PublishedIsLive`: it too is about a sum, over the live blocks.
* `SnapshotsAdvance`: the live count is kept from going below zero, so its last conjunct
  needs that every free counted has an allocation counted before it. That takes the number
  of blocks held at every pass of every loop, which `IInv` does not have.

The type invariants of `PooledStorage`, `OwnershipTable` and `ModeSelector` are proved
(`TypeCorrect`) and not among the properties of the runs.

## 5. Not modelled

* **mimalloc.** A cross-thread free stores its link encoded (`mimalloc.cpp:363`), and the
  drain walks the list as if links were plain (`:82`). What the heap does after the first
  drain is undefined.
* **tcmalloc.** `tc_init` runs under `pthread_once`, so only one thread gets a cache and
  small requests of the others fail. `insert_range` drops the objects it is given.
  The exchange between threads a model would be about does not take place.
* **jemalloc.** The bytes of a run's bitmap are read as a structure whose pointer was
  never set (`jemalloc.cpp:204`, `:369`). Every small allocation is undefined.
* **ptmalloc's bins, chunks and coalescing.** User data starts 48 bytes into a chunk and
  overlaps the next chunk's header. No invariant of boundary tags survives the program's
  first write, so `PtArenas` leaves their contents open.
* **Numbers out of reach.** The floating-point cost model and window ratios; training and
  evaluation scripts.
* **Contents of memory.** Canaries, redzones and poison detect writes of the program.
* **Text and presentation.** Parsing of arguments, environment and files, JSON, HTTP
  text, timing and RSS figures, the viewer.
* **Small tables.** The event ring's 64 slots, the strategy registry, the validator and
  the example plugin.

Open: a composition of `ModeSelector` with `TelemetryWindow` in which boundary threads
are the extractors.
