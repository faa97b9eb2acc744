--------------------------- MODULE BenchWorkloads ---------------------------
(***************************************************************************)
(* The workloads of tools/bench_runner.cpp: clients of the allocator under *)
(* test.  Each workload is a short program, a sequence of stages; a stage  *)
(* is one loop of the code and an action below is one pass of that loop.   *)
(* The program's definition says which loops the function has, in which    *)
(* order, and what each loop counts, checks and publishes.                 *)
(*                                                                         *)
(* The allocator is external and correct: it hands out any block that is   *)
(* not live, keeps what was written to it, and may refuse.  Sizes are      *)
(* small numbers; the first 64 payload bytes are the seed that determines  *)
(* them.                                                                   *)
(***************************************************************************)
EXTENDS Integers, Sequences, FiniteSets, FiniteSetsExt

CONSTANTS
  Blocks,        \* addresses the allocator may hand out
  Sizes,         \* request sizes
  NSlots,        \* length of the pointer vectors
  Workers,       \* worker threads 0 .. Workers - 1
  Iters,         \* passes of a counted loop
  Every,         \* publish (and, in debug_safety, free twice) when i % Every = 0
  FailLimit,     \* requests the allocator may refuse in one run
  Null

\* Every loop makes at least one pass, also the one over 9/10 of the slots.
ASSUME WorkloadConstants ==
  /\ IsFiniteSet(Blocks) /\ Sizes \subseteq Nat
  /\ NSlots \in Nat /\ NSlots >= 2 /\ Workers \in Nat \ {0}
  /\ Iters \in Nat \ {0} /\ Every \in Nat \ {0} /\ FailLimit \in Nat
  /\ Null \notin Blocks /\ Null \notin [size : Nat, fill : Nat]

Slots == 0 .. NSlots - 1
Threads == 0 .. Workers - 1

VARIABLES
  heap,      \* per block: Null, or the size and the bytes of a live object
  invalid,   \* deallocations of a block that was not live
  refused,   \* requests refused
  ptrs,      \* the workload's vector of PayloadRecord (or of pointers and sizes)
  m,         \* GeneratedMetrics of the running workload
  snap,      \* g_workload_snapshot
  work,      \* the running workload: where it is in its program
  done       \* per worker: the slots it has handled in this stage

workVars == <<heap, invalid, refused, ptrs, m, snap, work, done>>

Empty == [ptr |-> Null, size |-> 0, seed |-> 0]

Zero == [allocs |-> 0, frees |-> 0, reallocs |-> 0, remote |-> 0,
         live_objects |-> 0, live_bytes |-> 0, checks |-> 0, errors |-> 0]

----------------------------------------------------------------------------
(* The allocator under test                                                 *)

Refusals == IF refused < FailLimit THEN {Null} ELSE {}
AllocResults(h) == {b \in Blocks : h[b] = Null} \cup Refusals

Put(h, b, size, fill) ==
  IF b = Null THEN h ELSE [h EXCEPT ![b] = [size |-> size, fill |-> fill]]
Drop(h, b) == IF b = Null THEN h ELSE [h EXCEPT ![b] = Null]
Misuse(h, b) == IF b # Null /\ h[b] = Null THEN 1 ELSE 0

\* reallocate may keep the block or move it, and moves its bytes along.
ReallocResults(h, b) == AllocResults(h) \cup ({b} \ {Null})
Moved(h, old, new, size) ==
  IF new = Null THEN h
  ELSE Put(Drop(h, old), new, size, IF old = Null THEN 0 ELSE h[old].fill)

Refuse(b) == refused' = IF b = Null THEN refused + 1 ELSE refused

----------------------------------------------------------------------------
(* GeneratedMetrics and payload validation                                  *)

Minus(a, b) == IF a > b THEN a - b ELSE 0

\* n objects of `bytes' in all, counted one by one.
Allocated(mm, n, bytes) ==
  [mm EXCEPT !.allocs = @ + n, !.live_objects = @ + n, !.live_bytes = @ + bytes]
Freed(mm, n, bytes, remote) ==
  [mm EXCEPT !.frees = @ + n, !.remote = @ + remote,
             !.live_objects = Minus(@, n), !.live_bytes = Minus(@, bytes)]

metrics_alloc(mm, size) == Allocated(mm, 1, size)
metrics_free(mm, size) == Freed(mm, 1, size, 0)

\* Mutant: the old size stays counted as live.
MetricsReallocAdds(mm, old_size, new_size) ==
  [mm EXCEPT !.reallocs = @ + 1, !.live_bytes = @ + new_size]

metrics_realloc(mm, old_size, new_size) ==
  [mm EXCEPT !.reallocs = @ + 1, !.live_bytes = Minus(@, old_size) + new_size]

Ops(mm) == mm.allocs + mm.frees + mm.reallocs

payload_check(rec) == heap[rec.ptr].fill = rec.seed

should_validate(mm) == work.rate > 0 /\ mm.allocs % work.rate = 0

validation_check_record(mm, rec) ==
  IF rec.ptr = Null \/ ~ should_validate(mm) THEN mm
  ELSE [mm EXCEPT !.checks = @ + 1,
                  !.errors = IF payload_check(rec) THEN @ ELSE @ + 1]

update_workload_snapshot(phase, index, count, mm, running) ==
  snap' = [phase |-> phase, index |-> index, count |-> count, m |-> mm, running |-> running]

----------------------------------------------------------------------------
(* The programs.  A stage is one loop: what a pass does (op), whether it    *)
(* updates the metrics, checks payloads, skips null pointers or publishes,  *)
(* which payload it writes, and which slots it or its workers range over.   *)

Loop(op) == [op |-> op, counted |-> FALSE, checked |-> FALSE, iflive |-> FALSE,
             publish |-> FALSE, pay |-> "none", part |-> "all"]
Counted(s)    == [s EXCEPT !.counted = TRUE]
Checked(s)    == [s EXCEPT !.checked = TRUE]
IfLive(s)     == [s EXCEPT !.iflive = TRUE]
Publishing(s) == [s EXCEPT !.publish = TRUE]
Pay(s, p)     == [s EXCEPT !.pay = p]
Part(s, p)    == [s EXCEPT !.part = p]

same_size                == <<Loop("pair")>>
batch_workload           == <<Loop("fill"), Loop("sweep"), Loop("fill"), Loop("sweep")>>
random_workload          == <<Loop("random"), IfLive(Loop("sweep"))>>
fragmentation_workload   == <<Loop("fill"), Loop("resize_or_drop"), IfLive(Loop("sweep"))>>
cross_thread_free_workload ==
  <<Part(Loop("produce"), "own"), Part(Loop("consume"), "victim")>>
latency_sample_workload  == <<Loop("pair")>>
phase_changing_workload  ==
  <<Loop("pair"), Loop("replace"), Loop("pair"), Part(Loop("fill"), "empty"),
    IfLive(Loop("sweep"))>>
large_streaming_workload == <<Loop("pair")>>
debug_safety_workload(adaptive) == <<Part(Loop("pair"), IF adaptive THEN "twice" ELSE "all")>>

generated_small_churn   == <<Publishing(Counted(Loop("pair")))>>
generated_latency_loop  == <<Publishing(Counted(Loop("pair")))>>
generated_large_burst   == <<Publishing(Counted(Loop("pair")))>>
generated_fragmentation ==
  <<Counted(Loop("fill")), Publishing(Counted(Loop("resize_or_keep"))),
    IfLive(Counted(Loop("sweep")))>>
generated_peak_release  ==
  <<Publishing(Counted(Loop("fill"))), Publishing(Counted(Loop("sweep")))>>
generated_remote_free   ==
  <<Publishing(Counted(Part(Loop("produce"), "own"))),
    Publishing(Counted(Part(Loop("consume"), "victim")))>>

\* The diagnostic phases keep PayloadRecords numbered by a local id.
run_tiny_cache_churn_phase ==
  LET fill == Pay(Counted(Loop("fill")), "id")
      free == Part(Checked(Counted(Loop("sweep"))), "reverse")
  IN <<fill, free, fill, free>>
run_remote_dominant_phase ==
  <<Pay(Counted(Loop("fill")), "id"), Counted(Part(Loop("consume"), "stride"))>>
run_medium_frag_strong_phase ==
  <<Pay(Checked(Counted(Loop("drift"))), "id"), IfLive(Checked(Counted(Loop("sweep"))))>>
run_rss_decay_hold_phase ==
  <<Pay(Counted(Loop("fill")), "id"), Part(Checked(Counted(Loop("sweep"))), "first"),
    Pay(Checked(Counted(Loop("pair"))), "id"), IfLive(Checked(Counted(Loop("sweep"))))>>

\* One tick of a realtime phase; the first one finds its state not initialized.
generated_small_churn_chunk  == <<Pay(Checked(Counted(Loop("pair"))), "chunk")>>
generated_latency_loop_chunk == <<Pay(Checked(Counted(Loop("pair"))), "chunk")>>
generated_large_burst_chunk  == <<Pay(Checked(Counted(Loop("pair"))), "chunk")>>
generated_fragmentation_realtime_chunk(initialized) ==
  IF initialized THEN <<Counted(Loop("resize_or_keep"))>>
  ELSE <<Counted(Loop("fill")), Counted(Loop("resize_or_keep"))>>
generated_peak_release_realtime_chunk == <<Counted(Loop("toggle"))>>
generated_remote_realtime_chunk ==
  <<Counted(Part(Loop("produce"), "one")), Counted(Part(Loop("consume"), "one"))>>

\* Mutant: what the last tick left is not freed.
NoCleanup == << >>
cleanup_realtime_state == <<IfLive(Counted(Loop("sweep")))>>

\* The benchmarks run_one dispatches to, under the names it knows them by.
run_one(name, adaptive) ==
  CASE name \in {"same_size", "same_size_64", "same_size_256"} -> same_size
    [] name \in {"batch", "throughput_server"} -> batch_workload
    [] name = "random" -> random_workload
    [] name = "fragmentation" -> fragmentation_workload
    [] name \in {"cross_thread_free", "producer_consumer"} -> cross_thread_free_workload
    [] name \in {"latency_sample", "realtime_latency"} -> latency_sample_workload
    [] name \in {"phase_changing", "memory_constrained"} -> phase_changing_workload
    [] name = "large_streaming" -> large_streaming_workload
    [] name = "debug_safety" -> debug_safety_workload(adaptive)

\* GeneratedPhaseKind: what a phase of a generated workload does.
PhaseKinds ==
  {"SmallChurn", "FragmentationDrift", "RemoteFree", "LargeBurst", "PeakRelease", "LatencyLoop",
   "TinyCacheChurn", "RemoteDominant", "MediumFragStrong", "RssDecayHold"}

\* The phases of generated_workload, run to completion.
GeneratedProgram(kind) ==
  CASE kind = "SmallChurn" -> generated_small_churn
    [] kind = "FragmentationDrift" -> generated_fragmentation
    [] kind = "RemoteFree" -> generated_remote_free
    [] kind = "LargeBurst" -> generated_large_burst
    [] kind = "PeakRelease" -> generated_peak_release
    [] kind = "LatencyLoop" -> generated_latency_loop
    [] kind = "TinyCacheChurn" -> run_tiny_cache_churn_phase
    [] kind = "RemoteDominant" -> run_remote_dominant_phase
    [] kind = "MediumFragStrong" -> run_medium_frag_strong_phase
    [] kind = "RssDecayHold" -> run_rss_decay_hold_phase

\* The switch has no case for the diagnostic kinds: their ticks do nothing.
run_realtime_phase_chunk(kind, initialized) ==
  CASE kind = "SmallChurn" -> generated_small_churn_chunk
    [] kind = "FragmentationDrift" -> generated_fragmentation_realtime_chunk(initialized)
    [] kind = "RemoteFree" -> generated_remote_realtime_chunk
    [] kind = "LargeBurst" -> generated_large_burst_chunk
    [] kind = "PeakRelease" -> generated_peak_release_realtime_chunk
    [] kind = "LatencyLoop" -> generated_latency_loop_chunk
    [] OTHER -> << >>

----------------------------------------------------------------------------
(* The passes of the loops                                                  *)

Running == work.stage <= Len(work.prog)
Stage == work.prog[work.stage]
At(op) == Running /\ Stage.op = op

\* Start a program on fresh vectors.
Began(prog) == [work EXCEPT !.prog = prog, !.stage = 1, !.i = 0, !.held = FALSE, !.hand = Empty]

Passes ==
  CASE Stage.op \in {"fill", "sweep"} ->
         IF Stage.part = "first" THEN (NSlots * 9) \div 10 ELSE NSlots
    [] OTHER -> Iters

\* A pass is over: the next one, or the next loop.
Passed(w) == IF w.i + 1 < Passes THEN [w EXCEPT !.i = @ + 1]
                                 ELSE [w EXCEPT !.stage = @ + 1, !.i = 0]

\* The payload written, and the seed kept in the record: the initializer
\* {p, size, id++, (unsigned char)id} evaluates id again after the increment.
Written == CASE Stage.pay = "id" -> work.id
             [] Stage.pay = "chunk" -> m.allocs + 1
             [] OTHER -> 0
\* Mutant: the double use of the counter in every workload.
RecordedSeedNext == IF Stage.pay = "none" THEN Written ELSE Written + 1
RecordedSeed == IF Stage.pay = "id" THEN work.id + 1 ELSE Written
Numbered(w) == IF Stage.pay = "id" THEN [w EXCEPT !.id = @ + 1] ELSE w
Record(b, size) == [ptr |-> b, size |-> size, seed |-> RecordedSeed]

IfCounted(mm) == IF Stage.counted THEN mm ELSE m
IfChecked(rec) == IF Stage.checked THEN validation_check_record(m, rec) ELSE m

publish_generated(mm) ==
  update_workload_snapshot(work.phase, work.index, work.count, mm, TRUE)
MaybePublish(mm) ==
  IF Stage.publish /\ work.i % Every = 0 THEN publish_generated(mm) ELSE UNCHANGED snap

\* p = allocate(size); ... deallocate(p), a second time on purpose in debug_safety.
PairAlloc ==
  /\ At("pair") /\ ~ work.held
  /\ \E size \in Sizes, b \in AllocResults(heap) :
       /\ heap' = Put(heap, b, size, Written)
       /\ Refuse(b)
       /\ m' = IfCounted(metrics_alloc(m, size))
       /\ work' = Numbered([work EXCEPT !.held = TRUE, !.hand = Record(b, size)])
  /\ UNCHANGED <<invalid, ptrs, snap, done>>

PairFree ==
  /\ At("pair") /\ work.held
  /\ LET p == work.hand.ptr
         again == IF Stage.part = "twice" /\ work.i % Every = 0 THEN Misuse(Drop(heap, p), p) ELSE 0
         mm == IF Stage.counted THEN metrics_free(IfChecked(work.hand), work.hand.size) ELSE m
     IN /\ heap' = Drop(heap, p)
        /\ invalid' = invalid + Misuse(heap, p) + again
        /\ m' = mm
        /\ MaybePublish(mm)
        /\ work' = Passed([work EXCEPT !.held = FALSE, !.hand = Empty])
  /\ UNCHANGED <<refused, ptrs, done>>

\* ptrs[i] = allocate(size)
Fill ==
  /\ At("fill")
  /\ \/ /\ Stage.part = "empty" /\ ptrs[work.i].ptr # Null
        /\ work' = Passed(work)
        /\ UNCHANGED <<heap, refused, ptrs, m, snap>>
     \/ /\ Stage.part # "empty" \/ ptrs[work.i].ptr = Null
        /\ \E size \in Sizes, b \in AllocResults(heap) :
             /\ heap' = Put(heap, b, size, Written)
             /\ Refuse(b)
             /\ ptrs' = [ptrs EXCEPT ![work.i] = Record(b, size)]
             /\ m' = IfCounted(metrics_alloc(m, size))
             /\ MaybePublish(m')
             /\ work' = Passed(Numbered(work))
  /\ UNCHANGED <<invalid, done>>

\* deallocate(ptrs[i]), forwards or backwards, all of them or those not null
Sweep ==
  /\ At("sweep")
  /\ LET j == IF Stage.part = "reverse" THEN NSlots - 1 - work.i ELSE work.i
         rec == ptrs[j]
     IN IF Stage.iflive /\ rec.ptr = Null
        THEN UNCHANGED <<heap, invalid, ptrs, m, snap>>
        ELSE /\ heap' = Drop(heap, rec.ptr)
             /\ invalid' = invalid + Misuse(heap, rec.ptr)
             /\ ptrs' = [ptrs EXCEPT ![j] = Empty]
             /\ m' = IF Stage.counted THEN metrics_free(IfChecked(rec), rec.size) ELSE m
             /\ MaybePublish(m')
  /\ work' = Passed(work)
  /\ UNCHANGED <<refused, done>>

\* A pass of the random loop of random_workload, on slot j: replace (the new
\* block first), reallocate (a null result overwrites the pointer) or free.
RandomReplace(j) ==
  \E size \in Sizes, b \in AllocResults(heap) :
    /\ heap' = Drop(Put(heap, b, size, 0), ptrs[j].ptr)
    /\ invalid' = invalid + Misuse(heap, ptrs[j].ptr)
    /\ Refuse(b)
    /\ ptrs' = [ptrs EXCEPT ![j] = Record(b, size)]

RandomRealloc(j) ==
  /\ ptrs[j].ptr # Null
  /\ \E size \in Sizes, b \in ReallocResults(heap, ptrs[j].ptr) :
       /\ heap' = Moved(heap, ptrs[j].ptr, b, size)
       /\ invalid' = invalid + Misuse(heap, ptrs[j].ptr)
       /\ Refuse(b)
       /\ ptrs' = [ptrs EXCEPT ![j] = Record(b, size)]

FreeSlot(j) ==
  /\ ptrs[j].ptr # Null
  /\ heap' = Drop(heap, ptrs[j].ptr)
  /\ invalid' = invalid + Misuse(heap, ptrs[j].ptr)
  /\ ptrs' = [ptrs EXCEPT ![j] = Empty]
  /\ UNCHANGED refused

Random ==
  /\ At("random")
  /\ \E j \in Slots : RandomReplace(j) \/ RandomRealloc(j) \/ FreeSlot(j)
  /\ work' = Passed(work)
  /\ UNCHANGED <<m, snap, done>>

\* phase_changing_workload frees the old block before it asks for the new one.
Replace ==
  /\ At("replace")
  /\ \E j \in Slots, size \in Sizes :
       LET freed == Drop(heap, ptrs[j].ptr)
       IN \E b \in AllocResults(freed) :
            /\ heap' = Put(freed, b, size, 0)
            /\ invalid' = invalid + Misuse(heap, ptrs[j].ptr)
            /\ Refuse(b)
            /\ ptrs' = [ptrs EXCEPT ![j] = Record(b, size)]
  /\ work' = Passed(work)
  /\ UNCHANGED <<m, snap, done>>

\* reallocate(ptrs[j], size): when it is refused, fragmentation_workload frees
\* the old block, the generated phases keep it.
Resize ==
  /\ At("resize_or_drop") \/ At("resize_or_keep")
  /\ \E j \in Slots, size \in Sizes : \E b \in ReallocResults(heap, ptrs[j].ptr) :
       LET rec == ptrs[j]
       IN /\ Refuse(b)
          /\ invalid' = invalid + Misuse(heap, rec.ptr)
          /\ IF b # Null
             THEN /\ heap' = Moved(heap, rec.ptr, b, size)
                  /\ ptrs' = [ptrs EXCEPT ![j] = Record(b, size)]
                  /\ m' = IfCounted(metrics_realloc(m, rec.size, size))
             ELSE IF Stage.op = "resize_or_drop"
             THEN heap' = Drop(heap, rec.ptr) /\ ptrs' = [ptrs EXCEPT ![j] = Empty] /\ m' = m
             ELSE UNCHANGED <<heap, ptrs, m>>
  /\ MaybePublish(m')
  /\ work' = Passed(work)
  /\ UNCHANGED done

\* run_medium_frag_strong_phase: fill an empty slot; else check it and either
\* reallocate it, writing a new payload, or free it.
Drift ==
  /\ At("drift")
  /\ \E j \in Slots :
       LET rec == ptrs[j]
           mm  == IfChecked(rec)
       IN /\ invalid' = invalid + Misuse(heap, rec.ptr)
          /\ \/ /\ rec.ptr = Null
                /\ \E size \in Sizes, b \in AllocResults(heap) :
                     /\ heap' = Put(heap, b, size, Written)
                     /\ Refuse(b)
                     /\ ptrs' = [ptrs EXCEPT ![j] = Record(b, size)]
                     /\ m' = metrics_alloc(m, size)
                     /\ work' = Passed(Numbered(work))
             \/ /\ rec.ptr # Null
                /\ \E size \in Sizes, b \in ReallocResults(heap, rec.ptr) :
                     /\ Refuse(b)
                     /\ IF b = Null
                        THEN m' = mm /\ work' = Passed(work) /\ UNCHANGED <<heap, ptrs>>
                        ELSE /\ heap' = Put(Moved(heap, rec.ptr, b, size), b, size, work.id + 1)
                             /\ ptrs' = [ptrs EXCEPT ![j] = Record(b, size)]
                             /\ m' = metrics_realloc(mm, rec.size, size)
                             /\ work' = Passed(Numbered(work))
             \/ /\ rec.ptr # Null
                /\ heap' = Drop(heap, rec.ptr)
                /\ ptrs' = [ptrs EXCEPT ![j] = Empty]
                /\ m' = metrics_free(mm, rec.size)
                /\ work' = Passed(work)
                /\ UNCHANGED refused
  /\ UNCHANGED <<snap, done>>

\* generated_peak_release_realtime_chunk: allocate the slot or free it.
Toggle ==
  /\ At("toggle")
  /\ LET j == (Ops(m) + work.i) % NSlots
         rec == ptrs[j]
     IN /\ invalid' = invalid + Misuse(heap, rec.ptr)
        /\ IF rec.ptr = Null
           THEN \E size \in Sizes, b \in AllocResults(heap) :
                  /\ heap' = Put(heap, b, size, 0)
                  /\ Refuse(b)
                  /\ ptrs' = [ptrs EXCEPT ![j] = Record(b, size)]
                  /\ m' = metrics_alloc(m, size)
           ELSE /\ heap' = Drop(heap, rec.ptr)
                /\ ptrs' = [ptrs EXCEPT ![j] = Empty]
                /\ m' = metrics_free(m, rec.size)
                /\ UNCHANGED refused
  /\ work' = Passed(work)
  /\ UNCHANGED <<snap, done>>

----------------------------------------------------------------------------
(* Worker threads: each handles its share of the slots in order, and the    *)
(* main thread counts what they did only once it has joined them all.       *)

PerThread == Max({1, NSlots \div Workers})
Owned(t) == {j \in Slots : j \div PerThread = t}
\* Mutant: the stride over the objects is forgotten.
ShareWithoutStride(t) ==
  CASE Stage.part = "own" -> Owned(t)
    [] Stage.part = "victim" -> Owned((t + Workers - 1) % Workers)
    [] Stage.part = "stride" -> {j \in Slots : j >= t}
    [] Stage.part = "one" -> IF t = 0 THEN Slots ELSE {}

Share(t) ==
  CASE Stage.part = "own" -> Owned(t)
    [] Stage.part = "victim" -> Owned((t + Workers - 1) % Workers)
    [] Stage.part = "stride" -> {j \in Slots : j % Workers = t}
    [] Stage.part = "one" -> IF t = 0 THEN Slots ELSE {}

WorkerAlloc(t) ==
  /\ At("produce") /\ Share(t) # done[t]
  /\ LET j == Min(Share(t) \ done[t])
     IN /\ \E size \in Sizes, b \in AllocResults(heap) :
             /\ heap' = Put(heap, b, size, 0)
             /\ Refuse(b)
             /\ ptrs' = [ptrs EXCEPT ![j] = Record(b, size)]
        /\ done' = [done EXCEPT ![t] = @ \cup {j}]
  /\ UNCHANGED <<invalid, m, snap, work>>

WorkerFree(t) ==
  /\ At("consume") /\ Share(t) # done[t]
  /\ LET j == Min(Share(t) \ done[t])
     IN /\ heap' = Drop(heap, ptrs[j].ptr)
        /\ invalid' = invalid + Misuse(heap, ptrs[j].ptr)
        /\ done' = [done EXCEPT ![t] = @ \cup {j}]
  /\ UNCHANGED <<refused, ptrs, m, snap, work>>

\* All workers joined.  Slots a worker did not have are not counted.
Join ==
  /\ At("produce") \/ At("consume")
  /\ \A t \in Threads : done[t] = Share(t)
  /\ LET used == UNION {Share(t) : t \in Threads}
         n == Cardinality(used)
         bytes == MapThenSumSet(LAMBDA j : ptrs[j].size, used)
     IN /\ m' = IfCounted(IF Stage.op = "produce" THEN Allocated(m, n, bytes)
                                                  ELSE Freed(m, n, bytes, n))
        /\ IF Stage.publish THEN publish_generated(m') ELSE UNCHANGED snap
        /\ ptrs' = IF Stage.op = "produce" THEN ptrs ELSE [j \in Slots |-> Empty]
  /\ done' = [t \in Threads |-> {}]
  /\ work' = [work EXCEPT !.stage = @ + 1]
  /\ UNCHANGED <<heap, invalid, refused>>

WorkStep ==
  \/ PairAlloc \/ PairFree \/ Fill \/ Sweep
  \/ Random \/ Replace \/ Resize \/ Drift \/ Toggle
  \/ \E t \in Threads : WorkerAlloc(t) \/ WorkerFree(t)
  \/ Join
=============================================================================
