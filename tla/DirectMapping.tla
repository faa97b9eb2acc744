---------------------------- MODULE DirectMapping ----------------------------
(***************************************************************************)
(* Direct mappings of the adaptive allocator, from the facade              *)
(* (src/adaptive_allocator.cpp) through allocate_direct_map, deallocate    *)
(* and reallocate (src/adaptive_services.cpp) to the byte gauges of        *)
(* src/adaptive_telemetry.cpp.  Threads map, hand out, free, reallocate    *)
(* and unmap regions at once; the kernel may hand an address out again as  *)
(* soon as it is unmapped.  The ownership table is used through what       *)
(* OwnershipTable shows of it, as a set of regions.                        *)
(***************************************************************************)
EXTENDS Integers, FiniteSets, FiniteSetsExt

CONSTANTS
  Threads,
  Regions,      \* addresses mmap may return
  Modes,        \* the modes the active mode may be
  Sizes,        \* request sizes, in units
  Overhead,     \* units allocate_direct_map adds to a request
  CacheLimit,   \* ADAPTIVE_LARGE_EXTENT_CACHE_LIMIT
  CacheMax,     \* ADAPTIVE_LARGE_EXTENT_CACHE_MAX
  RepeatLimit,  \* bound on repeated frees by the program
  ResetLimit    \* bound on adaptive_stats_reset calls

NoRegion == "none"   \* nullptr

ASSUME DirectConstants ==
  /\ NoRegion \notin Regions
  /\ Modes # {} /\ Modes \subseteq {"Balanced", "LargeObjectStreaming", "HardenedDebug"}
  /\ Sizes \subseteq Nat \ {0}
  /\ Overhead \in Nat
  /\ CacheLimit \in Nat /\ CacheMax \in Nat /\ RepeatLimit \in Nat /\ ResetLimit \in Nat

VARIABLES
  mapped,       \* the kernel: bytes mapped at a region, 0 when none
  registered,   \* the regions of g_page_table
  hdr,          \* the AdaptiveHeader of a region
  registry,     \* g_registry_head: the headers handed out
  cache,        \* g_large_extent_cache
  mappedGauge,  \* mode[m].mapped_bytes, as far as it is of direct mappings
  liveGauge,    \* mode[m].live_bytes, likewise
  held,         \* the regions whose pointer the program owns
  quarantined,  \* freed regions of HardenedDebug, whose pointer may be freed again
  repeats, resets,             \* history: repeated frees, statistics resets
  pc, call      \* per thread: the next step and the local variables

kernel == <<mapped, registered>>
lists  == <<hdr, registry, cache>>
gauges == <<mappedGauge, liveGauge>>
vars == <<kernel, lists, gauges, repeats, held, quarantined, resets, pc, call>>

PCs == {"idle", "pop", "mmap", "register", "publish", "count_mapped", "count_live", "pool",
        "count_free", "release", "count_unmapped", "unregister", "munmap",
        "clear_live", "clear_mapped"}
Headers == [magic : BOOLEAN, mode : Modes, usable : Nat, size : Nat]
Calls == [mode : Modes, size : Nat, r : Regions \cup {NoRegion}, old : Regions \cup {NoRegion},
          ret : Regions \cup {NoRegion}]

\* Gauges are integers: they may pass below zero.
TypeOK ==
  /\ mapped \in [Regions -> Nat]
  /\ registered \subseteq Regions /\ registry \subseteq Regions
  /\ cache \subseteq Regions /\ held \subseteq Regions /\ quarantined \subseteq Regions
  /\ hdr \in [Regions -> Headers]
  /\ mappedGauge \in [Modes -> Int] /\ liveGauge \in [Modes -> Int]
  /\ repeats \in Nat /\ resets \in Nat
  /\ pc \in [Threads -> PCs]
  /\ call \in [Threads -> Calls]

AnyMode == CHOOSE m \in Modes : TRUE
NoCall == [mode |-> AnyMode, size |-> 0, r |-> NoRegion, old |-> NoRegion, ret |-> NoRegion]

ZeroHeader == [magic |-> FALSE, mode |-> AnyMode, usable |-> 0, size |-> 0]

Init ==
  /\ mapped = [r \in Regions |-> 0] /\ registered = {}
  /\ hdr = [r \in Regions |-> ZeroHeader]
  /\ registry = {} /\ cache = {}
  /\ mappedGauge = [m \in Modes |-> 0] /\ liveGauge = [m \in Modes |-> 0]
  /\ repeats = 0 /\ resets = 0
  /\ held = {} /\ quarantined = {}
  /\ pc = [t \in Threads |-> "idle"] /\ call = [t \in Threads |-> NoCall]

Goto(t, next) == pc' = [pc EXCEPT ![t] = next]

\* The call returns region r to the program, or nothing.
Finish(t, r) ==
  /\ Goto(t, "idle") /\ call' = [call EXCEPT ![t] = NoCall]
  /\ held' = IF r = NoRegion THEN held ELSE held \cup {r}

----------------------------------------------------------------------------
(* adaptive_malloc and allocate_direct_map                                  *)

\* The mapping for a request: header, redzone and rounding come on top.
MappedFor(size) == size + Overhead

\* Only the streaming mode looks into the extent cache first.
FirstStep(mode) == IF mode = "LargeObjectStreaming" THEN "pop" ELSE "mmap"

\* adaptive_malloc reads the active mode, whichever the selector has set.  The
\* growth of a pooled block into a direct mapping begins like this too: its old
\* block is PooledStorage's.
Malloc(t) ==
  /\ pc[t] = "idle"
  /\ \E m \in Modes, s \in Sizes :
       /\ call' = [call EXCEPT ![t] = [NoCall EXCEPT !.mode = m, !.size = s]]
       /\ Goto(t, FirstStep(m))
  /\ UNCHANGED <<kernel, lists, gauges, repeats, held, quarantined, resets>>

\* pop_large_extent_cache: a cached extent of up to twice the size is handed out.
Fits(r, need) == need <= CacheMax /\ hdr[r].size >= need /\ hdr[r].size <= 2 * need
PopExtent(t) ==
  LET fit == {r \in cache : Fits(r, MappedFor(call[t].size))}
  IN /\ pc[t] = "pop"
     /\ IF fit = {} THEN Goto(t, "mmap") /\ UNCHANGED <<call, lists>>
        ELSE \E r \in fit :
               /\ cache' = cache \ {r}
               /\ hdr' = [hdr EXCEPT ![r] = [@ EXCEPT !.magic = TRUE, !.mode = call[t].mode,
                                                      !.usable = call[t].size]]
               /\ registry' = registry \cup {r}
               /\ call' = [call EXCEPT ![t] = [@ EXCEPT !.r = r]]
               /\ Goto(t, "count_live")
     /\ UNCHANGED <<kernel, gauges, repeats, held, quarantined, resets>>

\* The kernel returns zeroed memory at any address not in use.
Mmap(t) ==
  /\ pc[t] = "mmap"
  /\ \E r \in Regions :
       /\ mapped[r] = 0
       /\ mapped' = [mapped EXCEPT ![r] = MappedFor(call[t].size)]
       /\ hdr' = [hdr EXCEPT ![r] = ZeroHeader]
       /\ call' = [call EXCEPT ![t] = [@ EXCEPT !.r = r]]
  /\ Goto(t, "register")
  /\ UNCHANGED <<registered, registry, cache, gauges, repeats, held, quarantined, resets>>

\* mmap fails: the caller gets nullptr and a realloc leaves the old block alone.
MmapFails(t) ==
  /\ pc[t] = "mmap"
  /\ Finish(t, call[t].old)
  /\ UNCHANGED <<kernel, lists, gauges, repeats, quarantined, resets>>

RegisterRegion(t) ==
  /\ pc[t] = "register"
  /\ registered' = registered \cup {call[t].r}
  /\ Goto(t, "publish")
  /\ UNCHANGED <<mapped, lists, gauges, repeats, held, quarantined, resets, call>>

\* Write the header and its guards, and insert it into the registry.
Publish(t) ==
  /\ pc[t] = "publish"
  /\ hdr' = [hdr EXCEPT ![call[t].r] =
               [magic |-> TRUE, mode |-> call[t].mode, usable |-> call[t].size,
                size |-> MappedFor(call[t].size)]]
  /\ registry' = registry \cup {call[t].r}
  /\ Goto(t, "count_mapped")
  /\ UNCHANGED <<kernel, cache, gauges, repeats, held, quarantined, resets, call>>

\* adaptive_telemetry_on_mapped
CountMapped(t) ==
  /\ pc[t] = "count_mapped"
  /\ mappedGauge' = [mappedGauge EXCEPT ![call[t].mode] = @ + MappedFor(call[t].size)]
  /\ Goto(t, "count_live")
  /\ UNCHANGED <<kernel, lists, liveGauge, repeats, held, quarantined, resets, call>>

\* adaptive_telemetry_on_alloc; malloc then returns, realloc goes on to free the old.
CountLive(t) ==
  /\ pc[t] = "count_live"
  /\ liveGauge' = [liveGauge EXCEPT ![call[t].mode] = @ + hdr[call[t].r].usable]
  /\ IF call[t].old = NoRegion THEN Finish(t, call[t].r)
     ELSE /\ Goto(t, "count_free") /\ UNCHANGED held
          /\ call' = [call EXCEPT ![t] = [NoCall EXCEPT !.r = call[t].old, !.ret = call[t].r]]
  /\ UNCHANGED <<kernel, lists, mappedGauge, repeats, quarantined, resets>>

----------------------------------------------------------------------------
(* adaptive_free, adaptive_realloc and deallocate                           *)

\* header_from_user finds a header where the region is registered and the magic is set.
HeaderFast(r) == r \in registered /\ hdr[r].magic

\* adaptive_free up to the release decision.  A pointer without a header is counted as an
\* invalid free, in an owned region as a double free, and nothing else happens.
FreePointer(t, r) ==
  IF HeaderFast(r)
  THEN call' = [call EXCEPT ![t] = [NoCall EXCEPT !.r = r]] /\ Goto(t, "count_free")
  ELSE UNCHANGED <<pc, call>>

\* The program frees a pointer it owns.
Free(t) ==
  /\ pc[t] = "idle"
  /\ \E r \in held : held' = held \ {r} /\ FreePointer(t, r)
  /\ UNCHANGED <<kernel, lists, gauges, repeats, quarantined, resets>>

\* The program frees once more a pointer whose free in HardenedDebug has returned.
RepeatFree(t) ==
  /\ pc[t] = "idle" /\ repeats < RepeatLimit
  /\ repeats' = repeats + 1
  /\ \E r \in quarantined : FreePointer(t, r)
  /\ UNCHANGED <<kernel, lists, gauges, held, quarantined, resets>>

\* adaptive_realloc to a larger size, under the mode in the header; a size that fits
\* returns the block unchanged and is no step.  The new block is asked for with the
\* alignment 16: where the old one was mapped for its alignment, a pool may serve it,
\* except in HardenedDebug, which maps everything.
Realloc(t) ==
  /\ pc[t] = "idle"
  /\ \E r \in held, s \in Sizes :
       /\ s > hdr[r].usable
       /\ held' = held \ {r}
       /\ IF HeaderFast(r)
          THEN /\ call' = [call EXCEPT ![t] =
                            [NoCall EXCEPT !.mode = hdr[r].mode, !.size = s, !.old = r]]
               /\ \/ Goto(t, FirstStep(hdr[r].mode))
                  \/ hdr[r].mode # "HardenedDebug" /\ Goto(t, "pool")
          ELSE UNCHANGED <<pc, call>>
  /\ UNCHANGED <<kernel, lists, gauges, repeats, quarantined, resets>>

\* PooledStorage serves the larger block, and the mapping is freed; or it fails, and the
\* program keeps its pointer.
PoolResult(t) ==
  /\ pc[t] = "pool"
  /\ \/ /\ Goto(t, "count_free") /\ UNCHANGED held
        /\ call' = [call EXCEPT ![t] = [NoCall EXCEPT !.r = call[t].old]]
     \/ Finish(t, call[t].old)
  /\ UNCHANGED <<kernel, lists, gauges, repeats, quarantined, resets>>

\* adaptive_telemetry_on_free_begin
CountFree(t) ==
  LET r == call[t].r
  IN /\ pc[t] = "count_free"
     /\ liveGauge' = [liveGauge EXCEPT ![hdr[r].mode] = @ - hdr[r].usable]
     /\ Goto(t, "release")
     /\ UNCHANGED <<kernel, lists, mappedGauge, repeats, held, quarantined, resets, call>>

\* plan_free for a direct mapping, by the mode in the header.
PlanFree(mode) ==
  CASE mode = "HardenedDebug" -> "Quarantine"
    [] mode = "LargeObjectStreaming" -> "Unmap"
    [] OTHER -> "ReturnToCentralPool"

\* push_large_extent_cache takes the extent.
TakesExtent(r) == hdr[r].size <= CacheMax /\ Cardinality(cache) < CacheLimit

\* Mutant: a quarantined region is unregistered, so that its pointer is foreign.
ReleaseUnregisters(t) ==
  LET r == call[t].r
  IN /\ pc[t] = "release"
     /\ registry' = registry \ {r}
     /\ IF PlanFree(hdr[r].mode) = "Quarantine"
        THEN /\ hdr' = [hdr EXCEPT ![r] = [@ EXCEPT !.magic = FALSE]]
             /\ registered' = registered \ {r}
             /\ quarantined' = quarantined \cup {r} /\ Finish(t, call[t].ret)
        ELSE Goto(t, "count_unmapped") /\ UNCHANGED <<hdr, registered, quarantined, call, held>>
     /\ UNCHANGED <<cache, mapped, gauges, repeats, resets>>

\* deallocate up to the point where the mapping is given back: leave the registry, then
\* quarantine (and keep the mapping), cache the extent, or go on to unmap.
Release(t) ==
  LET r == call[t].r
      plan == PlanFree(hdr[r].mode)
  IN /\ pc[t] = "release"
     /\ registry' = registry \ {r}
     /\ IF plan = "Quarantine"
        THEN /\ hdr' = [hdr EXCEPT ![r] = [@ EXCEPT !.magic = FALSE]]
             /\ quarantined' = quarantined \cup {r}
             /\ Finish(t, call[t].ret) /\ UNCHANGED cache
        ELSE IF plan = "Cache" /\ hdr[r].mode = "LargeObjectStreaming" /\ TakesExtent(r)
        THEN /\ hdr' = [hdr EXCEPT ![r] = [@ EXCEPT !.magic = FALSE]]
             /\ cache' = cache \cup {r}
             /\ Finish(t, call[t].ret) /\ UNCHANGED quarantined
        ELSE Goto(t, "count_unmapped") /\ UNCHANGED <<hdr, cache, quarantined, call, held>>
     /\ UNCHANGED <<kernel, gauges, repeats, resets>>

\* Mutant: the unmapped bytes are those the object could use.
CountUnmappedUsable(t) ==
  LET r == call[t].r
  IN /\ pc[t] = "count_unmapped"
     /\ mappedGauge' = [mappedGauge EXCEPT ![hdr[r].mode] = @ - hdr[r].usable]
     /\ Goto(t, "unregister")
     /\ UNCHANGED <<kernel, lists, liveGauge, repeats, held, quarantined, resets, call>>

\* adaptive_telemetry_on_unmapped
CountUnmapped(t) ==
  LET r == call[t].r
  IN /\ pc[t] = "count_unmapped"
     /\ mappedGauge' = [mappedGauge EXCEPT ![hdr[r].mode] = @ - hdr[r].size]
     /\ Goto(t, "unregister")
     /\ UNCHANGED <<kernel, lists, liveGauge, repeats, held, quarantined, resets, call>>

\* Mutant: unregistering unmaps the region too, so that it is unmapped twice.
UnregisterUnmaps(t) ==
  /\ pc[t] = "unregister"
  /\ registered' = registered \ {call[t].r}
  /\ mapped' = [mapped EXCEPT ![call[t].r] = 0]
  /\ Goto(t, "munmap")
  /\ UNCHANGED <<lists, gauges, repeats, held, quarantined, resets, call>>

UnregisterRegion(t) ==
  /\ pc[t] = "unregister"
  /\ registered' = registered \ {call[t].r}
  /\ Goto(t, "munmap")
  /\ UNCHANGED <<mapped, lists, gauges, repeats, held, quarantined, resets, call>>

Munmap(t) ==
  /\ pc[t] = "munmap"
  /\ mapped' = [mapped EXCEPT ![call[t].r] = 0]
  /\ Finish(t, call[t].ret)
  /\ UNCHANGED <<registered, lists, gauges, repeats, quarantined, resets>>

\* adaptive_stats_reset clears the gauges mode by mode in the order of AdaptiveModeId ...
ModeIndex(m) == CASE m = "Balanced" -> 0 [] m = "LargeObjectStreaming" -> 6 [] OTHER -> 7
ClearFrom(t, S) ==
  \E m \in S :
    /\ \A n \in S : ModeIndex(m) <= ModeIndex(n)
    /\ call' = [call EXCEPT ![t] = [@ EXCEPT !.mode = m]]
    /\ Goto(t, "clear_live")

StatsReset(t) ==
  /\ pc[t] = "idle" /\ resets < ResetLimit
  /\ resets' = resets + 1
  /\ ClearFrom(t, Modes)
  /\ UNCHANGED <<kernel, lists, gauges, repeats, held, quarantined>>

\* ... live bytes before mapped bytes.
ClearLive(t) ==
  /\ pc[t] = "clear_live"
  /\ liveGauge' = [liveGauge EXCEPT ![call[t].mode] = 0]
  /\ Goto(t, "clear_mapped")
  /\ UNCHANGED <<kernel, lists, mappedGauge, repeats, held, quarantined, resets, call>>

ClearMapped(t) ==
  LET left == {m \in Modes : ModeIndex(m) > ModeIndex(call[t].mode)}
  IN /\ pc[t] = "clear_mapped"
     /\ mappedGauge' = [mappedGauge EXCEPT ![call[t].mode] = 0]
     /\ IF left = {} THEN Finish(t, NoRegion) ELSE ClearFrom(t, left) /\ UNCHANGED held
     /\ UNCHANGED <<kernel, lists, liveGauge, repeats, quarantined, resets>>

Next ==
  \E t \in Threads :
    \/ Malloc(t) \/ PopExtent(t) \/ Mmap(t) \/ MmapFails(t) \/ RegisterRegion(t) \/ Publish(t)
    \/ CountMapped(t) \/ CountLive(t)
    \/ Free(t) \/ RepeatFree(t) \/ Realloc(t) \/ PoolResult(t) \/ CountFree(t) \/ Release(t)
    \/ CountUnmapped(t) \/ UnregisterRegion(t) \/ Munmap(t)
    \/ StatsReset(t) \/ ClearLive(t) \/ ClearMapped(t)

Spec == Init /\ [][Next]_vars

----------------------------------------------------------------------------
(* Properties                                                               *)

AllIdle == \A t \in Threads : pc[t] = "idle"

\* A pointer the program owns is usable, whatever other threads map, unmap and reuse:
\* its region is mapped, known to the ownership table and headed by a valid header.
HeldIsIntact ==
  \A r \in held : mapped[r] > 0 /\ HeaderFast(r) /\ r \in registry /\ hdr[r].size = mapped[r]

\* Quarantine: a region freed in HardenedDebug stays mapped and owned, and is never handed
\* out again.
QuarantineKept ==
  \A r \in quarantined : mapped[r] > 0 /\ r \in registered /\ r \notin held \cup registry \cup cache

Sum(f(_), S) == MapThenSumSet(f, S)

\* Gauges are current values: until the statistics are reset, and when no call is under
\* way, the mapped and live bytes of each mode are those of its regions; and in the middle
\* of calls too a mode's live bytes are not negative and within its mapped bytes.
GaugesAreCurrent ==
  resets = 0 => \A m \in Modes :
    /\ AllIdle =>
         /\ mappedGauge[m] = Sum(LAMBDA r : mapped[r], {r \in Regions : hdr[r].mode = m})
         /\ liveGauge[m] = Sum(LAMBDA r : hdr[r].usable, {r \in held : hdr[r].mode = m})
    /\ 0 <= liveGauge[m] /\ liveGauge[m] <= mappedGauge[m]

=============================================================================
