--------------------------- MODULE RequestSizing ---------------------------
(***************************************************************************)
(* What a request of the adaptive allocator becomes: the plan of the       *)
(* active mode (src/adaptive_modes.cpp), the storage that serves it, its   *)
(* size class, the layout of a pool page or of a direct mapping            *)
(* (src/adaptive_services.cpp) and the rounding of an alignment            *)
(* (src/adaptive_allocator.cpp).  All of it is arithmetic on size_t, which *)
(* wraps at Word.  Who holds which block is PooledStorage's subject and    *)
(* DirectMapping's; here every call finds empty pools and maps afresh.     *)
(***************************************************************************)
EXTENDS Integers

CONSTANTS
  Word,             \* SIZE_MAX + 1
  Powers,           \* the powers of two a size_t can hold
  Sizes, Alignments, Modes,   \* what callers ask for, and in which mode
  Regions,          \* page-aligned addresses mmap may choose
  small_page_size,  \* of AdaptiveRuntimeConfig
  SpanSizes         \* what MY_MALLOC_ADAPTIVE_MEDIUM_SPAN_SIZE may set, page-aligned

Hdr == 112          \* ADAPTIVE_HDR_OFFSET
Redzone == 16       \* ADAPTIVE_DEBUG_REDZONE_SIZE
PageSize == 4096
SmallMax == 1024
MediumMax == 65536
SmallStep == 16
MediumStep == 1024
PageStruct == 64    \* sizeof(AdaptivePage)

AllModes == {"Balanced", "ThroughputCache", "DeterministicLatency", "CompactRSS",
             "FragmentationStable", "CrossThreadMessage", "LargeObjectStreaming",
             "HardenedDebug"}

ASSUME SizingConstants ==
  /\ Word \in Nat /\ Word > 256 * 1024
  /\ Sizes \subseteq 0 .. Word - 1 /\ Alignments \subseteq 0 .. Word - 1
  /\ Modes \subseteq AllModes
  /\ Regions \subseteq {r \in 0 .. Word - 1 : r % PageSize = 0}
  /\ small_page_size \in Nat /\ small_page_size >= 16 * 1024
  /\ SpanSizes \subseteq {n \in Nat : n >= 64 * 1024}

\* 1 is a power of two, the largest is half of Word, and half of any other is one.
ASSUME PowersAssumption ==
  /\ Powers \subseteq Nat \ {0}
  /\ 1 \in Powers
  /\ \E p \in Powers : 2 * p = Word
  /\ \A p \in Powers : p = 1 \/ \E q \in Powers : p = 2 * q

VARIABLES
  medium_span_size,  \* of AdaptiveRuntimeConfig, read once from the environment
  req,   \* the call in progress: size, alignment, mode, region mmap would return
  res    \* the storage it was served from and the blocks laid out there

sizingVars == <<medium_span_size, req, res>>

Idle == [mode |-> "none", size |-> 0, align |-> 0, region |-> 0]
Failed == [storage |-> "none", index |-> 0, usable |-> 0, mapped |-> 0,
           first |-> 0, stride |-> 0, count |-> 0]
Requests == [mode : Modes, size : Sizes, align : Alignments, region : Regions]
Results == [storage : {"none", "SizeClass", "Span", "DirectMap"}, index : Nat, usable : Nat,
            mapped : Nat, first : Nat, stride : Nat, count : Nat]

SizingTypeOK ==
  medium_span_size \in SpanSizes /\ req \in Requests \cup {Idle} /\ res \in Results
-----------------------------------------------------------------------------
(* The arithmetic of the layer.                                            *)

AlignUp(v, a) == LET s == (v + a - 1) % Word IN s - (s % a)

AtLeastOne(size) == IF size = 0 THEN 1 ELSE size

CanRound(size) == AtLeastOne(size) <= Word - 1 - 15
RoundUsable(size) == AlignUp(AtLeastOne(size), 16)

SmallUsable(size) == AlignUp(AtLeastOne(size), SmallStep)

SmallIndex(size) == (SmallUsable(size) \div SmallStep) - 1

MediumUsable(size) == AlignUp(IF size <= SmallMax THEN SmallMax + 1 ELSE size, MediumStep)

\* Two classes to a bin.
MediumIndexCoarse(size) == (MediumUsable(size) - SmallMax) \div (2 * MediumStep)

MediumIndex(size) == ((MediumUsable(size) - SmallMax) \div MediumStep) - 1

First == AlignUp(PageStruct, 16)

\* The header of a block forgotten in the distance between blocks.
StrideNoHeader(usable) == AlignUp(usable, 16)

Stride(usable) == AlignUp(Hdr + usable, 16)

\* The page's own struct forgotten in the number of blocks.
CapacityNoHeader(mapped, usable) == mapped \div Stride(usable)

\* One block too few.
CapacityLessOne(mapped, usable) == ((mapped - First) \div Stride(usable)) - 1

Capacity(mapped, usable) == (mapped - First) \div Stride(usable)

\* What adaptive_memalign makes of an alignment above 16: the least power of
\* two not below it, 0 when size_t has none.
RoundedAlignment(a) ==
  IF \E p \in Powers : p >= a
  THEN CHOOSE p \in Powers : p >= a /\ \A q \in Powers : q >= a => p <= q
  ELSE 0
-----------------------------------------------------------------------------
(* The plans of the eight modes: only the storage they prefer matters      *)
(* here, and prefer_direct_map is set exactly when that is DirectMap.      *)

AutoPlan(align) == IF align > 16 THEN "DirectMap" ELSE "Auto"

ThroughputPlan(size, align) ==
  IF align > 16 THEN "DirectMap"
  ELSE IF size <= 1024 THEN "SizeClass"
  ELSE IF size <= 64 * 1024 THEN "Span" ELSE "Auto"

CompactPlan(size, align) == IF align > 16 \/ size > 96 * 1024 THEN "DirectMap" ELSE "Auto"

fragmentation_prefers_direct(size, align) ==
  \/ align > 16 \/ size >= 96 * 1024
  \/ /\ size > 1024 /\ size <= 64 * 1024
     /\ AlignUp(size, 1024) > size
     /\ size >= 16 * 1024
     /\ (AlignUp(size, 1024) - size) * 100 >= size * 20

FragmentationPlan(size, align) ==
  IF fragmentation_prefers_direct(size, align) THEN "DirectMap" ELSE "Auto"

LargePlan(size, align) == IF align > 16 \/ size >= 4 * 1024 THEN "DirectMap" ELSE "SizeClass"

PlanStorage(mode, size, align) ==
  CASE mode = "ThroughputCache"      -> ThroughputPlan(size, align)
    [] mode = "CompactRSS"           -> CompactPlan(size, align)
    [] mode = "FragmentationStable"  -> FragmentationPlan(size, align)
    [] mode = "LargeObjectStreaming" -> LargePlan(size, align)
    [] mode = "HardenedDebug"        -> "DirectMap"
    [] OTHER                         -> AutoPlan(align)

AutoStorage(plan, size, align) ==
  IF align > 16 \/ plan = "DirectMap" THEN "DirectMap"
  ELSE IF size <= SmallMax THEN "SizeClass"
  ELSE IF size <= MediumMax THEN "Span" ELSE "DirectMap"

\* allocate_size_class and allocate_span fall back to allocate_auto.
ServedFrom(plan, size, align) ==
  IF \/ plan = "DirectMap"
     \/ plan = "SizeClass" /\ align <= 16 /\ size <= SmallMax
     \/ plan = "Span" /\ align <= 16 /\ size > SmallMax /\ size <= MediumMax
  THEN plan
  ELSE AutoStorage(plan, size, align)
-----------------------------------------------------------------------------
(* Serving a request.  mmap, the kernel's, finds room at the region or     *)
(* fails.                                                                  *)

Fits(region, mapped) == region + mapped <= Word

PoolPage(storage, index, usable, mapped, region) ==
  IF First >= mapped \/ Capacity(mapped, usable) = 0 \/ ~Fits(region, mapped)
  THEN Failed
  ELSE [storage |-> storage, index |-> index, usable |-> usable, mapped |-> mapped,
        first |-> First, stride |-> Stride(usable), count |-> Capacity(mapped, usable)]

DirectTotal(size, align, redzone) ==
  Hdr + RoundUsable(size) + redzone + (IF align > 16 THEN align ELSE 0)

\* The chain of early returns of allocate_direct_map, each before the sum
\* that would wrap.
DirectOverflows(size, align, redzone) ==
  \/ ~CanRound(size)
  \/ RoundUsable(size) > Word - 1 - Hdr
  \/ redzone > Word - 1 - (Hdr + RoundUsable(size))
  \/ (IF align > 16 THEN align ELSE 0) > Word - 1 - (Hdr + RoundUsable(size) + redzone)
  \/ DirectTotal(size, align, redzone) > Word - 1 - (PageSize - 1)

\* Every mapping starts at its region, aligned or not.
UserUnaligned(region, align) == region + Hdr

UserAddress(region, align) ==
  IF align > 16 THEN AlignUp(region + Hdr, align) ELSE region + Hdr

MapDirect(size, align, redzone, region) ==
  LET mapped == AlignUp(DirectTotal(size, align, redzone), PageSize)
  IN IF DirectOverflows(size, align, redzone) \/ ~Fits(region, mapped)
     THEN Failed
     ELSE [storage |-> "DirectMap", index |-> 0, usable |-> RoundUsable(size),
           mapped |-> mapped, first |-> UserAddress(region, align) - Hdr - region,
           stride |-> 0, count |-> 1]

Allocate(mode, size, align, region) ==
  LET from == ServedFrom(PlanStorage(mode, size, align), size, align)
  IN CASE from = "SizeClass" ->
            PoolPage(from, SmallIndex(size), SmallUsable(size), small_page_size, region)
       [] from = "Span" ->
            PoolPage(from, MediumIndex(size), MediumUsable(size), medium_span_size, region)
       [] OTHER ->
            MapDirect(size, align, IF mode = "HardenedDebug" THEN Redzone ELSE 0, region)

\* adaptive_malloc is adaptive_memalign with an alignment of at most 16.
Memalign(mode, size, a, region) ==
  IF a <= 16 THEN Allocate(mode, size, 16, region)
  ELSE IF RoundedAlignment(a) = 0 THEN Failed
  ELSE Allocate(mode, size, RoundedAlignment(a), region)

Call(mode, size, a, region) ==
  /\ req = Idle
  /\ req' = [mode |-> mode, size |-> size, align |-> a, region |-> region]
  /\ res' = Memalign(mode, size, a, region)
  /\ UNCHANGED medium_span_size

Return ==
  /\ req # Idle
  /\ req' = Idle /\ res' = Failed
  /\ UNCHANGED medium_span_size

SizingInit == medium_span_size \in SpanSizes /\ req = Idle /\ res = Failed
SizingNext ==
  \/ \E m \in Modes, s \in Sizes, a \in Alignments, r \in Regions : Call(m, s, a, r)
  \/ Return
SizingSpec == SizingInit /\ [][SizingNext]_sizingVars
-----------------------------------------------------------------------------
(* What the arithmetic must deliver.                                       *)

Served == res.storage # "none"

\* The user addresses of the blocks laid out for the request.
Users == {req.region + res.first + Hdr + i * res.stride : i \in 0 .. res.count - 1}

\* Bytes after a block that belong to it: write_debug_guards fills them.
Guards == IF req.mode = "HardenedDebug" THEN Redzone ELSE 0

\* Every block of the page or mapping made for a request starts after its own
\* header, ends, redzone included, inside what was mapped, and has at least the
\* bytes asked for (allocate_direct_map, create_pool_page).
BlockFits ==
  Served => /\ res.usable >= req.size /\ res.usable >= 1
            /\ \A u \in Users :
                 /\ u - Hdr >= req.region
                 /\ u + res.usable + Guards <= req.region + res.mapped

\* No block's header begins before the block in front of it ends.
BlocksApart == res.count > 1 => res.usable + Hdr <= res.stride

\* A block is aligned as adaptive_memalign was asked to align it, and to 16.
Aligned ==
  Served => \A u \in Users :
              /\ u % 16 = 0
              /\ req.align > 16 => u % RoundedAlignment(req.align) = 0

\* Any two sizes with one class index have one usable size, and the index is
\* one of the 64 small or 63 medium bins: a cached block of the class fits all
\* of them (pop_tcache and pool_head_for look only at the index).
ClassIsExact ==
  /\ res.storage = "SizeClass" =>
       /\ res.index \in 0 .. 63
       /\ \A s \in Sizes : s <= SmallMax /\ SmallIndex(s) = res.index => s <= res.usable
  /\ res.storage = "Span" =>
       /\ res.index \in 0 .. 62
       /\ \A s \in Sizes : /\ s > SmallMax /\ s <= MediumMax
                           /\ MediumIndex(s) = res.index
                           => s <= res.usable

\* A request is refused only when it, twice its alignment and the bookkeeping
\* do not fit between the region and the end of the address space, when a pool
\* page does not fit there, or in the last medium class when a span is too
\* short for one block of it: init_once accepts spans of 64 KiB, and the block
\* with its header and the page's struct takes 176 bytes more.  No sum wraps,
\* and every other class has a block in every span init_once accepts.
RefusedOnlyWhenFull ==
  req # Idle /\ ~Served =>
    \/ req.size + 2 * req.align + 2 * PageSize > Word - req.region
    \/ small_page_size > Word - req.region
    \/ medium_span_size > Word - req.region
    \/ /\ req.size > MediumMax - MediumStep /\ req.size <= MediumMax
       /\ medium_span_size < PageStruct + Hdr + MediumMax

\* FragmentationStable keeps medium objects out of direct mappings: its waste
\* test, which would send some there, is never true above its floor of 16 KiB.
MediumStaysInSpan ==
  /\ Served /\ req.mode = "FragmentationStable" /\ req.align <= 16
  /\ req.size > SmallMax /\ req.size <= MediumMax
  => res.storage = "Span"
=============================================================================
