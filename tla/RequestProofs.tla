--------------------------- MODULE RequestProofs ---------------------------
(***************************************************************************)
(* What becomes of a request: the layout of the memory that serves it      *)
(* (RequestSizing), and which allocator serves it and takes its pointer    *)
(* back (PreloadHooks).                                                    *)
(*                                                                         *)
(* RequestSizing, for every word size, configuration, size, alignment and  *)
(* address.  A state holds a call and its outcome, so the inductive        *)
(* invariant says just that; the work is in the lemmas on rounding, on the *)
(* capacity of a page and on the direct mapping's sums.                    *)
(*                                                                         *)
(* PreloadHooks, for every size of the buffer and the table, every set of  *)
(* request sizes and every pair of heaps: each allocator gets back only    *)
(* its own pointers, and the table of libc pointers is exact.              *)
(***************************************************************************)
EXTENDS RequestSizing, PreloadHooks, WellFoundedInduction, TLAPS

\* The outcome on record is the outcome of the call on record, under one of the
\* span sizes the environment may set.
Consistent ==
  /\ medium_span_size \in SpanSizes
  /\ \/ req = Idle /\ res = Failed
     \/ /\ req \in Requests
        /\ res = Memalign(req.mode, req.size, req.align, req.region)

\* Call records its own outcome and Return clears both, so the two never
\* drift apart (adaptive_malloc and adaptive_memalign).
LEMMA Consistency == SizingSpec => []Consistent
<1>1. SizingInit => Consistent
  BY DEF SizingInit, Consistent
<1>2. Consistent /\ [SizingNext]_sizingVars => Consistent'
  <2> SUFFICES ASSUME Consistent, [SizingNext]_sizingVars PROVE Consistent'
    OBVIOUS
  <2>1. CASE \E m \in Modes, s \in Sizes, a \in Alignments, r \in Regions : Call(m, s, a, r)
    <3>1. PICK m \in Modes, s \in Sizes, a \in Alignments, r \in Regions : Call(m, s, a, r)
      BY <2>1
    <3>2. /\ req' = [mode |-> m, size |-> s, align |-> a, region |-> r]
          /\ res' = Memalign(m, s, a, r)
          /\ medium_span_size' = medium_span_size
      BY <3>1 DEF Call
    <3>3. req' \in Requests
      BY <3>2 DEF Requests
    <3>4. res' = Memalign(req.mode, req.size, req.align, req.region)'
      BY <3>2 DEF Memalign, Allocate
    <3> QED BY <3>2, <3>3, <3>4 DEF Consistent
  <2>2. CASE Return
    BY <2>2 DEF Return, Consistent
  <2>3. CASE UNCHANGED sizingVars
    BY <2>3 DEF sizingVars, Consistent, Memalign, Allocate
  <2> QED BY <2>1, <2>2, <2>3 DEF SizingNext
<1> QED BY <1>1, <1>2, PTL DEF SizingSpec
-----------------------------------------------------------------------------
(* Rounding.                                                               *)

\* Sizes, alignments and addresses are size_t values.
LEMMA InputsAreNat ==
  /\ \A s \in Sizes : s \in Nat
  /\ \A a \in Alignments : a \in Nat
  /\ \A r \in Regions : r \in Nat
  /\ \A p \in Powers : p \in Nat /\ p >= 1
<1>1. \A s \in Sizes : s \in Nat
  BY SizingConstants
<1>2. \A a \in Alignments : a \in Nat
  BY SizingConstants
<1>3. \A r \in Regions : r \in Nat
  BY SizingConstants
<1>4. \A p \in Powers : p \in Nat /\ p >= 1
  <2>1. Powers \subseteq Nat \ {0}
    BY PowersAssumption
  <2> QED BY <2>1
<1> QED BY <1>1, <1>2, <1>3, <1>4

\* Division with remainder, for a divisor that is not a literal.
LEMMA Remainder ==
  ASSUME NEW s \in Nat, NEW a \in Nat \ {0}
  PROVE  /\ s % a \in 0 .. a - 1
         /\ s \div a \in Nat
         /\ s = a * (s \div a) + (s % a)
BY Z3

\* A sum below Word does not wrap.
LEMMA NoWrap ==
  ASSUME NEW v \in Nat, v < Word
  PROVE  v % Word = v
BY SizingConstants

\* align_up rounds to a multiple of a, up, by less than a, unless the sum wraps.
LEMMA AlignUpBounds ==
  ASSUME NEW v \in Nat, NEW a \in Nat \ {0}, v + a - 1 < Word
  PROVE  /\ AlignUp(v, a) \in Nat
         /\ AlignUp(v, a) >= v
         /\ AlignUp(v, a) <= v + a - 1
         /\ \E k \in Nat : AlignUp(v, a) = a * k
<1>0. Word \in Nat
  BY SizingConstants
<1> DEFINE s == v + a - 1
<1>1. s \in Nat /\ s < Word
  BY <1>0
<1>2. s % Word = s
  BY <1>0, <1>1
<1>3. AlignUp(v, a) = s - (s % a)
  BY <1>2 DEF AlignUp
<1>4. s % a \in 0 .. a - 1 /\ s \div a \in Nat /\ s = a * (s \div a) + (s % a)
  BY <1>1, Remainder, Zenon
<1>5. AlignUp(v, a) = a * (s \div a)
  <2>1. a * (s \div a) \in Nat
    BY <1>4
  <2> QED BY <1>3, <1>4, <2>1
<1> HIDE DEF s
<1>6. s = v + a - 1
  BY DEF s
<1> QED BY <1>1, <1>3, <1>4, <1>5, <1>6

\* The least power of two not below an alignment exists unless the alignment
\* is above half the word, and is below twice the alignment.
LEMMA Rounding ==
  ASSUME NEW a \in Nat, a >= 2
  PROVE  \/ RoundedAlignment(a) = 0 /\ 2 * a > Word
         \/ /\ RoundedAlignment(a) \in Powers
            /\ RoundedAlignment(a) >= a
            /\ RoundedAlignment(a) < 2 * a
<1>0. Word \in Nat /\ Powers \subseteq Nat
  BY SizingConstants, PowersAssumption
<1>1. CASE ~ \E p \in Powers : p >= a
  <2>1. PICK p \in Powers : 2 * p = Word
    BY PowersAssumption
  <2>2. p < a
    BY <1>0, <1>1, <2>1
  <2> QED BY <1>0, <1>1, <2>1, <2>2 DEF RoundedAlignment
<1>2. CASE \E p \in Powers : p >= a
  <2> DEFINE T == {p \in Powers : p >= a}
  <2>1. T \subseteq Nat /\ T # {}
    BY <1>0, <1>2, Zenon
  <2>2. \E x \in T : \A y \in T : ~ (<<y, x>> \in OpToRel(<, Nat))
    BY <2>1, NatLessThanWellFounded, WFMin
  <2>3. PICK x \in T : \A y \in T : ~ (<<y, x>> \in OpToRel(<, Nat))
    BY <2>2
  <2>4. ASSUME NEW y \in T, y < x PROVE FALSE
    <3>1. <<y, x>> \in {ss \in Nat \X Nat : ss[1] < ss[2]}
      BY <2>1, <2>4
    <3>2. <<y, x>> \in OpToRel(<, Nat)
      BY <3>1, Zenon DEF OpToRel
    <3> QED BY <2>3, <3>2, Zenon
  <2>5. \E p \in Powers : p >= a /\ \A q \in Powers : q >= a => p <= q
    <3>1. x \in Powers /\ x >= a /\ x \in Nat
      BY <1>0, <2>3
    <3>2. ASSUME NEW q \in Powers, q >= a PROVE x <= q
      <4>1. q \in T /\ q \in Nat
        BY <1>0, <3>2
      <4>2. ~ (q < x)
        BY <2>4, <4>1
      <4> QED BY <3>1, <4>1, <4>2
    <3> QED BY <3>1, <3>2
  <2>6. /\ RoundedAlignment(a) \in Powers /\ RoundedAlignment(a) >= a
        /\ \A q \in Powers : q >= a => RoundedAlignment(a) <= q
    BY <1>2, <2>5 DEF RoundedAlignment
  <2>7. RoundedAlignment(a) # 1
    BY <2>6, <1>0
  <2>8. PICK q \in Powers : RoundedAlignment(a) = 2 * q
    BY <2>6, <2>7, PowersAssumption, Zenon
  <2>9. q < a
    BY <2>6, <2>8, <1>0, PowersAssumption
  <2> QED BY <2>6, <2>8, <2>9, <1>0
<1> QED BY <1>1, <1>2

\* A power of two above 16 is a multiple of 16.
LEMMA PowerIsMultiple ==
  ASSUME NEW p \in Powers, p > 16
  PROVE  \E m \in Nat : p = 16 * m
<1>0. Powers \subseteq Nat
  BY PowersAssumption
<1>1. PICK q \in Powers : p = 2 * q
  BY PowersAssumption
<1>2. PICK r \in Powers : q = 2 * r
  BY <1>0, <1>1, PowersAssumption
<1>3. PICK s \in Powers : r = 2 * s
  BY <1>0, <1>1, <1>2, PowersAssumption
<1>4. PICK t \in Powers : s = 2 * t
  BY <1>0, <1>1, <1>2, <1>3, PowersAssumption
<1>5. t \in Nat /\ p = 16 * t
  BY <1>0, <1>1, <1>2, <1>3, <1>4
<1> QED BY <1>5
-----------------------------------------------------------------------------
(* Size classes.                                                           *)

\* small_class: 64 bins, each the 16 sizes up to its usable size.
LEMMA SmallClass ==
  ASSUME NEW s \in Nat, s <= SmallMax
  PROVE  /\ SmallIndex(s) \in 0 .. 63
         /\ SmallUsable(s) = 16 * (SmallIndex(s) + 1)
         /\ s <= SmallUsable(s) /\ SmallUsable(s) >= 16 /\ SmallUsable(s) <= SmallMax
<1>1. Word \in Nat /\ Word > 256 * 1024
  BY SizingConstants
<1>2. AtLeastOne(s) \in 1 .. 1024 /\ s <= AtLeastOne(s)
  BY DEF AtLeastOne, SmallMax
<1> DEFINE w == AtLeastOne(s)
<1>3. (w + 15) % Word = w + 15
  <2>1. w + 15 \in Nat /\ w + 15 < Word
    BY <1>1, <1>2
  <2> QED BY <2>1, NoWrap
<1>4. SmallUsable(s) = (w + 15) - ((w + 15) % 16)
  <2>1. w + 16 - 1 = w + 15
    BY <1>2
  <2> QED BY <1>3, <2>1 DEF SmallUsable, AlignUp, SmallStep
<1> HIDE DEF w
<1>5. w \in 1 .. 1024 /\ s <= w
  BY <1>2 DEF w
<1> QED BY <1>4, <1>5 DEF SmallIndex, SmallStep, SmallMax

\* medium_class: 63 bins, each the 1024 sizes up to its usable size.
LEMMA MediumClass ==
  ASSUME NEW s \in Nat, s > SmallMax, s <= MediumMax
  PROVE  /\ MediumIndex(s) \in 0 .. 62
         /\ MediumUsable(s) = 1024 * (MediumIndex(s) + 2)
         /\ s <= MediumUsable(s) /\ MediumUsable(s) <= MediumMax
         /\ MediumUsable(s) < s + 1024
<1>1. Word \in Nat /\ Word > 256 * 1024
  BY SizingConstants
<1>2. MediumUsable(s) = (s + 1023) - ((s + 1023) % 1024)
  BY <1>1 DEF MediumUsable, AlignUp, MediumStep, SmallMax, MediumMax
<1> QED BY <1>2 DEF MediumIndex, MediumStep, SmallMax, MediumMax
-----------------------------------------------------------------------------
(* Pool pages.                                                             *)

\* create_pool_page: blocks of a rounded size follow each other at the length
\* of header and block, after a page struct of 64 bytes.
LEMMA PageLayout ==
  ASSUME NEW usable \in Nat, usable <= MediumMax, usable % 16 = 0
  PROVE  First = 64 /\ Stride(usable) = Hdr + usable
<1>1. Word \in Nat /\ Word > 256 * 1024
  BY SizingConstants
<1>2. 79 % Word = 79
  BY <1>1, NoWrap
<1>3. First = 64
  BY <1>2 DEF First, AlignUp, PageStruct
<1>4. 127 + usable \in Nat /\ 127 + usable < Word
  BY <1>1 DEF MediumMax
<1>5. (127 + usable) % Word = 127 + usable
  BY <1>4, NoWrap
<1>6. Stride(usable) = (127 + usable) - ((127 + usable) % 16)
  <2>1. 112 + usable + 16 - 1 = 127 + usable
    OBVIOUS
  <2> QED BY <1>5, <2>1 DEF Stride, AlignUp, Hdr
<1>7. (127 + usable) % 16 = 15
  OBVIOUS
<1>8. Stride(usable) = 112 + usable
  BY <1>6, <1>7
<1> QED BY <1>3, <1>8 DEF Hdr

\* As many blocks as create_pool_page counts end inside the page.
LEMMA PageHolds ==
  ASSUME NEW usable \in Nat, usable <= MediumMax, usable % 16 = 0,
         NEW mapped \in Nat, mapped > First,
         NEW i \in 0 .. Capacity(mapped, usable) - 1
  PROVE  /\ Capacity(mapped, usable) \in Nat
         /\ i * Stride(usable) \in Nat
         /\ First + i * Stride(usable) + Hdr + usable <= mapped
<1> DEFINE d == Stride(usable)
           c == Capacity(mapped, usable)
           room == mapped - First
<1>1. First = 64 /\ d = 112 + usable
  BY PageLayout DEF Hdr
<1>2. d \in Nat \ {0} /\ room \in Nat
  BY <1>1
<1>3. c = room \div d
  BY DEF Capacity
<1>4. room % d \in 0 .. d - 1 /\ c \in Nat /\ room = d * c + (room % d)
  BY <1>2, <1>3, Remainder, Zenon
<1> HIDE DEF d, c, room
<1>5. i \in Nat /\ i + 1 <= c
  BY <1>4 DEF c
<1>6. PICK j \in Nat : c = i + 1 + j
  <2>1. c - (i + 1) \in Nat /\ c = i + 1 + (c - (i + 1))
    BY <1>4, <1>5
  <2> QED BY <2>1
<1>7. d * c = d * i + d + d * j
  BY <1>2, <1>5, <1>6
<1>8. d * i \in Nat /\ d * j \in Nat /\ d * c \in Nat
  BY <1>2, <1>4, <1>5, <1>6
<1>9. d * i + d <= room
  BY <1>2, <1>4, <1>7, <1>8
<1>10. i * d = d * i
  BY <1>2, <1>5
<1>11. room = mapped - 64 /\ d = 112 + usable
  BY <1>1 DEF room
<1>12. 64 + i * d + 112 + usable <= mapped
  BY <1>8, <1>9, <1>10, <1>11
<1> QED BY <1>1, <1>4, <1>8, <1>10, <1>12 DEF c, d, Hdr
-----------------------------------------------------------------------------
(* Direct mappings.                                                        *)

\* Past the early returns of allocate_direct_map no sum wraps: the mapping is
\* at least the total, and the aligned block ends inside it.
LEMMA DirectFits ==
  ASSUME NEW size \in Sizes, NEW align \in Nat, align >= 1, NEW redzone \in {0, Redzone},
         NEW region \in Regions, ~DirectOverflows(size, align, redzone),
         Fits(region, AlignUp(DirectTotal(size, align, redzone), PageSize))
  PROVE  LET r == MapDirect(size, align, redzone, region)
         IN /\ r.usable \in Nat /\ r.usable >= size /\ r.usable >= 1
            /\ r.mapped \in Nat
            /\ r.first \in Nat
            /\ r.first + Hdr + r.usable + redzone <= r.mapped
            /\ region + r.first + Hdr = UserAddress(region, align)
            /\ align > 16 => region + Hdr + align - 1 < Word
<1> DEFINE u == RoundUsable(size)
           slack == IF align > 16 THEN align ELSE 0
           total == DirectTotal(size, align, redzone)
           mapped == AlignUp(total, PageSize)
           user == UserAddress(region, align)
<1>1. Word \in Nat /\ size \in Nat /\ region \in Nat /\ redzone \in Nat /\ slack \in Nat
  BY SizingConstants DEF Redzone
<1>2. u \in Nat /\ u >= AtLeastOne(size) /\ AtLeastOne(size) >= size /\ AtLeastOne(size) >= 1
  <2>1. AtLeastOne(size) \in Nat /\ AtLeastOne(size) >= 1 /\ AtLeastOne(size) >= size
    BY <1>1 DEF AtLeastOne
  <2>2. AtLeastOne(size) + 16 - 1 < Word
    BY <1>1, <2>1 DEF DirectOverflows, CanRound
  <2>3. u \in Nat /\ u >= AtLeastOne(size)
    BY <2>1, <2>2, AlignUpBounds DEF RoundUsable
  <2> QED BY <2>1, <2>3
<1>3. u >= size /\ u >= 1
  <2>1. AtLeastOne(size) \in Nat
    BY <1>1 DEF AtLeastOne
  <2> QED BY <1>1, <1>2, <2>1
<1>4. total = 112 + u + redzone + slack
  BY DEF DirectTotal, Hdr
<1>5. total \in Nat /\ total <= Word - 4096
  <2>1. ~ (total > Word - 1 - (PageSize - 1))
    BY DEF DirectOverflows
  <2> HIDE DEF u, total, slack
  <2>2. total \in Nat
    BY <1>1, <1>2, <1>4
  <2> QED BY <1>1, <2>1, <2>2 DEF PageSize
<1>6. mapped \in Nat /\ mapped >= total
  <2>1. total + PageSize - 1 < Word
    <3> HIDE DEF total
    <3> QED BY <1>1, <1>5 DEF PageSize
  <2>2. PageSize \in Nat \ {0}
    BY DEF PageSize
  <2> HIDE DEF total
  <2> QED BY <1>5, <2>1, <2>2, AlignUpBounds
<1>7. region + mapped <= Word
  BY DEF Fits
<1>8. MapDirect(size, align, redzone, region) =
        [storage |-> "DirectMap", index |-> 0, usable |-> u, mapped |-> mapped,
         first |-> user - Hdr - region, stride |-> 0, count |-> 1]
  BY DEF MapDirect
<1> HIDE DEF u, total, mapped
<1>9. CASE align > 16
  <2>1. slack = align
    BY <1>9
  <2>2. region + 112 + align - 1 < Word
    BY <1>1, <1>2, <1>4, <1>5, <1>6, <1>7, <2>1
  <2>3. region + 112 \in Nat /\ align \in Nat \ {0}
    BY <1>1
  <2>4. user = AlignUp(region + 112, align)
    BY <1>9 DEF UserAddress, Hdr
  <2>5. user \in Nat /\ user >= region + 112 /\ user <= region + 112 + align - 1
    BY <2>2, <2>3, <2>4, AlignUpBounds
  <2> HIDE DEF user, slack
  <2>6. user - 112 - region \in Nat
    BY <1>1, <2>5
  <2>7. (user - 112 - region) + 112 + u + redzone <= mapped
    BY <1>1, <1>2, <1>4, <1>5, <1>6, <2>1, <2>5
  <2>8. region + (user - 112 - region) + 112 = user
    BY <1>1, <2>5
  <2> QED BY <1>2, <1>3, <1>6, <1>8, <2>2, <2>6, <2>7, <2>8 DEF Hdr, user
<1>10. CASE ~(align > 16)
  <2>1. user = region + 112
    BY <1>10 DEF UserAddress, Hdr
  <2>2. slack = 0
    BY <1>10
  <2> HIDE DEF user, slack
  <2>3. user - 112 - region = 0
    BY <1>1, <2>1
  <2>4. 0 + 112 + u + redzone <= mapped
    BY <1>1, <1>2, <1>4, <1>5, <1>6, <2>2
  <2>5. region + 0 + 112 = user
    BY <1>1, <2>1
  <2> QED BY <1>2, <1>3, <1>6, <1>8, <1>10, <2>3, <2>4, <2>5 DEF Hdr, user
<1> QED BY <1>9, <1>10

-----------------------------------------------------------------------------
(* From the plan to the outcome.                                           *)

\* A call in progress has inputs of their types and its own outcome.
LEMMA InProgress ==
  ASSUME Consistent, req # Idle \/ Served
  PROVE  /\ req.mode \in Modes /\ req.size \in Sizes /\ req.align \in Nat
         /\ req.region \in Regions /\ req.region \in Nat /\ req.size \in Nat
         /\ res = Memalign(req.mode, req.size, req.align, req.region)
         /\ medium_span_size \in Nat
<1>1. req \in Requests /\ res = Memalign(req.mode, req.size, req.align, req.region)
  BY DEF Consistent, Served, Failed
<1>2. /\ req.mode \in Modes /\ req.size \in Sizes
      /\ req.align \in Alignments /\ req.region \in Regions
  BY <1>1 DEF Requests
<1>3. medium_span_size \in Nat
  BY SizingConstants DEF Consistent
<1> QED BY <1>1, <1>2, <1>3, InputsAreNat

\* adaptive_memalign passes on 16 or a power of two below twice the alignment.
LEMMA AlignmentPassed ==
  ASSUME NEW mode, NEW size, NEW a \in Nat, NEW region
  PROVE  \/ a <= 16 /\ Memalign(mode, size, a, region) = Allocate(mode, size, 16, region)
         \/ /\ a > 16 /\ RoundedAlignment(a) \in Powers
            /\ RoundedAlignment(a) \in Nat
            /\ RoundedAlignment(a) >= a /\ RoundedAlignment(a) < 2 * a
            /\ Memalign(mode, size, a, region) = Allocate(mode, size, RoundedAlignment(a), region)
         \/ a > 16 /\ 2 * a > Word /\ Memalign(mode, size, a, region) = Failed
<1>1. CASE a <= 16
  BY <1>1 DEF Memalign
<1>2. CASE a > 16
  <2>1. a >= 2 /\ ~(a <= 16)
    BY <1>2
  <2>2. \/ RoundedAlignment(a) = 0 /\ 2 * a > Word
        \/ /\ RoundedAlignment(a) \in Powers
           /\ RoundedAlignment(a) >= a /\ RoundedAlignment(a) < 2 * a
    BY <2>1, Rounding
  <2>3. RoundedAlignment(a) \in Powers => RoundedAlignment(a) \in Nat /\ RoundedAlignment(a) # 0
    BY InputsAreNat
  <2> QED BY <1>2, <2>1, <2>2, <2>3 DEF Memalign
<1> QED BY <1>1, <1>2

Zone(mode) == IF mode = "HardenedDebug" THEN Redzone ELSE 0

\* Whatever the mode plans, a request ends in a pool of its own size range or
\* in a direct mapping (allocate_with_active_mode, allocate_auto).
LEMMA Routes ==
  ASSUME NEW mode \in Modes, NEW size \in Sizes, NEW align \in Nat, NEW region \in Regions
  PROVE  \/ /\ size <= SmallMax /\ align <= 16 /\ mode # "HardenedDebug"
            /\ Allocate(mode, size, align, region) =
                 PoolPage("SizeClass", SmallIndex(size), SmallUsable(size),
                          small_page_size, region)
         \/ /\ size > SmallMax /\ size <= MediumMax /\ align <= 16 /\ mode # "HardenedDebug"
            /\ Allocate(mode, size, align, region) =
                 PoolPage("Span", MediumIndex(size), MediumUsable(size),
                          medium_span_size, region)
         \/ Allocate(mode, size, align, region) = MapDirect(size, align, Zone(mode), region)
<1> DEFINE plan == PlanStorage(mode, size, align)
           from == ServedFrom(plan, size, align)
<1>0. size \in Nat
  BY SizingConstants
<1>1. plan \in {"DirectMap", "SizeClass", "Span", "Auto"}
  BY DEF PlanStorage, ThroughputPlan, CompactPlan, FragmentationPlan, LargePlan, AutoPlan
<1>2. mode = "HardenedDebug" => plan = "DirectMap"
  BY DEF PlanStorage
<1> HIDE DEF plan
<1>3. \/ from = "SizeClass" /\ size <= SmallMax /\ align <= 16 /\ plan # "DirectMap"
      \/ from = "Span" /\ size > SmallMax /\ size <= MediumMax /\ align <= 16 /\ plan # "DirectMap"
      \/ from = "DirectMap"
  BY <1>0, <1>1 DEF ServedFrom, AutoStorage, SmallMax, MediumMax
<1>4. from = "SizeClass" => Allocate(mode, size, align, region) =
        PoolPage("SizeClass", SmallIndex(size), SmallUsable(size), small_page_size, region)
  BY DEF Allocate, plan
<1>5. from = "Span" => Allocate(mode, size, align, region) =
        PoolPage("Span", MediumIndex(size), MediumUsable(size), medium_span_size, region)
  BY DEF Allocate, plan
<1>6. from = "DirectMap" =>
        Allocate(mode, size, align, region) = MapDirect(size, align, Zone(mode), region)
  BY DEF Allocate, Zone, plan
<1> HIDE DEF from
<1> QED BY <1>2, <1>3, <1>4, <1>5, <1>6

\* The blocks of an outcome lie inside its mapping, for a request of the size.
Contained(r, size, tail) ==
  r.storage # "none" =>
    /\ r.usable \in Nat /\ r.usable >= size /\ r.usable >= 1
    /\ r.mapped \in Nat /\ r.first \in Nat
    /\ \A i \in 0 .. r.count - 1 :
         i * r.stride \in Nat /\ r.first + i * r.stride + Hdr + r.usable + tail <= r.mapped

\* A pool page of either storage contains its blocks.
LEMMA PoolContained ==
  ASSUME NEW storage, NEW index, NEW usable \in Nat, usable >= 1, usable <= MediumMax,
         usable % 16 = 0, NEW mapped \in Nat, NEW region, NEW size \in Nat, size <= usable
  PROVE  Contained(PoolPage(storage, index, usable, mapped, region), size, 0)
<1> DEFINE r == PoolPage(storage, index, usable, mapped, region)
<1>1. CASE r = Failed
  BY <1>1 DEF Contained, Failed
<1>2. CASE r # Failed
  <2>1. /\ ~ (First >= mapped)
        /\ r = [storage |-> storage, index |-> index, usable |-> usable, mapped |-> mapped,
                first |-> First, stride |-> Stride(usable), count |-> Capacity(mapped, usable)]
    BY <1>2 DEF PoolPage
  <2>2. First = 64
    BY PageLayout
  <2>3. mapped > First
    BY <2>1, <2>2
  <2>4. \A i \in 0 .. Capacity(mapped, usable) - 1 :
          /\ i * Stride(usable) \in Nat
          /\ First + i * Stride(usable) + Hdr + usable <= mapped
    BY <2>3, PageHolds
  <2>5. \A i \in 0 .. Capacity(mapped, usable) - 1 :
          First + i * Stride(usable) + Hdr + usable + 0 <= mapped
    BY <2>2, <2>4 DEF Hdr
  <2> HIDE DEF r
  <2>6. Contained(r, size, 0)
    BY <2>1, <2>2, <2>4, <2>5 DEF Contained
  <2> QED BY <2>6 DEF r
<1> QED BY <1>1, <1>2

\* Every outcome of allocate_with_active_mode contains its blocks.
LEMMA AllocateContained ==
  ASSUME NEW mode \in Modes, NEW size \in Sizes, NEW align \in Nat, align >= 1,
         NEW region \in Regions, medium_span_size \in Nat
  PROVE  Contained(Allocate(mode, size, align, region), size, Zone(mode))
<1>0. size \in Nat /\ small_page_size \in Nat /\ medium_span_size \in Nat
  BY SizingConstants
<1>1. CASE /\ size <= SmallMax /\ mode # "HardenedDebug"
           /\ Allocate(mode, size, align, region) =
                PoolPage("SizeClass", SmallIndex(size), SmallUsable(size), small_page_size, region)
  <2>1. /\ SmallIndex(size) \in 0 .. 63 /\ SmallUsable(size) = 16 * (SmallIndex(size) + 1)
        /\ size <= SmallUsable(size)
    BY <1>0, <1>1, SmallClass
  <2>2. /\ SmallUsable(size) \in Nat /\ SmallUsable(size) >= 1
        /\ SmallUsable(size) <= MediumMax /\ SmallUsable(size) % 16 = 0
    BY <2>1 DEF MediumMax
  <2>3. Zone(mode) = 0
    BY <1>1 DEF Zone
  <2> QED BY <1>0, <1>1, <2>1, <2>2, <2>3, PoolContained
<1>2. CASE /\ size > SmallMax /\ size <= MediumMax /\ mode # "HardenedDebug"
           /\ Allocate(mode, size, align, region) =
                PoolPage("Span", MediumIndex(size), MediumUsable(size), medium_span_size, region)
  <2>1. /\ MediumIndex(size) \in 0 .. 62 /\ MediumUsable(size) = 1024 * (MediumIndex(size) + 2)
        /\ size <= MediumUsable(size)
    BY <1>0, <1>2, MediumClass
  <2>2. /\ MediumUsable(size) \in Nat /\ MediumUsable(size) >= 1
        /\ MediumUsable(size) <= MediumMax /\ MediumUsable(size) % 16 = 0
    BY <2>1 DEF MediumMax
  <2>3. Zone(mode) = 0
    BY <1>2 DEF Zone
  <2> QED BY <1>0, <1>2, <2>1, <2>2, <2>3, PoolContained
<1>3. CASE Allocate(mode, size, align, region) = MapDirect(size, align, Zone(mode), region)
  <2> DEFINE r == MapDirect(size, align, Zone(mode), region)
  <2>1. Zone(mode) \in {0, Redzone}
    BY DEF Zone
  <2>2. CASE \/ DirectOverflows(size, align, Zone(mode))
             \/ ~Fits(region, AlignUp(DirectTotal(size, align, Zone(mode)), PageSize))
    <3>1. r = Failed
      BY <2>2 DEF MapDirect
    <3> QED BY <1>3, <3>1 DEF Contained, Failed
  <2>3. CASE /\ ~DirectOverflows(size, align, Zone(mode))
             /\ Fits(region, AlignUp(DirectTotal(size, align, Zone(mode)), PageSize))
    <3>1. /\ r.usable \in Nat /\ r.usable >= size /\ r.usable >= 1
          /\ r.mapped \in Nat /\ r.first \in Nat
          /\ r.first + Hdr + r.usable + Zone(mode) <= r.mapped
      BY <2>1, <2>3, DirectFits
    <3>2. r.stride = 0 /\ r.count = 1
      BY <2>3 DEF MapDirect
    <3> HIDE DEF r
    <3>3. \A i \in 0 .. r.count - 1 : i * r.stride = 0 /\ r.first + i * r.stride = r.first
      BY <3>1, <3>2
    <3>4. Contained(r, size, Zone(mode))
      BY <3>1, <3>3 DEF Contained
    <3> QED BY <1>3, <3>4 DEF r
  <2> QED BY <2>2, <2>3
<1> QED BY <1>1, <1>2, <1>3, Routes

\* Whatever is asked of adaptive_memalign, under any mode and at any address:
\* each block laid out for the request starts after its header, ends with its
\* redzone inside the mapping, and has at least the bytes requested.
THEOREM BlocksFit == SizingSpec => []BlockFits
<1>1. Consistent => BlockFits
  <2> SUFFICES ASSUME Consistent, Served PROVE BlockFits
    BY DEF BlockFits
  <2>2. /\ req.mode \in Modes /\ req.size \in Sizes /\ req.align \in Nat
        /\ req.region \in Regions /\ req.region \in Nat /\ req.size \in Nat
        /\ res = Memalign(req.mode, req.size, req.align, req.region)
        /\ medium_span_size \in Nat
    BY InProgress
  <2>3. Contained(res, req.size, Zone(req.mode))
    <3>1. PICK al \in Nat : al >= 1 /\ res = Allocate(req.mode, req.size, al, req.region)
      BY <2>2, AlignmentPassed, InputsAreNat DEF Served, Failed
    <3> QED BY <2>2, <3>1, AllocateContained
  <2>4. Zone(req.mode) = Guards /\ Guards \in Nat
    BY DEF Zone, Guards, Redzone
  <2>5. /\ res.usable \in Nat /\ res.usable >= req.size /\ res.usable >= 1
        /\ res.mapped \in Nat /\ res.first \in Nat
        /\ \A i \in 0 .. res.count - 1 :
             /\ i * res.stride \in Nat
             /\ res.first + i * res.stride + Hdr + res.usable + Guards <= res.mapped
    BY <2>3, <2>4 DEF Contained, Served
  <2>6. ASSUME NEW x \in Users
        PROVE  /\ x - Hdr >= req.region
               /\ x + res.usable + Guards <= req.region + res.mapped
    <3>1. PICK i \in 0 .. res.count - 1 : x = req.region + res.first + Hdr + i * res.stride
      BY <2>6 DEF Users
    <3>2. i * res.stride \in Nat /\ res.first + i * res.stride + Hdr + res.usable + Guards <= res.mapped
      BY <2>5
    <3> QED BY <2>2, <2>4, <2>5, <3>1, <3>2 DEF Hdr
  <2> QED BY <2>5, <2>6 DEF BlockFits
<1> QED BY <1>1, Consistency, PTL


\* small_class and medium_class never send two sizes to one bin unless the
\* bin's blocks hold both: a cached block is always large enough.
THEOREM ClassesAreExact == SizingSpec => []ClassIsExact
<1>1. Consistent => ClassIsExact
  <2> SUFFICES ASSUME Consistent, Served PROVE ClassIsExact
    BY DEF ClassIsExact, Served
  <2>1. /\ req.mode \in Modes /\ req.size \in Sizes /\ req.align \in Nat
        /\ req.region \in Regions /\ req.size \in Nat
        /\ res = Memalign(req.mode, req.size, req.align, req.region)
    BY InProgress
  <2>2. PICK al \in Nat : res = Allocate(req.mode, req.size, al, req.region)
    BY <2>1, AlignmentPassed DEF Served, Failed
  <2>3. CASE /\ req.size <= SmallMax
             /\ res = PoolPage("SizeClass", SmallIndex(req.size), SmallUsable(req.size),
                               small_page_size, req.region)
    <3>1. /\ res.storage = "SizeClass" /\ res.index = SmallIndex(req.size)
          /\ res.usable = SmallUsable(req.size)
      BY <2>3 DEF PoolPage, Served, Failed
    <3>2. /\ SmallIndex(req.size) \in 0 .. 63
          /\ SmallUsable(req.size) = 16 * (SmallIndex(req.size) + 1)
      BY <2>1, <2>3, SmallClass
    <3>3. ASSUME NEW s \in Sizes, s <= SmallMax, SmallIndex(s) = res.index
          PROVE  s <= res.usable
      <4>1. s <= SmallUsable(s) /\ SmallUsable(s) = 16 * (SmallIndex(s) + 1)
        BY <3>3, InputsAreNat, SmallClass
      <4>2. SmallUsable(s) = res.usable
        BY <3>1, <3>2, <3>3, <4>1
      <4> QED BY <4>1, <4>2
    <3> QED BY <3>1, <3>2, <3>3 DEF ClassIsExact
  <2>4. CASE /\ req.size > SmallMax /\ req.size <= MediumMax
             /\ res = PoolPage("Span", MediumIndex(req.size), MediumUsable(req.size),
                               medium_span_size, req.region)
    <3>1. /\ res.storage = "Span" /\ res.index = MediumIndex(req.size)
          /\ res.usable = MediumUsable(req.size)
      BY <2>4 DEF PoolPage, Served, Failed
    <3>2. /\ MediumIndex(req.size) \in 0 .. 62
          /\ MediumUsable(req.size) = 1024 * (MediumIndex(req.size) + 2)
      BY <2>1, <2>4, MediumClass
    <3>3. ASSUME NEW s \in Sizes, s > SmallMax, s <= MediumMax, MediumIndex(s) = res.index
          PROVE  s <= res.usable
      <4>1. s <= MediumUsable(s) /\ MediumUsable(s) = 1024 * (MediumIndex(s) + 2)
        BY <3>3, InputsAreNat, MediumClass
      <4>2. MediumUsable(s) = res.usable
        BY <3>1, <3>2, <3>3, <4>1
      <4> QED BY <4>1, <4>2
    <3> QED BY <3>1, <3>2, <3>3 DEF ClassIsExact
  <2>5. CASE res = MapDirect(req.size, al, Zone(req.mode), req.region)
    <3>1. res.storage \in {"DirectMap", "none"}
      BY <2>5 DEF MapDirect, Failed
    <3> QED BY <3>1 DEF ClassIsExact
  <2> QED BY <2>1, <2>2, <2>3, <2>4, <2>5, Routes
<1> QED BY <1>1, Consistency, PTL

\* The blocks of a pool page never overlap: create_pool_page leaves room for a header and
\* the usable bytes between two of them, whatever the class.
THEOREM BlocksStayApart == SizingSpec => []BlocksApart
<1>1. ASSUME NEW usable \in Nat, usable <= MediumMax, usable % 16 = 0,
             NEW storage, NEW index, NEW mapped, NEW region,
             res = PoolPage(storage, index, usable, mapped, region)
      PROVE  BlocksApart
  <2>1. Stride(usable) = Hdr + usable
    BY <1>1, PageLayout
  <2>2. res.count = 0 \/ (res.usable = usable /\ res.stride = Stride(usable))
    BY <1>1 DEF PoolPage, Failed
  <2> QED BY <1>1, <2>1, <2>2 DEF BlocksApart, Hdr
<1>2. Consistent => BlocksApart
  <2> SUFFICES ASSUME Consistent, res.count > 1 PROVE BlocksApart
    BY DEF BlocksApart
  <2>0. res # Failed
    BY DEF Failed
  <2>1. /\ req.mode \in Modes /\ req.size \in Sizes /\ req.align \in Nat
        /\ req.region \in Regions /\ req.size \in Nat
        /\ res = Memalign(req.mode, req.size, req.align, req.region)
    BY <2>0, InputsAreNat DEF Consistent, Requests
  <2>2. PICK al \in Nat : res = Allocate(req.mode, req.size, al, req.region)
    BY <2>0, <2>1, AlignmentPassed
  <2>3. CASE /\ req.size <= SmallMax
             /\ res = PoolPage("SizeClass", SmallIndex(req.size), SmallUsable(req.size),
                               small_page_size, req.region)
    <3>1. /\ SmallIndex(req.size) \in 0 .. 63
          /\ SmallUsable(req.size) = 16 * (SmallIndex(req.size) + 1)
      BY <2>1, <2>3, SmallClass
    <3>2. /\ SmallUsable(req.size) \in Nat /\ SmallUsable(req.size) <= MediumMax
          /\ SmallUsable(req.size) % 16 = 0
      BY <3>1 DEF MediumMax
    <3> QED BY <1>1, <2>3, <3>2
  <2>4. CASE /\ req.size > SmallMax /\ req.size <= MediumMax
             /\ res = PoolPage("Span", MediumIndex(req.size), MediumUsable(req.size),
                               medium_span_size, req.region)
    <3>1. /\ MediumIndex(req.size) \in 0 .. 62
          /\ MediumUsable(req.size) = 1024 * (MediumIndex(req.size) + 2)
      BY <2>1, <2>4, MediumClass
    <3>2. /\ MediumUsable(req.size) \in Nat /\ MediumUsable(req.size) <= MediumMax
          /\ MediumUsable(req.size) % 16 = 0
      BY <3>1 DEF MediumMax
    <3> QED BY <1>1, <2>4, <3>2
  <2>5. CASE res = MapDirect(req.size, al, Zone(req.mode), req.region)
    <3>1. res.count \in {0, 1}
      BY <2>5 DEF MapDirect, Failed
    <3> QED BY <3>1
  <2> QED BY <2>1, <2>2, <2>3, <2>4, <2>5, Routes
<1> QED BY <1>2, Consistency, PTL

\* The rounding of a medium class wastes less than 1024 bytes, far below a
\* fifth of 16 KiB: the waste test of fragmentation_prefers_direct cannot hold,
\* and FragmentationStable serves every medium size from a span.
THEOREM MediumIsNeverDirect == SizingSpec => []MediumStaysInSpan
<1>1. Consistent => MediumStaysInSpan
  <2> SUFFICES ASSUME Consistent, Served, req.mode = "FragmentationStable", req.align <= 16,
                      req.size > SmallMax, req.size <= MediumMax
               PROVE  res.storage = "Span"
    BY DEF MediumStaysInSpan
  <2> DEFINE s == req.size
  <2>1. s \in Nat /\ res = Memalign(req.mode, s, req.align, req.region)
    BY InProgress
  <2>2. res = Allocate("FragmentationStable", s, 16, req.region)
    BY <2>1 DEF Memalign
  <2> HIDE DEF s
  <2>3. s \in Nat /\ s > 1024 /\ s <= 65536
    BY <2>1 DEF s, SmallMax, MediumMax
  <2>4. AlignUp(s, 1024) \in Nat /\ AlignUp(s, 1024) <= s + 1024 - 1
    <3>1. s + 1024 - 1 < Word
      BY <2>3, SizingConstants
    <3> QED BY <2>3, <3>1, AlignUpBounds
  <2>5. ~fragmentation_prefers_direct(s, 16)
    BY <2>3, <2>4 DEF fragmentation_prefers_direct
  <2>6. PlanStorage("FragmentationStable", s, 16) = "Auto"
    BY <2>5 DEF PlanStorage, FragmentationPlan
  <2>7. ServedFrom("Auto", s, 16) = "Span"
    BY <2>3 DEF ServedFrom, AutoStorage, SmallMax, MediumMax
  <2>8. res = PoolPage("Span", MediumIndex(s), MediumUsable(s), medium_span_size, req.region)
    BY <2>2, <2>6, <2>7 DEF Allocate
  <2> QED BY <2>8 DEF PoolPage, Served, Failed
<1> QED BY <1>1, Consistency, PTL

-----------------------------------------------------------------------------
(* Refusals.                                                               *)

\* A page with room for one block has one.
LEMMA RoomForOne ==
  ASSUME NEW usable \in Nat, usable <= MediumMax, usable % 16 = 0,
         NEW mapped \in Nat, 64 + 112 + usable <= mapped
  PROVE  ~(First >= mapped) /\ Capacity(mapped, usable) # 0
<1> DEFINE d == Stride(usable)
           room == mapped - 64
<1>1. First = 64 /\ d = 112 + usable
  BY PageLayout DEF Hdr
<1>2. d \in Nat \ {0} /\ room \in Nat /\ room >= d
  BY <1>1
<1>3. Capacity(mapped, usable) = room \div d
  BY <1>1 DEF Capacity
<1>4. room % d \in 0 .. d - 1 /\ room \div d \in Nat /\ room = d * (room \div d) + (room % d)
  BY <1>2, Remainder, Zenon
<1> HIDE DEF d, room
<1>5. room \div d # 0
  <2> SUFFICES ASSUME room \div d = 0 PROVE FALSE
    OBVIOUS
  <2>1. d * (room \div d) = 0
    BY <1>2
  <2> QED BY <1>2, <1>4, <2>1
<1> QED BY <1>1, <1>3, <1>5

\* allocate_direct_map refuses only what, with its slack, does not fit.
LEMMA DirectRefusal ==
  ASSUME NEW size \in Sizes, NEW align \in Nat, align >= 1, NEW redzone \in {0, Redzone},
         NEW region \in Regions, MapDirect(size, align, redzone, region).storage = "none"
  PROVE  size + (IF align > 16 THEN align ELSE 0) + 2 * PageSize > Word - region
<1> DEFINE u == RoundUsable(size)
           slack == IF align > 16 THEN align ELSE 0
           total == DirectTotal(size, align, redzone)
           mapped == AlignUp(total, PageSize)
<1>1. /\ Word \in Nat /\ Word > 256 * 1024
      /\ size \in Nat /\ region \in Nat /\ redzone \in Nat /\ redzone <= 16 /\ slack \in Nat
  BY SizingConstants, InputsAreNat DEF Redzone
<1>2. CASE ~CanRound(size)
  <2>1. size + 16 >= Word
    BY <1>1, <1>2 DEF CanRound, AtLeastOne
  <2> QED BY <1>1, <2>1 DEF PageSize
<1>3. CASE CanRound(size)
  <2>1. AtLeastOne(size) \in Nat /\ AtLeastOne(size) <= size + 1
    BY <1>1 DEF AtLeastOne
  <2>2. AtLeastOne(size) + 16 - 1 < Word
    BY <1>1, <1>3, <2>1 DEF CanRound
  <2>3. u \in Nat /\ u <= AtLeastOne(size) + 16 - 1
    BY <2>1, <2>2, AlignUpBounds DEF RoundUsable
  <2>4. u <= size + 16
    BY <1>1, <2>1, <2>3
  <2>5. total = 112 + u + redzone + slack
    BY DEF DirectTotal, Hdr
  <2>6. CASE DirectOverflows(size, align, redzone)
    <3>1. \/ u > Word - 1 - 112
          \/ redzone > Word - 1 - (112 + u)
          \/ slack > Word - 1 - (112 + u + redzone)
          \/ total > Word - 1 - 4095
      BY <1>3, <2>6 DEF DirectOverflows, Hdr, PageSize
    <3> HIDE DEF u, slack, total
    <3>2. size + slack + 2 * 4096 > Word - region
      BY <1>1, <2>3, <2>4, <2>5, <3>1
    <3> QED BY <3>2 DEF PageSize, slack
  <2>7. CASE ~DirectOverflows(size, align, redzone)
    <3>1. ~(total > Word - 1 - 4095)
      BY <2>7 DEF DirectOverflows, PageSize
    <3>2. ~(region + mapped <= Word)
      BY <2>7 DEF MapDirect, Fits
    <3> HIDE DEF u, slack, total
    <3>3. total \in Nat /\ total + 4096 - 1 < Word
      BY <1>1, <2>3, <2>5, <3>1
    <3>4. mapped \in Nat /\ mapped <= total + 4096 - 1
      BY <3>3, AlignUpBounds DEF PageSize
    <3> HIDE DEF mapped
    <3>5. size + slack + 2 * 4096 > Word - region
      BY <1>1, <2>3, <2>4, <2>5, <3>2, <3>3, <3>4
    <3> QED BY <3>5 DEF PageSize, slack
  <2> QED BY <2>6, <2>7
<1> QED BY <1>2, <1>3

\* adaptive_malloc and adaptive_memalign refuse a request only for want of
\* address space, or in the last medium class for want of a span that holds one
\* of its blocks: no early return fires on a sum that wrapped, and no other size
\* class is without a block, whatever span size init_once accepted.
THEOREM RefusalMeansFull == SizingSpec => []RefusedOnlyWhenFull
<1>1. Consistent => RefusedOnlyWhenFull
  <2> SUFFICES ASSUME Consistent, req # Idle, ~Served PROVE RefusedOnlyWhenFull
    BY DEF RefusedOnlyWhenFull
  <2>1. /\ req.mode \in Modes /\ req.size \in Sizes /\ req.align \in Nat
        /\ req.region \in Regions /\ req.region \in Nat /\ req.size \in Nat
        /\ res = Memalign(req.mode, req.size, req.align, req.region)
    BY InProgress
  <2>2. Word \in Nat /\ small_page_size \in Nat /\ small_page_size >= 16 * 1024
        /\ medium_span_size \in Nat /\ medium_span_size >= 64 * 1024
    BY SizingConstants DEF Consistent
  <2>3. res.storage = "none"
    BY DEF Served
  <2>4. CASE 2 * req.align > Word
    <3>1. req.size + 2 * req.align + 2 * 4096 > Word - req.region
      BY <2>1, <2>2, <2>4
    <3> QED BY <3>1 DEF RefusedOnlyWhenFull, PageSize
  <2>5. CASE ~(2 * req.align > Word)
    <3>1. PICK al \in Nat : /\ al >= 1 /\ (al > 16 => al < 2 * req.align)
                            /\ res = Allocate(req.mode, req.size, al, req.region)
      BY <2>1, <2>5, AlignmentPassed, InputsAreNat
    <3>2. CASE /\ req.size <= SmallMax
               /\ res = PoolPage("SizeClass", SmallIndex(req.size), SmallUsable(req.size),
                                 small_page_size, req.region)
      <4>1. /\ SmallIndex(req.size) \in 0 .. 63
            /\ SmallUsable(req.size) = 16 * (SmallIndex(req.size) + 1)
        BY <2>1, <3>2, SmallClass
      <4>2. /\ SmallUsable(req.size) \in Nat /\ SmallUsable(req.size) <= MediumMax
            /\ SmallUsable(req.size) % 16 = 0 /\ 64 + 112 + SmallUsable(req.size) <= small_page_size
        BY <2>2, <4>1 DEF MediumMax
      <4>3. /\ ~(First >= small_page_size)
            /\ Capacity(small_page_size, SmallUsable(req.size)) # 0
        BY <2>2, <4>2, RoomForOne
      <4>4. ~(req.region + small_page_size <= Word)
        BY <2>3, <3>2, <4>3 DEF PoolPage, Fits
      <4>5. small_page_size > Word - req.region
        BY <2>1, <2>2, <4>4
      <4> QED BY <4>5 DEF RefusedOnlyWhenFull
    <3>3. CASE /\ req.size > SmallMax /\ req.size <= MediumMax
               /\ res = PoolPage("Span", MediumIndex(req.size), MediumUsable(req.size),
                                 medium_span_size, req.region)
      <4>1. /\ MediumIndex(req.size) \in 0 .. 62
            /\ MediumUsable(req.size) = 1024 * (MediumIndex(req.size) + 2)
            /\ MediumUsable(req.size) < req.size + 1024
        BY <2>1, <3>3, MediumClass
      <4>2. /\ MediumUsable(req.size) \in Nat /\ MediumUsable(req.size) <= MediumMax
            /\ MediumUsable(req.size) % 16 = 0
        BY <4>1 DEF MediumMax
      <4>3. CASE 64 + 112 + MediumUsable(req.size) <= medium_span_size
        <5>1. /\ ~(First >= medium_span_size)
              /\ Capacity(medium_span_size, MediumUsable(req.size)) # 0
          BY <2>2, <4>2, <4>3, RoomForOne
        <5>2. ~(req.region + medium_span_size <= Word)
          BY <2>3, <3>3, <5>1 DEF PoolPage, Fits
        <5>3. medium_span_size > Word - req.region
          BY <2>1, <2>2, <5>2
        <5> QED BY <5>3 DEF RefusedOnlyWhenFull
      <4>4. CASE ~(64 + 112 + MediumUsable(req.size) <= medium_span_size)
        <5>1. MediumIndex(req.size) = 62 /\ MediumUsable(req.size) = 65536
          BY <2>2, <4>1, <4>4
        <5>2. req.size > 65536 - 1024 /\ medium_span_size < 64 + 112 + 65536
          BY <2>1, <2>2, <4>1, <4>4, <5>1
        <5> QED BY <3>3, <5>2 DEF RefusedOnlyWhenFull, MediumMax, MediumStep, PageStruct, Hdr
      <4> QED BY <4>3, <4>4
    <3>4. CASE res = MapDirect(req.size, al, Zone(req.mode), req.region)
      <4>1. Zone(req.mode) \in {0, Redzone}
        BY DEF Zone
      <4>2. req.size + (IF al > 16 THEN al ELSE 0) + 2 * PageSize > Word - req.region
        BY <2>1, <2>3, <3>1, <3>4, <4>1, DirectRefusal
      <4>3. (IF al > 16 THEN al ELSE 0) \in Nat /\ (IF al > 16 THEN al ELSE 0) <= 2 * req.align
        BY <2>1, <3>1
      <4>4. req.size + 2 * req.align + 2 * PageSize > Word - req.region
        BY <2>1, <2>2, <4>2, <4>3 DEF PageSize
      <4> QED BY <4>4 DEF RefusedOnlyWhenFull
    <3> QED BY <2>1, <3>1, <3>2, <3>3, <3>4, Routes
  <2> QED BY <2>4, <2>5
<1> QED BY <1>1, Consistency, PTL

-----------------------------------------------------------------------------
(* Alignment.                                                              *)

\* A multiple leaves no remainder.
LEMMA MultipleMod ==
  ASSUME NEW a \in Nat \ {0}, NEW k \in Nat
  PROVE  (a * k) % a = 0
<1> DEFINE s == a * k
           q == s \div a
           r == s % a
<1>1. s \in Nat
  OBVIOUS
<1>2. r \in 0 .. a - 1 /\ q \in Nat /\ s = a * q + r
  BY <1>1, Remainder, Zenon
<1> HIDE DEF q, r
<1>3. r = a * (k - q)
  BY <1>2
<1>4. k - q <= 0
  <2> SUFFICES ASSUME k - q >= 1 PROVE FALSE
    BY <1>2
  <2>1. PICK j \in Nat : k - q = 1 + j
    <3>1. k - q - 1 \in Nat /\ k - q = 1 + (k - q - 1)
      BY <1>2
    <3> QED BY <3>1
  <2>2. a * (k - q) = a + a * j /\ a * j \in Nat
    BY <2>1
  <2> QED BY <1>2, <1>3, <2>2
<1>5. k - q >= 0
  <2> SUFFICES ASSUME k - q <= -1 PROVE FALSE
    BY <1>2
  <2>1. PICK j \in Nat : k - q = -1 - j
    <3>1. q - k - 1 \in Nat /\ k - q = -1 - (q - k - 1)
      BY <1>2
    <3> QED BY <3>1
  <2>2. a * (k - q) = -a - a * j /\ a * j \in Nat
    BY <2>1
  <2> QED BY <1>2, <1>3, <2>2
<1>6. k - q = 0
  BY <1>2, <1>4, <1>5
<1>7. r = 0
  BY <1>3, <1>6
<1> QED BY <1>7 DEF r

\* Sixteen divides every user address of an outcome, and a larger alignment
\* that was passed on divides it too.
AlignedTo(r, region, align) ==
  r.storage # "none" =>
    \A i \in 0 .. r.count - 1 :
      LET u == region + r.first + Hdr + i * r.stride
      IN u % 16 = 0 /\ (align > 16 => u % align = 0)

\* Blocks of a pool page are 16 apart, from a page-aligned region on.
LEMMA PoolAligned ==
  ASSUME NEW storage, NEW index, NEW usable \in Nat, usable <= MediumMax, usable % 16 = 0,
         NEW mapped \in Nat, NEW region \in Regions, NEW align \in Nat, align <= 16
  PROVE  AlignedTo(PoolPage(storage, index, usable, mapped, region), region, align)
<1> DEFINE r == PoolPage(storage, index, usable, mapped, region)
<1>1. CASE r = Failed
  BY <1>1 DEF AlignedTo, Failed
<1>2. CASE r # Failed
  <2>1. r = [storage |-> storage, index |-> index, usable |-> usable, mapped |-> mapped,
             first |-> First, stride |-> Stride(usable), count |-> Capacity(mapped, usable)]
    BY <1>2 DEF PoolPage
  <2>2. First = 64 /\ Stride(usable) = 112 + usable
    BY PageLayout DEF Hdr
  <2>3. region \in Nat /\ region % 4096 = 0
    BY SizingConstants, InputsAreNat DEF PageSize
  <2>4. ASSUME NEW i \in 0 .. Capacity(mapped, usable) - 1
        PROVE  (region + 64 + 112 + i * Stride(usable)) % 16 = 0
    <3>1. i \in Nat
      OBVIOUS
    <3>2. PICK k \in Nat : Stride(usable) = 16 * k
      <4>1. (112 + usable) \div 16 \in Nat /\ 112 + usable = 16 * ((112 + usable) \div 16)
        OBVIOUS
      <4> QED BY <2>2, <4>1, Zenon
    <3>3. i * Stride(usable) = 16 * (i * k) /\ i * k \in Nat
      BY <3>1, <3>2
    <3> DEFINE n == i * k
    <3>4. i * Stride(usable) = 16 * n /\ n \in Nat
      BY <3>3
    <3> HIDE DEF n
    <3> QED BY <2>3, <3>4
  <2> HIDE DEF r
  <2>5. AlignedTo(r, region, align)
    BY <2>1, <2>2, <2>4 DEF AlignedTo, Hdr
  <2> QED BY <2>5 DEF r
<1> QED BY <1>1, <1>2

\* The address of a direct mapping's block is a multiple of the alignment.
LEMMA DirectAligned ==
  ASSUME NEW size \in Sizes, NEW align \in Nat, align = 16 \/ (align \in Powers /\ align > 16),
         NEW redzone \in {0, Redzone}, NEW region \in Regions
  PROVE  AlignedTo(MapDirect(size, align, redzone, region), region, align)
<1> DEFINE r == MapDirect(size, align, redzone, region)
<1>1. CASE r = Failed
  BY <1>1 DEF AlignedTo, Failed
<1>2. CASE r # Failed
  <2>1. /\ ~DirectOverflows(size, align, redzone)
        /\ Fits(region, AlignUp(DirectTotal(size, align, redzone), PageSize))
        /\ r.stride = 0 /\ r.count = 1
    BY <1>2 DEF MapDirect
  <2>2. align >= 1
    OBVIOUS
  <2>3. /\ r.first \in Nat /\ region + r.first + Hdr = UserAddress(region, align)
        /\ align > 16 => region + Hdr + align - 1 < Word
    BY <2>1, <2>2, DirectFits
  <2>4. region \in Nat /\ region % 4096 = 0
    BY SizingConstants, InputsAreNat DEF PageSize
  <2>5. /\ UserAddress(region, align) \in Nat
        /\ UserAddress(region, align) % 16 = 0
        /\ align > 16 => UserAddress(region, align) % align = 0
    <3>1. CASE align = 16
      <4>1. UserAddress(region, align) = region + 112
        BY <3>1 DEF UserAddress, Hdr
      <4> QED BY <2>4, <3>1, <4>1
    <3>2. CASE align \in Powers /\ align > 16
      <4>1. UserAddress(region, align) = AlignUp(region + 112, align)
        BY <3>2 DEF UserAddress, Hdr
      <4>2. region + 112 \in Nat /\ align \in Nat \ {0} /\ region + 112 + align - 1 < Word
        BY <2>3, <2>4, <3>2 DEF Hdr
      <4>3. PICK k \in Nat : UserAddress(region, align) = align * k
        BY <4>1, <4>2, AlignUpBounds, ZenonT(60)
      <4>4. PICK m \in Nat : align = 16 * m
        BY <3>2, PowerIsMultiple
      <4>5. align * k = 16 * (m * k) /\ m * k \in Nat
        BY <4>4
      <4>6. (16 * (m * k)) % 16 = 0
        BY <4>5, MultipleMod
      <4>7. (align * k) % align = 0
        BY <4>2, MultipleMod
      <4>8. align * k \in Nat
        BY <4>2
      <4> QED BY <4>3, <4>5, <4>6, <4>7, <4>8, Zenon
    <3> QED BY <3>1, <3>2
  <2> HIDE DEF r
  <2>6. \A i \in 0 .. r.count - 1 :
          region + r.first + Hdr + i * r.stride = UserAddress(region, align)
    BY <2>1, <2>3, <2>4 DEF Hdr
  <2>7. AlignedTo(r, region, align)
    BY <2>5, <2>6 DEF AlignedTo
  <2> QED BY <2>7 DEF r
<1> QED BY <1>1, <1>2

\* malloc returns addresses that are multiples of 16, and memalign addresses
\* that are multiples of the power of two it rounded the alignment to, whatever
\* page-aligned address mmap chose.
THEOREM BlocksAreAligned == SizingSpec => []Aligned
<1>1. Consistent => Aligned
  <2> SUFFICES ASSUME Consistent, Served PROVE Aligned
    BY DEF Aligned
  <2>1. /\ req.mode \in Modes /\ req.size \in Sizes /\ req.align \in Nat
        /\ req.region \in Regions /\ req.size \in Nat
        /\ res = Memalign(req.mode, req.size, req.align, req.region)
    BY InProgress
  <2>2. PICK al \in Nat :
          /\ al = 16 \/ (al \in Powers /\ al > 16)
          /\ req.align > 16 => al > 16 /\ al = RoundedAlignment(req.align)
          /\ res = Allocate(req.mode, req.size, al, req.region)
    <3>1. CASE req.align <= 16
      BY <2>1, <3>1, AlignmentPassed
    <3>2. CASE req.align > 16
      <4>1. /\ RoundedAlignment(req.align) \in Powers /\ RoundedAlignment(req.align) \in Nat
            /\ RoundedAlignment(req.align) >= req.align
            /\ res = Allocate(req.mode, req.size, RoundedAlignment(req.align), req.region)
        BY <2>1, <3>2, AlignmentPassed DEF Served, Failed
      <4>2. RoundedAlignment(req.align) > 16
        BY <2>1, <3>2, <4>1
      <4> QED BY <4>1, <4>2
    <3> QED BY <2>1, <3>1, <3>2
  <2>3. AlignedTo(res, req.region, al)
    <3>1. CASE /\ req.size <= SmallMax /\ al <= 16
               /\ res = PoolPage("SizeClass", SmallIndex(req.size), SmallUsable(req.size),
                                 small_page_size, req.region)
      <4>1. /\ SmallIndex(req.size) \in 0 .. 63
            /\ SmallUsable(req.size) = 16 * (SmallIndex(req.size) + 1)
        BY <2>1, <3>1, SmallClass
      <4>2. /\ SmallUsable(req.size) \in Nat /\ SmallUsable(req.size) <= MediumMax
            /\ SmallUsable(req.size) % 16 = 0
        BY <4>1 DEF MediumMax
      <4>3. small_page_size \in Nat
        BY SizingConstants
      <4> QED BY <2>1, <3>1, <4>2, <4>3, PoolAligned
    <3>2. CASE /\ req.size > SmallMax /\ req.size <= MediumMax /\ al <= 16
               /\ res = PoolPage("Span", MediumIndex(req.size), MediumUsable(req.size),
                                 medium_span_size, req.region)
      <4>1. /\ MediumIndex(req.size) \in 0 .. 62
            /\ MediumUsable(req.size) = 1024 * (MediumIndex(req.size) + 2)
        BY <2>1, <3>2, MediumClass
      <4>2. /\ MediumUsable(req.size) \in Nat /\ MediumUsable(req.size) <= MediumMax
            /\ MediumUsable(req.size) % 16 = 0
        BY <4>1 DEF MediumMax
      <4>3. medium_span_size \in Nat
        BY InProgress
      <4> QED BY <2>1, <3>2, <4>2, <4>3, PoolAligned
    <3>3. CASE res = MapDirect(req.size, al, Zone(req.mode), req.region)
      <4>1. Zone(req.mode) \in {0, Redzone}
        BY DEF Zone
      <4> QED BY <2>1, <2>2, <3>3, <4>1, DirectAligned
    <3> QED BY <2>1, <2>2, <3>1, <3>2, <3>3, Routes
  <2> QED BY <2>2, <2>3 DEF Aligned, AlignedTo, Users, Served
<1> QED BY <1>1, Consistency, PTL
-----------------------------------------------------------------------------
(* The hooks: the inductive invariant                                      *)

Objects == [at : (0 .. BufSize) \cup Libc \cup Adaptive, size : Nat, inner : BOOLEAN]

\* The values of the variables.
TypeOK ==
  /\ hooks_initialized \in BOOLEAN /\ bootstrap_active \in BOOLEAN
  /\ found \in BOOLEAN /\ misrouted \in BOOLEAN
  /\ first \in [step : 0 .. 6, kind : {"none", "malloc", "calloc"}, size : Nat]
  /\ bootstrap_offset \in 0 .. BufSize
  /\ table \in [1 .. TableSize -> Libc \cup {Null}]
  /\ held \subseteq Objects

\* The hooks have handed over to the adaptive allocator.
Open == found /\ first.step = 6

\* How far the first call has come: the look-ups it has passed are resolved, if
\* dlsym finds anything at all, and the buffer serves until all of them are.
StartOK ==
  /\ hooks_initialized <=> first.step # 0
  /\ first.step # 0 => first.kind \in {"malloc", "calloc"}
  /\ ~ found \/ first.step = 0 => real = {}
  /\ found => \A k \in 1 .. 4 : k < first.step => Entries[k] \in real
  /\ bootstrap_active <=> ~ Open

\* Where the pointers of the program come from: those of dlsym from the buffer,
\* those of libc only from the end of the first call on, and none from the
\* buffer's end unless libc was not found.  Before the first call there are only
\* the adaptive allocator's, from memalign.
PlacesOK ==
  /\ ~ hooks_initialized => \A o \in held : o.at \in Adaptive
  /\ \A o \in held : o.inner => o.at \in Buffer
  /\ found => \A o \in held : o.at # BufSize
  /\ ~ Open => \A o \in held : o.at \notin Libc
  /\ ~ Open => \A i \in 1 .. TableSize : table[i] = Null

\* A libc pointer has one owner and one entry.
EntriesOK ==
  /\ \A o, q \in held : o.at = q.at /\ o.at \in Libc => o = q
  /\ \A i, j \in 1 .. TableSize : table[i] = table[j] /\ table[i] # Null => i = j
  /\ \A o \in held : o.at \in Libc => \E i \in 1 .. TableSize : table[i] = o.at
  /\ \A i \in 1 .. TableSize : table[i] # Null => \E o \in held : o.at = table[i]

IInv == TypeOK /\ StartOK /\ PlacesOK /\ EntriesOK /\ RoutedHome

\* Most leaves need no arithmetic: Zenon first, then SMT.
USE ZenonT(10), SMTT(20)

-----------------------------------------------------------------------------
(* The operators of the model                                              *)

\* The buffer's objects take a whole number of units (bootstrap_malloc), and an
\* object that is not empty takes at least one.
LEMMA RoundedSize ==
  ASSUME NEW size \in Nat
  PROVE Rounded(size) \in Nat /\ (size > 0 => Rounded(size) > 0)
<1> DEFINE q == (size + Unit - 1) \div Unit
<1>1. Unit \in Nat /\ Unit > 0
  BY Layout, SMT
<1>2. q \in Nat /\ (size > 0 => q > 0)
  BY <1>1, SMT
<1> HIDE DEF q
<1>3. q * Unit \in Nat /\ (q > 0 => q * Unit > 0)
  BY <1>1, <1>2, SMT
<1> QED BY <1>2, <1>3 DEF Rounded, q

\* What a new object records.
LEMMA NewObject ==
  ASSUME NEW p, NEW size \in Nat
  PROVE /\ Obj(p, size).at = p /\ Obj(p, size).inner = Inside
        /\ p \in (0 .. BufSize) \cup Libc \cup Adaptive => Obj(p, size) \in Objects
<1>1. Obj(p, size).at = p /\ Obj(p, size).inner = Inside
  BY DEF Obj
<1>2. Inside \in BOOLEAN
  BY DEF Inside
<1>3. ASSUME p \in (0 .. BufSize) \cup Libc \cup Adaptive PROVE Obj(p, size) \in Objects
  BY <1>2, <1>3 DEF Obj, Objects
<1> QED BY <1>1, <1>3

\* The three places a pointer can come from do not overlap.
LEMMA PlacesApart ==
  /\ \A p \in 0 .. BufSize : p \notin Libc /\ p \notin Adaptive
  /\ \A p \in Buffer : p \in 0 .. BufSize /\ p # BufSize
  /\ \A p \in 0 .. BufSize : p # BufSize => p \in Buffer
  /\ \A p \in Libc : p \notin Adaptive /\ p # Null
  /\ \A p \in Adaptive : p \notin Libc
<1>1. \A p \in Buffer : p \in 0 .. BufSize /\ p # BufSize
  BY Layout, SMT DEF Buffer
<1>2. \A p \in 0 .. BufSize : p # BufSize => p \in Buffer
  BY Layout, SMT DEF Buffer
<1> QED BY <1>1, <1>2, Layout

\* Min of a set with one member, and of all the table's indices.
LEMMA MinOfOne == ASSUME NEW i \in Int PROVE Min({i}) = i
BY SMT DEF Min

\* real_bootstrap_track looks for a free entry from the first one on.
LEMMA MinOfAll == Min(1 .. TableSize) = 1 /\ 1 \in 1 .. TableSize
<1>1. 1 \in 1 .. TableSize /\ \A j \in 1 .. TableSize : 1 <= j
  BY Layout, SMT
<1>2. \A i \in 1 .. TableSize : (\A j \in 1 .. TableSize : i <= j) => i = 1
  BY <1>1, SMT
<1> QED BY <1>1, <1>2 DEF Min

-----------------------------------------------------------------------------
(* Steps that leave the first call where it is                             *)

\* What every step but those of the first call leaves alone.
Later == UNCHANGED <<start, found>>

\* Outside the first call hooks_init's progress stays where it is.
LEMMA StartStays ==
  ASSUME TypeOK, StartOK, Later
  PROVE /\ StartOK' /\ Open' = Open /\ Inside' = Inside /\ UNCHANGED <<found, hooks_initialized>>
        /\ hooks_initialized' \in BOOLEAN /\ bootstrap_active' \in BOOLEAN /\ found' \in BOOLEAN
        /\ first' \in [step : 0 .. 6, kind : {"none", "malloc", "calloc"}, size : Nat]
BY DEF TypeOK, StartOK, Later, start, Open, Inside

\* A new object from the buffer or the adaptive allocator, in place of others
\* that are not libc's, leaves the table exact.
LEMMA Added ==
  ASSUME IInv, StartOK', Open' = Open, UNCHANGED <<found, hooks_initialized>>, UNCHANGED <<table, misrouted>>,
         NEW rest, rest \subseteq held, \A o \in held : o \in rest \/ o.at \notin Libc,
         NEW p \in (0 .. BufSize) \cup Adaptive, NEW size \in Nat,
         held' = rest \cup {Obj(p, size)},
         Inside => p \in Buffer, found => p # BufSize, hooks_initialized \/ p \in Adaptive
  PROVE held' \subseteq Objects /\ PlacesOK' /\ EntriesOK' /\ RoutedHome'
<1>1. /\ Obj(p, size).at = p /\ Obj(p, size).inner = Inside /\ Obj(p, size) \in Objects
  BY NewObject
<1>2. p \notin Libc
  BY PlacesApart
<1>3. held' \subseteq Objects
  BY <1>1 DEF IInv, TypeOK
<1> PICK n : n = Obj(p, size)
  OBVIOUS
<1>4. /\ n.at = p /\ n.inner = Inside /\ held' = rest \cup {n}
  BY <1>1
<1>5. PlacesOK'
  <2>0. ~ hooks_initialized => \A o \in held' : o.at \in Adaptive
    BY <1>4 DEF IInv, PlacesOK
  <2>1. \A o \in held' : o.inner => o.at \in Buffer
    BY <1>4 DEF IInv, PlacesOK
  <2>2. found => \A o \in held' : o.at # BufSize
    BY <1>4 DEF IInv, PlacesOK
  <2>3. ~ Open => \A o \in held' : o.at \notin Libc
    BY <1>2, <1>4 DEF IInv, PlacesOK
  <2>4. ~ Open => \A i \in 1 .. TableSize : table'[i] = Null
    BY DEF IInv, PlacesOK
  <2> QED BY <2>0, <2>1, <2>2, <2>3, <2>4 DEF PlacesOK, Buffer
<1>6. EntriesOK'
  <2>1. \A o, q \in held' : o.at = q.at /\ o.at \in Libc => o = q
    BY <1>2, <1>4 DEF IInv, EntriesOK
  <2>2. \A i, j \in 1 .. TableSize : table'[i] = table'[j] /\ table'[i] # Null => i = j
    BY DEF IInv, EntriesOK
  <2>3. \A o \in held' : o.at \in Libc => \E i \in 1 .. TableSize : table'[i] = o.at
    BY <1>2, <1>4 DEF IInv, EntriesOK
  <2>4. ASSUME NEW i \in 1 .. TableSize, table'[i] # Null PROVE \E o \in held' : o.at = table'[i]
    <3>1. PICK o \in held : o.at = table[i]
      BY <2>4 DEF IInv, EntriesOK
    <3>2. table[i] \in Libc
      BY <2>4 DEF IInv, TypeOK
    <3> QED BY <1>4, <3>1, <3>2
  <2> QED BY <2>1, <2>2, <2>3, <2>4 DEF EntriesOK
<1>7. RoutedHome'
  BY DEF IInv, RoutedHome
<1> QED BY <1>3, <1>5, <1>6, <1>7

\* The rest of the state does not depend on what is held.
LEMMA Kept ==
  ASSUME IInv, StartOK', Open' = Open, UNCHANGED <<found, hooks_initialized>>, UNCHANGED <<table, held, misrouted>>
  PROVE held' \subseteq Objects /\ PlacesOK' /\ EntriesOK' /\ RoutedHome'
BY DEF IInv, TypeOK, PlacesOK, EntriesOK, RoutedHome, Buffer

\* bootstrap_malloc places the object below the buffer's end, unless it is empty.
LEMMA BufferServes ==
  ASSUME IInv, StartOK', Open' = Open, UNCHANGED <<found, hooks_initialized>>, UNCHANGED <<table, misrouted>>,
         NEW rest, rest \subseteq held, \A o \in held : o \in rest \/ o.at \notin Libc,
         NEW size \in Nat, found \/ Inside => size > 0, hooks_initialized, bootstrap_malloc(size, rest)
  PROVE /\ bootstrap_offset' \in 0 .. BufSize /\ held' \subseteq Objects
        /\ PlacesOK' /\ EntriesOK' /\ RoutedHome'
<1>1. Rounded(size) \in Nat /\ (size > 0 => Rounded(size) > 0)
  BY RoundedSize
<1>2. bootstrap_offset \in 0 .. BufSize /\ BufSize \in Nat
  BY Layout DEF IInv, TypeOK
<1>3. CASE bootstrap_offset + Rounded(size) > BufSize
  <2>1. UNCHANGED <<bootstrap_offset, held>>
    BY <1>3 DEF bootstrap_malloc
  <2> QED BY <1>2, <2>1, Kept
<1>4. CASE ~ (bootstrap_offset + Rounded(size) > BufSize)
  <2>1. /\ bootstrap_offset' = bootstrap_offset + Rounded(size)
        /\ held' = rest \cup {Obj(bootstrap_offset, size)}
    BY <1>4 DEF bootstrap_malloc
  <2>2. bootstrap_offset' \in 0 .. BufSize
    BY <1>1, <1>2, <1>4, <2>1, SMT
  <2>3. size > 0 => bootstrap_offset # BufSize
    BY <1>1, <1>2, <1>4, SMT
  <2>4. size > 0 => bootstrap_offset \in Buffer
    BY <1>2, <2>3, PlacesApart
  <2>5. (Inside => bootstrap_offset \in Buffer) /\ (found => bootstrap_offset # BufSize)
    BY <2>3, <2>4
  <2>6. bootstrap_offset \in (0 .. BufSize) \cup Adaptive
    BY <1>2
  <2> QED BY <2>1, <2>2, <2>5, <2>6, Added
<1> QED BY <1>3, <1>4

\* The adaptive allocator serves from its own heap, never inside hooks_init.
LEMMA AdaptiveServes ==
  ASSUME IInv, StartOK', Open' = Open, UNCHANGED <<found, hooks_initialized>>, UNCHANGED <<table, misrouted>>,
         NEW rest, rest \subseteq held, \A o \in held : o \in rest \/ o.at \notin Libc,
         NEW size \in Nat, ~ Inside, adaptive_malloc(size, rest)
  PROVE /\ bootstrap_offset' \in 0 .. BufSize /\ held' \subseteq Objects
        /\ PlacesOK' /\ EntriesOK' /\ RoutedHome'
<1>1. bootstrap_offset' \in 0 .. BufSize
  BY DEF adaptive_malloc, IInv, TypeOK
<1>2. CASE held' = held
  BY <1>1, <1>2, Kept
<1>3. CASE \E p \in Unused(Adaptive) : held' = rest \cup {Obj(p, size)}
  <2>1. PICK p \in Adaptive : held' = rest \cup {Obj(p, size)}
    BY <1>3 DEF Unused
  <2>2. p # BufSize
    <3>1. BufSize \in 0 .. BufSize
      BY Layout, SMT
    <3>2. BufSize \notin Adaptive
      BY <3>1, PlacesApart
    <3> QED BY <3>2
  <2>3. p \in (0 .. BufSize) \cup Adaptive /\ (Inside => p \in Buffer)
    OBVIOUS
  <2> QED BY <1>1, <2>1, <2>2, <2>3, Added
<1> QED BY <1>2, <1>3 DEF adaptive_malloc

-----------------------------------------------------------------------------
(* Handing a pointer back                                                  *)

\* What a pointer in the program's hands says of the state: inside hooks_init it
\* is the buffer's; later, unless libc was not found, it is one heap's, and the
\* table tells which.
LEMMA Routing ==
  ASSUME IInv, Ready, NEW o \in Reach, o.at \notin Buffer
  PROVE /\ o \in held /\ ~ Inside
        /\ ~ hooks_initialized \/ bootstrap_active => real = {}
        /\ hooks_initialized /\ ~ bootstrap_active =>
             /\ Open /\ {"free", "realloc"} \subseteq real
             /\ Tracked(o.at) => o.at \in Libc
             /\ ~ Tracked(o.at) => o.at \in Adaptive
<1>1. o \in held /\ ~ Inside
  BY DEF Reach, IInv, PlacesOK
<1>2. first.step \in {0, 6}
  <2>1. first.step \in 0 .. 6
    BY DEF IInv, TypeOK
  <2>2. first.step # 5
    BY DEF Ready
  <2>3. first.step \notin 1 .. 4
    BY <1>1 DEF Inside
  <2> QED BY <2>1, <2>2, <2>3, SMT
<1>3. ~ hooks_initialized \/ bootstrap_active => real = {}
  BY <1>2 DEF IInv, StartOK, Open, TypeOK
<1>4. ASSUME hooks_initialized, ~ bootstrap_active
      PROVE /\ Open /\ {"free", "realloc"} \subseteq real
            /\ Tracked(o.at) => o.at \in Libc
            /\ ~ Tracked(o.at) => o.at \in Adaptive
  <2>1. Open
    BY <1>4 DEF IInv, StartOK, TypeOK
  <2>2. Entries[2] \in real /\ Entries[4] \in real
    <3>1. \A k \in 1 .. 4 : k < first.step => Entries[k] \in real
      BY <2>1 DEF IInv, StartOK, Open
    <3>2. first.step = 6
      BY <2>1 DEF Open
    <3> QED BY <3>1, <3>2, SMT
  <2>3. Entries[2] = "free" /\ Entries[4] = "realloc"
    BY SMT DEF Entries
  <2>4. DOMAIN table = 1 .. TableSize
    BY DEF IInv, TypeOK
  <2>5. o.at \in (0 .. BufSize) \cup Libc \cup Adaptive
    BY <1>1 DEF IInv, TypeOK, Objects
  <2>6. o.at # BufSize
    BY <1>1, <2>1 DEF IInv, PlacesOK, Open
  <2>7. o.at \in Libc \cup Adaptive
    BY <2>5, <2>6, PlacesApart
  <2>8. o.at \in Libc => Tracked(o.at)
    BY <1>1, <2>4 DEF IInv, EntriesOK, Tracked
  <2>9. ASSUME Tracked(o.at), o.at \in Adaptive PROVE FALSE
    <3>1. PICK i \in 1 .. TableSize : table[i] = o.at
      BY <2>4, <2>9 DEF Tracked
    <3>2. table[i] \in Libc \cup {Null}
      BY DEF IInv, TypeOK
    <3>3. o.at \notin Libc /\ o.at # Null
      BY <2>9, PlacesApart, Layout
    <3> QED BY <3>1, <3>2, <3>3
  <2> QED BY <2>1, <2>2, <2>3, <2>7, <2>8, <2>9
<1> QED BY <1>1, <1>3, <1>4

\* The entry of a tracked pointer is found by its value.
LEMMA TheEntry ==
  ASSUME IInv, NEW ptr \in Libc, Tracked(ptr), NEW new
  PROVE \E k \in 1 .. TableSize :
          /\ table[k] = ptr
          /\ real_bootstrap_replace(ptr, new) = [table EXCEPT ![k] = new]
<1>1. DOMAIN table = 1 .. TableSize
  BY DEF IInv, TypeOK
<1>2. PICK k \in 1 .. TableSize : table[k] = ptr
  BY <1>1 DEF Tracked
<1>3. ptr # Null
  BY PlacesApart
<1>4. {i \in DOMAIN table : table[i] = ptr} = {k}
  BY <1>1, <1>2, <1>3 DEF IInv, EntriesOK
<1>5. Min({k}) = k
  BY MinOfOne, SMT
<1> QED BY <1>2, <1>4, <1>5 DEF real_bootstrap_replace

\* An object that is not libc's leaves.
LEMMA Removed ==
  ASSUME IInv, Later, UNCHANGED <<table, misrouted, bootstrap_offset>>,
         NEW o \in held, o.at \notin Libc, held' = held \ {o}
  PROVE IInv'
<1>1. /\ StartOK' /\ Open' = Open /\ Inside' = Inside /\ UNCHANGED <<found, hooks_initialized>>
      /\ hooks_initialized' \in BOOLEAN /\ bootstrap_active' \in BOOLEAN /\ found' \in BOOLEAN
      /\ first' \in [step : 0 .. 6, kind : {"none", "malloc", "calloc"}, size : Nat]
  BY StartStays DEF IInv
<1>2. TypeOK'
  BY <1>1 DEF IInv, TypeOK
<1>3. PlacesOK'
  BY <1>1 DEF IInv, PlacesOK, Buffer
<1>4. EntriesOK'
  <2>1. \A q, r \in held' : q.at = r.at /\ q.at \in Libc => q = r
    BY DEF IInv, EntriesOK
  <2>2. \A i, j \in 1 .. TableSize : table'[i] = table'[j] /\ table'[i] # Null => i = j
    BY DEF IInv, EntriesOK
  <2>3. \A q \in held' : q.at \in Libc => \E i \in 1 .. TableSize : table'[i] = q.at
    BY DEF IInv, EntriesOK
  <2>4. ASSUME NEW i \in 1 .. TableSize, table'[i] # Null PROVE \E q \in held' : q.at = table'[i]
    <3>1. PICK q \in held : q.at = table[i]
      BY <2>4 DEF IInv, EntriesOK
    <3>2. table[i] \in Libc
      BY <2>4 DEF IInv, TypeOK
    <3> QED BY <3>1, <3>2
  <2> QED BY <2>1, <2>2, <2>3, <2>4 DEF EntriesOK
<1> QED BY <1>1, <1>2, <1>3, <1>4 DEF IInv, RoutedHome

\* An object of libc leaves, together with its entry.
LEMMA Untracked ==
  ASSUME IInv, Later, Open, UNCHANGED <<misrouted, bootstrap_offset>>,
         NEW o \in held, o.at \in Libc, held' = held \ {o},
         NEW k \in 1 .. TableSize, table[k] = o.at, table' = [table EXCEPT ![k] = Null]
  PROVE IInv'
<1>1. /\ StartOK' /\ Open' = Open /\ Inside' = Inside /\ UNCHANGED <<found, hooks_initialized>>
      /\ hooks_initialized' \in BOOLEAN /\ bootstrap_active' \in BOOLEAN /\ found' \in BOOLEAN
      /\ first' \in [step : 0 .. 6, kind : {"none", "malloc", "calloc"}, size : Nat]
  BY StartStays DEF IInv
<1>2. /\ table' \in [1 .. TableSize -> Libc \cup {Null}]
      /\ \A i \in 1 .. TableSize : table'[i] = IF i = k THEN Null ELSE table[i]
  BY DEF IInv, TypeOK
<1>3. TypeOK'
  BY <1>1, <1>2 DEF IInv, TypeOK
<1>4. PlacesOK'
  BY <1>1 DEF IInv, PlacesOK, Buffer
<1>5. EntriesOK'
  <2>1. \A q, r \in held' : q.at = r.at /\ q.at \in Libc => q = r
    BY DEF IInv, EntriesOK
  <2>2. \A i, j \in 1 .. TableSize : table'[i] = table'[j] /\ table'[i] # Null => i = j
    BY <1>2 DEF IInv, EntriesOK
  <2>3. ASSUME NEW q \in held', q.at \in Libc PROVE \E i \in 1 .. TableSize : table'[i] = q.at
    <3>1. q \in held /\ q # o
      OBVIOUS
    <3>2. PICK i \in 1 .. TableSize : table[i] = q.at
      BY <2>3, <3>1 DEF IInv, EntriesOK
    <3>3. i # k
      BY <2>3, <3>1, <3>2 DEF IInv, EntriesOK
    <3> QED BY <1>2, <3>2, <3>3
  <2>4. ASSUME NEW i \in 1 .. TableSize, table'[i] # Null PROVE \E q \in held' : q.at = table'[i]
    <3>1. i # k /\ table'[i] = table[i]
      BY <1>2, <2>4
    <3>2. PICK q \in held : q.at = table[i]
      BY <2>4, <3>1 DEF IInv, EntriesOK
    <3>3. q # o
      BY <2>4, <3>1, <3>2 DEF IInv, EntriesOK
    <3> QED BY <3>1, <3>2, <3>3
  <2> QED BY <2>1, <2>2, <2>3, <2>4 DEF EntriesOK
<1> QED BY <1>1, <1>3, <1>4, <1>5 DEF IInv, RoutedHome

\* free (and realloc to 0 bytes) gives the pointer to the allocator it is from,
\* and forgets it if it is libc's.
LEMMA FreeKeeps ==
  ASSUME IInv, Ready, NEW o \in Reach, free(o), Later, UNCHANGED bootstrap_offset
  PROVE IInv'
<1>1. o \in held /\ held' = held \ {o}
  BY DEF free, Reach
<1>2. CASE o.at \in Buffer
  <2>1. UNCHANGED <<table, misrouted>>
    BY <1>2 DEF free
  <2>2. o.at \notin Libc
    BY <1>2, PlacesApart
  <2> QED BY <1>1, <2>1, <2>2, Removed
<1>3. CASE o.at \notin Buffer /\ (~ hooks_initialized \/ bootstrap_active)
  <2>1. GiveToLibc(o.at) /\ UNCHANGED table
    BY <1>3 DEF free
  <2>2. real = {}
    BY <1>3, Routing
  <2>3. UNCHANGED misrouted
    BY <2>1, <2>2 DEF GiveToLibc
  <2>4. ~ Open
    BY <1>3 DEF IInv, StartOK, TypeOK, Open
  <2>5. o.at \notin Libc
    BY <1>1, <2>4 DEF IInv, PlacesOK
  <2> QED BY <1>1, <2>1, <2>3, <2>5, Removed
<1>4. CASE o.at \notin Buffer /\ hooks_initialized /\ ~ bootstrap_active /\ Tracked(o.at)
  <2>1. GiveToLibc(o.at) /\ table' = real_bootstrap_untrack(o.at)
    BY <1>4 DEF free
  <2>2. Open /\ "free" \in real /\ o.at \in Libc
    BY <1>4, Routing
  <2>3. misrouted' = (misrouted \/ FALSE)
    BY <2>1, <2>2 DEF GiveToLibc
  <2>4. UNCHANGED misrouted
    BY <2>3 DEF IInv, RoutedHome, TypeOK
  <2>5. PICK k \in 1 .. TableSize :
          table[k] = o.at /\ real_bootstrap_replace(o.at, Null) = [table EXCEPT ![k] = Null]
    BY <1>4, <2>2, TheEntry
  <2>6. table' = [table EXCEPT ![k] = Null]
    BY <2>1, <2>5 DEF real_bootstrap_untrack
  <2> QED BY <1>1, <2>2, <2>4, <2>5, <2>6, Untracked
<1>5. CASE o.at \notin Buffer /\ hooks_initialized /\ ~ bootstrap_active /\ ~ Tracked(o.at)
  <2>1. misrouted' = (misrouted \/ o.at \notin Adaptive) /\ UNCHANGED table
    BY <1>5 DEF free
  <2>2. o.at \in Adaptive
    BY <1>5, Routing
  <2>3. UNCHANGED misrouted
    BY <2>1, <2>2 DEF IInv, RoutedHome, TypeOK
  <2>4. o.at \notin Libc
    BY <2>2, PlacesApart
  <2> QED BY <1>1, <2>1, <2>3, <2>4, Removed
<1> QED BY <1>2, <1>3, <1>4, <1>5

\* realloc of libc's block: the new pointer takes over the old one's entry.
LEMMA Replaced ==
  ASSUME IInv, Later, Open, UNCHANGED <<misrouted, bootstrap_offset>>,
         NEW o \in held, o.at \in Libc, NEW size \in Nat,
         NEW p \in Unused(Libc) \cup {o.at}, held' = (held \ {o}) \cup {Obj(p, size)},
         NEW k \in 1 .. TableSize, table[k] = o.at, table' = [table EXCEPT ![k] = p]
  PROVE IInv'
<1>1. /\ StartOK' /\ Open' = Open /\ Inside' = Inside /\ UNCHANGED <<found, hooks_initialized>>
      /\ hooks_initialized' \in BOOLEAN /\ bootstrap_active' \in BOOLEAN /\ found' \in BOOLEAN
      /\ first' \in [step : 0 .. 6, kind : {"none", "malloc", "calloc"}, size : Nat]
  BY StartStays DEF IInv
<1>2. p \in Libc /\ p # Null /\ p # BufSize
  <2>1. p \in Libc
    BY DEF Unused
  <2>2. BufSize \in 0 .. BufSize
    BY Layout, SMT
  <2>3. BufSize \notin Libc
    BY <2>2, PlacesApart
  <2> QED BY <2>1, <2>3, PlacesApart
<1>3. \A q \in held : q # o => q.at # p
  <2>1. CASE p = o.at
    BY <2>1 DEF IInv, EntriesOK
  <2>2. CASE p \in Unused(Libc)
    BY <2>2 DEF Unused, Addresses
  <2> QED BY <2>1, <2>2
<1>4. PICK n : n = Obj(p, size)
  OBVIOUS
<1>5. ~ Inside
  BY SMT DEF Open, Inside
<1>6. n.at = p /\ ~ n.inner /\ n \in Objects /\ held' = (held \ {o}) \cup {n}
  BY <1>2, <1>4, <1>5, NewObject
<1>7. /\ table' \in [1 .. TableSize -> Libc \cup {Null}]
      /\ \A i \in 1 .. TableSize : table'[i] = IF i = k THEN p ELSE table[i]
  BY <1>2 DEF IInv, TypeOK
<1>8. TypeOK'
  BY <1>1, <1>6, <1>7 DEF IInv, TypeOK, Objects
<1>9. PlacesOK'
  <2>1. hooks_initialized'
    BY <1>1 DEF IInv, StartOK, Open
  <2> QED BY <1>1, <1>2, <1>6, <2>1 DEF IInv, PlacesOK, Buffer
<1>10. EntriesOK'
  <2>1. \A q, r \in held' : q.at = r.at /\ q.at \in Libc => q = r
    BY <1>3, <1>6 DEF IInv, EntriesOK
  <2>2. \A i \in 1 .. TableSize : i # k => table[i] # p
    <3>1. ASSUME NEW i \in 1 .. TableSize, i # k, table[i] = p PROVE FALSE
      <4>1. PICK q \in held : q.at = table[i]
        BY <1>2, <3>1 DEF IInv, EntriesOK
      <4>2. q = o
        BY <1>3, <3>1, <4>1
      <4> QED BY <1>2, <3>1, <4>1, <4>2 DEF IInv, EntriesOK
    <3> QED BY <3>1
  <2>3. \A i, j \in 1 .. TableSize : table'[i] = table'[j] /\ table'[i] # Null => i = j
    BY <1>7, <2>2 DEF IInv, EntriesOK
  <2>4. ASSUME NEW q \in held', q.at \in Libc PROVE \E i \in 1 .. TableSize : table'[i] = q.at
    <3>1. CASE q = n
      BY <1>6, <1>7, <3>1
    <3>2. CASE q \in held /\ q # o
      <4>1. PICK i \in 1 .. TableSize : table[i] = q.at
        BY <2>4, <3>2 DEF IInv, EntriesOK
      <4>2. i # k
        BY <2>4, <3>2, <4>1 DEF IInv, EntriesOK
      <4> QED BY <1>7, <4>1, <4>2
    <3> QED BY <1>6, <3>1, <3>2
  <2>5. ASSUME NEW i \in 1 .. TableSize, table'[i] # Null PROVE \E q \in held' : q.at = table'[i]
    <3>1. CASE i = k
      BY <1>6, <1>7, <3>1
    <3>2. CASE i # k
      <4>1. table'[i] = table[i]
        BY <1>7, <3>2
      <4>2. PICK q \in held : q.at = table[i]
        BY <2>5, <4>1 DEF IInv, EntriesOK
      <4>3. q # o
        BY <2>5, <3>2, <4>1, <4>2 DEF IInv, EntriesOK
      <4> QED BY <1>6, <4>1, <4>2, <4>3
    <3> QED BY <3>1, <3>2
  <2> QED BY <2>1, <2>3, <2>4, <2>5 DEF EntriesOK
<1> QED BY <1>1, <1>8, <1>9, <1>10 DEF IInv, RoutedHome

-----------------------------------------------------------------------------
(* The calls                                                               *)

\* With the places, the entries and the buffer's fill level in order, so is the
\* whole state.
LEMMA Assembled ==
  ASSUME IInv, Later, UNCHANGED <<table, misrouted>>, bootstrap_offset' \in 0 .. BufSize,
         held' \subseteq Objects, PlacesOK', EntriesOK', RoutedHome'
  PROVE IInv'
<1>1. /\ StartOK'
      /\ hooks_initialized' \in BOOLEAN /\ bootstrap_active' \in BOOLEAN /\ found' \in BOOLEAN
      /\ first' \in [step : 0 .. 6, kind : {"none", "malloc", "calloc"}, size : Nat]
  BY StartStays DEF IInv
<1>2. TypeOK'
  BY <1>1 DEF IInv, TypeOK, Objects
<1> QED BY <1>1, <1>2 DEF IInv

\* malloc, calloc and the allocation of a realloc out of the buffer: from the
\* buffer until the hooks have opened, then from the adaptive allocator.
LEMMA MallocKeeps ==
  ASSUME IInv, Later, hooks_initialized, Ready, UNCHANGED <<table, misrouted>>,
         NEW rest, rest \subseteq held, \A o \in held : o \in rest \/ o.at \notin Libc,
         NEW size \in Nat, Inside => size > 0, malloc(size, rest)
  PROVE IInv'
<1>1. StartOK' /\ Open' = Open /\ UNCHANGED <<found, hooks_initialized>>
  BY StartStays DEF IInv
<1>2. CASE bootstrap_active
  <2>1. bootstrap_malloc(size, rest)
    BY <1>2 DEF malloc
  <2>2. ~ Open
    BY <1>2 DEF IInv, StartOK
  <2>3. found => Inside
    <3>1. first.step \in 0 .. 6 /\ first.step # 0 /\ first.step # 5
      BY DEF IInv, TypeOK, StartOK, Ready
    <3>2. found => first.step # 6
      BY <2>2 DEF Open
    <3> QED BY <3>1, <3>2, SMT DEF Inside
  <2>4. found \/ Inside => size > 0
    BY <2>3
  <2>5. /\ bootstrap_offset' \in 0 .. BufSize /\ held' \subseteq Objects
        /\ PlacesOK' /\ EntriesOK' /\ RoutedHome'
    BY <1>1, <2>1, <2>4, BufferServes
  <2> QED BY <2>5, Assembled
<1>3. CASE ~ bootstrap_active
  <2>1. adaptive_malloc(size, rest)
    BY <1>3 DEF malloc
  <2>2. Open
    BY <1>3 DEF IInv, StartOK
  <2>3. ~ Inside
    BY <2>2, SMT DEF Open, Inside
  <2>4. /\ bootstrap_offset' \in 0 .. BufSize /\ held' \subseteq Objects
        /\ PlacesOK' /\ EntriesOK' /\ RoutedHome'
    BY <1>1, <2>1, <2>3, AdaptiveServes
  <2> QED BY <2>4, Assembled
<1> QED BY <1>2, <1>3

\* realloc of a block of libc or of the adaptive allocator stays in its heap.
LEMMA ResizedKeeps ==
  ASSUME IInv, Later, Open, UNCHANGED <<misrouted, bootstrap_offset>>,
         NEW o \in held, NEW size \in Nat,
         NEW heap, heap = IF Tracked(o.at) THEN Libc ELSE Adaptive, o.at \in heap,
         Resized(o, size, heap)
  PROVE IInv'
<1>1. StartOK' /\ Open' = Open /\ UNCHANGED <<found, hooks_initialized>>
  BY StartStays DEF IInv
<1>2. bootstrap_offset' \in 0 .. BufSize
  BY DEF IInv, TypeOK
<1>3. CASE UNCHANGED <<held, table>>
  <2>1. held' \subseteq Objects /\ PlacesOK' /\ EntriesOK' /\ RoutedHome'
    BY <1>1, <1>3, Kept
  <2> QED BY <1>2, <1>3, <2>1, Assembled
<1>4. ASSUME NEW p \in Unused(heap) \cup {o.at},
             held' = (held \ {o}) \cup {Obj(p, size)},
             table' = IF Tracked(o.at) THEN real_bootstrap_replace(o.at, p) ELSE table
      PROVE IInv'
  <2>1. CASE Tracked(o.at)
    <3>1. o.at \in Libc /\ p \in Unused(Libc) \cup {o.at}
      BY <1>4, <2>1
    <3>2. PICK k \in 1 .. TableSize :
            table[k] = o.at /\ real_bootstrap_replace(o.at, p) = [table EXCEPT ![k] = p]
      BY <2>1, <3>1, TheEntry
    <3>3. table' = [table EXCEPT ![k] = p]
      BY <1>4, <2>1, <3>2
    <3> QED BY <1>4, <3>1, <3>2, <3>3, Replaced
  <2>2. CASE ~ Tracked(o.at)
    <3>1. o.at \in Adaptive /\ p \in Adaptive /\ table' = table
      BY <1>4, <2>2 DEF Unused
    <3>2. o.at \notin Libc
      BY <3>1, PlacesApart
    <3>3. p # BufSize
      <4>1. BufSize \in 0 .. BufSize
        BY Layout, SMT
      <4>2. BufSize \notin Adaptive
        BY <4>1, PlacesApart
      <4> QED BY <3>1, <4>2
    <3>4. ~ Inside
      BY SMT DEF Open, Inside
    <3>5. PICK rest : rest = held \ {o}
      OBVIOUS
    <3>6. /\ rest \subseteq held /\ \A q \in held : q \in rest \/ q.at \notin Libc
          /\ held' = rest \cup {Obj(p, size)}
      BY <1>4, <3>2, <3>5
    <3>7. p \in (0 .. BufSize) \cup Adaptive /\ (Inside => p \in Buffer)
      BY <3>1, <3>4
    <3>8. held' \subseteq Objects /\ PlacesOK' /\ EntriesOK' /\ RoutedHome'
      BY <1>1, <3>1, <3>3, <3>6, <3>7, Added
    <3> QED BY <1>2, <3>1, <3>8, Assembled
  <2> QED BY <2>1, <2>2
<1> QED BY <1>3, <1>4 DEF Resized

\* realloc, by the place its pointer is from: a block of the buffer is copied to
\* a new one, any other stays in its heap.
LEMMA ReallocKeeps ==
  ASSUME IInv, NEW size \in Nat, NEW o \in Reach, Realloc(o, size)
  PROVE IInv'
<1>1. Later /\ Ready /\ o \in held
  BY DEF Realloc, Later, Reach
<1>2. CASE size = 0
  <2>1. free(o) /\ UNCHANGED bootstrap_offset
    BY <1>2 DEF Realloc
  <2> QED BY <1>1, <2>1, FreeKeeps
<1>3. CASE size # 0 /\ o.at \in Buffer
  <2>1. malloc(size, held \ {o}) /\ UNCHANGED <<table, misrouted>>
    BY <1>3 DEF Realloc
  <2>2. PICK rest : rest = held \ {o}
    OBVIOUS
  <2>3. o.at \notin Libc
    BY <1>3, PlacesApart
  <2>4. rest \subseteq held /\ \A q \in held : q \in rest \/ q.at \notin Libc
    BY <2>2, <2>3
  <2>5. size > 0
    BY <1>3, SMT
  <2>6. CASE hooks_initialized
    BY <1>1, <2>1, <2>2, <2>4, <2>5, <2>6, MallocKeeps
  <2>7. CASE ~ hooks_initialized
    <3>1. o.at \in Adaptive
      BY <1>1, <2>7 DEF IInv, PlacesOK
    <3> QED BY <1>3, <3>1, PlacesApart
  <2> QED BY <2>6, <2>7
<1>4. CASE /\ size # 0 /\ o.at \notin Buffer
           /\ ~ hooks_initialized \/ bootstrap_active
  <2>1. real = {}
    BY <1>1, <1>4, Routing
  <2>2. UNCHANGED <<held, table, misrouted, bootstrap_offset>>
    BY <1>4, <2>1 DEF Realloc
  <2>3. StartOK' /\ Open' = Open /\ UNCHANGED <<found, hooks_initialized>>
    BY <1>1, StartStays DEF IInv
  <2>4. held' \subseteq Objects /\ PlacesOK' /\ EntriesOK' /\ RoutedHome'
    BY <2>2, <2>3, Kept
  <2>5. bootstrap_offset' \in 0 .. BufSize
    BY <2>2 DEF IInv, TypeOK
  <2> QED BY <1>1, <2>2, <2>4, <2>5, Assembled
<1>5. CASE size # 0 /\ o.at \notin Buffer /\ hooks_initialized /\ ~ bootstrap_active
  <2>1. /\ Open
        /\ Tracked(o.at) => o.at \in Libc
        /\ ~ Tracked(o.at) => o.at \in Adaptive
    BY <1>1, <1>5, Routing
  <2>2. PICK heap : heap = IF Tracked(o.at) THEN Libc ELSE Adaptive
    OBVIOUS
  <2>3. /\ Resized(o, size, heap) /\ misrouted' = (misrouted \/ o.at \notin heap)
        /\ UNCHANGED bootstrap_offset
    BY <1>5, <2>2 DEF Realloc
  <2>4. o.at \in heap
    BY <2>1, <2>2
  <2>5. UNCHANGED misrouted
    BY <2>3, <2>4 DEF IInv, RoutedHome, TypeOK
  <2> QED BY <1>1, <2>1, <2>2, <2>3, <2>4, <2>5, ResizedKeeps
<1> QED BY <1>2, <1>3, <1>4, <1>5

-----------------------------------------------------------------------------
(* The first call                                                          *)

\* The steps of the first call up to its last one move no pointer.
LEMMA FirstStepKeeps ==
  ASSUME IInv, ~ Open, ~ Open', StartOK', hooks_initialized', found' = found,
         UNCHANGED <<bootstrap_active, bootstrap_offset, table, held, misrouted>>,
         first' \in [step : 0 .. 6, kind : {"none", "malloc", "calloc"}, size : Nat]
  PROVE IInv'
<1>1. hooks_initialized' \in BOOLEAN
  BY DEF StartOK
<1>2. TypeOK'
  BY <1>1 DEF IInv, TypeOK, Objects
<1>3. PlacesOK'
  BY DEF IInv, PlacesOK, Buffer
<1>4. EntriesOK'
  BY DEF IInv, EntriesOK
<1> QED BY <1>2, <1>3, <1>4 DEF IInv, RoutedHome

\* The first call marks the hooks as initialized before anything else, and nothing
\* is tracked yet.
LEMMA FirstCallKeeps ==
  ASSUME IInv, NEW kind \in {"malloc", "calloc"}, NEW size \in Nat, FirstCall(kind, size)
  PROVE IInv'
<1>1. /\ hooks_initialized' = TRUE /\ first' = [step |-> 1, kind |-> kind, size |-> size]
      /\ UNCHANGED <<bootstrap_active, real, found, bootstrap_offset, table, held, misrouted>>
      /\ ~ hooks_initialized
  BY DEF FirstCall
<1>2. /\ first'.step = 1 /\ first'.kind = kind
      /\ first' \in [step : 0 .. 6, kind : {"none", "malloc", "calloc"}, size : Nat]
  BY <1>1, SMT
<1>3. first.step = 0 /\ real = {} /\ ~ Open
  BY <1>1, SMT DEF IInv, StartOK, TypeOK, Open
<1>4. ~ Open'
  BY <1>2, SMT DEF Open
<1>5. StartOK'
  <2>1. \A k \in 1 .. 4 : ~ (k < first'.step)
    BY <1>2, SMT
  <2>2. first'.step # 0
    BY <1>2, SMT
  <2> QED BY <1>1, <1>2, <1>3, <1>4, <2>1, <2>2 DEF IInv, StartOK
<1> QED BY <1>1, <1>2, <1>3, <1>4, <1>5, FirstStepKeeps

\* hooks_init looks libc's functions up one by one and touches no pointer.
LEMMA HooksInitKeeps ==
  ASSUME IInv, hooks_init
  PROVE IInv'
<1>1. /\ Inside /\ real' = IF found THEN real \cup {Entries[first.step]} ELSE real
      /\ first' = [first EXCEPT !.step = first.step + 1]
      /\ UNCHANGED <<hooks_initialized, bootstrap_active, found, bootstrap_offset, table, held,
                     misrouted>>
  BY DEF hooks_init
<1>2. first \in [step : 0 .. 6, kind : {"none", "malloc", "calloc"}, size : Nat]
  BY DEF IInv, TypeOK
<1>3. first.step \in 1 .. 4
  BY <1>1 DEF Inside
<1>4. first'.step = first.step + 1 /\ first'.kind = first.kind /\ first'.size = first.size
  BY <1>1, <1>2, SMT
<1>5. first.step + 1 \in 0 .. 6
  BY <1>3, SMT
<1>6. first' \in [step : 0 .. 6, kind : {"none", "malloc", "calloc"}, size : Nat]
  BY <1>1, <1>2, <1>5
<1>7. ~ Open /\ ~ Open'
  BY <1>3, <1>4, SMT DEF Open
<1>8. StartOK'
  <2>1. first.step # 0 /\ first'.step # 0
    BY <1>3, <1>4, SMT
  <2>2. ASSUME found, NEW k \in 1 .. 4, k < first'.step PROVE Entries[k] \in real'
    <3>1. k < first.step \/ k = first.step
      BY <1>3, <1>4, <2>2, SMT
    <3> QED BY <1>1, <2>2, <3>1 DEF IInv, StartOK
  <2>3. ~ found => real' = {}
    BY <1>1, <2>1 DEF IInv, StartOK
  <2> QED BY <1>1, <1>4, <1>7, <2>1, <2>2, <2>3 DEF IInv, StartOK
<1>9. hooks_initialized'
  BY <1>1, <1>3, SMT DEF IInv, StartOK
<1> QED BY <1>1, <1>6, <1>7, <1>8, <1>9, FirstStepKeeps

\* The rest of the first call: with libc found its block is the first and only
\* tracked one, without it the buffer stays in use for good.
LEMMA FirstCallEndsKeeps ==
  ASSUME IInv, FirstCallEnds
  PROVE IInv'
<1>1. /\ first.step = 5 /\ first' = [first EXCEPT !.step = 6]
      /\ UNCHANGED <<hooks_initialized, real, found, misrouted>>
  BY DEF FirstCallEnds
<1>2. first \in [step : 0 .. 6, kind : {"none", "malloc", "calloc"}, size : Nat]
  BY DEF IInv, TypeOK
<1>3. /\ first'.step = 6 /\ first'.kind = first.kind
      /\ first' \in [step : 0 .. 6, kind : {"none", "malloc", "calloc"}, size : Nat]
  BY <1>1, <1>2, SMT
<1>4. hooks_initialized /\ first.step # 0 /\ first.kind \in {"malloc", "calloc"}
  BY <1>1, SMT DEF IInv, StartOK
<1>5. ~ Open /\ (Open' <=> found) /\ ~ Inside
  BY <1>1, <1>3, SMT DEF Open, Inside
<1>6. first.size \in Nat
  BY <1>2
<1>7. CASE ~ found
  <2>1. real = {}
    BY <1>7 DEF IInv, StartOK
  <2>2. bootstrap_malloc(first.size, held) /\ UNCHANGED <<bootstrap_active, table>>
    BY <2>1 DEF FirstCallEnds
  <2>3. StartOK'
    BY <1>1, <1>3, <1>4, <1>5, <1>7, <2>2, SMT DEF IInv, StartOK
  <2>4. /\ bootstrap_offset' \in 0 .. BufSize /\ held' \subseteq Objects
        /\ PlacesOK' /\ EntriesOK' /\ RoutedHome'
    <3>1. UNCHANGED <<found, hooks_initialized>> /\ UNCHANGED <<table, misrouted>>
      BY <1>1, <2>2
    <3>2. Open' = Open /\ (found \/ Inside => first.size > 0)
      BY <1>5, <1>7 DEF Open
    <3>3. PICK rest : rest = held
      OBVIOUS
    <3> QED BY <1>4, <1>6, <2>2, <2>3, <3>1, <3>2, <3>3, BufferServes
  <2>5. TypeOK'
    BY <1>1, <1>3, <2>2, <2>4 DEF IInv, TypeOK, Objects
  <2> QED BY <2>3, <2>4, <2>5 DEF IInv
<1>8. CASE found
  <2>1. \A k \in 1 .. 4 : Entries[k] \in real
    BY <1>1, <1>8, SMT DEF IInv, StartOK
  <2>2. "malloc" \in real /\ "calloc" \in real
    BY <2>1, SMT DEF Entries
  <2>3. first.kind \in real
    BY <1>4, <2>2
  <2>4. /\ bootstrap_active' = FALSE /\ UNCHANGED bootstrap_offset
        /\ \/ UNCHANGED <<held, table>>
           \/ \E p \in Unused(Libc) :
                held' = held \cup {Obj(p, first.size)} /\ table' = real_bootstrap_track(p)
    BY <2>3 DEF FirstCallEnds
  <2>5. StartOK'
    <3>1. first'.step # 0
      BY <1>3, SMT
    <3> QED BY <1>1, <1>3, <1>4, <1>5, <1>8, <2>1, <2>4, <3>1 DEF IInv, StartOK
  <2>6. /\ hooks_initialized' /\ Open' /\ found' = found
        /\ hooks_initialized' \in BOOLEAN /\ bootstrap_active' \in BOOLEAN
        /\ found' \in BOOLEAN /\ misrouted' \in BOOLEAN /\ bootstrap_offset' \in 0 .. BufSize
    BY <1>1, <1>4, <1>5, <1>8, <2>4 DEF IInv, TypeOK
  <2>7. CASE UNCHANGED <<held, table>>
    <3>1. TypeOK'
      BY <1>3, <2>6, <2>7 DEF IInv, TypeOK, Objects
    <3>2. PlacesOK'
      BY <2>6, <2>7 DEF IInv, PlacesOK, Buffer
    <3>3. EntriesOK'
      BY <2>7 DEF IInv, EntriesOK
    <3> QED BY <1>1, <2>5, <3>1, <3>2, <3>3 DEF IInv, RoutedHome
  <2>8. ASSUME NEW p \in Unused(Libc), held' = held \cup {Obj(p, first.size)},
               table' = real_bootstrap_track(p)
        PROVE IInv'
    <3>1. p \in Libc /\ p # Null /\ p # BufSize
      <4>1. p \in Libc
        BY DEF Unused
      <4>2. BufSize \in 0 .. BufSize
        BY Layout, SMT
      <4>3. BufSize \notin Libc
        BY <4>2, PlacesApart
      <4> QED BY <4>1, <4>3, PlacesApart
    <3>2. PICK n : n = Obj(p, first.size)
      OBVIOUS
    <3>3. n.at = p /\ ~ n.inner /\ n \in Objects /\ held' = held \cup {n}
      BY <1>5, <1>6, <2>8, <3>1, <3>2, NewObject
    <3>4. DOMAIN table = 1 .. TableSize /\ \A i \in 1 .. TableSize : table[i] = Null
      BY <1>5 DEF IInv, TypeOK, PlacesOK
    <3>5. {i \in DOMAIN table : table[i] = Null} = 1 .. TableSize
      BY <3>4
    <3>6. table' = [table EXCEPT ![1] = p]
      <4>1. 1 .. TableSize # {}
        BY MinOfAll
      <4> QED BY <2>8, <3>5, <4>1, MinOfAll DEF real_bootstrap_track
    <3>7. /\ table' \in [1 .. TableSize -> Libc \cup {Null}]
          /\ \A i \in 1 .. TableSize : table'[i] = IF i = 1 THEN p ELSE Null
      BY <3>1, <3>4, <3>6 DEF IInv, TypeOK
    <3>8. \A o \in held : o.at \notin Libc
      BY <1>5 DEF IInv, PlacesOK
    <3>9. TypeOK'
      BY <1>3, <2>6, <3>3, <3>7 DEF IInv, TypeOK, Objects
    <3>10. PlacesOK'
      BY <2>6, <3>1, <3>3 DEF IInv, PlacesOK, Buffer
    <3>11. EntriesOK'
      BY <3>1, <3>3, <3>7, <3>8, MinOfAll DEF EntriesOK
    <3> QED BY <1>1, <2>5, <3>9, <3>10, <3>11 DEF IInv, RoutedHome
  <2> QED BY <2>4, <2>7, <2>8
<1> QED BY <1>7, <1>8

-----------------------------------------------------------------------------
(* The theorems                                                            *)

\* When the library is loaded nothing is held and the table is empty.
LEMMA InitIInv == Init => IInv
<1> SUFFICES ASSUME Init PROVE IInv
  OBVIOUS
<1>1. /\ first.step = 0 /\ first.kind = "none"
      /\ first \in [step : 0 .. 6, kind : {"none", "malloc", "calloc"}, size : Nat]
  BY SMT DEF Init
<1>2. bootstrap_offset \in 0 .. BufSize
  BY Layout, SMT DEF Init
<1>3. \A i \in 1 .. TableSize : table[i] = Null
  BY DEF Init
<1>4. TypeOK
  BY <1>1, <1>2 DEF Init, TypeOK
<1>5. ~ Open /\ \A k \in 1 .. 4 : ~ (k < first.step)
  BY <1>1, SMT DEF Open
<1>6. StartOK
  BY <1>1, <1>5 DEF Init, StartOK
<1>7. PlacesOK
  BY <1>3 DEF Init, PlacesOK
<1>8. EntriesOK
  BY <1>3 DEF Init, EntriesOK
<1> QED BY <1>4, <1>6, <1>7, <1>8 DEF Init, IInv, RoutedHome

\* Each call of the program, and each step of the first one, keeps the invariant.
LEMMA NextIInv == IInv /\ [Next]_vars => IInv'
<1> SUFFICES ASSUME IInv, [Next]_vars PROVE IInv'
  OBVIOUS
<1>0. \A size \in HookSizes : size \in Nat
  BY Layout
<1>1. ASSUME NEW size \in HookSizes, NEW kind \in {"malloc", "calloc"}, FirstCall(kind, size)
      PROVE IInv'
  BY <1>0, <1>1, FirstCallKeeps
<1>2. ASSUME NEW size \in HookSizes, Malloc(size) PROVE IInv'
  <2>1. /\ Later /\ UNCHANGED <<table, misrouted>> /\ hooks_initialized /\ Ready
        /\ (Inside => size > 0) /\ malloc(size, held)
    BY <1>2 DEF Malloc, Later
  <2>2. PICK rest : rest = held
    OBVIOUS
  <2> QED BY <1>0, <2>1, <2>2, MallocKeeps
<1>3. ASSUME NEW size \in HookSizes, memalign(size) PROVE IInv'
  <2>1. /\ Later /\ UNCHANGED <<table, misrouted>> /\ ~ Inside /\ adaptive_malloc(size, held)
    BY <1>3 DEF memalign, Later
  <2>2. PICK rest : rest = held
    OBVIOUS
  <2>3. StartOK' /\ Open' = Open /\ UNCHANGED <<found, hooks_initialized>>
    BY <2>1, StartStays DEF IInv
  <2>4. /\ bootstrap_offset' \in 0 .. BufSize /\ held' \subseteq Objects
        /\ PlacesOK' /\ EntriesOK' /\ RoutedHome'
    BY <1>0, <2>1, <2>2, <2>3, AdaptiveServes
  <2> QED BY <2>1, <2>4, Assembled
<1>4. ASSUME NEW size \in HookSizes, NEW o \in Reach, Realloc(o, size) PROVE IInv'
  BY <1>0, <1>4, ReallocKeeps
<1>5. ASSUME NEW o \in Reach, Free(o) PROVE IInv'
  <2>1. Ready /\ free(o) /\ Later /\ UNCHANGED bootstrap_offset
    BY <1>5 DEF Free, Later
  <2> QED BY <2>1, FreeKeeps
<1>6. CASE hooks_init
  BY <1>6, HooksInitKeeps
<1>7. CASE FirstCallEnds
  BY <1>7, FirstCallEndsKeeps
<1>8. CASE UNCHANGED vars
  <2>1. Later /\ UNCHANGED <<table, held, misrouted, bootstrap_offset>>
    BY <1>8 DEF vars, Later
  <2>2. StartOK' /\ Open' = Open /\ UNCHANGED <<found, hooks_initialized>>
    BY <2>1, StartStays DEF IInv
  <2>3. held' \subseteq Objects /\ PlacesOK' /\ EntriesOK' /\ RoutedHome'
    BY <2>1, <2>2, Kept
  <2>4. bootstrap_offset' \in 0 .. BufSize
    BY <2>1 DEF IInv, TypeOK
  <2> QED BY <2>1, <2>3, <2>4, Assembled
<1> QED BY <1>1, <1>2, <1>3, <1>4, <1>5, <1>6, <1>7, <1>8 DEF Next

\* The inductive invariant holds in every reachable state of the hooks.
LEMMA HooksInvariant == Spec => []IInv
BY InitIInv, NextIInv, PTL DEF Spec

\* free, realloc and the first call of src/hooks.cpp give every pointer back to
\* the allocator it came from, wherever in hooks_init the calls of the program
\* and of dlsym fall.
THEOREM PointersGoHome == Spec => []RoutedHome
<1>1. IInv => RoutedHome
  BY DEF IInv
<1> QED BY <1>1, HooksInvariant, PTL

\* real_bootstrap_ptrs holds the libc pointers the program owns, no more and no
\* fewer: track, replace and untrack follow every one of them.
THEOREM TableStaysExact == Spec => []TableExact
<1>1. IInv => TableExact
  <2> SUFFICES ASSUME IInv PROVE TableExact
    OBVIOUS
  <2>1. DOMAIN table = 1 .. TableSize /\ \A i \in 1 .. TableSize : table[i] \in Libc \cup {Null}
    BY DEF IInv, TypeOK
  <2>2. ASSUME NEW i \in 1 .. TableSize, table[i] # Null
        PROVE table[i] \in Addresses(held) \cap Libc
    BY <2>1, <2>2 DEF IInv, EntriesOK, Addresses
  <2>3. ASSUME NEW o \in held, o.at \in Libc
        PROVE o.at # Null /\ \E i \in 1 .. TableSize : table[i] = o.at
    BY <2>3, PlacesApart DEF IInv, EntriesOK
  <2> QED BY <2>1, <2>2, <2>3 DEF TableExact, Addresses
<1> QED BY <1>1, HooksInvariant, PTL
=============================================================================
