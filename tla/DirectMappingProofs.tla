------------------------ MODULE DirectMappingProofs ------------------------
(***************************************************************************)
(* Proofs about DirectMapping, for any number of threads, regions, sizes   *)
(* and resets: an owned pointer stays intact, quarantine is kept, and the  *)
(* extent cache stays empty.                                               *)
(***************************************************************************)
EXTENDS DirectMapping, TLAPS

\* Most leaves need no arithmetic: Zenon first, then SMT.
USE ZenonT(10), SMTT(20)

----------------------------------------------------------------------------
(* The inductive invariant.                                                 *)

\* The region can be used and freed.
Intact(r) == mapped[r] > 0 /\ HeaderFast(r) /\ r \in registry /\ hdr[r].size = mapped[r]

\* The regions a running call has: the new one, the one to free, the one to return.
Hands(t) == {call[t].r, call[t].old, call[t].ret} \ {NoRegion}

Resting == {"idle", "clear_live", "clear_mapped"}
Making == {"pop", "mmap", "pool", "register", "publish", "count_mapped", "count_live"}
Freeing == {"count_free", "release", "count_unmapped", "unregister", "munmap"}
WithRegion == Freeing \cup {"register", "publish", "count_mapped", "count_live"}
Published == {"count_mapped", "count_live", "count_free", "release"}

\* What a call has in hand at each of its steps.
CallOK(t) ==
  /\ pc[t] \in Resting => Hands(t) = {}
  /\ pc[t] \in Making => call[t].ret = NoRegion /\ call[t].size > 0
  /\ pc[t] \in {"pop", "mmap", "pool"} => call[t].r = NoRegion
  /\ pc[t] = "pool" => call[t].old # NoRegion
  /\ pc[t] \in Freeing => call[t].old = NoRegion
  /\ pc[t] \in WithRegion =>
       /\ call[t].r \in Regions /\ mapped[call[t].r] > 0
       /\ call[t].r # call[t].old /\ call[t].r # call[t].ret
  /\ pc[t] \in {"register", "publish"} => mapped[call[t].r] = MappedFor(call[t].size)
  /\ pc[t] = "publish" => call[t].r \in registered
  /\ pc[t] \in Published => Intact(call[t].r)
  /\ call[t].old # NoRegion => Intact(call[t].old)
  /\ call[t].ret # NoRegion => Intact(call[t].ret)

\* No region is in two places.
Apart ==
  /\ held \cap quarantined = {}
  /\ \A t \in Threads : Hands(t) \cap (held \cup quarantined) = {}
  /\ \A t, u \in Threads : t # u => Hands(t) \cap Hands(u) = {}

\* A quarantined region is owned, and its header says that it was freed.
QuarantineOK ==
  \A r \in quarantined : mapped[r] > 0 /\ r \in registered /\ ~ hdr[r].magic /\ r \notin registry

IInv ==
  /\ TypeOK /\ Apart /\ cache = {} /\ QuarantineOK
  /\ \A r \in held : Intact(r)
  /\ \A t \in Threads : CallOK(t)

----------------------------------------------------------------------------
(* What a step of one call leaves alone.                                    *)

\* The step does not touch region r.
Same(r) ==
  /\ mapped'[r] = mapped[r] /\ hdr'[r] = hdr[r]
  /\ r \in registered' <=> r \in registered
  /\ r \in registry' <=> r \in registry

\* A region that is not touched is as usable as before.
LEMMA SameIntact == ASSUME NEW r, Same(r) PROVE Intact(r)' <=> Intact(r)
BY DEF Same, Intact, HeaderFast

\* A call whose regions are not touched is as it was.
LEMMA OtherCall ==
  ASSUME NEW u \in Threads, CallOK(u), pc'[u] = pc[u], call'[u] = call[u],
         \A r \in Hands(u) : Same(r), NoRegion \notin Regions
  PROVE CallOK(u)'
<1>1. Hands(u)' = Hands(u)
  BY DEF Hands
<1>2. \A r \in Hands(u) : /\ Intact(r)' <=> Intact(r)
                          /\ mapped'[r] = mapped[r]
                          /\ r \in registered' <=> r \in registered
  BY SameIntact DEF Same
<1>3. /\ call[u].r # NoRegion => call[u].r \in Hands(u)
      /\ call[u].old # NoRegion => call[u].old \in Hands(u)
      /\ call[u].ret # NoRegion => call[u].ret \in Hands(u)
  BY DEF Hands
<1>4. pc[u] \in Published \cup {"register", "publish"} => call[u].r \in Hands(u)
  BY <1>3 DEF CallOK, Published, Resting, WithRegion, Making, Freeing
<1>5. pc[u] \in WithRegion => call[u].r \in Hands(u)
  BY <1>3 DEF CallOK
<1>6. /\ pc[u] \in Published => Intact(call[u].r)'
      /\ call[u].old # NoRegion => Intact(call[u].old)'
      /\ call[u].ret # NoRegion => Intact(call[u].ret)'
  BY <1>2, <1>3, <1>4 DEF CallOK
<1>7. /\ pc[u] \in WithRegion => mapped'[call[u].r] > 0
      /\ pc[u] \in {"register", "publish"} => mapped'[call[u].r] = MappedFor(call[u].size)
      /\ pc[u] = "publish" => call[u].r \in registered'
  BY <1>2, <1>4, <1>5 DEF CallOK
<1> QED BY <1>1, <1>6, <1>7 DEF CallOK, Intact, HeaderFast, MappedFor

\* A step of thread t that touches no region but r0, which no other call has and
\* the program does not own.
Touches(t, r0) ==
  /\ \A u \in Threads \ {t} : pc'[u] = pc[u] /\ call'[u] = call[u] /\ r0 \notin Hands(u)
  /\ \A r \in Regions \ {r0} : Same(r)
  /\ r0 \notin held \cup quarantined
  /\ cache' = cache

\* Regions change hands between the call and the program; the rest is a frame.
LEMMA Frame ==
  ASSUME IInv, NEW t \in Threads, NEW r0, Touches(t, r0), TypeOK', CallOK(t)',
         Hands(t)' \cup held' \cup quarantined' \subseteq Hands(t) \cup held \cup quarantined \cup {r0},
         held' \cap quarantined' = {}, Hands(t)' \cap (held' \cup quarantined') = {},
         \A r \in held' \ held : Intact(r)',
         \A r \in quarantined' \ quarantined :
           mapped'[r] > 0 /\ r \in registered' /\ ~ hdr'[r].magic /\ r \notin registry'
  PROVE IInv'
<1>0. NoRegion \notin Regions /\ held \subseteq Regions /\ quarantined \subseteq Regions
  BY DirectConstants DEF IInv, TypeOK
<1>1. ASSUME NEW u \in Threads \ {t}
      PROVE /\ Hands(u)' = Hands(u) /\ CallOK(u)'
            /\ Hands(u) \cap (Hands(t) \cup held \cup quarantined \cup {r0}) = {}
  <2>1. /\ pc'[u] = pc[u] /\ call'[u] = call[u] /\ r0 \notin Hands(u)
    BY DEF Touches
  <2>2. Hands(u) \subseteq Regions
    BY DEF IInv, TypeOK, Calls, Hands
  <2>3. \A r \in Hands(u) : Same(r)
    BY <2>1, <2>2 DEF Touches
  <2>4. CallOK(u)'
    BY <1>0, <2>1, <2>3, OtherCall DEF IInv
  <2> QED BY <2>1, <2>4 DEF IInv, Apart, Hands
<1>2. Apart'
  <2>1. \A u \in Threads \ {t} : /\ Hands(u)' \cap (held' \cup quarantined') = {}
                                 /\ Hands(u)' \cap Hands(t)' = {}
    BY <1>1
  <2>2. \A u, v \in Threads \ {t} : u # v => Hands(u)' \cap Hands(v)' = {}
    BY <1>1 DEF IInv, Apart
  <2> QED BY <2>1, <2>2 DEF Apart
<1>3. \A r \in held' : Intact(r)'
  <2>1. \A r \in held : Same(r)
    BY <1>0 DEF Touches
  <2> QED BY <2>1, SameIntact DEF IInv
<1>4. QuarantineOK'
  <2>1. \A r \in quarantined : Same(r)
    BY <1>0 DEF Touches
  <2> QED BY <2>1 DEF IInv, QuarantineOK, Same
<1> QED BY <1>1, <1>2, <1>3, <1>4 DEF IInv, Touches

\* The region a call works on is its own.
LEMMA Mine ==
  ASSUME IInv, NEW t \in Threads, pc[t] \in WithRegion
  PROVE /\ call[t].r \in Regions /\ call[t].r # NoRegion /\ mapped[call[t].r] \in Nat
        /\ call[t].r \notin held \cup quarantined
        /\ \A u \in Threads \ {t} : call[t].r \notin Hands(u)
<1>1. call[t].r \in Regions /\ call[t].r # NoRegion
  BY DirectConstants DEF IInv, CallOK
<1>2. call[t].r \in Hands(t)
  BY <1>1 DEF Hands
<1> QED BY <1>1, <1>2 DEF IInv, Apart, TypeOK

\* A step that keeps the call's regions and works on its own one.
LEMMA Walk ==
  ASSUME IInv, NEW t \in Threads, pc[t] \in WithRegion,
         NEW q \in PCs, pc' = [pc EXCEPT ![t] = q],
         \A r \in Regions \ {call[t].r} : Same(r),
         UNCHANGED <<call, held, quarantined, cache>>, TypeOK', CallOK(t)'
  PROVE IInv'
<1> DEFINE r0 == call[t].r
<1>1. Touches(t, r0)
  BY Mine DEF Touches, IInv, TypeOK
<1>2. Hands(t)' = Hands(t)
  BY DEF Hands
<1> HIDE DEF r0
<1>3. /\ held' = held /\ quarantined' = quarantined
      /\ held \cap quarantined = {} /\ Hands(t) \cap (held \cup quarantined) = {}
  BY DEF IInv, Apart
<1> QED BY <1>1, <1>2, <1>3, Frame

\* A step that touches no region: regions pass between the call and the program.
LEMMA Hand ==
  ASSUME IInv, NEW t \in Threads, UNCHANGED <<kernel, lists, quarantined>>,
         \A u \in Threads \ {t} : pc'[u] = pc[u] /\ call'[u] = call[u],
         TypeOK', CallOK(t)',
         Hands(t)' \cup held' \subseteq Hands(t) \cup held,
         Hands(t)' \cap held' = {},
         \A r \in held' \ held : Intact(r)
  PROVE IInv'
<1>1. Touches(t, NoRegion)
  BY DirectConstants DEF Touches, Same, kernel, lists, IInv, TypeOK, Hands
<1>2. \A r : Intact(r)' <=> Intact(r)
  BY DEF Intact, HeaderFast, kernel, lists
<1>3. /\ Hands(t) \cap (held \cup quarantined) = {} /\ held \cap quarantined = {}
  BY DEF IInv, Apart
<1>4. /\ Hands(t)' \cup held' \cup quarantined' \subseteq Hands(t) \cup held \cup quarantined \cup {NoRegion}
      /\ held' \cap quarantined' = {} /\ Hands(t)' \cap (held' \cup quarantined') = {}
  BY <1>3
<1>5. \A r \in quarantined' \ quarantined :
        mapped'[r] > 0 /\ r \in registered' /\ ~ hdr'[r].magic /\ r \notin registry'
  OBVIOUS
<1>6. \A r \in held' \ held : Intact(r)'
  BY <1>2
<1> QED BY <1>1, <1>4, <1>5, <1>6, Frame

\* The modes and the empty call.
LEMMA Constants ==
  /\ AnyMode \in Modes /\ NoRegion \notin Regions /\ Overhead \in Nat
  /\ NoCall \in Calls /\ ZeroHeader \in Headers
  /\ NoCall.r = NoRegion /\ NoCall.old = NoRegion /\ NoCall.ret = NoRegion
<1>1. AnyMode \in Modes
  BY DirectConstants DEF AnyMode
<1>2. NoRegion \notin Regions /\ Overhead \in Nat
  BY DirectConstants
<1> QED BY <1>1, <1>2, SMT DEF NoCall, Calls, ZeroHeader, Headers

----------------------------------------------------------------------------
(* One lemma per action.                                                    *)

\* The calls that malloc and realloc begin, and realloc's free of the old region.
Asking(m, s) == [NoCall EXCEPT !.mode = m, !.size = s]
Resizing(m, s, o) == [NoCall EXCEPT !.mode = m, !.size = s, !.old = o]
Replacing(o, r) == [NoCall EXCEPT !.r = o, !.ret = r]

\* What malloc's call starts with.
LEMMA AskingCall ==
  ASSUME NEW m \in Modes, NEW s \in Nat
  PROVE /\ Asking(m, s) \in Calls
        /\ Asking(m, s).size = s /\ Asking(m, s).r = NoRegion
        /\ Asking(m, s).old = NoRegion /\ Asking(m, s).ret = NoRegion
<1>1. Asking(m, s) \in Calls
  BY Constants DEF Asking, Calls
<1>2. Asking(m, s).size = s /\ Asking(m, s).r = NoRegion
  BY Constants, SMT DEF Asking, Calls
<1>3. Asking(m, s).old = NoRegion /\ Asking(m, s).ret = NoRegion
  BY Constants, SMT DEF Asking, Calls
<1> QED BY <1>1, <1>2, <1>3

\* What realloc's call starts with: the old region in hand.
LEMMA ResizingCall ==
  ASSUME NEW m \in Modes, NEW s \in Nat, NEW o \in Regions
  PROVE /\ Resizing(m, s, o) \in Calls
        /\ Resizing(m, s, o).size = s /\ Resizing(m, s, o).r = NoRegion
        /\ Resizing(m, s, o).old = o /\ Resizing(m, s, o).ret = NoRegion
<1>1. Resizing(m, s, o) \in Calls
  BY Constants DEF Resizing, Calls
<1>2. Resizing(m, s, o).size = s /\ Resizing(m, s, o).r = NoRegion
  BY Constants, SMT DEF Resizing, Calls
<1>3. Resizing(m, s, o).old = o /\ Resizing(m, s, o).ret = NoRegion
  BY Constants, SMT DEF Resizing, Calls
<1> QED BY <1>1, <1>2, <1>3

\* realloc frees the old region and will return the new one.
LEMMA ReplacingCall ==
  ASSUME NEW o \in Regions, NEW r \in Regions
  PROVE /\ Replacing(o, r) \in Calls
        /\ Replacing(o, r).r = o /\ Replacing(o, r).old = NoRegion
        /\ Replacing(o, r).ret = r
<1>1. Replacing(o, r) \in Calls
  BY Constants DEF Replacing, Calls
<1>2. Replacing(o, r).r = o /\ Replacing(o, r).old = NoRegion
  BY Constants, SMT DEF Replacing, Calls
<1>3. Replacing(o, r).ret = r
  BY Constants, SMT DEF Replacing, Calls
<1> QED BY <1>1, <1>2, <1>3

\* malloc begins with nothing in hand.
LEMMA MallocStep == ASSUME IInv, NEW t \in Threads, Malloc(t) PROVE IInv'
<1>1. PICK m \in Modes, s \in Sizes :
        /\ call' = [call EXCEPT ![t] = Asking(m, s)]
        /\ pc' = [pc EXCEPT ![t] = FirstStep(m)]
  BY DEF Malloc, Goto, Asking
<1>c. PICK c : c = Asking(m, s)
  OBVIOUS
<1>2. s \in Nat /\ s > 0
  BY DirectConstants
<1>3. c \in Calls /\ c.size = s /\ c.r = NoRegion /\ c.old = NoRegion /\ c.ret = NoRegion
  BY <1>c, <1>2, AskingCall
<1>4. /\ pc[t] = "idle" /\ UNCHANGED <<kernel, lists, gauges, repeats, held, quarantined, resets>>
  BY DEF Malloc
<1>5. call'[t] = c /\ pc'[t] \in {"pop", "mmap"} /\ \A u \in Threads \ {t} : pc'[u] = pc[u] /\ call'[u] = call[u]
  BY <1>c, <1>1 DEF IInv, TypeOK, FirstStep
<1>6. TypeOK'
  BY <1>c, <1>1, <1>3, <1>4 DEF IInv, TypeOK, kernel, lists, gauges, FirstStep, PCs
<1>7. Hands(t)' = {}
  BY <1>3, <1>5 DEF Hands
<1>8. CallOK(t)'
  BY <1>2, <1>3, <1>5, <1>7 DEF CallOK, Resting, WithRegion, Making, Freeing, Published
<1>9. /\ Hands(t)' \cup held' \subseteq Hands(t) \cup held
      /\ Hands(t)' \cap held' = {} /\ \A r \in held' \ held : Intact(r)
  BY <1>4, <1>7
<1> QED BY <1>4, <1>5, <1>6, <1>8, <1>9, Hand

\* The cache is empty, so the streaming mode maps as the others do.
LEMMA PopExtentStep == ASSUME IInv, NEW t \in Threads, PopExtent(t) PROVE IInv'
<1>1. /\ pc[t] = "pop" /\ pc' = [pc EXCEPT ![t] = "mmap"]
      /\ UNCHANGED <<call, lists, kernel, gauges, repeats, held, quarantined, resets>>
  BY DEF PopExtent, IInv, Goto
<1>2. TypeOK' /\ pc'[t] = "mmap"
  BY <1>1 DEF IInv, TypeOK, kernel, lists, gauges, PCs
<1>3. \A r : Intact(r)' <=> Intact(r)
  BY <1>1 DEF Intact, HeaderFast, kernel, lists
<1>4. CallOK(t)'
  BY <1>1, <1>2, <1>3 DEF IInv, CallOK, Resting, WithRegion, Making, Freeing, Published, Intact
<1>5. /\ \A u \in Threads \ {t} : pc'[u] = pc[u] /\ call'[u] = call[u]
      /\ Hands(t)' = Hands(t) /\ held' = held
  BY <1>1 DEF IInv, TypeOK, Hands
<1>6. /\ Hands(t)' \cup held' \subseteq Hands(t) \cup held
      /\ Hands(t)' \cap held' = {} /\ \A r \in held' \ held : Intact(r)
  BY <1>5 DEF IInv, Apart
<1> QED BY <1>1, <1>2, <1>4, <1>5, <1>6, Hand

\* The kernel returns a region that nobody has, for all in use are mapped.
LEMMA MmapStep == ASSUME IInv, NEW t \in Threads, Mmap(t) PROVE IInv'
<1>1. PICK r0 \in Regions :
        /\ mapped[r0] = 0
        /\ mapped' = [mapped EXCEPT ![r0] = MappedFor(call[t].size)]
        /\ hdr' = [hdr EXCEPT ![r0] = ZeroHeader]
        /\ call' = [call EXCEPT ![t] = [@ EXCEPT !.r = r0]]
  BY DEF Mmap
<1>2. /\ pc[t] = "mmap" /\ pc' = [pc EXCEPT ![t] = "register"]
      /\ UNCHANGED <<registered, registry, cache, gauges, repeats, held, quarantined, resets>>
  BY DEF Mmap, Goto
<1>3. /\ call[t] \in Calls /\ call[t].size \in Nat /\ call[t].size > 0
      /\ call[t].r = NoRegion /\ call[t].ret = NoRegion /\ call[t].old \in Regions \cup {NoRegion}
  BY <1>2 DEF IInv, TypeOK, CallOK, Resting, WithRegion, Making, Calls
<1>4. MappedFor(call[t].size) \in Nat /\ MappedFor(call[t].size) > 0
  BY <1>3, Constants, SMT DEF MappedFor
<1>5. /\ call'[t] = [call[t] EXCEPT !.r = r0] /\ call'[t] \in Calls
      /\ call'[t].r = r0 /\ call'[t].size = call[t].size
      /\ call'[t].ret = NoRegion /\ call'[t].old = call[t].old
  BY <1>1, <1>3, SMT DEF IInv, TypeOK, Calls
<1>6. /\ pc'[t] = "register" /\ mapped'[r0] = MappedFor(call[t].size)
      /\ \A u \in Threads \ {t} : pc'[u] = pc[u] /\ call'[u] = call[u]
      /\ \A r \in Regions \ {r0} : mapped'[r] = mapped[r] /\ hdr'[r] = hdr[r]
  BY <1>1, <1>2 DEF IInv, TypeOK
\* Every region in use is mapped.
<1>7. ~ Intact(r0) /\ r0 \notin held \cup quarantined
  <2>1. ~ (mapped[r0] > 0)
    BY <1>1, SMT
  <2> QED BY <2>1 DEF Intact, IInv, QuarantineOK
<1>8. \A u \in Threads : r0 \notin Hands(u)
  <2> SUFFICES ASSUME NEW u \in Threads, r0 \in Hands(u) PROVE FALSE
    OBVIOUS
  <2>1. ~ (mapped[r0] > 0) /\ r0 # NoRegion
    BY <1>1, Constants, SMT
  <2>2. CallOK(u) /\ pc[u] \in PCs
    BY DEF IInv, TypeOK
  <2>3. r0 = call[u].r
    BY <1>7, <2>1, <2>2 DEF Hands, CallOK
  <2>4. pc[u] \notin WithRegion
    BY <2>1, <2>2, <2>3 DEF CallOK
  <2>5. pc[u] \in Resting \cup {"pop", "mmap", "pool"}
    BY <2>2, <2>4 DEF PCs, Resting, WithRegion, Freeing
  <2> QED BY <2>1, <2>2, <2>3, <2>5 DEF CallOK, Hands
<1>9. Touches(t, r0)
  BY <1>2, <1>6, <1>7, <1>8 DEF Touches, Same
<1>10. TypeOK'
  <2>1. mapped' \in [Regions -> Nat] /\ hdr' \in [Regions -> Headers]
    BY <1>1, <1>4, Constants DEF IInv, TypeOK
  <2>2. call' \in [Threads -> Calls]
    BY <1>1, <1>5 DEF IInv, TypeOK
  <2>3. pc' \in [Threads -> PCs]
    BY <1>2 DEF IInv, TypeOK, PCs
  <2> QED BY <1>2, <2>1, <2>2, <2>3 DEF IInv, TypeOK, gauges
<1>11. CallOK(t)'
  <2>1. call[t].old # NoRegion => call[t].old \in Regions \ {r0} /\ Intact(call[t].old)
    BY <1>3, <1>8 DEF Hands, IInv, CallOK
  <2>2. \A r \in Regions \ {r0} : Intact(r)' <=> Intact(r)
    BY <1>9, SameIntact DEF Touches
  <2>3. r0 # call[t].old /\ r0 # NoRegion
    BY <2>1, Constants
  <2>4. PICK o : o = call[t].old
    OBVIOUS
  <2>5. o # NoRegion => Intact(o)'
    BY <2>1, <2>2, <2>4
  <2> QED BY <1>3, <1>4, <1>5, <1>6, <2>3, <2>4, <2>5 DEF CallOK, Resting, WithRegion, Making, Freeing, Published, Intact, HeaderFast
<1>12. Hands(t)' = Hands(t) \cup {r0}
  BY <1>3, <1>5, Constants DEF Hands
<1>13. /\ Hands(t)' \cup held' \cup quarantined' \subseteq Hands(t) \cup held \cup quarantined \cup {r0}
       /\ held' \cap quarantined' = {} /\ Hands(t)' \cap (held' \cup quarantined') = {}
       /\ held' = held /\ quarantined' = quarantined
  BY <1>2, <1>7, <1>12 DEF IInv, Apart
<1> QED BY <1>9, <1>10, <1>11, <1>13, Frame

\* What the end of a call leaves.
LEMMA Finished ==
  ASSUME IInv, NEW t \in Threads, NEW r \in Hands(t) \cup {NoRegion}, Finish(t, r)
  PROVE /\ Hands(t)' = {} /\ CallOK(t)'
        /\ \A u \in Threads \ {t} : pc'[u] = pc[u] /\ call'[u] = call[u]
        /\ pc' \in [Threads -> PCs] /\ call' \in [Threads -> Calls] /\ held' \in SUBSET Regions
        /\ held' = held \cup ({r} \ {NoRegion})
<1>1. /\ pc' = [pc EXCEPT ![t] = "idle"] /\ call' = [call EXCEPT ![t] = NoCall]
      /\ held' = held \cup ({r} \ {NoRegion})
  BY DEF Finish, Goto
<1>2. pc'[t] = "idle" /\ call'[t] = NoCall
  BY <1>1 DEF IInv, TypeOK
<1>3. Hands(t)' = {}
  BY <1>2, Constants DEF Hands
<1>4. CallOK(t)'
  BY <1>2, <1>3, Constants DEF CallOK, Resting, WithRegion, Making, Freeing, Published
<1>5. Hands(t) \subseteq Regions
  BY DEF IInv, TypeOK, Calls, Hands
<1>6. pc' \in [Threads -> PCs] /\ call' \in [Threads -> Calls] /\ held' \in SUBSET Regions
  BY <1>1, <1>5, Constants DEF IInv, TypeOK, PCs
<1>7. \A u \in Threads \ {t} : pc'[u] = pc[u] /\ call'[u] = call[u]
  BY <1>1 DEF IInv, TypeOK
<1> QED BY <1>1, <1>3, <1>4, <1>6, <1>7

\* A refused realloc gives the old region back.
LEMMA MmapFailsStep == ASSUME IInv, NEW t \in Threads, MmapFails(t) PROVE IInv'
<1> DEFINE o == call[t].old
<1>1. /\ pc[t] = "mmap" /\ Finish(t, o)
      /\ UNCHANGED <<kernel, lists, gauges, repeats, quarantined, resets>>
  BY DEF MmapFails
<1>2. o \in Hands(t) \cup {NoRegion} /\ (o # NoRegion => Intact(o))
  BY DEF Hands, IInv, CallOK
<1> HIDE DEF o
<1>3. /\ Hands(t)' = {} /\ CallOK(t)'
      /\ \A u \in Threads \ {t} : pc'[u] = pc[u] /\ call'[u] = call[u]
      /\ pc' \in [Threads -> PCs] /\ call' \in [Threads -> Calls] /\ held' \in SUBSET Regions
      /\ held' = held \cup ({o} \ {NoRegion})
  BY <1>1, <1>2, Finished
<1>4. TypeOK'
  BY <1>1, <1>3 DEF IInv, TypeOK, kernel, lists, gauges
<1>5. /\ Hands(t)' \cup held' \subseteq Hands(t) \cup held
      /\ Hands(t)' \cap held' = {} /\ \A r \in held' \ held : Intact(r)
  BY <1>2, <1>3
<1> QED BY <1>1, <1>3, <1>4, <1>5, Hand

\* register_region adds the call's own region.
LEMMA RegisterRegionStep == ASSUME IInv, NEW t \in Threads, RegisterRegion(t) PROVE IInv'
<1> DEFINE r0 == call[t].r
<1>1. /\ pc[t] = "register" /\ pc' = [pc EXCEPT ![t] = "publish"]
      /\ registered' = registered \cup {r0}
      /\ UNCHANGED <<mapped, lists, gauges, repeats, held, quarantined, resets, call>>
  BY DEF RegisterRegion, Goto
<1>2. r0 \in Regions /\ pc[t] \in WithRegion
  BY <1>1, Mine DEF WithRegion, Making
<1>3. TypeOK' /\ pc'[t] = "publish" /\ "publish" \in PCs
  BY <1>1, <1>2 DEF IInv, TypeOK, lists, gauges, PCs
<1>4. \A r \in Regions \ {r0} : Same(r)
  BY <1>1 DEF Same, lists
<1>5. \A r : Intact(r) => Intact(r)'
  BY <1>1 DEF Intact, HeaderFast, lists
<1>6. CallOK(t)'
  BY <1>1, <1>3, <1>5 DEF IInv, CallOK, Resting, WithRegion, Making, Freeing, Published, Intact, HeaderFast, MappedFor
<1>7. UNCHANGED <<call, held, quarantined, cache>>
  BY <1>1 DEF lists
<1> QED BY <1>1, <1>2, <1>3, <1>4, <1>6, <1>7, Walk

\* Written header and registry entry make the region intact.
LEMMA PublishStep == ASSUME IInv, NEW t \in Threads, Publish(t) PROVE IInv'
<1> DEFINE r0 == call[t].r
           h == [magic |-> TRUE, mode |-> call[t].mode, usable |-> call[t].size,
                 size |-> MappedFor(call[t].size)]
<1>1. /\ pc[t] = "publish" /\ pc' = [pc EXCEPT ![t] = "count_mapped"]
      /\ hdr' = [hdr EXCEPT ![r0] = h] /\ registry' = registry \cup {r0}
      /\ UNCHANGED <<kernel, cache, gauges, repeats, held, quarantined, resets, call>>
  BY DEF Publish, Goto
<1>2. r0 \in Regions /\ pc[t] \in WithRegion
  BY <1>1, Mine DEF WithRegion, Making
<1>3. call[t] \in Calls /\ call[t].size \in Nat /\ call[t].mode \in Modes
  BY DEF IInv, TypeOK, Calls
<1>4. h \in Headers /\ h.magic /\ h.size = MappedFor(call[t].size)
  BY <1>3, Constants, SMT DEF Headers, MappedFor
<1> HIDE DEF h
<1>5. pc'[t] = "count_mapped" /\ "count_mapped" \in PCs /\ hdr'[r0] = h
  BY <1>1, <1>2 DEF IInv, TypeOK, PCs
<1>6. TypeOK'
  BY <1>1, <1>2, <1>4, <1>5 DEF IInv, TypeOK, kernel, gauges
<1>7. \A r \in Regions \ {r0} : Same(r)
  BY <1>1 DEF Same, kernel, IInv, TypeOK
<1>8. Intact(r0)'
  BY <1>1, <1>2, <1>4, <1>5 DEF Intact, HeaderFast, kernel, IInv, CallOK, Resting, WithRegion, Making
<1>9. /\ call[t].old # NoRegion => call[t].old \in Regions \ {r0} /\ Intact(call[t].old)
      /\ call[t].ret = NoRegion
  BY <1>1, <1>2 DEF IInv, TypeOK, Calls, CallOK, Resting, WithRegion, Making
<1>10. mapped' = mapped /\ call' = call
  BY <1>1 DEF kernel
<1>11. call[t].old # NoRegion => Intact(call[t].old)'
  <2>1. \A r \in Regions \ {r0} : Intact(r)' <=> Intact(r)
    BY <1>7, SameIntact
  <2>2. PICK o : o = call[t].old
    OBVIOUS
  <2> QED BY <1>9, <1>10, <2>1, <2>2
<1>12. CallOK(t)'
  BY <1>1, <1>2, <1>5, <1>8, <1>9, <1>10, <1>11 DEF IInv, CallOK, Resting, WithRegion, Making, Freeing, Published
<1> QED BY <1>1, <1>2, <1>5, <1>6, <1>7, <1>12, Walk

\* The steps that only update a gauge.
LEMMA GaugeStep ==
  ASSUME IInv, NEW t \in Threads, NEW q,
         \/ pc[t] = "count_mapped" /\ q = "count_live"
         \/ pc[t] = "count_free" /\ q = "release"
         \/ pc[t] = "count_unmapped" /\ q = "unregister",
         pc' = [pc EXCEPT ![t] = q],
         UNCHANGED <<kernel, lists, repeats, held, quarantined, resets, call>>,
         mappedGauge' \in [Modes -> Int], liveGauge' \in [Modes -> Int]
  PROVE IInv'
<1>1. pc'[t] = q /\ q \in PCs /\ pc[t] \in WithRegion
  BY DEF IInv, TypeOK, PCs, WithRegion, Making, Freeing
<1>2. TypeOK'
  BY <1>1 DEF IInv, TypeOK, kernel, lists
<1>3. \A r \in Regions : Same(r)
  BY DEF Same, kernel, lists
<1>4. \A r : Intact(r)' <=> Intact(r)
  BY DEF Intact, HeaderFast, kernel, lists
<1>5. CallOK(t)'
  BY <1>1, <1>4 DEF IInv, CallOK, Resting, WithRegion, Making, Freeing, Published, kernel, Hands
<1>6. UNCHANGED <<call, held, quarantined, cache>>
  BY DEF lists
<1> QED BY <1>1, <1>2, <1>3, <1>5, <1>6, Walk

\* A gauge stays an integer.
LEMMA GaugeType ==
  ASSUME NEW g \in [Modes -> Int], NEW m \in Modes, NEW n \in Nat
  PROVE [g EXCEPT ![m] = @ + n] \in [Modes -> Int] /\ [g EXCEPT ![m] = @ - n] \in [Modes -> Int]
BY SMT

\* adaptive_telemetry_on_mapped changes a gauge only.
LEMMA CountMappedStep == ASSUME IInv, NEW t \in Threads, CountMapped(t) PROVE IInv'
<1>1. mappedGauge' \in [Modes -> Int]
  <2>1. call[t].size \in Nat /\ call[t].mode \in Modes /\ mappedGauge \in [Modes -> Int]
    BY DEF IInv, TypeOK, Calls
  <2>2. MappedFor(call[t].size) \in Nat
    BY <2>1, Constants, SMT DEF MappedFor
  <2> QED BY <2>1, <2>2, GaugeType DEF CountMapped
<1>2. liveGauge' \in [Modes -> Int]
  BY DEF CountMapped, IInv, TypeOK
<1> QED BY <1>1, <1>2, GaugeStep DEF CountMapped, Goto

\* adaptive_telemetry_on_free_begin changes a gauge only.
LEMMA CountFreeStep == ASSUME IInv, NEW t \in Threads, CountFree(t) PROVE IInv'
<1>1. liveGauge' \in [Modes -> Int]
  <2>1. /\ hdr[call[t].r].usable \in Nat /\ hdr[call[t].r].mode \in Modes
        /\ liveGauge \in [Modes -> Int]
    <3>1. call[t].r \in Regions
      BY Mine DEF CountFree, WithRegion, Freeing
    <3> QED BY <3>1 DEF IInv, TypeOK, Headers
  <2> QED BY <2>1, GaugeType DEF CountFree
<1>2. mappedGauge' \in [Modes -> Int]
  BY DEF CountFree, IInv, TypeOK
<1> QED BY <1>1, <1>2, GaugeStep DEF CountFree, Goto

\* adaptive_telemetry_on_unmapped changes a gauge only.
LEMMA CountUnmappedStep == ASSUME IInv, NEW t \in Threads, CountUnmapped(t) PROVE IInv'
<1>1. mappedGauge' \in [Modes -> Int]
  <2>1. /\ hdr[call[t].r].size \in Nat /\ hdr[call[t].r].mode \in Modes
        /\ mappedGauge \in [Modes -> Int]
    <3>1. call[t].r \in Regions
      BY Mine DEF CountUnmapped, WithRegion, Freeing
    <3> QED BY <3>1 DEF IInv, TypeOK, Headers
  <2> QED BY <2>1, GaugeType DEF CountUnmapped
<1>2. liveGauge' \in [Modes -> Int]
  BY DEF CountUnmapped, IInv, TypeOK
<1> QED BY <1>1, <1>2, GaugeStep DEF CountUnmapped, Goto

\* The new region is handed out, or the old one is freed next.
LEMMA CountLiveStep == ASSUME IInv, NEW t \in Threads, CountLive(t) PROVE IInv'
<1>0. PICK r0, o : r0 = call[t].r /\ o = call[t].old
  OBVIOUS
<1>1. /\ pc[t] = "count_live" /\ UNCHANGED <<kernel, lists, mappedGauge, repeats, quarantined, resets>>
  BY DEF CountLive
<1>2. r0 \in Regions /\ Intact(r0) /\ r0 \in Hands(t) /\ r0 # NoRegion
  BY <1>0, <1>1, Constants DEF IInv, CallOK, Resting, WithRegion, Published, Hands
<1>3. liveGauge' \in [Modes -> Int]
  <2>1. hdr[r0].usable \in Nat /\ call[t].mode \in Modes /\ liveGauge \in [Modes -> Int]
    BY <1>2 DEF IInv, TypeOK, Headers, Calls
  <2> QED BY <1>0, <2>1, GaugeType DEF CountLive
<1>4. \A r : Intact(r)' <=> Intact(r)
  BY <1>1 DEF Intact, HeaderFast, kernel, lists
<1>5. CASE o = NoRegion
  <2>1. Finish(t, r0)
    BY <1>0, <1>5 DEF CountLive
  <2>2. /\ Hands(t)' = {} /\ CallOK(t)'
        /\ \A u \in Threads \ {t} : pc'[u] = pc[u] /\ call'[u] = call[u]
        /\ pc' \in [Threads -> PCs] /\ call' \in [Threads -> Calls] /\ held' \in SUBSET Regions
        /\ held' = held \cup ({r0} \ {NoRegion})
    BY <1>2, <2>1, Finished
  <2>3. TypeOK'
    BY <1>1, <1>3, <2>2 DEF IInv, TypeOK, kernel, lists
  <2>4. /\ Hands(t)' \cup held' \subseteq Hands(t) \cup held
        /\ Hands(t)' \cap held' = {} /\ \A r \in held' \ held : Intact(r)
    BY <1>2, <2>2
  <2> QED BY <1>1, <2>2, <2>3, <2>4, Hand
<1>6. CASE o # NoRegion
  <2>c. PICK c : c = Replacing(o, r0)
    OBVIOUS
  <2>1. /\ pc' = [pc EXCEPT ![t] = "count_free"] /\ held' = held
        /\ call' = [call EXCEPT ![t] = c]
    BY <1>0, <1>6, <2>c DEF CountLive, Goto, Replacing
  <2>2. o \in Regions /\ Intact(o) /\ o \in Hands(t) /\ o # r0
    BY <1>0, <1>1, <1>6 DEF IInv, TypeOK, Calls, CallOK, Hands, Resting, WithRegion
  <2>3. c \in Calls /\ c.r = o /\ c.old = NoRegion /\ c.ret = r0
    BY <1>2, <2>c, <2>2, ReplacingCall
  <2>4. /\ pc'[t] = "count_free" /\ call'[t] = c
        /\ \A u \in Threads \ {t} : pc'[u] = pc[u] /\ call'[u] = call[u]
    BY <2>1 DEF IInv, TypeOK
  <2>5. TypeOK'
    BY <1>1, <1>3, <2>1, <2>3 DEF IInv, TypeOK, kernel, lists, PCs
  <2>6. Hands(t)' = {o, r0}
    BY <1>2, <1>6, <2>3, <2>4 DEF Hands
  <2>7. CallOK(t)'
    <3>1. Intact(o)' /\ Intact(r0)' /\ mapped'[o] > 0
      BY <1>2, <1>4, <2>2 DEF Intact
    <3> QED BY <1>2, <2>2, <2>3, <2>4, <3>1, Constants DEF CallOK, Making, Freeing, Resting, WithRegion, Published
  <2>8. /\ Hands(t)' \cup held' \subseteq Hands(t) \cup held
        /\ Hands(t)' \cap held' = {} /\ \A r \in held' \ held : Intact(r)
    BY <1>2, <2>1, <2>2, <2>6 DEF IInv, Apart
  <2> QED BY <1>1, <2>4, <2>5, <2>7, <2>8, Hand
<1> QED BY <1>5, <1>6

\* An owned pointer has a header, so free goes on to release it.
LEMMA FreeStep == ASSUME IInv, NEW t \in Threads, Free(t) PROVE IInv'
<1>1. /\ pc[t] = "idle" /\ UNCHANGED <<kernel, lists, gauges, repeats, quarantined, resets>>
  BY DEF Free
<1>2. PICK r0 \in held : held' = held \ {r0} /\ FreePointer(t, r0)
  BY DEF Free
<1>3. r0 \in Regions /\ Intact(r0) /\ Hands(t) = {}
  BY <1>1 DEF IInv, TypeOK, CallOK, Resting
<1> DEFINE c == [NoCall EXCEPT !.r = r0]
<1>4. /\ call' = [call EXCEPT ![t] = c] /\ pc' = [pc EXCEPT ![t] = "count_free"]
  BY <1>2, <1>3 DEF FreePointer, Intact, Goto
<1>5. c \in Calls /\ c.r = r0 /\ c.old = NoRegion /\ c.ret = NoRegion
  BY <1>3, Constants, SMT DEF Calls
<1> HIDE DEF c
<1>6. /\ pc'[t] = "count_free" /\ call'[t] = c
      /\ \A u \in Threads \ {t} : pc'[u] = pc[u] /\ call'[u] = call[u]
  BY <1>4 DEF IInv, TypeOK
<1>7. TypeOK'
  BY <1>1, <1>2, <1>4, <1>5 DEF IInv, TypeOK, kernel, lists, gauges, PCs
<1>8. Hands(t)' = {r0}
  BY <1>3, <1>5, <1>6, Constants DEF Hands
<1>9. CallOK(t)'
  <2>1. Intact(r0)' /\ mapped'[r0] > 0
    BY <1>1, <1>3 DEF Intact, HeaderFast, kernel, lists
  <2> QED BY <1>3, <1>5, <1>6, <2>1, Constants DEF CallOK, Resting, WithRegion, Making, Freeing, Published
<1>10. /\ Hands(t)' \cup held' \subseteq Hands(t) \cup held
       /\ Hands(t)' \cap held' = {} /\ \A r \in held' \ held : Intact(r)
  BY <1>2, <1>8
<1> QED BY <1>1, <1>6, <1>7, <1>9, <1>10, Hand

\* A quarantined header has lost its magic: a repeated free does nothing.
LEMMA RepeatFreeStep == ASSUME IInv, NEW t \in Threads, RepeatFree(t) PROVE IInv'
<1>1. PICK r0 \in quarantined : FreePointer(t, r0)
  BY DEF RepeatFree
<1>2. ~ HeaderFast(r0)
  BY DEF IInv, QuarantineOK, HeaderFast
<1>3. /\ UNCHANGED <<pc, call, kernel, lists, gauges, held, quarantined, resets>>
      /\ repeats' = repeats + 1
  BY <1>1, <1>2 DEF RepeatFree, FreePointer
<1>4. repeats' \in Nat
  <2>1. repeats \in Nat
    BY DEF IInv, TypeOK
  <2> QED BY <1>3, <2>1, SMT
<1>5. TypeOK'
  BY <1>3, <1>4 DEF IInv, TypeOK, kernel, lists, gauges
<1>6. \A r : Intact(r)' <=> Intact(r)
  BY <1>3 DEF Intact, HeaderFast, kernel, lists
<1>7. \A u \in Threads : CallOK(u)'
  BY <1>3, <1>6 DEF IInv, CallOK, Hands, kernel
<1>8. Apart' /\ QuarantineOK' /\ cache' = {} /\ \A r \in held' : Intact(r)'
  BY <1>3, <1>6 DEF IInv, Apart, QuarantineOK, Hands, kernel, lists
<1> QED BY <1>5, <1>7, <1>8 DEF IInv

\* realloc keeps the old region in hand until the copy is done.
LEMMA ReallocStep == ASSUME IInv, NEW t \in Threads, Realloc(t) PROVE IInv'
<1>1. /\ pc[t] = "idle" /\ UNCHANGED <<kernel, lists, gauges, repeats, quarantined, resets>>
  BY DEF Realloc
<1>2. PICK r0 \in held, s \in Sizes :
        /\ held' = held \ {r0}
        /\ IF HeaderFast(r0)
           THEN /\ call' = [call EXCEPT ![t] =
                             [NoCall EXCEPT !.mode = hdr[r0].mode, !.size = s, !.old = r0]]
                /\ Goto(t, FirstStep(hdr[r0].mode)) \/ Goto(t, "pool")
           ELSE UNCHANGED <<pc, call>>
  BY DEF Realloc
<1>3. r0 \in Regions /\ Intact(r0) /\ Hands(t) = {} /\ hdr[r0].mode \in Modes
  BY <1>1 DEF IInv, TypeOK, CallOK, Headers, Resting
<1>c. PICK c : c = Resizing(hdr[r0].mode, s, r0)
  OBVIOUS
<1>q. PICK q \in {"pop", "mmap", "pool"} : pc' = [pc EXCEPT ![t] = q]
  BY <1>2, <1>3 DEF Intact, Goto, FirstStep
<1>4. call' = [call EXCEPT ![t] = c]
  BY <1>c, <1>2, <1>3 DEF Intact, Resizing
<1>5. s \in Nat /\ s > 0
  BY DirectConstants
<1>6. c \in Calls /\ c.size = s /\ c.r = NoRegion /\ c.old = r0 /\ c.ret = NoRegion
  BY <1>c, <1>3, <1>5, ResizingCall
<1>7. /\ pc'[t] = q /\ call'[t] = c
      /\ \A u \in Threads \ {t} : pc'[u] = pc[u] /\ call'[u] = call[u]
  BY <1>q, <1>4 DEF IInv, TypeOK
<1>8. TypeOK'
  BY <1>q, <1>1, <1>2, <1>4, <1>6 DEF IInv, TypeOK, kernel, lists, gauges, PCs
<1>9. Hands(t)' = {r0}
  BY <1>3, <1>6, <1>7, Constants DEF Hands
<1>10. CallOK(t)'
  <2>1. Intact(r0)'
    BY <1>1, <1>3 DEF Intact, HeaderFast, kernel, lists
  <2>2. r0 # NoRegion
    BY <1>3, Constants
  <2> QED BY <1>5, <1>6, <1>7, <2>1, <2>2 DEF CallOK, Resting, WithRegion, Making, Freeing, Published
<1>11. /\ Hands(t)' \cup held' \subseteq Hands(t) \cup held
       /\ Hands(t)' \cap held' = {} /\ \A r \in held' \ held : Intact(r)
  BY <1>2, <1>9
<1> QED BY <1>1, <1>7, <1>8, <1>10, <1>11, Hand

\* Quarantine takes the region out of the call's hands; any other plan unmaps it,
\* because no mode answers Cache for a direct mapping.
LEMMA ReleaseStep == ASSUME IInv, NEW t \in Threads, Release(t) PROVE IInv'
<1>0. PICK r0, x : r0 = call[t].r /\ x = call[t].ret
  OBVIOUS
<1>1. /\ pc[t] = "release" /\ registry' = registry \ {r0}
      /\ UNCHANGED <<kernel, gauges, repeats, resets>>
  BY <1>0 DEF Release
<1>2. /\ r0 \in Regions /\ Intact(r0) /\ r0 \in Hands(t) /\ r0 # x /\ call[t].old = NoRegion
      /\ x \in Hands(t) \cup {NoRegion} /\ (x # NoRegion => x \in Regions \ {r0} /\ Intact(x))
  BY <1>0, <1>1, Constants DEF IInv, TypeOK, Calls, CallOK, Resting, WithRegion, Freeing, Published, Hands
<1>3. /\ pc[t] \in WithRegion
      /\ r0 \notin held \cup quarantined /\ \A u \in Threads \ {t} : r0 \notin Hands(u)
  BY <1>0, <1>1, Mine DEF Freeing, WithRegion
<1>4. PlanFree(hdr[r0].mode) # "Cache"
  BY DEF PlanFree
<1>5. CASE PlanFree(hdr[r0].mode) = "Quarantine"
  <2>1. /\ hdr' = [hdr EXCEPT ![r0] = [@ EXCEPT !.magic = FALSE]]
        /\ quarantined' = quarantined \cup {r0} /\ Finish(t, x) /\ cache' = cache
    BY <1>0, <1>5 DEF Release
  <2>2. hdr[r0] \in Headers /\ [hdr[r0] EXCEPT !.magic = FALSE] \in Headers
    <3>1. \A h \in Headers : [h EXCEPT !.magic = FALSE] \in Headers
      BY DEF Headers
    <3> QED BY <1>2, <3>1 DEF IInv, TypeOK
  <2>3. /\ hdr' \in [Regions -> Headers] /\ ~ hdr'[r0].magic
        /\ \A r \in Regions \ {r0} : hdr'[r] = hdr[r]
    <3>1. /\ hdr' \in [Regions -> Headers] /\ hdr'[r0] = [hdr[r0] EXCEPT !.magic = FALSE]
          /\ \A r \in Regions \ {r0} : hdr'[r] = hdr[r]
      BY <1>2, <2>1, <2>2 DEF IInv, TypeOK
    <3>2. ~ [hdr[r0] EXCEPT !.magic = FALSE].magic
      BY <2>2, SMT DEF Headers
    <3> QED BY <3>1, <3>2
  <2>4. /\ Hands(t)' = {} /\ CallOK(t)'
        /\ \A u \in Threads \ {t} : pc'[u] = pc[u] /\ call'[u] = call[u]
        /\ pc' \in [Threads -> PCs] /\ call' \in [Threads -> Calls] /\ held' \in SUBSET Regions
        /\ held' = held \cup ({x} \ {NoRegion})
    BY <1>2, <2>1, Finished
  <2>5. Touches(t, r0)
    BY <1>1, <1>3, <2>1, <2>3, <2>4 DEF Touches, Same, kernel
  <2>6. TypeOK'
    BY <1>1, <1>2, <2>1, <2>3, <2>4 DEF IInv, TypeOK, kernel, gauges
  <2>7. \A r \in held' \ held : Intact(r)'
    BY <1>2, <2>4, <2>5, SameIntact DEF Touches
  <2>8. \A r \in quarantined' \ quarantined :
          mapped'[r] > 0 /\ r \in registered' /\ ~ hdr'[r].magic /\ r \notin registry'
    BY <1>1, <1>2, <2>1, <2>3 DEF Intact, HeaderFast, kernel
  <2>9. /\ Hands(t)' \cup held' \cup quarantined' \subseteq Hands(t) \cup held \cup quarantined \cup {r0}
        /\ held' \cap quarantined' = {} /\ Hands(t)' \cap (held' \cup quarantined') = {}
    <3>1. Hands(t) \cap (held \cup quarantined) = {} /\ held \cap quarantined = {}
      BY DEF IInv, Apart
    <3> QED BY <1>2, <1>3, <2>1, <2>4, <3>1
  <2> QED BY <2>4, <2>5, <2>6, <2>7, <2>8, <2>9, Frame
<1>6. CASE PlanFree(hdr[r0].mode) # "Quarantine"
  <2>1. /\ pc' = [pc EXCEPT ![t] = "count_unmapped"]
        /\ UNCHANGED <<hdr, cache, quarantined, call, held>>
    BY <1>0, <1>4, <1>6 DEF Release, Goto
  <2>2. TypeOK' /\ pc'[t] = "count_unmapped" /\ "count_unmapped" \in PCs
    BY <1>1, <2>1 DEF IInv, TypeOK, kernel, gauges, PCs
  <2>3. \A r \in Regions \ {r0} : Same(r)
    BY <1>1, <2>1 DEF Same, kernel
  <2>4. CallOK(t)'
    <3>1. x # NoRegion => Intact(x)'
      BY <1>2, <2>3, SameIntact
    <3>2. mapped'[r0] > 0
      BY <1>1, <1>2 DEF Intact, kernel
    <3> QED BY <1>0, <1>1, <1>2, <2>1, <2>2, <3>1, <3>2, Constants DEF CallOK, Resting, WithRegion, Making, Freeing, Published
  <2> QED BY <1>0, <1>3, <2>1, <2>2, <2>3, <2>4, Walk
<1> QED BY <1>5, <1>6

\* unregister_region withdraws the call's own region.
LEMMA UnregisterRegionStep == ASSUME IInv, NEW t \in Threads, UnregisterRegion(t) PROVE IInv'
<1>0. PICK r0, x : r0 = call[t].r /\ x = call[t].ret
  OBVIOUS
<1>1. /\ pc[t] = "unregister" /\ pc' = [pc EXCEPT ![t] = "munmap"]
      /\ registered' = registered \ {r0}
      /\ UNCHANGED <<mapped, lists, gauges, repeats, held, quarantined, resets, call>>
  BY <1>0 DEF UnregisterRegion, Goto
<1>2. /\ pc[t] \in WithRegion
      /\ r0 \in Regions /\ mapped[r0] > 0 /\ r0 # x /\ call[t].old = NoRegion
      /\ (x # NoRegion => x \in Regions \ {r0} /\ Intact(x))
  BY <1>0, <1>1 DEF IInv, TypeOK, Calls, CallOK, Resting, WithRegion, Freeing
<1>3. TypeOK' /\ pc'[t] = "munmap" /\ "munmap" \in PCs
  BY <1>1 DEF IInv, TypeOK, lists, gauges, PCs
<1>4. \A r \in Regions \ {r0} : Same(r)
  BY <1>1 DEF Same, lists
<1>5. x # NoRegion => Intact(x)'
  BY <1>2, <1>4, SameIntact
<1>6. CallOK(t)'
  BY <1>0, <1>1, <1>2, <1>3, <1>5, Constants DEF CallOK, Resting, WithRegion, Making, Freeing, Published
<1>7. UNCHANGED <<call, held, quarantined, cache>>
  BY <1>1 DEF lists
<1> QED BY <1>0, <1>1, <1>2, <1>3, <1>4, <1>6, <1>7, Walk

\* The address is free for the next mmap; nobody has it.
LEMMA MunmapStep == ASSUME IInv, NEW t \in Threads, Munmap(t) PROVE IInv'
<1>0. PICK r0, x : r0 = call[t].r /\ x = call[t].ret
  OBVIOUS
<1>1. /\ pc[t] = "munmap" /\ mapped' = [mapped EXCEPT ![r0] = 0] /\ Finish(t, x)
      /\ UNCHANGED <<registered, lists, gauges, repeats, quarantined, resets>>
  BY <1>0 DEF Munmap
<1>2. /\ r0 \in Regions /\ r0 \in Hands(t) /\ r0 # x
      /\ x \in Hands(t) \cup {NoRegion} /\ (x # NoRegion => x \in Regions \ {r0} /\ Intact(x))
  BY <1>0, <1>1, Constants DEF IInv, TypeOK, Calls, CallOK, Resting, WithRegion, Freeing, Hands
<1>3. r0 \notin held \cup quarantined /\ \A u \in Threads \ {t} : r0 \notin Hands(u)
  BY <1>0, <1>1, Mine DEF Freeing, WithRegion
<1>4. /\ Hands(t)' = {} /\ CallOK(t)'
      /\ \A u \in Threads \ {t} : pc'[u] = pc[u] /\ call'[u] = call[u]
      /\ pc' \in [Threads -> PCs] /\ call' \in [Threads -> Calls] /\ held' \in SUBSET Regions
      /\ held' = held \cup ({x} \ {NoRegion})
  BY <1>1, <1>2, Finished
<1>5. mapped' \in [Regions -> Nat] /\ \A r \in Regions \ {r0} : mapped'[r] = mapped[r]
  BY <1>1 DEF IInv, TypeOK
<1>6. Touches(t, r0)
  BY <1>1, <1>3, <1>4, <1>5 DEF Touches, Same, lists
<1>7. TypeOK'
  BY <1>1, <1>4, <1>5 DEF IInv, TypeOK, lists, gauges
<1>8. \A r \in held' \ held : Intact(r)'
  BY <1>2, <1>4, <1>6, SameIntact DEF Touches
<1>9. /\ Hands(t)' \cup held' \cup quarantined' \subseteq Hands(t) \cup held \cup quarantined \cup {r0}
      /\ held' \cap quarantined' = {} /\ Hands(t)' \cap (held' \cup quarantined') = {}
      /\ quarantined' = quarantined
  <2>1. Hands(t) \cap (held \cup quarantined) = {} /\ held \cap quarantined = {}
    BY DEF IInv, Apart
  <2> QED BY <1>1, <1>2, <1>4, <2>1
<1> QED BY <1>4, <1>6, <1>7, <1>8, <1>9, Frame

\* The pool's block replaces the mapping, which is freed; without one it goes back.
LEMMA PoolResultStep == ASSUME IInv, NEW t \in Threads, PoolResult(t) PROVE IInv'
<1>0. PICK o : o = call[t].old
  OBVIOUS
<1>1. pc[t] = "pool" /\ UNCHANGED <<kernel, lists, gauges, repeats, quarantined, resets>>
  BY DEF PoolResult
<1>2. o \in Regions /\ Intact(o) /\ o \in Hands(t) /\ o # NoRegion
  BY <1>0, <1>1 DEF IInv, TypeOK, Calls, CallOK, Hands
<1>3. CASE Finish(t, o)
  <2>1. /\ Hands(t)' = {} /\ CallOK(t)'
        /\ \A u \in Threads \ {t} : pc'[u] = pc[u] /\ call'[u] = call[u]
        /\ pc' \in [Threads -> PCs] /\ call' \in [Threads -> Calls] /\ held' \in SUBSET Regions
        /\ held' = held \cup ({o} \ {NoRegion})
    BY <1>2, <1>3, Finished
  <2>2. TypeOK'
    BY <1>1, <2>1 DEF IInv, TypeOK, kernel, lists, gauges
  <2>3. /\ Hands(t)' \cup held' \subseteq Hands(t) \cup held
        /\ Hands(t)' \cap held' = {} /\ \A r \in held' \ held : Intact(r)
    BY <1>2, <2>1
  <2> QED BY <1>1, <2>1, <2>2, <2>3, Hand
<1>4. CASE Goto(t, "count_free") /\ held' = held /\ call' = [call EXCEPT ![t] = [NoCall EXCEPT !.r = o]]
  <2> DEFINE c == [NoCall EXCEPT !.r = o]
  <2>1. c \in Calls /\ c.r = o /\ c.old = NoRegion /\ c.ret = NoRegion
    BY <1>2, Constants, SMT DEF Calls
  <2>2. call' = [call EXCEPT ![t] = c] /\ pc' = [pc EXCEPT ![t] = "count_free"] /\ held' = held
    BY <1>4 DEF Goto
  <2> HIDE DEF c
  <2>3. /\ pc'[t] = "count_free" /\ call'[t] = c
        /\ \A u \in Threads \ {t} : pc'[u] = pc[u] /\ call'[u] = call[u]
    BY <2>2 DEF IInv, TypeOK
  <2>4. TypeOK'
    BY <1>1, <2>1, <2>2 DEF IInv, TypeOK, kernel, lists, gauges, PCs
  <2>5. Hands(t)' = {o}
    BY <1>2, <2>1, <2>3 DEF Hands
  <2>6. CallOK(t)'
    <3>1. Intact(o)' /\ mapped'[o] > 0
      BY <1>1, <1>2 DEF Intact, HeaderFast, kernel, lists
    <3> QED BY <1>2, <2>1, <2>3, <3>1 DEF CallOK, Resting, WithRegion, Making, Freeing, Published
  <2>7. /\ Hands(t)' \cup held' \subseteq Hands(t) \cup held
        /\ Hands(t)' \cap held' = {} /\ \A r \in held' \ held : Intact(r)
    BY <1>2, <2>2, <2>5 DEF IInv, Apart
  <2> QED BY <1>1, <2>3, <2>4, <2>6, <2>7, Hand
<1> QED BY <1>0, <1>3, <1>4 DEF PoolResult

\* A reset clears gauges and has no region in hand.
LEMMA ResetStep ==
  ASSUME IInv, NEW t \in Threads, StatsReset(t) \/ ClearLive(t) \/ ClearMapped(t) PROVE IInv'
<1>1. pc[t] \in Resting /\ UNCHANGED <<kernel, lists, repeats, quarantined>>
  BY DEF StatsReset, ClearLive, ClearMapped, Resting
<1>2. /\ call[t] \in Calls /\ call[t].mode \in Modes /\ Hands(t) = {}
      /\ call[t].r = NoRegion /\ call[t].old = NoRegion /\ call[t].ret = NoRegion
  <2>1. call[t] \in Calls /\ Hands(t) = {}
    BY <1>1 DEF IInv, TypeOK, CallOK
  <2> QED BY <2>1 DEF Hands, Calls
<1>3. mappedGauge' \in [Modes -> Int] /\ liveGauge' \in [Modes -> Int]
  <2>1. \A g \in [Modes -> Int], m \in Modes : [g EXCEPT ![m] = 0] \in [Modes -> Int]
    BY SMT
  <2> QED BY <1>2, <2>1 DEF StatsReset, ClearLive, ClearMapped, IInv, TypeOK, gauges
<1>4. resets' \in Nat
  <2>1. resets \in Nat
    BY DEF IInv, TypeOK
  <2>2. resets' = resets \/ resets' = resets + 1
    BY DEF StatsReset, ClearLive, ClearMapped
  <2> QED BY <2>1, <2>2, SMT
<1>5. CASE Finish(t, NoRegion)
  <2>1. /\ Hands(t)' = {} /\ CallOK(t)'
        /\ \A u \in Threads \ {t} : pc'[u] = pc[u] /\ call'[u] = call[u]
        /\ pc' \in [Threads -> PCs] /\ call' \in [Threads -> Calls] /\ held' \in SUBSET Regions
        /\ held' = held \cup ({NoRegion} \ {NoRegion})
    BY <1>5, Finished
  <2>2. TypeOK'
    BY <1>1, <1>3, <1>4, <2>1 DEF IInv, TypeOK, kernel, lists
  <2>3. /\ Hands(t)' \cup held' \subseteq Hands(t) \cup held
        /\ Hands(t)' \cap held' = {} /\ \A r \in held' \ held : Intact(r)
    BY <2>1
  <2> QED BY <1>1, <2>1, <2>2, <2>3, Hand
<1>6. ASSUME held' = held, NEW c \in Calls, NEW q \in Resting,
             c.r = NoRegion, c.old = NoRegion, c.ret = NoRegion,
             call' = [call EXCEPT ![t] = c], pc' = [pc EXCEPT ![t] = q]
      PROVE IInv'
  <2>1. /\ pc'[t] = q /\ call'[t] = c
        /\ \A u \in Threads \ {t} : pc'[u] = pc[u] /\ call'[u] = call[u]
    BY <1>6 DEF IInv, TypeOK
  <2>2. TypeOK'
    BY <1>1, <1>3, <1>4, <1>6 DEF IInv, TypeOK, kernel, lists, PCs, Resting
  <2>3. Hands(t)' = {}
    BY <1>6, <2>1 DEF Hands
  <2>4. CallOK(t)'
    BY <1>6, <2>1, <2>3 DEF CallOK, Resting, WithRegion, Making, Freeing, Published
  <2>5. /\ Hands(t)' \cup held' \subseteq Hands(t) \cup held
        /\ Hands(t)' \cap held' = {} /\ \A r \in held' \ held : Intact(r)
    BY <1>6, <2>3
  <2> QED BY <1>1, <2>1, <2>2, <2>4, <2>5, Hand
<1>7. ASSUME NEW S \in SUBSET Modes, ClearFrom(t, S), held' = held PROVE IInv'
  <2>1. PICK m \in S : /\ call' = [call EXCEPT ![t] = [call[t] EXCEPT !.mode = m]]
                       /\ pc' = [pc EXCEPT ![t] = "clear_live"]
    BY <1>7 DEF ClearFrom, Goto, IInv, TypeOK
  <2> DEFINE c == [call[t] EXCEPT !.mode = m]
  <2>2. c \in Calls /\ c.r = NoRegion /\ c.old = NoRegion /\ c.ret = NoRegion
    BY <1>2, SMT DEF Calls
  <2> HIDE DEF c
  <2>3. call' = [call EXCEPT ![t] = c] /\ "clear_live" \in Resting
    BY <2>1 DEF c, Resting
  <2> QED BY <1>6, <1>7, <2>1, <2>2, <2>3
<1>8. CASE ClearLive(t)
  <2>1. call' = [call EXCEPT ![t] = call[t]] /\ "clear_mapped" \in Resting
    BY <1>8 DEF ClearLive, IInv, TypeOK, Resting
  <2>2. pc' = [pc EXCEPT ![t] = "clear_mapped"] /\ held' = held
    BY <1>8 DEF ClearLive, Goto
  <2> QED BY <1>2, <1>6, <2>1, <2>2
<1>9. CASE StatsReset(t)
  BY <1>7, <1>9 DEF StatsReset
<1>10. CASE ClearMapped(t)
  <2> DEFINE left == {m \in Modes : ModeIndex(m) > ModeIndex(call[t].mode)}
  <2>1. Finish(t, NoRegion) \/ (ClearFrom(t, left) /\ held' = held)
    BY <1>10 DEF ClearMapped
  <2>2. left \in SUBSET Modes
    OBVIOUS
  <2> HIDE DEF left
  <2> QED BY <1>5, <1>7, <2>1, <2>2
<1> QED BY <1>8, <1>9, <1>10

----------------------------------------------------------------------------
(* The invariant and what follows from it.                                  *)

\* Nothing is mapped, owned or under way at first.
LEMMA InitIInv == Init => IInv
<1> SUFFICES ASSUME Init PROVE IInv
  OBVIOUS
<1>1. \A t \in Threads : pc[t] = "idle" /\ call[t] = NoCall
  BY DEF Init
<1>2. \A t \in Threads : Hands(t) = {}
  BY <1>1, Constants DEF Hands
<1>3. \A t \in Threads : CallOK(t)
  BY <1>1, <1>2, Constants DEF CallOK, Resting, WithRegion, Making, Freeing, Published
<1>4. TypeOK
  BY Constants, SMT DEF Init, TypeOK, PCs
<1> QED BY <1>2, <1>3, <1>4 DEF IInv, Init, Apart, QuarantineOK

\* Every step keeps the invariant.
LEMMA NextIInv == IInv /\ [Next]_vars => IInv'
<1> SUFFICES ASSUME IInv, [Next]_vars PROVE IInv'
  OBVIOUS
<1>1. CASE UNCHANGED vars
  <2>1. TypeOK'
    BY <1>1 DEF IInv, TypeOK, vars, kernel, lists, gauges
  <2>2. \A r : Intact(r)' <=> Intact(r)
    BY <1>1 DEF vars, kernel, lists, Intact, HeaderFast
  <2>3. \A t \in Threads : CallOK(t)'
    BY <1>1, <2>2 DEF IInv, CallOK, Hands, vars, kernel
  <2>4. Apart' /\ QuarantineOK' /\ cache' = {} /\ \A r \in held' : Intact(r)'
    BY <1>1, <2>2 DEF IInv, Apart, QuarantineOK, Hands, vars, kernel, lists
  <2> QED BY <2>1, <2>3, <2>4 DEF IInv
<1>2. ASSUME NEW t \in Threads,
             \/ Malloc(t) \/ PopExtent(t) \/ Mmap(t) \/ MmapFails(t) \/ RegisterRegion(t) \/ Publish(t)
             \/ CountMapped(t) \/ CountLive(t)
      PROVE IInv'
  BY <1>2, MallocStep, PopExtentStep, MmapStep, MmapFailsStep, RegisterRegionStep, PublishStep,
     CountMappedStep, CountLiveStep
<1>3. ASSUME NEW t \in Threads,
             \/ Free(t) \/ RepeatFree(t) \/ Realloc(t) \/ PoolResult(t) \/ CountFree(t)
             \/ Release(t) \/ CountUnmapped(t) \/ UnregisterRegion(t) \/ Munmap(t)
             \/ StatsReset(t) \/ ClearLive(t) \/ ClearMapped(t)
      PROVE IInv'
  BY <1>3, FreeStep, RepeatFreeStep, ReallocStep, PoolResultStep, CountFreeStep, ReleaseStep,
     CountUnmappedStep, UnregisterRegionStep, MunmapStep, ResetStep
<1> QED BY <1>1, <1>2, <1>3 DEF Next

\* The invariant holds for every instance: regions in use are mapped and never shared.
THEOREM Inductive == Spec => []IInv
BY InitIInv, NextIInv, PTL DEF Spec

\* A pointer the program owns stays usable, for any number of threads that map,
\* free, reallocate and unmap and whatever addresses the kernel hands out again.
THEOREM HeldStaysIntact == Spec => []HeldIsIntact
<1>1. IInv => HeldIsIntact
  BY DEF IInv, HeldIsIntact, Intact
<1> QED BY <1>1, Inductive, PTL

\* A region freed in HardenedDebug stays mapped and owned and is never handed out
\* again, however often its pointer is freed.
THEOREM QuarantineStays == Spec => []QuarantineKept
<1>1. IInv => QuarantineKept
  BY DEF IInv, QuarantineKept, QuarantineOK, Apart
<1> QED BY <1>1, Inductive, PTL

\* The extent cache never holds anything: the streaming mode, the only one that
\* looks into it, answers Unmap to every free (large_stream_free).
THEOREM NothingIsCached == Spec => [](cache = {})
<1>1. IInv => cache = {}
  BY DEF IInv
<1> QED BY <1>1, Inductive, PTL

=============================================================================
