----------------------- MODULE OwnershipTableProofs ------------------------
(***************************************************************************)
(* The ownership table is correct for every table size, probe limit, set   *)
(* of regions and number of threads: the inductive invariant, the lemmas   *)
(* that each step preserves it, and the invariance proof.  The key fact is *)
(* that a slot, once used, is never empty again: unregister_region leaves  *)
(* a tombstone.  A page is therefore never hidden behind an empty slot     *)
(* (Reachable), so that a probe which stops at an empty slot has seen all  *)
(* there is.                                                               *)
(***************************************************************************)
EXTENDS OwnershipTable, TLAPS

\* Zenon first: most leaves need no arithmetic, and it is much the faster.
USE ZenonT(10), SMTT(20)

Probes == 0 .. ProbeLimit - 1
InTable(p) == \E s \in Slots : table[s] = p
NoneEmpty(p, n) == \A j \in Probes : j < n => table[Slot(p, j)] # Empty
NotBefore(p, n) == \A j \in Probes : j < n => table[Slot(p, j)] # p

Registering(t) == pc[t] \in {"register", "register_tombstone"}
Unregistering(t) == pc[t] \in {"unregister", "store_tombstone"}
Working(t) == Registering(t) \/ Unregistering(t) \/ pc[t] = "munmap"
Looking(t) == pc[t] \in {"lookup", "hit", "miss"}

\* A page in the table sits within its probe window, behind used slots only.
Reachable ==
  \A p \in Pages, s \in Slots : table[s] = p =>
    \E k \in Probes : s = Slot(p, k) /\ NoneEmpty(p, k)

\* Live regions are mapped, do not overlap, and were registered or dropped.
LiveOK ==
  /\ \A r \in live : \A q \in PagesOf(r) : q \in mapped /\ (InTable(q) \/ q \in dropped)
  /\ \A q, r \in live : q # r => PagesOf(q) \cap PagesOf(r) = {}

\* No two threads work on overlapping regions.
Exclusive ==
  \A t, u \in Threads : t # u /\ Working(t) /\ Working(u) =>
    PagesOf(call[t].region) \cap PagesOf(call[u].region) = {}

\* A thread works on a mapped region that is not live, at one of its pages.
WorkOK(t) ==
  /\ call[t].region \in Regions
  /\ call[t].page \in PagesOf(call[t].region)
  /\ PagesOf(call[t].region) \subseteq mapped
  /\ \A r \in live : PagesOf(call[t].region) \cap PagesOf(r) = {}

\* The registration loop has passed used slots only, and the pages before the
\* current one are in the table or dropped; the others are not in it.
RegisterOK(t) ==
  /\ NoneEmpty(call[t].page, call[t].probe)
  /\ \A q \in PagesOf(call[t].region) :
       IF q < call[t].page THEN InTable(q) \/ q \in dropped ELSE ~ InTable(q)
  /\ pc[t] = "register_tombstone" => Value(t) # Empty

\* The pages before the current one of an unregistration have left the table.
UnregisterOK(t) ==
  /\ NotBefore(call[t].page, call[t].probe)
  /\ \A q \in PagesOf(call[t].region) : q < call[t].page => ~ InTable(q)
  /\ pc[t] = "store_tombstone" => Value(t) = call[t].page

\* The page of a pinned lookup stays live, and is not behind the probe.
PinnedOK(t) ==
  /\ Looking(t)
  /\ \E r \in live : call[t].page \in PagesOf(r)
  /\ pc[t] = "lookup" => NotBefore(call[t].page, call[t].probe)
  /\ pc[t] = "miss" => call[t].page \in dropped

ThreadOK(t) ==
  /\ Working(t) => WorkOK(t)
  /\ Registering(t) => RegisterOK(t)
  /\ Unregistering(t) => UnregisterOK(t)
  /\ pc[t] = "munmap" => \A q \in PagesOf(call[t].region) : ~ InTable(q)
  /\ Looking(t) => call[t].page \in Pages
  /\ call[t].pinned => PinnedOK(t)

IInv ==
  /\ TypeOK /\ Reachable /\ HoldsMappedOnce /\ LiveOK /\ Exclusive
  /\ \A t \in Threads : ThreadOK(t)

\* Every probe of a page (page_table_index, wrapped) hits a slot of the table.
LEMMA SlotInRange ==
  ASSUME NEW p \in Pages, NEW k \in Probes
  PROVE  Slot(p, k) \in Slots
<1>1. /\ TableSize \in Nat /\ TableSize > 0
      /\ p + k \in Nat
  BY TableConstants DEF Probes
<1>2. (p + k) % TableSize \in 0 .. TableSize - 1
  BY <1>1
<1>. QED
  BY <1>2 DEF Slot, Slots

\* The pages of a region are pages.
LEMMA RegionPages ==
  ASSUME NEW r \in Regions
  PROVE  /\ r[1] \in Pages /\ r[2] \in Pages /\ r[1] <= r[2]
         /\ r[1] \in PagesOf(r) /\ r[2] \in PagesOf(r)
         /\ PagesOf(r) \subseteq Pages /\ PagesOf(r) = r[1] .. r[2]
         /\ r \in Nat \X Nat
<1>1. /\ r \in Pages \X Pages /\ r[1] <= r[2]
      /\ r[1] .. r[2] \subseteq Pages /\ Pages \subseteq Nat
  BY TableConstants
<1>2. r[1] \in Pages /\ r[2] \in Pages /\ r \in Nat \X Nat
  BY <1>1
<1>3. r[1] \in r[1] .. r[2] /\ r[2] \in r[1] .. r[2]
  BY <1>1, <1>2
<1>. QED
  BY <1>1, <1>2, <1>3 DEF PagesOf

\* The two reserved slot values, 0 and the tombstone, are no page numbers.
LEMMA PagesArePositive ==
  /\ Pages \subseteq Nat /\ Empty \notin Pages /\ Tombstone \notin Pages
  /\ Empty # Tombstone
BY TableConstants DEF Empty, Tombstone

LEMMA PagesAreOrdered ==
  \A p, q \in Pages : ~ (p < p) /\ (q <= p <=> q = p \/ q < p)
BY PagesArePositive, SMT

\* Page numbers are ordered.
LEMMA PageOrder ==
  \A p, q \in Pages : (q <= p <=> q < p \/ q = p) /\ ~ (p < p)
BY PagesArePositive

\* The empty table satisfies the invariant.
LEMMA InitIInv == Init => IInv
<1>. SUFFICES ASSUME Init PROVE IInv
  OBVIOUS
<1>1. TypeOK
  BY TableConstants DEF Init, TypeOK, Calls, NoCall, PCs
<1>2. \A s \in Slots : table[s] \notin Pages
  BY PagesArePositive DEF Init
<1>3. Reachable /\ HoldsMappedOnce
  BY <1>2 DEF Init, Reachable, HoldsMappedOnce
<1>4. \A t \in Threads : pc[t] = "idle" /\ ~ call[t].pinned
  BY DEF Init, NoCall
<1>5. Exclusive /\ \A t \in Threads : ThreadOK(t)
  BY <1>4 DEF Exclusive, ThreadOK, Working, Registering, Unregistering, Looking
<1>6. LiveOK
  BY DEF Init, LiveOK
<1>. QED
  BY <1>1, <1>3, <1>5, <1>6 DEF IInv

\* A page found nowhere before the n-th probe, and not seen by it, is not in the
\* table once that probe reads an empty slot or was the last one.
LEMMA ProbeEnds ==
  ASSUME IInv, NEW p \in Pages, NEW n \in Probes, NotBefore(p, n),
         table[Slot(p, n)] # p,
         table[Slot(p, n)] = Empty \/ n = ProbeLimit - 1
  PROVE  ~ InTable(p)
<1>. SUFFICES ASSUME NEW s \in Slots, table[s] = p PROVE FALSE
  BY DEF InTable
<1>1. PICK k \in Probes : s = Slot(p, k) /\ NoneEmpty(p, k)
  BY DEF IInv, Reachable
<1>2. ~ (k < n)
  BY <1>1 DEF NotBefore
<1>3. k # n
  BY <1>1
<1>4. n < k
  BY <1>2, <1>3, TableConstants DEF Probes
<1>5. table[Slot(p, n)] # Empty
  BY <1>1, <1>4 DEF NoneEmpty
<1>. QED
  BY <1>4, <1>5, TableConstants DEF Probes

\* What another thread does to the shared state leaves thread u's part of the
\* invariant intact if it never empties a slot, does not move u's pages in the
\* table and respects the regions u works on or has pinned.
LEMMA OthersKeep ==
  ASSUME TypeOK, NEW u \in Threads, ThreadOK(u), pc'[u] = pc[u], call'[u] = call[u],
         \A s \in Slots : table[s] # Empty => table'[s] # Empty,
         Working(u) =>
           /\ PagesOf(call[u].region) \subseteq mapped'
           /\ \A r \in live' : PagesOf(call[u].region) \cap PagesOf(r) = {}
           /\ \A q \in PagesOf(call[u].region) :
                /\ \A s \in Slots : table'[s] = q <=> table[s] = q
                /\ q \in dropped => q \in dropped',
         call[u].pinned =>
           /\ \E r \in live' : call[u].page \in PagesOf(r)
           /\ \A s \in Slots : table'[s] = call[u].page => table[s] = call[u].page
           /\ call[u].page \in dropped => call[u].page \in dropped'
  PROVE  ThreadOK(u)'
<1>0. call[u].probe \in Probes
  BY DEF TypeOK, Calls, Probes
<1>1. /\ Working(u)' <=> Working(u)
      /\ Registering(u)' <=> Registering(u)
      /\ Unregistering(u)' <=> Unregistering(u)
      /\ Looking(u)' <=> Looking(u)
  BY DEF Working, Registering, Unregistering, Looking
<1>2. Working(u)' => WorkOK(u)'
  BY <1>1 DEF ThreadOK, WorkOK
<1>3. Working(u) => \A q \in PagesOf(call[u].region) : InTable(q)' <=> InTable(q)
  BY DEF InTable
<1>4. Working(u) => call[u].page \in Pages /\ call[u].page \in PagesOf(call[u].region)
  BY RegionPages DEF ThreadOK, WorkOK
<1>5. ASSUME Registering(u) PROVE RegisterOK(u)'
  <2>1. Working(u) /\ RegisterOK(u)
    BY <1>5 DEF Working, ThreadOK
  <2>2. NoneEmpty(call[u].page, call[u].probe)'
    BY <2>1, <1>4, SlotInRange DEF RegisterOK, NoneEmpty
  <2>3. pc'[u] = "register_tombstone" => Value(u)' # Empty
    BY <2>1, <1>0, <1>4, SlotInRange DEF RegisterOK, Value, SlotOf
  <2>4. \A q \in PagesOf(call'[u].region) :
          IF q < call'[u].page THEN InTable(q)' \/ q \in dropped' ELSE ~ InTable(q)'
    BY <2>1, <1>3 DEF RegisterOK
  <2>. QED
    BY <2>2, <2>3, <2>4 DEF RegisterOK, PagesOf
<1>6. ASSUME Unregistering(u) PROVE UnregisterOK(u)'
  <2>1. Working(u) /\ UnregisterOK(u)
    BY <1>6 DEF Working, ThreadOK
  <2>2. NotBefore(call[u].page, call[u].probe)'
    BY <2>1, <1>4, SlotInRange DEF UnregisterOK, NotBefore
  <2>3. pc'[u] = "store_tombstone" => Value(u)' = call'[u].page
    BY <2>1, <1>0, <1>4, SlotInRange DEF UnregisterOK, Value, SlotOf
  <2>. QED
    BY <2>1, <2>2, <2>3, <1>3 DEF UnregisterOK, PagesOf
<1>7. pc'[u] = "munmap" => \A q \in PagesOf(call'[u].region) : ~ InTable(q)'
  BY <1>3 DEF ThreadOK, Working
<1>8. ASSUME call[u].pinned PROVE PinnedOK(u)'
  <2>1. Looking(u) /\ PinnedOK(u) /\ call[u].page \in Pages
    BY <1>8 DEF ThreadOK, PinnedOK
  <2>2. pc'[u] = "lookup" => NotBefore(call[u].page, call[u].probe)'
    BY <2>1, <1>8, SlotInRange DEF PinnedOK, NotBefore
  <2>. QED
    BY <2>1, <2>2, <1>1, <1>8 DEF PinnedOK
<1>. QED
  BY <1>1, <1>2, <1>5, <1>6, <1>7, <1>8 DEF ThreadOK

\* The parts of a thread's local state that the invariant relies on.
LEMMA Locals ==
  ASSUME TypeOK, NEW t \in Threads
  PROVE  /\ call[t] \in Calls /\ pc[t] \in PCs
         /\ call[t].probe \in Probes /\ call[t].page \in Pages \cup {0}
         /\ call[t].region \in Nat \X Nat /\ call[t].pinned \in BOOLEAN
         /\ NoCall \in Calls
         /\ (~ LastProbe(t) => call[t].probe + 1 \in Probes)
         /\ 0 \in Probes
<1>1. call[t] \in Calls /\ pc[t] \in PCs
  BY DEF TypeOK
<1>2. NoCall \in Calls /\ 0 \in Probes
  BY TableConstants DEF NoCall, Calls, Probes
<1>. QED
  BY <1>1, <1>2, TableConstants DEF Calls, Probes, LastProbe

\* A step of thread t that touches its local state only.
LEMMA ControlStep ==
  ASSUME IInv, NEW t \in Threads, NEW c \in Calls, NEW l \in PCs,
         pc' = [pc EXCEPT ![t] = l], call' = [call EXCEPT ![t] = c],
         UNCHANGED <<table, mapped, live, dropped>>,
         Working(t)' => Working(t) /\ c.region = call[t].region,
         ThreadOK(t)'
  PROVE  IInv'
<1>1. TypeOK'
  BY DEF IInv, TypeOK
<1>2. Reachable' /\ HoldsMappedOnce' /\ LiveOK'
  BY DEF IInv, Reachable, HoldsMappedOnce, LiveOK, NoneEmpty, InTable
<1>3. \A u \in Threads \ {t} : pc'[u] = pc[u] /\ call'[u] = call[u] /\ (Working(u)' <=> Working(u))
  BY DEF IInv, TypeOK, Working, Registering, Unregistering
<1>4. call'[t] = c
  BY DEF IInv, TypeOK
<1>5. Exclusive'
  BY <1>3, <1>4 DEF IInv, Exclusive
<1>6. ASSUME NEW u \in Threads \ {t} PROVE ThreadOK(u)'
  <2>1. ThreadOK(u) /\ TypeOK
    BY DEF IInv
  <2>2. Working(u) => WorkOK(u)
    BY <2>1 DEF ThreadOK
  <2>3. call[u].pinned => PinnedOK(u)
    BY <2>1 DEF ThreadOK
  <2>. QED
    BY <1>3, <2>1, <2>2, <2>3, OthersKeep DEF WorkOK, PinnedOK
<1>. QED
  BY <1>1, <1>2, <1>5, <1>6 DEF IInv

\* page_maybe_owned: start, one probe, return.
LEMMA LookupStep ==
  ASSUME IInv, NEW t \in Threads,
         (\E p \in Pages : Lookup(t, p)) \/ LookupLoad(t) \/ LookupReturn(t)
  PROVE  IInv'
<1>. USE Locals
<1>0. TypeOK /\ ThreadOK(t)
  BY DEF IInv
<1>1. ASSUME NEW p \in Pages, Lookup(t, p) PROVE IInv'
  <2>. DEFINE c == [region |-> <<p, p>>, page |-> p, probe |-> 0,
                    pinned |-> \E r \in live : p \in PagesOf(r)]
  <2>1. c \in Calls
    BY PagesArePositive, TableConstants DEF Calls
  <2>2. /\ pc' = [pc EXCEPT ![t] = "lookup"] /\ call' = [call EXCEPT ![t] = c]
        /\ UNCHANGED <<table, mapped, live, dropped>>
    BY <1>1 DEF Lookup, Start, Goto
  <2>3. pc'[t] = "lookup" /\ call'[t] = c
    BY <2>2, <1>0 DEF TypeOK
  <2>4. ThreadOK(t)'
    BY <2>2, <2>3, TableConstants
    DEF ThreadOK, Working, Registering, Unregistering, Looking, PinnedOK, NotBefore, Probes
  <2>5. ~ Working(t)' /\ "lookup" \in PCs
    BY <2>3 DEF Working, Registering, Unregistering, PCs
  <2>. QED
    BY <2>1, <2>2, <2>4, <2>5, ControlStep
<1>2. ASSUME LookupLoad(t) PROVE IInv'
  <2>0. call[t].page \in Pages /\ call[t].probe \in Probes /\ call[t] \in Calls
    BY <1>0, <1>2 DEF ThreadOK, LookupLoad, Looking
  <2>1. UNCHANGED <<table, mapped, live, dropped>>
    BY <1>2 DEF LookupLoad
  <2>2. ASSUME NEW l \in {"hit", "miss"}, Goto(t, l), UNCHANGED call,
               l = "miss" => /\ Value(t) # call[t].page
                             /\ Value(t) = Empty \/ LastProbe(t)
        PROVE  IInv'
    <3>1. pc' = [pc EXCEPT ![t] = l] /\ call' = [call EXCEPT ![t] = call[t]] /\ l \in PCs
      BY <2>2, <1>0 DEF Goto, TypeOK, PCs
    <3>2. pc'[t] = l /\ call'[t] = call[t]
      BY <3>1, <1>0 DEF TypeOK
    <3>3. ASSUME call[t].pinned, l = "miss" PROVE call[t].page \in dropped
      <4>1. NotBefore(call[t].page, call[t].probe)
        BY <3>3, <1>0, <1>2 DEF ThreadOK, PinnedOK, LookupLoad
      <4>2. ~ InTable(call[t].page)
        BY <4>1, <2>2, <3>3, <2>0, ProbeEnds DEF Value, SlotOf, LastProbe
      <4>. QED
        BY <4>2, <3>3, <1>0 DEF IInv, ThreadOK, PinnedOK, LiveOK
    <3>4. ThreadOK(t)'
      BY <3>2, <3>3, <2>0, <2>1, <1>0
      DEF ThreadOK, Working, Registering, Unregistering, Looking, PinnedOK
    <3>5. ~ Working(t)'
      BY <3>2 DEF Working, Registering, Unregistering
    <3>. QED
      BY <3>1, <3>4, <3>5, <2>0, <2>1, ControlStep
  <2>3. ASSUME NextProbe(t, "lookup"), Value(t) # call[t].page PROVE IInv'
    <3>. DEFINE c == [call[t] EXCEPT !.probe = call[t].probe + 1]
    <3>1. c \in Calls /\ c.page = call[t].page /\ c.probe = call[t].probe + 1
          /\ c.pinned = call[t].pinned
      BY <2>3, <1>0 DEF Calls, NextProbe, Probes
    <3>2. pc' = [pc EXCEPT ![t] = "lookup"] /\ call' = [call EXCEPT ![t] = c]
      BY <2>3 DEF NextProbe, Goto
    <3>3. pc'[t] = "lookup" /\ call'[t] = c
      BY <3>2, <1>0 DEF TypeOK
    <3>. HIDE DEF c
    <3>4. call[t].pinned => NotBefore(call[t].page, call[t].probe + 1)
      <4>1. call[t].pinned => NotBefore(call[t].page, call[t].probe)
        BY <1>0, <1>2 DEF ThreadOK, PinnedOK, LookupLoad
      <4>. QED
        BY <4>1, <2>3, <2>0 DEF NotBefore, Value, SlotOf, Probes
    <3>5. ThreadOK(t)'
      BY <3>1, <3>3, <3>4, <2>0, <2>1, <1>0
      DEF ThreadOK, Working, Registering, Unregistering, Looking, PinnedOK, NotBefore
    <3>6. ~ Working(t)' /\ "lookup" \in PCs
      BY <3>3 DEF Working, Registering, Unregistering, PCs
    <3>. QED
      BY <3>1, <3>2, <3>5, <3>6, <2>1, ControlStep
  <2>. QED
    BY <1>2, <2>2, <2>3, PagesArePositive, <2>0 DEF LookupLoad
<1>3. ASSUME LookupReturn(t) PROVE IInv'
  <2>1. /\ pc' = [pc EXCEPT ![t] = "idle"] /\ call' = [call EXCEPT ![t] = NoCall]
        /\ UNCHANGED <<table, mapped, live, dropped>>
    BY <1>3 DEF LookupReturn, Return, Goto
  <2>2. pc'[t] = "idle" /\ ~ call'[t].pinned /\ NoCall \in Calls /\ "idle" \in PCs
    BY <2>1, <1>0 DEF TypeOK, NoCall, PCs
  <2>3. ThreadOK(t)' /\ ~ Working(t)'
    BY <2>2 DEF ThreadOK, Working, Registering, Unregistering, Looking
  <2>. QED
    BY <2>1, <2>2, <2>3, ControlStep
<1>. QED
  BY <1>1, <1>2, <1>3


\* unregister_region leaves the loop for the current page, which is not in the
\* table any more, while the table is as before or has lost that page only.
LEMMA UnregisteredStep ==
  ASSUME IInv, NEW t \in Threads, Unregistering(t), Unregistered(t),
         UNCHANGED <<mapped, live, dropped>>,
         table' \in [Slots -> Pages \cup {Empty, Tombstone}],
         Reachable', HoldsMappedOnce',
         \A s \in Slots : table'[s] # call[t].page,
         \A s \in Slots : table[s] # Empty => table'[s] # Empty,
         \A q \in Pages \ {call[t].page} : \A s \in Slots : table'[s] = q <=> table[s] = q
  PROVE  IInv'
<1>0. TypeOK /\ ThreadOK(t) /\ Working(t)
  BY DEF IInv, Working
<1>. DEFINE r == call[t].region
            p == call[t].page
<1>1. /\ r \in Regions /\ p \in PagesOf(r) /\ PagesOf(r) \subseteq mapped
      /\ \A x \in live : PagesOf(r) \cap PagesOf(x) = {}
      /\ \A q \in PagesOf(r) : q < p => ~ InTable(q)
      /\ p \in Pages /\ PagesOf(r) \subseteq Pages
  BY <1>0, RegionPages DEF ThreadOK, WorkOK, UnregisterOK
<1>2. \A q \in PagesOf(r) : q <= p => ~ InTable(q)'
  <2>1. \A q \in PagesOf(r) : q # p => (InTable(q)' <=> InTable(q))
    BY <1>1 DEF InTable
  <2>2. ~ \E s \in Slots : table'[s] = p
    OBVIOUS
  <2>. QED
    BY <2>1, <2>2, <1>1, PagesAreOrdered DEF InTable
<1>3. PICK c \in Calls, l \in PCs :
        /\ pc' = [pc EXCEPT ![t] = l] /\ call' = [call EXCEPT ![t] = c]
        /\ c.region = r /\ ~ c.pinned /\ c.page \in PagesOf(r)
        /\ \/ l = "unregister" /\ c.probe = 0 /\ c.page = p + 1
           \/ l = "munmap" /\ p = r[2]
  <2>1. ~ call[t].pinned
    BY <1>0 DEF ThreadOK, PinnedOK, Looking, Working, Registering, Unregistering
  <2>2. CASE NextPage(t, "unregister")
    <3>. DEFINE d == [call[t] EXCEPT !.page = call[t].page + 1, !.probe = 0]
    <3>1. p + 1 \in PagesOf(r)
      BY <2>2, <1>1, RegionPages, PagesArePositive DEF NextPage, LastPage
    <3>2. d \in Calls /\ d.region = r /\ ~ d.pinned /\ d.page = p + 1 /\ d.probe = 0
      <4>1. p + 1 \in Pages /\ call[t] \in Calls /\ 0 \in 0 .. ProbeLimit - 1
        BY <3>1, <1>0, <1>1, Locals DEF Probes
      <4>. QED
        BY <4>1, <2>1 DEF Calls
    <3>3. pc' = [pc EXCEPT ![t] = "unregister"] /\ call' = [call EXCEPT ![t] = d]
      BY <2>2 DEF NextPage, Goto
    <3>. HIDE DEF d
    <3>. QED
      BY <3>1, <3>2, <3>3 DEF PCs
  <2>3. CASE LastPage(t) /\ Goto(t, "munmap") /\ UNCHANGED call
    <3>1. call' = [call EXCEPT ![t] = call[t]] /\ call[t] \in Calls
      BY <2>3, <1>0 DEF TypeOK
    <3>. QED
      BY <2>1, <2>3, <3>1, <1>1 DEF Goto, LastPage, PCs
  <2>. QED
    BY <2>2, <2>3 DEF Unregistered
<1>. HIDE DEF r, p
<1>4. pc'[t] = l /\ call'[t] = c
  BY <1>0, <1>3 DEF TypeOK
<1>5. TypeOK'
  BY <1>0, <1>3 DEF TypeOK
<1>6. LiveOK'
  <2>1. ASSUME NEW x \in live, NEW q \in PagesOf(x)
        PROVE  q \in mapped /\ (InTable(q)' \/ q \in dropped)
    <3>1. q \in mapped /\ (InTable(q) \/ q \in dropped) /\ x \in Regions
      BY <2>1, <1>0 DEF IInv, LiveOK, TypeOK
    <3>2. q # p /\ q \in Pages
      BY <3>1, <2>1, <1>1, RegionPages
    <3>. QED
      BY <3>1, <3>2 DEF InTable, p
  <2>. QED
    BY <2>1 DEF IInv, LiveOK
<1>7. \A u \in Threads \ {t} : pc'[u] = pc[u] /\ call'[u] = call[u] /\ (Working(u)' <=> Working(u))
  BY <1>0, <1>3 DEF TypeOK, Working, Registering, Unregistering
<1>8. Exclusive'
  BY <1>0, <1>3, <1>4, <1>7 DEF IInv, Exclusive, r
<1>9. ThreadOK(t)'
  <2>1. WorkOK(t)'
    BY <1>1, <1>3, <1>4 DEF WorkOK
  <2>2. ASSUME l = "unregister" PROVE UnregisterOK(t)'
    <3>1. c.probe = 0 /\ c.page = p + 1
      BY <1>3, <2>2
    <3>2. \A q \in PagesOf(r) : q < p + 1 => ~ InTable(q)'
      BY <1>1, <1>2, PagesArePositive
    <3>3. NotBefore(call[t].page, call[t].probe)'
      BY <3>1, <1>4 DEF NotBefore, Probes
    <3>. QED
      BY <3>1, <3>2, <3>3, <1>3, <1>4, <2>2 DEF UnregisterOK
  <2>3. ASSUME l = "munmap" PROVE \A q \in PagesOf(r) : ~ InTable(q)'
    <3>1. p = r[2]
      BY <1>3, <2>3
    <3>. QED
      BY <3>1, <1>1, <1>2, RegionPages, PagesArePositive
  <2>. QED
    BY <2>1, <2>2, <2>3, <1>3, <1>4
    DEF ThreadOK, Working, Registering, Unregistering, Looking
<1>10. ASSUME NEW u \in Threads \ {t} PROVE ThreadOK(u)'
  <2>1. ThreadOK(u)
    BY DEF IInv
  <2>2. ASSUME Working(u)
        PROVE  /\ PagesOf(call[u].region) \subseteq mapped'
               /\ \A x \in live' : PagesOf(call[u].region) \cap PagesOf(x) = {}
               /\ \A q \in PagesOf(call[u].region) :
                    /\ \A s \in Slots : table'[s] = q <=> table[s] = q
                    /\ q \in dropped => q \in dropped'
    <3>1. WorkOK(u)
      BY <2>1, <2>2 DEF ThreadOK
    <3>2. PagesOf(call[u].region) \cap PagesOf(r) = {}
      BY <2>2, <1>0 DEF IInv, Exclusive, r
    <3>3. \A q \in PagesOf(call[u].region) : q \in Pages /\ q # p
      BY <3>1, <3>2, <1>1, RegionPages DEF WorkOK
    <3>. QED
      BY <3>1, <3>3 DEF WorkOK, p
  <2>3. call[u].pinned => PinnedOK(u) /\ call[u].page \in Pages
    BY <2>1 DEF ThreadOK, PinnedOK
  <2>4. call[u].pinned =>
          /\ \E x \in live' : call[u].page \in PagesOf(x)
          /\ \A s \in Slots : table'[s] = call[u].page => table[s] = call[u].page
          /\ call[u].page \in dropped => call[u].page \in dropped'
    BY <2>3, <1>1 DEF PinnedOK
  <2>. QED
    BY <1>0, <1>7, <2>1, <2>2, <2>4, OthersKeep
<1>. QED
  BY <1>5, <1>6, <1>8, <1>9, <1>10 DEF IInv

\* One probe of unregister_region: the page is found, absent, or further on.
LEMMA UnregisterLoadStep ==
  ASSUME IInv, NEW t \in Threads, UnregisterLoad(t)
  PROVE  IInv'
<1>0. /\ TypeOK /\ ThreadOK(t) /\ Working(t) /\ Unregistering(t)
      /\ UNCHANGED <<table, mapped, live, dropped>>
  BY DEF IInv, Working, Unregistering, UnregisterLoad
<1>1. /\ call[t].region \in Regions /\ call[t].page \in Pages
      /\ NotBefore(call[t].page, call[t].probe) /\ WorkOK(t)
      /\ \A q \in PagesOf(call[t].region) : q < call[t].page => ~ InTable(q)
      /\ ~ call[t].pinned
  BY <1>0, RegionPages
  DEF ThreadOK, WorkOK, UnregisterOK, PinnedOK, Looking, Unregistering
<1>2. ASSUME Value(t) = call[t].page, Goto(t, "store_tombstone"), UNCHANGED call
      PROVE  IInv'
  <2>1. /\ pc' = [pc EXCEPT ![t] = "store_tombstone"] /\ call' = [call EXCEPT ![t] = call[t]]
        /\ call[t] \in Calls /\ "store_tombstone" \in PCs
    BY <1>0, <1>2 DEF Goto, TypeOK, PCs
  <2>2. pc'[t] = "store_tombstone" /\ call'[t] = call[t]
    BY <2>1, <1>0 DEF TypeOK
  <2>3. ThreadOK(t)'
    BY <2>2, <1>0, <1>1, <1>2
    DEF ThreadOK, WorkOK, UnregisterOK, Working, Registering, Unregistering, Looking,
        NotBefore, InTable, Value, SlotOf
  <2>. QED
    BY <2>1, <2>3, <1>0, ControlStep
<1>3. ASSUME NextProbe(t, "unregister"), Value(t) # call[t].page
      PROVE  IInv'
  <2>. DEFINE c == [call[t] EXCEPT !.probe = call[t].probe + 1]
  <2>1. /\ c \in Calls /\ c.page = call[t].page /\ c.probe = call[t].probe + 1
        /\ c.pinned = call[t].pinned /\ c.region = call[t].region
    BY <1>3, <1>0, Locals DEF Calls, NextProbe, Probes
  <2>2. /\ pc' = [pc EXCEPT ![t] = "unregister"] /\ call' = [call EXCEPT ![t] = c]
        /\ "unregister" \in PCs
    BY <1>3 DEF NextProbe, Goto, PCs
  <2>3. pc'[t] = "unregister" /\ call'[t] = c
    BY <2>2, <1>0 DEF TypeOK
  <2>. HIDE DEF c
  <2>4. NotBefore(call[t].page, call[t].probe + 1)
    BY <1>0, <1>1, <1>3, Locals DEF NotBefore, Value, SlotOf, Probes
  <2>5. ThreadOK(t)'
    BY <2>1, <2>3, <2>4, <1>0, <1>1
    DEF ThreadOK, WorkOK, UnregisterOK, Working, Registering, Unregistering, Looking,
        NotBefore, InTable
  <2>. QED
    BY <2>1, <2>2, <2>5, <1>0, ControlStep
<1>4. ASSUME Unregistered(t), Value(t) # call[t].page, Value(t) = Empty \/ LastProbe(t)
      PROVE  IInv'
  <2>1. ~ InTable(call[t].page)
    BY <1>0, <1>1, <1>4, Locals, ProbeEnds DEF Value, SlotOf, LastProbe
  <2>2. table' \in [Slots -> Pages \cup {Empty, Tombstone}] /\ Reachable' /\ HoldsMappedOnce'
    BY <1>0 DEF IInv, TypeOK, Reachable, HoldsMappedOnce, NoneEmpty
  <2>3. \A s \in Slots : table'[s] # call[t].page
    BY <2>1, <1>0 DEF InTable
  <2>. QED
    BY <2>2, <2>3, <1>0, <1>4, UnregisteredStep
<1>. QED
  BY <1>1, <1>2, <1>3, <1>4, PagesArePositive DEF UnregisterLoad


\* unregister_region's plain store hits the only slot that holds the page.
LEMMA UnregisterStoreStep ==
  ASSUME IInv, NEW t \in Threads, UnregisterStore(t)
  PROVE  IInv'
<1>0. /\ TypeOK /\ ThreadOK(t) /\ Working(t) /\ Unregistering(t)
      /\ UNCHANGED <<mapped, live, dropped>>
  BY DEF IInv, Working, Unregistering, UnregisterStore
<1>1. call[t].page \in Pages /\ Value(t) = call[t].page /\ SlotOf(t) \in Slots
  BY <1>0, RegionPages, Locals, SlotInRange
  DEF ThreadOK, WorkOK, UnregisterOK, UnregisterStore, SlotOf
<1>2. /\ table' = [table EXCEPT ![SlotOf(t)] = Tombstone]
      /\ table \in [Slots -> Pages \cup {Empty, Tombstone}]
      /\ table[SlotOf(t)] = call[t].page
  BY <1>0, <1>1 DEF UnregisterStore, TypeOK, Value
<1>3. \A s \in Slots : table'[s] = IF s = SlotOf(t) THEN Tombstone ELSE table[s]
  BY <1>2
<1>4. \A s \in Slots : s # SlotOf(t) => table[s] # call[t].page
  BY <1>1, <1>2 DEF IInv, HoldsMappedOnce
<1>5. table' \in [Slots -> Pages \cup {Empty, Tombstone}]
  BY <1>2
<1>6. /\ \A s \in Slots : table'[s] # call[t].page
      /\ \A s \in Slots : table[s] # Empty => table'[s] # Empty
      /\ \A q \in Pages \ {call[t].page} : \A s \in Slots : table'[s] = q <=> table[s] = q
  BY <1>1, <1>2, <1>3, <1>4, PagesArePositive
<1>7. HoldsMappedOnce'
  BY <1>0, <1>3, PagesArePositive DEF IInv, HoldsMappedOnce
<1>8. Reachable'
  <2>1. ASSUME NEW p \in Pages, NEW s \in Slots, table'[s] = p
        PROVE  \E k \in Probes : s = Slot(p, k) /\ NoneEmpty(p, k)'
    <3>1. table[s] = p
      BY <2>1, <1>3, PagesArePositive
    <3>2. PICK k \in Probes : s = Slot(p, k) /\ NoneEmpty(p, k)
      BY <3>1 DEF IInv, Reachable
    <3>. QED
      BY <3>2, <1>6, SlotInRange DEF NoneEmpty
  <2>. QED
    BY <2>1 DEF Reachable
<1>. QED
  BY <1>0, <1>5, <1>6, <1>7, <1>8, UnregisteredStep DEF UnregisterStore

----------------------------------------------------------------------------
(* Steps that map, register and unmap regions, and the invariance proof.    *)

\* mmap hands out pages that are in no region and, as the table holds mapped
\* pages only, not in the table.
LEMMA MmapStep ==
  ASSUME IInv, NEW t \in Threads, NEW r \in Regions, Mmap(t, r)
  PROVE  IInv'
<1>. DEFINE c == [region |-> r, page |-> r[1], probe |-> 0, pinned |-> FALSE]
<1>0. /\ TypeOK /\ pc[t] = "idle" /\ PagesOf(r) \cap mapped = {}
      /\ UNCHANGED <<table, live, dropped>> /\ mapped' = mapped \cup PagesOf(r)
      /\ pc' = [pc EXCEPT ![t] = "register"] /\ call' = [call EXCEPT ![t] = c]
  BY DEF IInv, Mmap, Start, Goto
<1>1. /\ r[1] \in Pages /\ r \in Nat \X Nat /\ PagesOf(r) = r[1] .. r[2]
      /\ r[1] \in PagesOf(r) /\ PagesOf(r) \subseteq Pages
  BY RegionPages
<1>2. c \in Calls /\ c.region = r /\ c.page = r[1] /\ c.probe = 0 /\ ~ c.pinned
  BY <1>1, TableConstants DEF Calls
<1>. HIDE DEF c
<1>3. pc'[t] = "register" /\ call'[t] = c /\ ~ Working(t)
  BY <1>0 DEF TypeOK, Working, Registering, Unregistering
<1>4. TypeOK'
  BY <1>0, <1>1, <1>2 DEF TypeOK, PCs
<1>5. Reachable' /\ HoldsMappedOnce' /\ LiveOK'
  BY <1>0 DEF IInv, Reachable, HoldsMappedOnce, LiveOK, NoneEmpty, InTable
<1>6. \A u \in Threads \ {t} : pc'[u] = pc[u] /\ call'[u] = call[u] /\ (Working(u)' <=> Working(u))
  BY <1>0 DEF TypeOK, Working, Registering, Unregistering
<1>7. \A u \in Threads \ {t} : Working(u) =>
        WorkOK(u) /\ PagesOf(call[u].region) \cap PagesOf(r) = {}
  BY <1>0 DEF IInv, ThreadOK, WorkOK
<1>8. Exclusive'
  BY <1>2, <1>3, <1>6, <1>7 DEF IInv, Exclusive
<1>9. ThreadOK(t)'
  <2>1. WorkOK(t)'
    <3>1. \A x \in live : PagesOf(r) \cap PagesOf(x) = {}
      BY <1>0 DEF IInv, LiveOK
    <3>. QED
      BY <3>1, <1>0, <1>1, <1>2, <1>3 DEF WorkOK
  <2>2. \A q \in PagesOf(r) : ~ InTable(q)
    BY <1>0, <1>1, PagesArePositive DEF IInv, HoldsMappedOnce, InTable
  <2>3. \A q \in PagesOf(r) : ~ (q < r[1])
    BY <1>1, PagesArePositive
  <2>4. RegisterOK(t)'
    BY <2>2, <2>3, <1>0, <1>2, <1>3 DEF RegisterOK, NoneEmpty, Probes, InTable
  <2>. QED
    BY <2>1, <2>4, <1>2, <1>3 DEF ThreadOK, Working, Registering, Unregistering, Looking
<1>10. ASSUME NEW u \in Threads \ {t} PROVE ThreadOK(u)'
  <2>1. ThreadOK(u)
    BY DEF IInv
  <2>2. call[u].pinned => PinnedOK(u)
    BY <2>1 DEF ThreadOK
  <2>. QED
    BY <1>0, <1>6, <1>7, <2>1, <2>2, OthersKeep DEF WorkOK, PinnedOK
<1>. QED
  BY <1>4, <1>5, <1>8, <1>9, <1>10 DEF IInv

\* A region leaves the live ones before its pages are unregistered; no pinned lookup
\* is inside it.
LEMMA ReleaseStep ==
  ASSUME IInv, NEW t \in Threads, NEW r \in Regions, Release(t, r)
  PROVE  IInv'
<1>. DEFINE c == [region |-> r, page |-> r[1], probe |-> 0, pinned |-> FALSE]
<1>0. /\ TypeOK /\ pc[t] = "idle" /\ r \in live /\ ~ Pinned(r)
      /\ UNCHANGED <<table, mapped, dropped>> /\ live' = live \ {r}
      /\ pc' = [pc EXCEPT ![t] = "unregister"] /\ call' = [call EXCEPT ![t] = c]
  BY DEF IInv, Release, Start, Goto
<1>1. /\ r[1] \in Pages /\ r \in Nat \X Nat /\ PagesOf(r) = r[1] .. r[2]
      /\ r[1] \in PagesOf(r) /\ PagesOf(r) \subseteq Pages
  BY RegionPages
<1>2. c \in Calls /\ c.region = r /\ c.page = r[1] /\ c.probe = 0 /\ ~ c.pinned
  BY <1>1, TableConstants DEF Calls
<1>. HIDE DEF c
<1>3. pc'[t] = "unregister" /\ call'[t] = c
  BY <1>0 DEF TypeOK
<1>4. TypeOK'
  BY <1>0, <1>2 DEF TypeOK, PCs
<1>5. Reachable' /\ HoldsMappedOnce' /\ LiveOK'
  BY <1>0 DEF IInv, Reachable, HoldsMappedOnce, LiveOK, NoneEmpty, InTable
<1>6. \A u \in Threads \ {t} : pc'[u] = pc[u] /\ call'[u] = call[u] /\ (Working(u)' <=> Working(u))
  BY <1>0 DEF TypeOK, Working, Registering, Unregistering
<1>7. \A u \in Threads \ {t} : Working(u) =>
        WorkOK(u) /\ PagesOf(call[u].region) \cap PagesOf(r) = {}
  BY <1>0 DEF IInv, ThreadOK, WorkOK
<1>8. Exclusive'
  BY <1>2, <1>3, <1>6, <1>7 DEF IInv, Exclusive
<1>9. ThreadOK(t)'
  <2>1. WorkOK(t)'
    BY <1>0, <1>1, <1>2, <1>3 DEF WorkOK, IInv, LiveOK
  <2>2. \A q \in PagesOf(r) : ~ (q < r[1])
    BY <1>1, PagesArePositive
  <2>3. UnregisterOK(t)'
    BY <2>2, <1>2, <1>3 DEF UnregisterOK, NotBefore, Probes
  <2>. QED
    BY <2>1, <2>3, <1>2, <1>3 DEF ThreadOK, Working, Registering, Unregistering, Looking
<1>10. ASSUME NEW u \in Threads \ {t} PROVE ThreadOK(u)'
  <2>1. ThreadOK(u)
    BY DEF IInv
  <2>2. call[u].pinned => PinnedOK(u) /\ call[u].page \notin PagesOf(r)
    BY <1>0, <2>1 DEF ThreadOK, Pinned
  <2>3. call[u].pinned => \E x \in live' : call[u].page \in PagesOf(x)
    BY <2>2, <1>0 DEF PinnedOK
  <2>. QED
    BY <1>0, <1>6, <1>7, <2>1, <2>3, OthersKeep DEF WorkOK
<1>. QED
  BY <1>4, <1>5, <1>8, <1>9, <1>10 DEF IInv

\* munmap comes after the last page has left the table.
LEMMA MunmapStep ==
  ASSUME IInv, NEW t \in Threads, Munmap(t)
  PROVE  IInv'
<1>. DEFINE r == call[t].region
<1>0. /\ TypeOK /\ pc[t] = "munmap" /\ Working(t) /\ ThreadOK(t)
      /\ UNCHANGED <<table, live>>
      /\ mapped' = mapped \ PagesOf(r) /\ dropped' = dropped \ PagesOf(r)
      /\ pc' = [pc EXCEPT ![t] = "idle"] /\ call' = [call EXCEPT ![t] = NoCall]
  BY DEF IInv, Munmap, Return, Goto, Working
<1>1. /\ \A q \in PagesOf(r) : ~ InTable(q)
      /\ \A x \in live : PagesOf(r) \cap PagesOf(x) = {}
  BY <1>0 DEF ThreadOK, WorkOK
<1>. HIDE DEF r
<1>2. pc'[t] = "idle" /\ ~ call'[t].pinned /\ NoCall \in Calls
  BY <1>0, Locals DEF TypeOK, NoCall
<1>3. TypeOK'
  BY <1>0, <1>2 DEF TypeOK, PCs
<1>4. Reachable' /\ HoldsMappedOnce' /\ LiveOK'
  <2>1. Reachable'
    BY <1>0 DEF IInv, Reachable, NoneEmpty
  <2>2. HoldsMappedOnce'
    BY <1>0, <1>1 DEF IInv, HoldsMappedOnce, InTable
  <2>3. LiveOK'
    BY <1>0, <1>1 DEF IInv, LiveOK, InTable
  <2>. QED
    BY <2>1, <2>2, <2>3
<1>5. \A u \in Threads \ {t} : pc'[u] = pc[u] /\ call'[u] = call[u] /\ (Working(u)' <=> Working(u))
  BY <1>0 DEF TypeOK, Working, Registering, Unregistering
<1>6. \A u \in Threads \ {t} : Working(u) =>
        WorkOK(u) /\ PagesOf(call[u].region) \cap PagesOf(r) = {}
  BY <1>0 DEF IInv, ThreadOK, Exclusive, r
<1>7. ThreadOK(t)' /\ ~ Working(t)'
  BY <1>2 DEF ThreadOK, Working, Registering, Unregistering, Looking
<1>8. Exclusive'
  BY <1>5, <1>7 DEF IInv, Exclusive
<1>9. ASSUME NEW u \in Threads \ {t} PROVE ThreadOK(u)'
  <2>1. ThreadOK(u)
    BY DEF IInv
  <2>2. ASSUME Working(u)
        PROVE  /\ PagesOf(call[u].region) \subseteq mapped'
               /\ \A x \in live' : PagesOf(call[u].region) \cap PagesOf(x) = {}
               /\ \A q \in PagesOf(call[u].region) :
                    /\ \A s \in Slots : table'[s] = q <=> table[s] = q
                    /\ q \in dropped => q \in dropped'
    BY <2>2, <1>0, <1>6 DEF WorkOK
  <2>3. call[u].pinned =>
          /\ \E x \in live' : call[u].page \in PagesOf(x)
          /\ call[u].page \in dropped => call[u].page \in dropped'
    BY <2>1, <1>0, <1>1 DEF ThreadOK, PinnedOK
  <2>. QED
    BY <1>0, <1>5, <2>1, <2>2, <2>3, OthersKeep
<1>. QED
  BY <1>3, <1>4, <1>7, <1>8, <1>9 DEF IInv


\* register_region leaves the loop for the current page, which is now in the table
\* or dropped, while the other pages are where they were.
LEMMA RegisteredStep ==
  ASSUME IInv, NEW t \in Threads, Registering(t), Registered(t), UNCHANGED mapped,
         table' \in [Slots -> Pages \cup {Empty, Tombstone}],
         Reachable', HoldsMappedOnce',
         (\E s \in Slots : table'[s] = call[t].page) \/ call[t].page \in dropped',
         dropped \subseteq dropped', dropped' \subseteq Pages,
         \A s \in Slots : table[s] # Empty => table'[s] # Empty,
         \A q \in Pages \ {call[t].page} : \A s \in Slots : table'[s] = q <=> table[s] = q
  PROVE  IInv'
<1>0. TypeOK /\ ThreadOK(t) /\ Working(t)
  BY DEF IInv, Working
<1>. DEFINE r == call[t].region
            p == call[t].page
<1>1. /\ r \in Regions /\ p \in PagesOf(r) /\ PagesOf(r) \subseteq mapped
      /\ \A x \in live : PagesOf(r) \cap PagesOf(x) = {}
      /\ \A q \in PagesOf(r) :
           IF q < p THEN InTable(q) \/ q \in dropped ELSE ~ InTable(q)
      /\ p \in Pages /\ PagesOf(r) \subseteq Pages /\ ~ call[t].pinned
  BY <1>0, RegionPages
  DEF ThreadOK, WorkOK, RegisterOK, PinnedOK, Looking, Registering
<1>2. \A q \in PagesOf(r) : IF q <= p THEN InTable(q)' \/ q \in dropped' ELSE ~ InTable(q)'
  <2>1. \A q \in PagesOf(r) : q # p => (InTable(q)' <=> InTable(q))
    BY <1>1 DEF InTable
  <2>2. (\E s \in Slots : table'[s] = p) \/ p \in dropped'
    OBVIOUS
  <2>. SUFFICES ASSUME NEW q \in PagesOf(r)
                PROVE  IF q <= p THEN InTable(q)' \/ q \in dropped' ELSE ~ InTable(q)'
    OBVIOUS
  <2>3. q \in Pages /\ (q <= p <=> q < p \/ q = p)
    BY <1>1, PageOrder
  <2>4. CASE q = p
    BY <2>2, <2>3, <2>4 DEF InTable
  <2>5. CASE q # p
    BY <1>1, <2>1, <2>3, <2>5
  <2>. QED
    BY <2>4, <2>5
<1>3. PICK c \in Calls, l \in PCs :
        /\ pc' = [pc EXCEPT ![t] = l] /\ call' = [call EXCEPT ![t] = c]
        /\ ~ c.pinned
        /\ \/ /\ l = "register" /\ live' = live /\ c.region = r /\ c.probe = 0
              /\ c.page = p + 1 /\ p + 1 \in PagesOf(r)
           \/ l = "idle" /\ live' = live \cup {r} /\ p = r[2]
  <2>2. CASE NextPage(t, "register") /\ UNCHANGED live
    <3>. DEFINE d == [call[t] EXCEPT !.page = call[t].page + 1, !.probe = 0]
    <3>1. p + 1 \in PagesOf(r)
      BY <2>2, <1>1, RegionPages, PagesArePositive DEF NextPage, LastPage
    <3>2. d \in Calls /\ d.region = r /\ ~ d.pinned /\ d.page = p + 1 /\ d.probe = 0
      <4>1. p + 1 \in Pages /\ call[t] \in Calls /\ 0 \in 0 .. ProbeLimit - 1
        BY <3>1, <1>0, <1>1, Locals DEF Probes
      <4>. QED
        BY <4>1, <1>1 DEF Calls
    <3>3. pc' = [pc EXCEPT ![t] = "register"] /\ call' = [call EXCEPT ![t] = d]
      BY <2>2 DEF NextPage, Goto
    <3>. HIDE DEF d
    <3>. QED
      BY <2>2, <3>1, <3>2, <3>3 DEF PCs
  <2>3. CASE LastPage(t) /\ Return(t) /\ live' = live \cup {call[t].region}
    <3>1. NoCall \in Calls /\ ~ NoCall.pinned
      BY <1>0, Locals DEF NoCall
    <3>. QED
      BY <2>3, <3>1 DEF Goto, LastPage, Return, PCs
  <2>. QED
    BY <2>2, <2>3 DEF Registered
<1>. HIDE DEF r, p
<1>4. pc'[t] = l /\ call'[t] = c
  BY <1>0, <1>3 DEF TypeOK
<1>5. TypeOK'
  BY <1>0, <1>1, <1>3 DEF TypeOK
<1>6. LiveOK'
  <2>1. ASSUME NEW x \in live, NEW q \in PagesOf(x)
        PROVE  q \in mapped /\ (InTable(q)' \/ q \in dropped')
    <3>1. q \in mapped /\ (InTable(q) \/ q \in dropped) /\ x \in Regions
      BY <2>1, <1>0 DEF IInv, LiveOK, TypeOK
    <3>2. q # p /\ q \in Pages
      BY <3>1, <2>1, <1>1, RegionPages
    <3>. QED
      BY <3>1, <3>2 DEF InTable, p
  <2>2. ASSUME p = r[2], NEW q \in PagesOf(r)
        PROVE  q \in mapped /\ (InTable(q)' \/ q \in dropped')
    <3>1. q <= p
      BY <2>2, <1>1, RegionPages, PagesArePositive
    <3>. QED
      BY <3>1, <2>2, <1>1, <1>2
  <2>3. \A x \in live', q \in live' : x # q => PagesOf(x) \cap PagesOf(q) = {}
    BY <1>1, <1>3 DEF IInv, LiveOK
  <2>. QED
    BY <2>1, <2>2, <2>3, <1>3 DEF LiveOK
<1>7. \A u \in Threads \ {t} : pc'[u] = pc[u] /\ call'[u] = call[u] /\ (Working(u)' <=> Working(u))
  BY <1>0, <1>3 DEF TypeOK, Working, Registering, Unregistering
<1>8. Exclusive'
  <2>1. Working(t)' => c.region = r
    BY <1>3, <1>4 DEF Working, Registering, Unregistering
  <2>. QED
    BY <2>1, <1>0, <1>4, <1>7 DEF IInv, Exclusive, r
<1>9. ThreadOK(t)'
  <2>1. CASE l = "idle"
    BY <2>1, <1>3, <1>4 DEF ThreadOK, Working, Registering, Unregistering, Looking
  <2>2. CASE l = "register"
    <3>1. /\ live' = live /\ c.region = r /\ c.probe = 0 /\ ~ c.pinned
          /\ c.page = p + 1 /\ p + 1 \in PagesOf(r)
      BY <1>3, <2>2
    <3>2. WorkOK(t)'
      BY <3>1, <1>1, <1>4 DEF WorkOK
    <3>3. \A q \in PagesOf(r) :
            IF q < p + 1 THEN InTable(q)' \/ q \in dropped' ELSE ~ InTable(q)'
      <4>1. \A q \in PagesOf(r) : q < p + 1 <=> q <= p
        BY <1>1, PagesArePositive
      <4>. QED
        BY <4>1, <1>2
    <3>4. NoneEmpty(call[t].page, call[t].probe)'
      BY <3>1, <1>4 DEF NoneEmpty, Probes
    <3>5. RegisterOK(t)'
      BY <3>1, <3>3, <3>4, <1>4, <2>2 DEF RegisterOK
    <3>. QED
      BY <3>1, <3>2, <3>5, <1>4, <2>2
      DEF ThreadOK, Working, Registering, Unregistering, Looking
  <2>. QED
    BY <2>1, <2>2, <1>3
<1>10. ASSUME NEW u \in Threads \ {t} PROVE ThreadOK(u)'
  <2>1. ThreadOK(u)
    BY DEF IInv
  <2>2. ASSUME Working(u)
        PROVE  /\ PagesOf(call[u].region) \subseteq mapped'
               /\ \A x \in live' : PagesOf(call[u].region) \cap PagesOf(x) = {}
               /\ \A q \in PagesOf(call[u].region) :
                    /\ \A s \in Slots : table'[s] = q <=> table[s] = q
                    /\ q \in dropped => q \in dropped'
    <3>1. WorkOK(u)
      BY <2>1, <2>2 DEF ThreadOK
    <3>2. PagesOf(call[u].region) \cap PagesOf(r) = {}
      BY <2>2, <1>0 DEF IInv, Exclusive, r
    <3>3. \A q \in PagesOf(call[u].region) : q \in Pages /\ q # p
      BY <3>1, <3>2, <1>1, RegionPages DEF WorkOK
    <3>. QED
      BY <3>1, <3>2, <3>3, <1>3 DEF WorkOK, p
  <2>3. call[u].pinned => PinnedOK(u) /\ call[u].page \in Pages
    BY <2>1 DEF ThreadOK, PinnedOK
  <2>4. call[u].pinned => call[u].page # p
    BY <2>3, <1>1 DEF PinnedOK
  <2>5. call[u].pinned =>
          /\ \E x \in live' : call[u].page \in PagesOf(x)
          /\ \A s \in Slots : table'[s] = call[u].page => table[s] = call[u].page
          /\ call[u].page \in dropped => call[u].page \in dropped'
    BY <2>3, <2>4, <1>3 DEF PinnedOK, p
  <2>. QED
    BY <1>0, <1>7, <2>1, <2>2, <2>5, OthersKeep
<1>. QED
  BY <1>5, <1>6, <1>8, <1>9, <1>10 DEF IInv


\* A page that is not in the table enters it at the slot of the current probe,
\* which is empty or a tombstone, behind used slots.
LEMMA InsertStep ==
  ASSUME IInv, NEW t \in Threads, Registering(t), Registered(t),
         UNCHANGED <<mapped, dropped>>,
         Value(t) \in {Empty, Tombstone},
         table' = [table EXCEPT ![SlotOf(t)] = call[t].page]
  PROVE  IInv'
<1>. DEFINE p == call[t].page
            n == call[t].probe
<1>0. TypeOK /\ ThreadOK(t) /\ Working(t)
  BY DEF IInv, Working
<1>1. /\ p \in Pages /\ n \in Probes /\ SlotOf(t) = Slot(p, n) /\ SlotOf(t) \in Slots
      /\ p \in mapped /\ NoneEmpty(p, n) /\ p \in PagesOf(call[t].region)
  BY <1>0, RegionPages, Locals, SlotInRange DEF ThreadOK, WorkOK, RegisterOK, SlotOf
<1>2. ~ InTable(p)
  <2>1. ~ (p < p)
    BY <1>1, PagesAreOrdered
  <2>. QED
    BY <2>1, <1>0, <1>1 DEF ThreadOK, RegisterOK
<1>3. table \in [Slots -> Pages \cup {Empty, Tombstone}]
  BY <1>0 DEF TypeOK
<1>. HIDE DEF p, n
<1>4. \A s \in Slots : table'[s] = IF s = SlotOf(t) THEN p ELSE table[s]
  BY <1>3 DEF p
<1>5. table' \in [Slots -> Pages \cup {Empty, Tombstone}]
  BY <1>1, <1>3 DEF p
<1>6. /\ \A s \in Slots : table[s] # Empty => table'[s] # Empty
      /\ \A q \in Pages \ {p} : \A s \in Slots : table'[s] = q <=> table[s] = q
      /\ \E s \in Slots : table'[s] = p
  BY <1>1, <1>3, <1>4, PagesArePositive DEF Value
<1>7. HoldsMappedOnce'
  BY <1>1, <1>2, <1>4, PagesArePositive DEF IInv, HoldsMappedOnce, InTable
<1>8. Reachable'
  <2>1. ASSUME NEW q \in Pages, NEW s \in Slots, table'[s] = q
        PROVE  \E k \in Probes : s = Slot(q, k) /\ NoneEmpty(q, k)'
    <3>1. CASE s = SlotOf(t)
      <4>1. q = p
        BY <3>1, <2>1, <1>4
      <4>2. \A k \in Probes : k = n => NoneEmpty(q, k)'
        BY <4>1, <1>1, <1>6, SlotInRange DEF NoneEmpty
      <4>. QED
        BY <4>1, <4>2, <3>1, <1>1
    <3>2. CASE s # SlotOf(t)
      <4>1. table[s] = q
        BY <3>2, <2>1, <1>4
      <4>2. PICK k \in Probes : s = Slot(q, k) /\ NoneEmpty(q, k)
        BY <4>1 DEF IInv, Reachable
      <4>. QED
        BY <4>2, <1>6, SlotInRange DEF NoneEmpty
    <3>. QED
      BY <3>1, <3>2
  <2>. QED
    BY <2>1 DEF Reachable
<1>9. dropped' \subseteq Pages /\ dropped \subseteq dropped'
  BY <1>0 DEF TypeOK
<1>. QED
  BY <1>5, <1>6, <1>7, <1>8, <1>9, RegisteredStep DEF p

\* The current slot is taken: the loop goes on, or the page is dropped.
LEMMA SkipStep ==
  ASSUME IInv, NEW t \in Threads, Registering(t), Skip(t), Value(t) # Empty,
         UNCHANGED <<table, mapped>>
  PROVE  IInv'
<1>0. TypeOK /\ ThreadOK(t) /\ Working(t)
  BY DEF IInv, Working
<1>1. /\ call[t].region \in Regions /\ call[t].page \in Pages /\ RegisterOK(t)
      /\ WorkOK(t) /\ ~ call[t].pinned
  BY <1>0, RegionPages DEF ThreadOK, WorkOK, PinnedOK, Looking, Registering
<1>2. ASSUME NextProbe(t, "register"), UNCHANGED <<live, dropped>>
      PROVE  IInv'
  <2>. DEFINE c == [call[t] EXCEPT !.probe = call[t].probe + 1]
  <2>1. /\ c \in Calls /\ c.page = call[t].page /\ c.probe = call[t].probe + 1
        /\ c.pinned = call[t].pinned /\ c.region = call[t].region
    BY <1>2, <1>0, Locals DEF Calls, NextProbe, Probes
  <2>2. /\ pc' = [pc EXCEPT ![t] = "register"] /\ call' = [call EXCEPT ![t] = c]
        /\ "register" \in PCs
    BY <1>2 DEF NextProbe, Goto, PCs
  <2>3. pc'[t] = "register" /\ call'[t] = c
    BY <2>2, <1>0 DEF TypeOK
  <2>. HIDE DEF c
  <2>4. NoneEmpty(call[t].page, call[t].probe + 1)
    BY <1>0, <1>1, Locals DEF RegisterOK, NoneEmpty, Value, SlotOf, Probes
  <2>5. ThreadOK(t)'
    BY <2>1, <2>3, <2>4, <1>0, <1>1, <1>2
    DEF ThreadOK, WorkOK, RegisterOK, Working, Registering, Unregistering, Looking,
        NoneEmpty, InTable
  <2>. QED
    BY <2>1, <2>2, <2>5, <1>0, <1>2, ControlStep
<1>3. ASSUME GiveUp(t) PROVE IInv'
  <2>1. /\ Registered(t) /\ call[t].page \in dropped' /\ dropped \subseteq dropped'
        /\ dropped' \subseteq Pages
    BY <1>0, <1>1, <1>3 DEF GiveUp, TypeOK
  <2>2. table' \in [Slots -> Pages \cup {Empty, Tombstone}] /\ Reachable' /\ HoldsMappedOnce'
    BY <1>0 DEF IInv, TypeOK, Reachable, HoldsMappedOnce, NoneEmpty
  <2>. QED
    BY <2>1, <2>2, RegisteredStep
<1>. QED
  BY <1>2, <1>3 DEF Skip

\* The two compare-exchanges of register_region.
LEMMA RegisterStep ==
  ASSUME IInv, NEW t \in Threads, RegisterCAS(t) \/ RegisterTombstone(t)
  PROVE  IInv'
<1>0. /\ TypeOK /\ ThreadOK(t) /\ Working(t) /\ Registering(t) /\ UNCHANGED mapped
  BY DEF IInv, Working, Registering, RegisterCAS, RegisterTombstone
<1>1. /\ call[t].region \in Regions /\ call[t].page \in Pages /\ RegisterOK(t)
      /\ WorkOK(t) /\ ~ call[t].pinned /\ SlotOf(t) \in Slots
  BY <1>0, RegionPages, Locals, SlotInRange
  DEF ThreadOK, WorkOK, PinnedOK, Looking, Registering, SlotOf
<1>2. Value(t) # call[t].page
  <2>1. ~ InTable(call[t].page)
    <3>1. ~ (call[t].page < call[t].page)
      BY <1>1, PagesAreOrdered
    <3>. QED
      BY <3>1, <1>1 DEF RegisterOK, WorkOK
  <2>. QED
    BY <2>1, <1>1 DEF InTable, Value
<1>3. CASE RegisterCAS(t)
  <2>1. CASE /\ Value(t) = Tombstone
             /\ Goto(t, "register_tombstone")
             /\ UNCHANGED <<table, live, dropped, call>>
    <3>1. /\ pc' = [pc EXCEPT ![t] = "register_tombstone"]
          /\ call' = [call EXCEPT ![t] = call[t]]
          /\ call[t] \in Calls /\ "register_tombstone" \in PCs
      BY <1>0, <2>1 DEF Goto, TypeOK, PCs
    <3>2. pc'[t] = "register_tombstone" /\ call'[t] = call[t]
      BY <3>1, <1>0 DEF TypeOK
    <3>3. ThreadOK(t)'
      BY <3>2, <1>0, <1>1, <2>1, PagesArePositive
      DEF ThreadOK, WorkOK, RegisterOK, Working, Registering, Unregistering, Looking,
          NoneEmpty, InTable, Value, SlotOf
    <3>. QED
      BY <3>1, <3>3, <2>1, <1>0, ControlStep
  <2>2. CASE /\ Value(t) = Empty
             /\ table' = [table EXCEPT ![SlotOf(t)] = call[t].page]
             /\ Registered(t)
             /\ UNCHANGED dropped
    BY <2>2, <1>0, InsertStep
  <2>3. CASE Value(t) # Empty /\ Skip(t) /\ UNCHANGED table
    BY <2>3, <1>0, SkipStep
  <2>. QED
    BY <1>2, <1>3, <2>1, <2>2, <2>3 DEF RegisterCAS
<1>4. CASE RegisterTombstone(t)
  <2>1. Value(t) # Empty
    BY <1>1, <1>4 DEF RegisterOK, RegisterTombstone
  <2>2. CASE /\ Value(t) = Tombstone
             /\ table' = [table EXCEPT ![SlotOf(t)] = call[t].page]
             /\ Registered(t)
             /\ UNCHANGED dropped
    BY <2>2, <1>0, InsertStep
  <2>3. CASE Skip(t) /\ UNCHANGED table
    BY <2>1, <2>3, <1>0, SkipStep
  <2>. QED
    BY <1>4, <2>2, <2>3 DEF RegisterTombstone
<1>. QED
  BY <1>3, <1>4

\* Every step preserves the invariant.
LEMMA NextIInv == IInv /\ [Next]_vars => IInv'
<1>. SUFFICES ASSUME IInv, [Next]_vars PROVE IInv'
  OBVIOUS
<1>1. CASE UNCHANGED vars
  <2>1. UNCHANGED <<table, mapped, live, dropped, pc, call>>
    BY <1>1 DEF vars
  <2>2. TypeOK' /\ Reachable' /\ HoldsMappedOnce' /\ LiveOK' /\ Exclusive'
    BY <2>1 DEF IInv, TypeOK, Reachable, HoldsMappedOnce, LiveOK, Exclusive, NoneEmpty,
      InTable, Working, Registering, Unregistering
  <2>3. ASSUME NEW t \in Threads PROVE ThreadOK(t)'
    <3>1. ThreadOK(t)
      BY DEF IInv
    <3>. QED
      BY <2>1, <3>1 DEF ThreadOK, WorkOK, RegisterOK, UnregisterOK, PinnedOK, NoneEmpty,
        NotBefore, InTable, Working, Registering, Unregistering, Looking, Value, SlotOf
  <2>. QED
    BY <2>2, <2>3 DEF IInv
<1>2. CASE Next
  BY <1>2, MmapStep, ReleaseStep, LookupStep, RegisterStep, UnregisterLoadStep,
     UnregisterStoreStep, MunmapStep DEF Next
<1>. QED
  BY <1>1, <1>2

\* The invariant above holds in every reachable state.
THEOREM Inductive == Spec => []IInv
  BY InitIInv, NextIInv, PTL DEF Spec

\* Type correctness: slots hold pages, 0 or the tombstone only, and no probe of
\* register_region, unregister_region or page_maybe_owned runs past the limit.
THEOREM TypeCorrect == Spec => []TypeOK
<1>1. IInv => TypeOK
  BY DEF IInv
<1>. QED
  BY <1>1, Inductive, PTL

\* The table holds mapped pages only and each of them once, whatever the
\* interleaving of register_region and unregister_region.
THEOREM TableIsTruthful == Spec => []HoldsMappedOnce
<1>1. IInv => HoldsMappedOnce
  BY DEF IInv
<1>. QED
  BY <1>1, Inductive, PTL

\* page_maybe_owned misses no page of a live region, except one register_region
\* had found no slot for.
THEOREM OwnedPagesAreFound == Spec => []OwnedIsFound
<1>1. IInv => OwnedIsFound
  BY DEF IInv, OwnedIsFound, ThreadOK, PinnedOK
<1>. QED
  BY <1>1, Inductive, PTL

=============================================================================
