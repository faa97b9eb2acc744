--------------------------- MODULE OwnershipTable ---------------------------
(***************************************************************************)
(* The lock-free ownership table of the shared memory management layer     *)
(* (register_region, unregister_region and page_maybe_owned in             *)
(* src/adaptive_services.cpp): an open-addressing hash set of the 4 KiB    *)
(* pages the allocator has mapped.  Every slot access is one atomic step;  *)
(* any number of threads register, unregister and look up at once.         *)
(***************************************************************************)
EXTENDS Integers

CONSTANTS
  Threads,
  Pages,       \* page numbers (address >> 12) mmap may return
  Regions,     \* <<first, last>>: the page ranges mmap may return
  TableSize,   \* ADAPTIVE_PAGE_TABLE_SIZE
  ProbeLimit   \* ADAPTIVE_PAGE_TABLE_PROBE

ASSUME TableConstants ==
  /\ Pages \subseteq Nat \ {0}
  /\ Regions \subseteq {r \in Pages \X Pages : r[1] <= r[2] /\ r[1] .. r[2] \subseteq Pages}
  /\ TableSize \in Nat \ {0}
  /\ ProbeLimit \in 1 .. TableSize

Empty == 0
Tombstone == -1

VARIABLES
  table,     \* g_page_table
  mapped,    \* pages the kernel has mapped for the allocator
  live,      \* regions whose registration is complete
  dropped,   \* mapped pages that register_region found no slot for (history)
  pc, call   \* per thread: the running loop and its local variables

vars == <<table, mapped, live, dropped, pc, call>>

Slots == 0 .. TableSize - 1
PagesOf(r) == r[1] .. r[2]

\* The slot of the k-th probe for page p (page_table_index, wrapped).
Slot(p, k) == (p + k) % TableSize

PCs == {"idle", "register", "register_tombstone", "unregister", "store_tombstone",
        "munmap", "lookup", "hit", "miss"}

\* pinned: the looked-up page belongs to a live region, which the program keeps
\* until the lookup returns (it is passing in an object it owns).
Calls == [region : Nat \X Nat, page : Pages \cup {0},
          probe : 0 .. ProbeLimit - 1, pinned : BOOLEAN]
NoCall == [region |-> <<0, 0>>, page |-> 0, probe |-> 0, pinned |-> FALSE]

\* Slots hold pages, 0 or the tombstone, and a probe never reaches the limit.
TypeOK ==
  /\ table \in [Slots -> Pages \cup {Empty, Tombstone}]
  /\ mapped \subseteq Pages
  /\ live \subseteq Regions
  /\ dropped \subseteq Pages
  /\ pc \in [Threads -> PCs]
  /\ call \in [Threads -> Calls]

Init ==
  /\ table = [s \in Slots |-> Empty]
  /\ mapped = {}
  /\ live = {}
  /\ dropped = {}
  /\ pc = [t \in Threads |-> "idle"]
  /\ call = [t \in Threads |-> NoCall]

Goto(t, label) == pc' = [pc EXCEPT ![t] = label]
SlotOf(t) == Slot(call[t].page, call[t].probe)
Value(t) == table[SlotOf(t)]
LastProbe(t) == call[t].probe = ProbeLimit - 1
LastPage(t) == call[t].page = call[t].region[2]

\* The outer loop goes on with the next page of the region.
NextPage(t, loop) ==
  /\ ~ LastPage(t)
  /\ Goto(t, loop)
  /\ call' = [call EXCEPT ![t] = [@ EXCEPT !.page = call[t].page + 1, !.probe = 0]]

\* The inner loop goes on with the next probe.
NextProbe(t, loop) ==
  /\ ~ LastProbe(t)
  /\ Goto(t, loop)
  /\ call' = [call EXCEPT ![t] = [@ EXCEPT !.probe = call[t].probe + 1]]

Start(t, r, p, pinned, label) ==
  /\ pc[t] = "idle"
  /\ call' = [call EXCEPT ![t] = [region |-> r, page |-> p, probe |-> 0, pinned |-> pinned]]
  /\ Goto(t, label)

Return(t) == Goto(t, "idle") /\ call' = [call EXCEPT ![t] = NoCall]

----------------------------------------------------------------------------
(* register_region, called by the thread that has just mapped the region    *)

Mmap(t, r) ==
  /\ PagesOf(r) \cap mapped = {}
  /\ mapped' = mapped \cup PagesOf(r)
  /\ Start(t, r, r[1], FALSE, "register")
  /\ UNCHANGED <<table, live, dropped>>

\* Leave the loop for a page; the last page makes the region live.
Registered(t) ==
  \/ NextPage(t, "register") /\ UNCHANGED live
  \/ LastPage(t) /\ Return(t) /\ live' = live \cup {call[t].region}

\* No slot within the probe limit: the page is silently left out.
GiveUp(t) ==
  /\ LastProbe(t)
  /\ dropped' = dropped \cup {call[t].page}
  /\ Registered(t)

Skip(t) ==
  \/ NextProbe(t, "register") /\ UNCHANGED <<live, dropped>>
  \/ GiveUp(t)

\* The first compare_exchange_strong, expecting an empty slot.
RegisterCAS(t) ==
  /\ pc[t] = "register"
  /\ \/ /\ Value(t) \in {Empty, call[t].page}
        /\ table' = [table EXCEPT ![SlotOf(t)] = call[t].page]
        /\ Registered(t)
        /\ UNCHANGED dropped
     \/ /\ Value(t) = Tombstone
        /\ Goto(t, "register_tombstone")
        /\ UNCHANGED <<table, live, dropped, call>>
     \/ /\ Value(t) \notin {Empty, Tombstone, call[t].page}
        /\ Skip(t)
        /\ UNCHANGED table
  /\ UNCHANGED mapped

\* The second one, expecting the tombstone; another thread may have taken it.
RegisterTombstone(t) ==
  /\ pc[t] = "register_tombstone"
  /\ \/ /\ Value(t) = Tombstone
        /\ table' = [table EXCEPT ![SlotOf(t)] = call[t].page]
        /\ Registered(t)
        /\ UNCHANGED dropped
     \/ /\ Value(t) # Tombstone
        /\ Skip(t)
        /\ UNCHANGED table
  /\ UNCHANGED mapped

----------------------------------------------------------------------------
(* unregister_region, then munmap                                           *)

Pinned(r) == \E u \in Threads : call[u].pinned /\ call[u].page \in PagesOf(r)

\* Mutant: the region is unmapped before it is unregistered.
ReleaseUnmapsFirst(t, r) ==
  /\ r \in live
  /\ ~ Pinned(r)
  /\ live' = live \ {r}
  /\ mapped' = mapped \ PagesOf(r)
  /\ Start(t, r, r[1], FALSE, "unregister")
  /\ UNCHANGED <<table, dropped>>

Release(t, r) ==
  /\ r \in live
  /\ ~ Pinned(r)
  /\ live' = live \ {r}
  /\ Start(t, r, r[1], FALSE, "unregister")
  /\ UNCHANGED <<table, mapped, dropped>>

Unregistered(t) ==
  \/ NextPage(t, "unregister")
  \/ LastPage(t) /\ Goto(t, "munmap") /\ UNCHANGED call

UnregisterLoad(t) ==
  /\ pc[t] = "unregister"
  /\ \/ Value(t) = call[t].page /\ Goto(t, "store_tombstone") /\ UNCHANGED call
     \/ Value(t) = Empty /\ Unregistered(t)
     \/ /\ Value(t) \notin {Empty, call[t].page}
        /\ NextProbe(t, "unregister") \/ (LastProbe(t) /\ Unregistered(t))
  /\ UNCHANGED <<table, mapped, live, dropped>>

\* Mutant: an unregistered slot is emptied, not marked with a tombstone.
UnregisterStoreEmpty(t) ==
  /\ pc[t] = "store_tombstone"
  /\ table' = [table EXCEPT ![SlotOf(t)] = Empty]
  /\ Unregistered(t)
  /\ UNCHANGED <<mapped, live, dropped>>

\* A plain store, not a compare-exchange.
UnregisterStore(t) ==
  /\ pc[t] = "store_tombstone"
  /\ table' = [table EXCEPT ![SlotOf(t)] = Tombstone]
  /\ Unregistered(t)
  /\ UNCHANGED <<mapped, live, dropped>>

Munmap(t) ==
  /\ pc[t] = "munmap"
  /\ mapped' = mapped \ PagesOf(call[t].region)
  /\ dropped' = dropped \ PagesOf(call[t].region)
  /\ Return(t)
  /\ UNCHANGED <<table, live>>

----------------------------------------------------------------------------
(* page_maybe_owned, for any pointer the program passes in                  *)

Lookup(t, p) ==
  /\ Start(t, <<p, p>>, p, \E r \in live : p \in PagesOf(r), "lookup")
  /\ UNCHANGED <<table, mapped, live, dropped>>

LookupLoad(t) ==
  /\ pc[t] = "lookup"
  /\ \/ Value(t) = call[t].page /\ Goto(t, "hit") /\ UNCHANGED call
     \/ Value(t) = Empty /\ Goto(t, "miss") /\ UNCHANGED call
     \/ /\ Value(t) \notin {Empty, call[t].page}
        /\ NextProbe(t, "lookup") \/ (LastProbe(t) /\ Goto(t, "miss") /\ UNCHANGED call)
  /\ UNCHANGED <<table, mapped, live, dropped>>

LookupReturn(t) ==
  /\ pc[t] \in {"hit", "miss"}
  /\ Return(t)
  /\ UNCHANGED <<table, mapped, live, dropped>>

----------------------------------------------------------------------------
Next ==
  \E t \in Threads :
    \/ \E r \in Regions : Mmap(t, r) \/ Release(t, r)
    \/ \E p \in Pages : Lookup(t, p)
    \/ RegisterCAS(t) \/ RegisterTombstone(t)
    \/ UnregisterLoad(t) \/ UnregisterStore(t) \/ Munmap(t)
    \/ LookupLoad(t) \/ LookupReturn(t)

Spec == Init /\ [][Next]_vars

----------------------------------------------------------------------------
(* Properties                                                               *)

\* The table holds mapped pages only, each in one slot: a lookup that hits tells
\* the truth about the moment of its load, although unregister_region stores its
\* tombstone without a compare-exchange and slots are reused while others probe.
HoldsMappedOnce ==
  /\ \A s \in Slots : table[s] \in mapped \cup {Empty, Tombstone}
  /\ \A r, s \in Slots : table[r] = table[s] /\ table[r] \in Pages => r = s

\* page_maybe_owned finds every page of an object the program still owns, whatever
\* the other threads register and unregister in the meantime, unless
\* register_region had found no slot for it.
OwnedIsFound ==
  \A t \in Threads : pc[t] = "miss" /\ call[t].pinned => call[t].page \in dropped

=============================================================================
