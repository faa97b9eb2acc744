--------------------------- MODULE PtArenasProofs ---------------------------
(***************************************************************************)
(* Proofs about PtArenas, for any number of threads, arenas, heap segments *)
(* and calls: the inductive invariant, the lemmas its steps share (which   *)
(* conjuncts a move of a call keeps, how mutexes change hands, what the    *)
(* entries of pt_malloc and pt_free lead to), one lemma per action, and    *)
(* what the invariant says of mutexes, segments and arenas.                *)
(***************************************************************************)
EXTENDS PtArenas, FiniteSetTheorems, TLAPS

\* The leaves are mostly first-order: Zenon first, then SMT.
USE ZenonT(10), SMTT(20)

----------------------------------------------------------------------------
(* The inductive invariant.                                                 *)

PCs == {"idle", "first", "fast", "main", "new", "link", "register", "wait", "fastbin",
        "choose", "slow", "carve", "extend", "free", "free_lock", "freeing",
        "resize_lock", "resizing", "malloc"}

Calls == [pc : PCs, av : Nat \cup {None}, fast : BOOLEAN, old : Memory \cup {None},
          ret : {None, "fastbin", "carve"}, seg : Nat \cup {None}, prev : SUBSET Nat]

TypeOK ==
  /\ lock \in [AllArenas -> Threads \cup {None}]
  /\ thread_arena \in [Threads -> Nat \cup {None}]
  /\ tcache \in [Threads -> [Memory -> Nat] \cup {None}]
  /\ narenas \in Nat \ {0} /\ ar_ptr \in Seq(Nat) /\ Len(ar_ptr) <= MaxHeaps
  /\ registry \subseteq DOMAIN ar_ptr /\ lost \subseteq DOMAIN ar_ptr
  /\ bins \in [AllArenas -> SUBSET Nat]
  /\ live \in [Memory -> Nat]
  /\ call \in [Threads -> Calls]
  /\ early \in Threads \cup {None} /\ calls \in Nat

Registering(t) == pc(t) \in {"register", "extend"}
AtHome(t) == pc(t) \in {"free_lock", "freeing", "resize_lock", "resizing"}

\* Arenas and segments in use exist; a call has the arguments its place needs.
ArgsOK ==
  /\ \A h \in DOMAIN ar_ptr : ar_ptr[h] < narenas
  /\ \A t \in Threads :
       /\ thread_arena[t] # None => thread_arena[t] < narenas
       /\ av(t) # None => av(t) < narenas
       /\ Working(t) \/ AtHome(t) \/ Registering(t) => av(t) # None
       /\ pc(t) \in {"main", "new", "link", "register", "wait"} => call[t].ret \in {"fastbin", "carve"}
       /\ pc(t) \in {"free", "malloc"} => call[t].old # None
       /\ Registering(t) => /\ call[t].seg \in DOMAIN ar_ptr /\ ar_ptr[call[t].seg] = av(t)
                            /\ call[t].prev \subseteq DOMAIN ar_ptr

\* Mutexes and work, for every arena that may ever be.
LocksOK ==
  /\ \A t \in Threads : Working(t) => lock[av(t)] = t /\ (av(t) = Main => early = None)
  /\ \A a \in AllArenas :
       lock[a] # None => \/ Working(lock[a]) /\ av(lock[a]) = a
                         \/ a = Main /\ lock[a] = early
  /\ early # None => lock[Main] = early

\* An arena whose first segment is not registered yet is known to its maker only.
FreshOK ==
  \A t \in Threads : pc(t) = "register" =>
    /\ av(t) # Main /\ lock[av(t)] = None
    /\ \A u \in Threads : thread_arena[u] # av(t) /\ (u # t => av(u) # av(t))
    /\ \A h \in registry : ar_ptr[h] # av(t)
    /\ \A u \in Threads : Registering(u) => \A h \in call[u].prev : ar_ptr[h] # av(t)

\* Every segment is on the list, was dropped from it, or is being put there.
KnownOK ==
  \A h \in DOMAIN ar_ptr :
    h \in registry \cup lost \/ \E t \in Threads : Registering(t) /\ call[t].seg = h

\* Memory a program or a bin can have: a segment's only once it was on the list.
Out == {Mapped, 0} \cup registry \cup lost
OutOK ==
  /\ \A m \in Memory : live[m] > 0 => m \in Out
  /\ \A t \in Threads :
       /\ call[t].old # None => call[t].old \in Out
       /\ tcache[t] # None => \A m \in Memory : tcache[t][m] > 0 => m \in Out
  /\ \A a \in AllArenas : bins[a] \subseteq Out \ {Mapped}

\* Unless its segment was dropped, a block goes back to the arena it came from.
Home(h) == IF h = 0 THEN Main ELSE ar_ptr[h]
HomeOK ==
  /\ \A a \in AllArenas : \A h \in bins[a] : h \in lost \/ Home(h) = a
  /\ \A t \in Threads : AtHome(t) =>
       /\ call[t].old # None /\ call[t].old # Mapped
       /\ call[t].old \in lost \/ Home(call[t].old) = av(t)

\* Each thread between the test of the count and its increment was in time for one.
Linking == {t \in Threads : pc(t) = "link"}
LinksOK == narenas + Cardinality(Linking) <= MAX_ARENAS + Cardinality(Threads) - 1

IInv == TypeOK /\ ArgsOK /\ LocksOK /\ FreshOK /\ KnownOK /\ OutOK /\ HomeOK /\ LinksOK

----------------------------------------------------------------------------
(* What a step of a call changes.                                           *)

LEMMA NoneApart == None \notin Memory /\ None \notin Nat /\ None \notin Threads
BY Bounds DEF Memory, Mapped

LEMMA AtFields ==
  ASSUME NEW c \in Calls, NEW p \in PCs, NEW a \in Nat \cup {None}
  PROVE  /\ At(c, p, a) \in Calls
         /\ At(c, p, a).pc = p /\ At(c, p, a).av = a
         /\ At(c, p, a).old = c.old /\ At(c, p, a).ret = c.ret
         /\ At(c, p, a).seg = c.seg /\ At(c, p, a).prev = c.prev
BY DEF At, Calls

LEMMA IdleFields ==
  /\ Idle \in Calls
  /\ Idle.pc = "idle" /\ Idle.av = None /\ Idle.old = None
BY DEF Idle, Calls, PCs, Memory

\* Thread t goes on as call c, the others stay where they are.
Became(t, c) ==
  /\ c \in Calls /\ call' \in [Threads -> Calls] /\ call'[t] = c
  /\ \A u \in Threads : u # t => call'[u] = call[u]

LEMMA GotoBecomes ==
  ASSUME TypeOK, NEW t \in Threads, NEW c \in Calls, Goto(t, c)
  PROVE  Became(t, c)
BY DEF TypeOK, Goto, Became

\* A call moves to place p with arena x; all else about it stays.
LEMMA MoveBecomes ==
  ASSUME TypeOK, NEW t \in Threads, NEW p, NEW x, p \in PCs, x \in Nat \cup {None},
         NEW c, c = At(call[t], p, x), Goto(t, c)
  PROVE  Became(t, c) /\ c.pc = p /\ c.av = x /\ c.old = call[t].old /\ c.ret = call[t].ret
<1>1. call[t] \in Calls
  BY DEF TypeOK
<1>2. c \in Calls /\ c.pc = p /\ c.av = x /\ c.old = call[t].old /\ c.ret = call[t].ret
  BY <1>1, AtFields
<1> QED BY <1>2, GotoBecomes

----------------------------------------------------------------------------
(* Conjuncts that a step of a call leaves alone.                            *)

\* A call that registers no segment moves on.
LEMMA KnownKept ==
  ASSUME TypeOK, KnownOK, NEW t \in Threads, NEW c, Became(t, c), ~Registering(t),
         UNCHANGED heaps
  PROVE  KnownOK'
BY DEF TypeOK, KnownOK, Became, Registering, pc, heaps, list

\* A call moves on, not to the linking of an arena.
LEMMA LinksKept ==
  ASSUME TypeOK, LinksOK, NEW t \in Threads, NEW c, Became(t, c), c.pc # "link",
         UNCHANGED narenas
  PROVE  LinksOK'
<1>1. Linking' \subseteq Linking
  BY DEF Became, Linking, pc
<1>2. IsFiniteSet(Linking) /\ Cardinality(Linking) \in Nat
  BY Bounds, FS_Subset, FS_CardinalityType DEF Linking
<1>3. Cardinality(Linking') \in Nat /\ Cardinality(Linking') <= Cardinality(Linking)
  BY <1>1, <1>2, FS_Subset, FS_CardinalityType
<1>4. Cardinality(Threads) \in Nat
  BY Bounds, FS_CardinalityType
<1> QED BY <1>2, <1>3, <1>4, Bounds DEF LinksOK, TypeOK

\* A call moves on, not to its block's arena.
LEMMA HomeKept ==
  ASSUME TypeOK, HomeOK, NEW t \in Threads, NEW c, Became(t, c),
         c.pc \notin {"free_lock", "freeing", "resize_lock", "resizing"},
         UNCHANGED <<heaps, bins>>
  PROVE  HomeOK'
BY DEF TypeOK, HomeOK, Became, AtHome, Home, pc, av, heaps, list

\* The block a call has was handed out; nothing else is.
LEMMA OutKept ==
  ASSUME TypeOK, OutOK, NEW t \in Threads, NEW c, Became(t, c),
         c.old # None => c.old \in Out,
         UNCHANGED <<heaps, bins, live, tcache>>
  PROVE  OutOK'
BY DEF TypeOK, OutOK, Out, Became, heaps, list

\* A call moves on that neither makes an arena nor works on one being made.
LEMMA FreshKept ==
  ASSUME TypeOK, FreshOK, NEW t \in Threads, NEW c, Became(t, c),
         c.pc \notin {"register", "extend"},
         UNCHANGED heaps,
         \A w \in Threads : thread_arena'[w] \in {thread_arena[w], c.av},
         \A u \in Threads : pc(u) = "register" /\ u # t => c.av # av(u) /\ lock'[av(u)] = None
  PROVE  FreshOK'
<1> SUFFICES ASSUME NEW u \in Threads, pc(u)' = "register"
             PROVE  /\ av(u)' # Main /\ lock'[av(u)'] = None
                    /\ \A w \in Threads :
                         thread_arena'[w] # av(u)' /\ (w # u => av(w)' # av(u)')
                    /\ \A h \in registry' : ar_ptr'[h] # av(u)'
                    /\ \A w \in Threads :
                         Registering(w)' => \A h \in call'[w].prev : ar_ptr'[h] # av(u)'
  BY DEF FreshOK
<1>1. u # t /\ call'[u] = call[u] /\ pc(u) = "register"
  BY DEF Became, pc
<1>2. \A w \in Threads : Registering(w)' => w # t /\ Registering(w) /\ call'[w] = call[w]
  BY DEF Became, Registering, pc
<1> QED BY <1>1, <1>2 DEF FreshOK, Became, av, heaps, list

LEMMA ArgsKept ==
  ASSUME TypeOK, ArgsOK, NEW t \in Threads, NEW c, Became(t, c),
         UNCHANGED heaps,
         \A w \in Threads : thread_arena'[w] \in {thread_arena[w], c.av},
         c.av # None => c.av < narenas,
         c.pc \in {"fastbin", "carve", "freeing", "resizing", "free_lock", "resize_lock"}
           => c.av # None,
         c.pc \in {"main", "new", "link", "wait"} => c.ret \in {"fastbin", "carve"},
         c.pc \in {"free", "malloc"} => c.old # None,
         c.pc \notin {"register", "extend"}
  PROVE  ArgsOK'
BY DEF TypeOK, ArgsOK, Became, Working, AtHome, Registering, pc, av, heaps, list

----------------------------------------------------------------------------
(* Mutexes.                                                                 *)

LEMMA ArenasInRange ==
  ASSUME TypeOK, LinksOK
  PROVE  narenas \in AllArenas /\ \A a \in Nat : a < narenas => a \in AllArenas
<1>1. Cardinality(Linking) \in Nat /\ Cardinality(Threads) \in Nat
  BY Bounds, FS_Subset, FS_CardinalityType DEF Linking
<1> QED BY <1>1, Bounds DEF TypeOK, LinksOK, AllArenas

WorkingAt == {"fastbin", "carve", "extend", "freeing", "resizing"}

\* No mutex changes hands, and the call is on no arena before and after.
LEMMA LocksKept ==
  ASSUME TypeOK, LocksOK, NEW t \in Threads, NEW c, Became(t, c),
         ~Working(t), c.pc \notin WorkingAt, UNCHANGED <<lock, early>>
  PROVE  LocksOK'
<1>1. ~Working(t)'
  BY DEF Became, Working, WorkingAt, pc
<1>2. \A u \in Threads : u # t => (Working(u)' <=> Working(u)) /\ av(u)' = av(u)
  BY DEF Became, Working, pc, av
<1>3. \A u \in Threads : Working(u)' =>
        lock'[av(u)'] = u /\ (av(u)' = Main => early' = None)
  BY <1>1, <1>2 DEF LocksOK
<1>4. \A a \in AllArenas : lock'[a] # None =>
        \/ (call'[lock'[a]].pc \in WorkingAt) /\ call'[lock'[a]].av = a
        \/ a = Main /\ lock'[a] = early'
  <2> SUFFICES ASSUME NEW a \in AllArenas, lock'[a] # None
               PROVE  \/ (call'[lock'[a]].pc \in WorkingAt) /\ call'[lock'[a]].av = a
                      \/ a = Main /\ lock'[a] = early'
    OBVIOUS
  <2>1. lock'[a] = lock[a] /\ lock[a] \in Threads
    BY DEF TypeOK
  <2>2. \/ Working(lock[a]) /\ av(lock[a]) = a
        \/ a = Main /\ lock[a] = early
    BY <2>1 DEF LocksOK
  <2> QED BY <2>1, <2>2 DEF Became, Working, WorkingAt, pc, av
<1> QED BY <1>3, <1>4 DEF LocksOK, Working, WorkingAt, pc, av

LEMMA MainInRange == Main \in AllArenas
BY Bounds, FS_CardinalityType DEF Main, AllArenas

\* A call takes a mutex and begins to work on its arena.
LEMMA LocksTaken ==
  ASSUME TypeOK, LocksOK, NEW t \in Threads, NEW c, Became(t, c), NEW a \in AllArenas,
         ~Working(t), c.pc \in WorkingAt, c.av = a, Lock(t, a), UNCHANGED early
  PROVE  LocksOK'
<1>1. /\ lock[a] = None /\ lock'[a] = t
      /\ \A b \in AllArenas : b # a => lock'[b] = lock[b]
  BY DEF TypeOK, Lock
<1>2. Working(t)' /\ av(t)' = a
  BY DEF Became, Working, WorkingAt, pc, av
<1>3. \A u \in Threads : u # t => (Working(u)' <=> Working(u)) /\ av(u)' = av(u)
  BY DEF Became, Working, pc, av
<1>4. early # None => lock[Main] = early
  BY DEF LocksOK
<1>5. a = Main => early = None
  BY <1>1, <1>4, Bounds DEF TypeOK
<1>6. \A u \in Threads : Working(u)' =>
        lock'[av(u)'] = u /\ (av(u)' = Main => early' = None)
  <2> SUFFICES ASSUME NEW u \in Threads, Working(u)'
               PROVE  lock'[av(u)'] = u /\ (av(u)' = Main => early' = None)
    OBVIOUS
  <2>1. CASE u = t
    BY <2>1, <1>1, <1>2, <1>5
  <2>2. CASE u # t
    <3>1. lock[av(u)] = u /\ (av(u) = Main => early = None)
      BY <2>2, <1>3 DEF LocksOK
    <3>2. av(u) # a
      BY <3>1, <1>1, Bounds
    <3> QED BY <3>1, <3>2, <2>2, <1>3 DEF TypeOK, Lock
  <2> QED BY <2>1, <2>2
<1>7. \A b \in AllArenas : lock'[b] # None =>
        \/ Working(lock[b])' /\ lock'[b] = lock[b] /\ call'[lock[b]].av = b
        \/ lock'[b] = t /\ b = a
        \/ b = Main /\ lock'[b] = early'
  BY <1>1, <1>3, Bounds DEF LocksOK, TypeOK, av, Working, pc
<1>8. \A b \in AllArenas : lock'[b] # None =>
        \/ (call'[lock'[b]].pc \in WorkingAt) /\ call'[lock'[b]].av = b
        \/ b = Main /\ lock'[b] = early'
  BY <1>7, <1>2 DEF Working, WorkingAt, pc, av
<1> QED BY <1>1, <1>4, <1>5, <1>6, <1>8, MainInRange DEF LocksOK, Working, WorkingAt, pc, av

\* A call ends its work on an arena and releases the mutex.
LEMMA LocksReleased ==
  ASSUME TypeOK, LocksOK, NEW t \in Threads, NEW c, Became(t, c), av(t) \in AllArenas,
         Working(t), c.pc \notin WorkingAt, Unlock(av(t)), UNCHANGED early
  PROVE  LocksOK'
<1>1. /\ lock'[av(t)] = None
      /\ \A b \in AllArenas : b # av(t) => lock'[b] = lock[b]
  BY DEF TypeOK, Unlock
<1>2. ~Working(t)'
  BY DEF Became, Working, WorkingAt, pc
<1>3. \A u \in Threads : u # t => (Working(u)' <=> Working(u)) /\ av(u)' = av(u)
  BY DEF Became, Working, pc, av
<1>4. lock[av(t)] = t /\ (av(t) = Main => early = None)
  BY DEF LocksOK
<1>5. \A u \in Threads : Working(u)' =>
        lock'[av(u)'] = u /\ (av(u)' = Main => early' = None)
  <2> SUFFICES ASSUME NEW u \in Threads, Working(u)'
               PROVE  lock'[av(u)'] = u /\ (av(u)' = Main => early' = None)
    OBVIOUS
  <2>1. u # t /\ Working(u) /\ av(u)' = av(u)
    BY <1>2, <1>3
  <2>2. lock[av(u)] = u /\ (av(u) = Main => early = None)
    BY <2>1 DEF LocksOK
  <2>3. av(u) # av(t)
    BY <2>1, <2>2, <1>4
  <2> QED BY <2>1, <2>2, <2>3 DEF TypeOK, Unlock
<1>6. \A b \in AllArenas : lock'[b] # None =>
        \/ (call'[lock'[b]].pc \in WorkingAt) /\ call'[lock'[b]].av = b
        \/ b = Main /\ lock'[b] = early'
  <2> SUFFICES ASSUME NEW b \in AllArenas, lock'[b] # None
               PROVE  \/ (call'[lock'[b]].pc \in WorkingAt) /\ call'[lock'[b]].av = b
                      \/ b = Main /\ lock'[b] = early'
    OBVIOUS
  <2>1. b # av(t) /\ lock'[b] = lock[b] /\ lock[b] \in Threads
    BY <1>1, Bounds DEF TypeOK
  <2>2. \/ Working(lock[b]) /\ av(lock[b]) = b
        \/ b = Main /\ lock[b] = early
    BY <2>1 DEF LocksOK
  <2> QED BY <2>1, <2>2 DEF Became, Working, WorkingAt, pc, av
<1> QED BY <1>1, <1>4, <1>5, <1>6, MainInRange DEF LocksOK, Working, WorkingAt, pc, av

----------------------------------------------------------------------------
(* Ends of requests, and steps to a place where a call has no arena.        *)

QuietAt == {"idle", "free", "malloc", "choose", "first", "fast", "slow"}

Quiet(c) ==
  /\ c.pc \in QuietAt /\ c.av = None
  /\ c.old # None => c.old \in Out
  /\ c.pc \in {"free", "malloc"} => c.old # None

\* What the program and the thread caches hold was handed out.
StocksOK ==
  /\ live' \in [Memory -> Nat] /\ tcache' \in [Threads -> [Memory -> Nat] \cup {None}]
  /\ \A m \in Memory : live'[m] > 0 => m \in Out
  /\ \A u \in Threads : tcache'[u] # None => \A m \in Memory : tcache'[u][m] > 0 => m \in Out

LEMMA QuietStep ==
  ASSUME IInv, NEW t \in Threads, NEW c, Became(t, c), Quiet(c), ~Registering(t), StocksOK,
         LocksOK', lock' \in [AllArenas -> Threads \cup {None}],
         \A a \in AllArenas : lock'[a] \in {lock[a], None},
         UNCHANGED <<thread_arena, heaps, bins>>,
         early' \in Threads \cup {None}, calls' \in Nat
  PROVE  IInv'
<1>1. TypeOK'
  BY DEF IInv, TypeOK, StocksOK, Became, heaps, list
<1>2. ArgsOK'
  BY ArgsKept DEF IInv, Quiet, QuietAt, TypeOK
<1>3. FreshOK'
  <2>1. ASSUME NEW u \in Threads, pc(u) = "register", u # t
        PROVE  c.av # av(u) /\ lock'[av(u)] = None
    <3>1. av(u) \in Nat /\ av(u) < narenas
      BY <2>1 DEF IInv, ArgsOK, TypeOK, Calls, Registering, pc, av
    <3>2. av(u) \in AllArenas /\ lock[av(u)] = None
      BY <2>1, <3>1, ArenasInRange DEF IInv, FreshOK
    <3> QED BY <3>1, <3>2, Bounds DEF Quiet
  <2> QED BY <2>1, FreshKept DEF IInv, Quiet, QuietAt
<1>4. KnownOK'
  BY KnownKept DEF IInv
<1>5. OutOK'
  BY DEF IInv, OutOK, Out, StocksOK, Quiet, Became, heaps, list
<1>6. HomeOK'
  BY HomeKept DEF IInv, Quiet, QuietAt
<1>7. LinksOK'
  BY LinksKept DEF IInv, Quiet, QuietAt, heaps
<1> QED BY <1>1, <1>2, <1>3, <1>4, <1>5, <1>6, <1>7 DEF IInv

\* A request ends: what it hands out is the result or the block passed in.
LEMMA ResultEnds ==
  ASSUME TypeOK, NEW t \in Threads, NEW c \in Calls, NEW m \in Memory \cup {None},
         Result(t, c, m)
  PROVE  /\ \E d : /\ Became(t, d) /\ d.pc \in {"idle", "free"} /\ d.av = None
                   /\ d.old \in {None, c.old} /\ (d.pc = "free" => d.old # None)
         /\ live' \in [Memory -> Nat]
         /\ \A k \in Memory : live'[k] > 0 => live[k] > 0 \/ k = m \/ k = c.old
<1> DEFINE d == IF c.old # None /\ m # None THEN At(c, "free", None) ELSE Idle
<1>1. /\ At(c, "free", None) \in Calls /\ At(c, "free", None).pc = "free"
      /\ At(c, "free", None).av = None /\ At(c, "free", None).old = c.old
  <2>1. "free" \in PCs /\ None \in Nat \cup {None}
    BY DEF PCs
  <2> QED BY <2>1, AtFields
<1>2. /\ d \in Calls /\ d.pc \in {"idle", "free"} /\ d.av = None
      /\ d.old \in {None, c.old} /\ (d.pc = "free" => d.old # None)
  BY <1>1, IdleFields
<1>3. Goto(t, d)
  BY DEF Result
<1>4. Became(t, d)
  BY <1>2, <1>3, GotoBecomes
<1>5. c.old \in Memory \cup {None}
  BY DEF Calls
<1>6. /\ live' \in [Memory -> Nat]
      /\ \A k \in Memory : live'[k] > 0 => live[k] > 0 \/ k = m \/ k = c.old
  BY <1>5 DEF Result, TypeOK
<1> QED BY <1>2, <1>4, <1>6

\* pt_malloc up to its first mutex.
LEMMA EntryIsQuiet ==
  ASSUME TypeOK, OutOK, NEW t \in Threads, NEW c \in Calls, c.old # None => c.old \in Out,
         MallocEntry(t, c)
  PROVE  (\E d : Became(t, d) /\ Quiet(d)) /\ StocksOK
<1>1. ASSUME NEW m \in Memory, tcache[t] # None, tcache[t][m] > 0,
             tcache' = [tcache EXCEPT ![t][m] = @ - 1], Result(t, c, m)
      PROVE  (\E d : Became(t, d) /\ Quiet(d)) /\ StocksOK
  <2>1. m \in Out
    BY <1>1 DEF OutOK
  <2>2. PICK d : /\ Became(t, d) /\ d.pc \in {"idle", "free"} /\ d.av = None
                 /\ d.old \in {None, c.old} /\ (d.pc = "free" => d.old # None)
    BY <1>1, ResultEnds
  <2>3. /\ live' \in [Memory -> Nat]
        /\ \A k \in Memory : live'[k] > 0 => k \in Out
    <3>1. /\ live' \in [Memory -> Nat]
          /\ \A k \in Memory : live'[k] > 0 => live[k] > 0 \/ k = m \/ k = c.old
      BY <1>1, ResultEnds
    <3> QED BY <2>1, <3>1, NoneApart DEF OutOK
  <2>4. /\ tcache' \in [Threads -> [Memory -> Nat] \cup {None}]
        /\ \A u \in Threads : u # t => tcache'[u] = tcache[u]
        /\ \A k \in Memory : tcache'[t][k] > 0 => tcache[t][k] > 0
    <3>1. tcache[t] \in [Memory -> Nat]
      BY <1>1 DEF TypeOK
    <3>2. tcache' = [tcache EXCEPT ![t] = [tcache[t] EXCEPT ![m] = @ - 1]]
      BY <1>1
    <3>3. [tcache[t] EXCEPT ![m] = @ - 1] \in [Memory -> Nat]
      BY <1>1, <3>1
    <3> QED BY <3>1, <3>2, <3>3 DEF TypeOK
  <2>5. StocksOK
    BY <1>1, <2>3, <2>4 DEF StocksOK, OutOK
  <2> QED BY <2>2, <2>5 DEF Quiet, QuietAt
<1>2. ASSUME tcache' = [tcache EXCEPT ![t] = IF @ = None THEN [m \in Memory |-> 0] ELSE @],
             Goto(t, At(c, IF ~c.fast THEN "choose"
                           ELSE IF thread_arena[t] = None THEN "first" ELSE "fast", None)),
             UNCHANGED live
      PROVE  (\E d : Became(t, d) /\ Quiet(d)) /\ StocksOK
  <2> DEFINE p == IF ~c.fast THEN "choose"
                  ELSE IF thread_arena[t] = None THEN "first" ELSE "fast"
  <2>1. p \in {"choose", "first", "fast"}
    OBVIOUS
  <2> HIDE DEF p
  <2>2. At(c, p, None) \in Calls /\ At(c, p, None).pc = p /\ At(c, p, None).av = None
        /\ At(c, p, None).old = c.old
    <3>1. p \in PCs /\ None \in Nat \cup {None}
      BY <2>1 DEF PCs
    <3> QED BY <3>1, AtFields
  <2>3. Goto(t, At(c, p, None))
    BY <1>2 DEF p
  <2>4. Became(t, At(c, p, None)) /\ Quiet(At(c, p, None))
    BY <2>1, <2>2, <2>3, GotoBecomes DEF Quiet, QuietAt
  <2>5. StocksOK
    BY <1>2 DEF StocksOK, OutOK, TypeOK
  <2> QED BY <2>4, <2>5
<1> QED BY <1>1, <1>2 DEF MallocEntry

\* A call sets out for the arena of its block.
LEMMA HomeStep ==
  ASSUME IInv, NEW t \in Threads, NEW c, Became(t, c), c.pc \in {"free_lock", "resize_lock"},
         c.old \in Out \ {Mapped}, c.av = find_arena(c.old), ~Registering(t), ~Working(t),
         StocksOK, UNCHANGED <<lock, thread_arena, heaps, bins, early>>, calls' \in Nat
  PROVE  IInv'
<1>1. /\ c.av \in Nat /\ c.av < narenas /\ c.av # None
      /\ c.old # None /\ (c.old \in lost \/ Home(c.old) = c.av)
      /\ \A u \in Threads : pc(u) = "register" => c.av # av(u)
  <2>1. CASE c.old \in registry
    <3>1. c.old \in DOMAIN ar_ptr /\ c.av = ar_ptr[c.old] /\ c.old # 0 /\ c.old \in Nat
      BY <2>1 DEF IInv, TypeOK, find_arena
    <3>2. c.av \in Nat /\ c.av < narenas
      BY <3>1 DEF IInv, TypeOK, ArgsOK
    <3>3. \A u \in Threads : pc(u) = "register" => c.av # av(u)
      BY <2>1, <3>1 DEF IInv, FreshOK
    <3> QED BY <3>1, <3>2, <3>3, NoneApart DEF Home
  <2>2. CASE c.old \notin registry
    <3>1. c.av = Main /\ (c.old = 0 \/ c.old \in lost)
      BY <2>2 DEF find_arena, Out
    <3>2. lost \subseteq Nat
      BY DEF IInv, TypeOK
    <3>3. \A u \in Threads : pc(u) = "register" => av(u) # Main
      BY DEF IInv, FreshOK
    <3> QED BY <3>1, <3>2, <3>3, NoneApart DEF IInv, TypeOK, Home, Main
  <2> QED BY <2>1, <2>2
<1>2. TypeOK'
  BY DEF IInv, TypeOK, StocksOK, Became, heaps, list
<1>3. ArgsOK'
  BY <1>1, ArgsKept DEF IInv, TypeOK
<1>4. LocksOK'
  BY LocksKept DEF IInv, WorkingAt
<1>5. FreshOK'
  <2>1. \A u \in Threads : pc(u) = "register" /\ u # t => c.av # av(u) /\ lock'[av(u)] = None
    BY <1>1 DEF IInv, FreshOK
  <2> QED BY <2>1, FreshKept DEF IInv
<1>6. KnownOK'
  BY KnownKept DEF IInv
<1>7. OutOK'
  BY DEF IInv, OutOK, Out, StocksOK, Became, heaps, list
<1>8. HomeOK'
  BY <1>1 DEF IInv, HomeOK, Became, AtHome, Home, pc, av, heaps, list
<1>9. LinksOK'
  BY LinksKept DEF IInv, heaps
<1> QED BY <1>2, <1>3, <1>4, <1>5, <1>6, <1>7, <1>8, <1>9 DEF IInv

\* pt_free up to the mutex of the block's arena.
LEMMA FreeEntryStep ==
  ASSUME IInv, NEW t \in Threads, NEW c \in Calls, c.old \in Memory, c.old \in Out,
         FreeEntry(t, c), ~Registering(t), ~Working(t), live' \in [Memory -> Nat],
         \A m \in Memory : live'[m] > 0 => m \in Out,
         UNCHANGED <<lock, thread_arena, heaps, bins, early>>, calls' \in Nat
  PROVE  IInv'
<1>1. Quiet(Idle) /\ Idle \in Calls /\ Idle.pc \notin WorkingAt
  BY IdleFields DEF Quiet, QuietAt, WorkingAt
<1>2. ASSUME Became(t, Idle), StocksOK
      PROVE  IInv'
  <2>1. LocksOK'
    BY <1>1, <1>2, LocksKept DEF IInv
  <2> QED BY <1>1, <1>2, <2>1, QuietStep DEF IInv, TypeOK
<1>3. CASE Goto(t, Idle) /\ UNCHANGED tcache
  <2>1. StocksOK
    BY <1>3 DEF IInv, TypeOK, OutOK, StocksOK
  <2> QED BY <1>1, <1>2, <1>3, <2>1, GotoBecomes DEF IInv
<1>4. CASE /\ c.old # Mapped /\ tcache[t] # None
           /\ tcache' = [tcache EXCEPT ![t][c.old] = @ + 1] /\ Goto(t, Idle)
  <2>1. tcache[t] \in [Memory -> Nat]
    BY <1>4 DEF IInv, TypeOK
  <2>2. tcache' = [tcache EXCEPT ![t] = [tcache[t] EXCEPT ![c.old] = @ + 1]]
    BY <1>4
  <2>3. /\ [tcache[t] EXCEPT ![c.old] = @ + 1] \in [Memory -> Nat]
        /\ \A m \in Memory : m # c.old => [tcache[t] EXCEPT ![c.old] = @ + 1][m] = tcache[t][m]
    BY <2>1
  <2>4. /\ tcache' \in [Threads -> [Memory -> Nat] \cup {None}]
        /\ \A u \in Threads : u # t => tcache'[u] = tcache[u]
        /\ \A m \in Memory : m # c.old => tcache'[t][m] = tcache[t][m]
    BY <2>2, <2>3 DEF IInv, TypeOK
  <2>5. StocksOK
    BY <1>4, <2>4 DEF IInv, OutOK, StocksOK
  <2> QED BY <1>1, <1>2, <1>4, <2>5, GotoBecomes DEF IInv
<1>5. CASE c.old # Mapped /\ Goto(t, At(c, "free_lock", find_arena(c.old))) /\ UNCHANGED tcache
  <2> DEFINE d == At(c, "free_lock", find_arena(c.old))
  <2>1. find_arena(c.old) \in Nat /\ "free_lock" \in PCs
    BY DEF IInv, TypeOK, find_arena, Main, PCs
  <2>2. d \in Calls /\ d.pc = "free_lock" /\ d.av = find_arena(c.old) /\ d.old = c.old
    BY <2>1, AtFields
  <2>3. Became(t, d)
    BY <1>5, <2>2, GotoBecomes DEF IInv
  <2>4. StocksOK
    BY <1>5 DEF IInv, TypeOK, OutOK, StocksOK
  <2> HIDE DEF d
  <2> QED BY <1>5, <2>2, <2>3, <2>4, HomeStep
<1> QED BY <1>3, <1>4, <1>5 DEF FreeEntry


\* A call goes on towards an arena, without a mutex.
LEMMA MoveStep ==
  ASSUME IInv, NEW t \in Threads, NEW c, Became(t, c),
         c.pc \in {"main", "new", "link", "wait", "slow"}, c.av = None, c.old = call[t].old,
         c.pc = "link" => narenas < MAX_ARENAS,
         c.pc # "slow" => c.ret \in {"fastbin", "carve"}, ~Registering(t), ~Working(t),
         UNCHANGED <<lock, thread_arena, tcache, heaps, bins, live, early, calls>>
  PROVE  IInv'
<1>1. TypeOK'
  BY DEF IInv, TypeOK, Became, heaps, list
<1>2. ArgsOK'
  BY ArgsKept DEF IInv, TypeOK
<1>3. LocksOK'
  BY LocksKept DEF IInv, WorkingAt
<1>4. FreshOK'
  <2>1. \A u \in Threads : pc(u) = "register" => av(u) # None /\ lock'[av(u)] = None
    BY DEF IInv, FreshOK, ArgsOK, Registering
  <2> QED BY <2>1, FreshKept DEF IInv
<1>5. KnownOK'
  BY KnownKept DEF IInv
<1>6. OutOK'
  BY OutKept DEF IInv, OutOK
<1>7. HomeOK'
  BY HomeKept DEF IInv
<1>8. LinksOK'
  <2>1. CASE c.pc # "link"
    BY <2>1, LinksKept DEF IInv, heaps
  <2>2. CASE c.pc = "link"
    <3>1. Linking' \subseteq Threads
      BY DEF Linking
    <3>2. /\ Cardinality(Linking') \in Nat /\ Cardinality(Threads) \in Nat
          /\ Cardinality(Linking') <= Cardinality(Threads)
      BY <3>1, Bounds, FS_Subset, FS_CardinalityType
    <3>3. narenas' \in Nat /\ narenas' < MAX_ARENAS /\ MAX_ARENAS \in Nat
      BY <2>2, Bounds DEF IInv, TypeOK, heaps
    <3> QED BY <3>2, <3>3 DEF LinksOK
  <2> QED BY <2>1, <2>2
<1> QED BY <1>1, <1>2, <1>3, <1>4, <1>5, <1>6, <1>7, <1>8 DEF IInv

\* A call takes the mutex of an arena and begins to work on it.
LEMMA TakeStep ==
  ASSUME IInv, NEW t \in Threads, NEW c, Became(t, c), NEW a \in Nat, a < narenas,
         c.pc \in {"fastbin", "carve", "freeing", "resizing"}, c.av = a, c.old = call[t].old,
         c.pc \in {"freeing", "resizing"} => AtHome(t) /\ av(t) = a,
         Lock(t, a), ~Registering(t), ~Working(t),
         \A u \in Threads : pc(u) = "register" => av(u) # a,
         thread_arena' \in [Threads -> Nat \cup {None}],
         \A w \in Threads : thread_arena'[w] \in {thread_arena[w], a},
         UNCHANGED <<tcache, heaps, bins, live, early, calls>>
  PROVE  IInv'
<1>0. a \in AllArenas
  BY ArenasInRange DEF IInv
<1>1. TypeOK'
  BY <1>0 DEF IInv, TypeOK, Became, Lock, heaps, list
<1>2. ArgsOK'
  BY NoneApart, ArgsKept DEF IInv, TypeOK
<1>3. LocksOK'
  BY <1>0, LocksTaken DEF IInv, WorkingAt
<1>4. FreshOK'
  <2>1. ASSUME NEW u \in Threads, pc(u) = "register", u # t
        PROVE  c.av # av(u) /\ lock'[av(u)] = None
    <3>1. av(u) \in Nat /\ av(u) < narenas
      BY <2>1 DEF IInv, ArgsOK, TypeOK, Calls, Registering, pc, av
    <3>2. av(u) \in AllArenas /\ lock[av(u)] = None
      BY <2>1, <3>1, ArenasInRange DEF IInv, FreshOK
    <3> QED BY <2>1, <3>2 DEF IInv, TypeOK, Lock
  <2> QED BY <2>1, FreshKept DEF IInv
<1>5. KnownOK'
  BY KnownKept DEF IInv
<1>6. OutOK'
  BY OutKept DEF IInv, OutOK
<1>7. HomeOK'
  BY DEF IInv, HomeOK, Became, AtHome, Home, pc, av, heaps, list
<1>8. LinksOK'
  BY LinksKept DEF IInv, heaps
<1> QED BY <1>1, <1>2, <1>3, <1>4, <1>5, <1>6, <1>7, <1>8 DEF IInv

\* get_arena, up to its second try.
LEMMA GetArenaStep ==
  ASSUME IInv, NEW t \in Threads, NEW ret \in {"fastbin", "carve"}, pc(t) \in {"fast", "slow"},
         get_arena(t, ret), UNCHANGED <<thread_arena, tcache, heaps, bins, live, early, calls>>
  PROVE  IInv'
<1>1. /\ call[t] \in Calls /\ ret \in PCs /\ "main" \in PCs /\ None \in Nat \cup {None}
      /\ ~Working(t) /\ ~Registering(t)
  BY DEF IInv, TypeOK, PCs, Working, Registering
<1> DEFINE a == thread_arena[t]
<1>2. CASE a \notin {None, Main} /\ lock[a] = None
  <2>1. a \in Nat /\ a < narenas /\ \A u \in Threads : pc(u) = "register" => av(u) # a
    BY <1>2 DEF IInv, TypeOK, ArgsOK, FreshOK
  <2>2. Lock(t, a) /\ Goto(t, At(call[t], ret, a))
    BY <1>2 DEF get_arena
  <2> DEFINE c == At(call[t], ret, a)
  <2>3. c \in Calls /\ c.pc = ret /\ c.av = a /\ c.old = call[t].old
    BY <1>1, <2>1, AtFields
  <2>4. Became(t, c)
    BY <2>2, <2>3, GotoBecomes DEF IInv
  <2>5. thread_arena' \in [Threads -> Nat \cup {None}]
        /\ \A w \in Threads : thread_arena'[w] \in {thread_arena[w], a}
    BY DEF IInv, TypeOK
  <2> HIDE DEF c, a
  <2> QED BY <1>1, <2>1, <2>2, <2>3, <2>4, <2>5, TakeStep
<1>3. CASE ~(a \notin {None, Main} /\ lock[a] = None)
  <2> DEFINE b == At(call[t], "main", None)
             c == [b EXCEPT !.ret = ret]
  <2>1. b \in Calls /\ b.pc = "main" /\ b.av = None /\ b.old = call[t].old
    BY <1>1, AtFields
  <2>2. Goto(t, c) /\ UNCHANGED lock
    BY <1>3 DEF get_arena
  <2> HIDE DEF b
  <2>3. c \in Calls /\ c.pc = "main" /\ c.av = None /\ c.old = call[t].old /\ c.ret = ret
    BY <2>1 DEF Calls
  <2> HIDE DEF c
  <2>4. Became(t, c)
    BY <2>2, <2>3, GotoBecomes DEF IInv
  <2> QED BY <1>1, <2>2, <2>3, <2>4, MoveStep
<1> QED BY <1>2, <1>3

\* get_arena returns with an arena's mutex.
LEMMA ReturnStep ==
  ASSUME IInv, NEW t \in Threads, NEW a \in Nat, a < narenas, NEW new \in BOOLEAN,
         pc(t) \in {"main", "wait"}, \A u \in Threads : pc(u) = "register" => av(u) # a,
         Lock(t, a), Return(t, a, new), UNCHANGED <<tcache, heaps, bins, live, early, calls>>
  PROVE  IInv'
<1> DEFINE c == At(call[t], call[t].ret, a)
<1>1. /\ call[t] \in Calls /\ call[t].ret \in {"fastbin", "carve"} /\ call[t].ret \in PCs
      /\ ~Working(t) /\ ~Registering(t)
  BY DEF IInv, TypeOK, ArgsOK, Calls, PCs, Working, Registering, pc
<1>2. c \in Calls /\ c.pc = call[t].ret /\ c.av = a /\ c.old = call[t].old
  BY <1>1, AtFields
<1>3. Became(t, c)
  BY <1>2, GotoBecomes DEF IInv, Return
<1>4. thread_arena' \in [Threads -> Nat \cup {None}]
      /\ \A w \in Threads : thread_arena'[w] \in {thread_arena[w], a}
  BY DEF IInv, TypeOK, Return
<1> HIDE DEF c
<1> QED BY <1>1, <1>2, <1>3, <1>4, TakeStep

\* The main arena is never one that is being made.
LEMMA MainKnown ==
  ASSUME IInv
  PROVE  Main \in Nat /\ Main < narenas /\ \A u \in Threads : pc(u) = "register" => av(u) # Main
BY DEF IInv, TypeOK, FreshOK, Main

----------------------------------------------------------------------------
(* The end of the work on an arena, and calls without one.                  *)

LEMMA OutInMemory ==
  ASSUME TypeOK
  PROVE  Out \subseteq Memory /\ DOMAIN ar_ptr \subseteq Memory \ {Mapped}
BY Bounds DEF TypeOK, Out, Memory, Mapped

\* A segment that is being registered is on no other working thread's arena.
LEMMA HoldsOut ==
  ASSUME IInv, NEW t \in Threads, Working(t), pc(t) # "extend"
  PROVE  Holds(av(t)) \subseteq Out /\ Mapped \notin Holds(av(t))
<1>1. lock[av(t)] = t /\ av(t) \in AllArenas
  BY ArenasInRange DEF IInv, LocksOK, ArgsOK, TypeOK, Calls, av
<1>2. ASSUME NEW h \in DOMAIN ar_ptr, ar_ptr[h] = av(t), h \notin registry \cup lost
      PROVE  FALSE
  <2>1. PICK u \in Threads : Registering(u) /\ call[u].seg = h
    BY <1>2 DEF IInv, KnownOK
  <2>2. av(u) = av(t)
    BY <1>2, <2>1 DEF IInv, ArgsOK
  <2>3. u # t
    BY <2>1 DEF Registering, Working
  <2>4. CASE pc(u) = "register"
    BY <2>2, <2>3, <2>4 DEF IInv, FreshOK
  <2>5. CASE pc(u) = "extend"
    BY <1>1, <2>2, <2>3, <2>5 DEF IInv, LocksOK, Working
  <2> QED BY <2>1, <2>4, <2>5 DEF Registering
<1>3. bins[av(t)] \subseteq Out \ {Mapped}
  BY <1>1 DEF IInv, OutOK
<1>4. Mapped \notin DOMAIN ar_ptr /\ Mapped # 0
  BY OutInMemory DEF IInv, Mapped
<1> QED BY <1>2, <1>3, <1>4 DEF Holds, Out

\* A request ends with memory that was handed out before, or with none.
LEMMA ResultQuiet ==
  ASSUME TypeOK, OutOK, NEW t \in Threads, NEW c \in Calls, c.old # None => c.old \in Out,
         NEW m \in Memory \cup {None}, m # None => m \in Out, Result(t, c, m), UNCHANGED tcache
  PROVE  (\E d : Became(t, d) /\ Quiet(d)) /\ StocksOK
<1>1. PICK d : /\ Became(t, d) /\ d.pc \in {"idle", "free"} /\ d.av = None
               /\ d.old \in {None, c.old} /\ (d.pc = "free" => d.old # None)
  BY ResultEnds
<1>2. /\ live' \in [Memory -> Nat]
      /\ \A k \in Memory : live'[k] > 0 => live[k] > 0 \/ k = m \/ k = c.old
  BY ResultEnds
<1>3. \A k \in Memory : live'[k] > 0 => k \in Out
  BY <1>2, NoneApart DEF OutOK
<1>4. StocksOK
  BY <1>2, <1>3 DEF StocksOK, OutOK, TypeOK
<1> QED BY <1>1, <1>4 DEF Quiet, QuietAt

\* The work on an arena ends.
LEMMA WorkEnds ==
  ASSUME IInv, NEW t \in Threads, Working(t), pc(t) # "extend",
         \E d : Became(t, d) /\ Quiet(d), StocksOK, Unlock(av(t)),
         UNCHANGED <<thread_arena, heaps, bins, early, calls>>
  PROVE  IInv'
<1>1. PICK d : Became(t, d) /\ Quiet(d)
  OBVIOUS
<1>2. av(t) \in AllArenas /\ ~Registering(t)
  BY ArenasInRange DEF IInv, ArgsOK, TypeOK, Calls, av, Working, Registering
<1>3. d.pc \notin WorkingAt
  BY <1>1 DEF Quiet, QuietAt, WorkingAt
<1>4. LocksOK'
  BY <1>1, <1>2, <1>3, LocksReleased DEF IInv
<1>5. /\ lock' \in [AllArenas -> Threads \cup {None}]
      /\ \A a \in AllArenas : lock'[a] \in {lock[a], None}
  BY <1>2 DEF IInv, TypeOK, Unlock
<1>6. early' \in Threads \cup {None} /\ calls' \in Nat
  BY DEF IInv, TypeOK
<1> QED BY <1>1, <1>2, <1>4, <1>5, <1>6, QuietStep

\* A call begins, or goes on, without an arena.
LEMMA CallMoves ==
  ASSUME IInv, NEW t \in Threads, ~Working(t), ~Registering(t),
         \E d : Became(t, d) /\ Quiet(d), StocksOK, calls' \in Nat,
         UNCHANGED <<lock, thread_arena, heaps, bins, early>>
  PROVE  IInv'
<1>1. PICK d : Became(t, d) /\ Quiet(d)
  OBVIOUS
<1>2. d.pc \notin WorkingAt
  BY <1>1 DEF Quiet, QuietAt, WorkingAt
<1>3. LocksOK'
  BY <1>1, <1>2, LocksKept DEF IInv
<1>4. /\ lock' \in [AllArenas -> Threads \cup {None}] /\ early' \in Threads \cup {None}
      /\ \A a \in AllArenas : lock'[a] \in {lock[a], None}
  BY DEF IInv, TypeOK
<1> QED BY <1>1, <1>3, <1>4, QuietStep

----------------------------------------------------------------------------
(* Steps that map a segment, register one or link an arena.                 *)

LEMMA NewHeapFacts ==
  ASSUME IInv, NEW t \in Threads, NEW a \in Nat, NEW p \in PCs, new_heap(t, a, p)
  PROVE  /\ ar_ptr' \in Seq(Nat) /\ Len(ar_ptr') <= MaxHeaps
         /\ Len(ar_ptr) + 1 \in Nat /\ DOMAIN ar_ptr' = DOMAIN ar_ptr \cup {Len(ar_ptr) + 1}
         /\ ar_ptr'[Len(ar_ptr) + 1] = a
         /\ \A h \in DOMAIN ar_ptr : ar_ptr'[h] = ar_ptr[h]
         /\ \E c : /\ Became(t, c) /\ c.pc = p /\ c.av = a /\ c.old = call[t].old
                   /\ c.ret = call[t].ret /\ c.seg = Len(ar_ptr) + 1 /\ c.prev = registry
<1>1. /\ ar_ptr' \in Seq(Nat) /\ Len(ar_ptr') <= MaxHeaps
      /\ Len(ar_ptr) + 1 \in Nat /\ DOMAIN ar_ptr' = DOMAIN ar_ptr \cup {Len(ar_ptr) + 1}
      /\ ar_ptr'[Len(ar_ptr) + 1] = a
      /\ \A h \in DOMAIN ar_ptr : ar_ptr'[h] = ar_ptr[h]
  BY Bounds DEF IInv, TypeOK, new_heap
<1> DEFINE b == At(call[t], p, a)
           c == [b EXCEPT !.seg = Len(ar_ptr) + 1, !.prev = registry]
<1>2. /\ b \in Calls /\ b.pc = p /\ b.av = a /\ b.old = call[t].old /\ b.ret = call[t].ret
  BY AtFields DEF IInv, TypeOK
<1>3. Goto(t, c)
  BY DEF new_heap
<1> HIDE DEF b
<1>4. registry \subseteq Nat
  BY DEF IInv, TypeOK
<1>5. /\ c \in Calls /\ c.pc = p /\ c.av = a /\ c.old = call[t].old
      /\ c.ret = call[t].ret /\ c.seg = Len(ar_ptr) + 1 /\ c.prev = registry
  BY <1>1, <1>2, <1>4 DEF Calls
<1> HIDE DEF c
<1>6. Became(t, c)
  BY <1>3, <1>5, GotoBecomes DEF IInv
<1> QED BY <1>1, <1>5, <1>6

\* What a new segment leaves alone, whether its arena is new or not.
LEMMA NewHeapKeeps ==
  ASSUME IInv, NEW t \in Threads, NEW a \in Nat, NEW p \in {"register", "extend"},
         new_heap(t, a, p), ~Registering(t), UNCHANGED <<tcache, list, bins, live>>
  PROVE  KnownOK' /\ OutOK' /\ HomeOK'
<1>0. p \in PCs
  BY DEF PCs
<1>1. PICK c : /\ Became(t, c) /\ c.pc = p /\ c.av = a /\ c.old = call[t].old
               /\ c.ret = call[t].ret /\ c.seg = Len(ar_ptr) + 1 /\ c.prev = registry
  BY <1>0, NewHeapFacts
<1>2. /\ DOMAIN ar_ptr' = DOMAIN ar_ptr \cup {Len(ar_ptr) + 1}
      /\ \A h \in DOMAIN ar_ptr : ar_ptr'[h] = ar_ptr[h]
  BY <1>0, NewHeapFacts
<1>3. KnownOK'
  <2>1. Registering(t)' /\ call'[t].seg = Len(ar_ptr) + 1
    BY <1>1 DEF Became, Registering, pc
  <2>2. \A u \in Threads : Registering(u) => Registering(u)' /\ call'[u].seg = call[u].seg
    BY <1>1 DEF Became, Registering, pc
  <2> QED BY <1>2, <2>1, <2>2 DEF IInv, KnownOK, list
<1>4. OutOK'
  BY <1>1 DEF IInv, OutOK, Out, Became, list
<1>5. \A h \in Out \ {Mapped} : Home(h)' = Home(h)
  BY <1>2 DEF IInv, TypeOK, Out, Home
<1>6. HomeOK'
  <2>1. \A u \in Threads : AtHome(u)' => AtHome(u) /\ call'[u] = call[u]
    BY <1>1 DEF Became, AtHome, pc
  <2>2. \A u \in Threads : AtHome(u) => call[u].old \in Out \ {Mapped}
    BY DEF IInv, HomeOK, OutOK
  <2>3. \A x \in AllArenas : bins[x] \subseteq Out \ {Mapped}
    BY DEF IInv, OutOK
  <2>4. \A x \in AllArenas : \A h \in bins'[x] : h \in lost' \/ Home(h)' = x
    BY <1>5, <2>3 DEF IInv, HomeOK, list
  <2>5. \A u \in Threads : AtHome(u)' =>
          /\ call'[u].old # None /\ call'[u].old # Mapped
          /\ call'[u].old \in lost' \/ Home(call[u].old)' = call'[u].av
    BY <1>5, <2>1, <2>2 DEF IInv, HomeOK, av, list
  <2> QED BY <2>1, <2>4, <2>5 DEF HomeOK, av, Home
<1> QED BY <1>3, <1>4, <1>6

\* head_ = h: whatever leaves the list is counted as lost.
LEMMA SetHeadFacts ==
  ASSUME IInv, NEW t \in Threads, Registering(t), SetHead(t)
  PROVE  /\ registry' \subseteq DOMAIN ar_ptr /\ lost' \subseteq DOMAIN ar_ptr
         /\ call[t].seg \in registry' /\ lost \subseteq lost'
         /\ registry \cup lost \subseteq registry' \cup lost' /\ Out \subseteq Out'
         /\ \A u \in Threads : pc(u) = "register" /\ u # t => \A h \in registry' : ar_ptr[h] # av(u)
<1>1. call[t].seg \in DOMAIN ar_ptr /\ ar_ptr[call[t].seg] = av(t) /\ call[t].prev \subseteq DOMAIN ar_ptr
  BY DEF IInv, ArgsOK
<1>2. /\ registry' \subseteq DOMAIN ar_ptr /\ lost' \subseteq DOMAIN ar_ptr
      /\ call[t].seg \in registry' /\ lost \subseteq lost'
      /\ registry \cup lost \subseteq registry' \cup lost'
  BY <1>1 DEF IInv, TypeOK, SetHead
<1>3. \A u \in Threads : pc(u) = "register" /\ u # t => \A h \in registry' : ar_ptr[h] # av(u)
  BY <1>1 DEF IInv, FreshOK, SetHead
<1> QED BY <1>2, <1>3 DEF Out

\* A segment comes onto the list, and its call goes on as c.
LEMMA RegisteredKeeps ==
  ASSUME IInv, NEW t \in Threads, Registering(t), SetHead(t), NEW c, Became(t, c),
         c.pc \notin {"register", "extend", "free_lock", "freeing", "resize_lock", "resizing", "link"},
         c.old # None => c.old = call[t].old,
         \A w \in Threads : thread_arena'[w] \in {thread_arena[w], av(t)},
         c.av \in {None, av(t)},
         lock' \in [AllArenas -> Threads \cup {None}],
         \A a \in AllArenas : lock'[a] = lock[a] \/ a = av(t),
         UNCHANGED <<tcache, narenas, ar_ptr, bins>>
  PROVE  FreshOK' /\ KnownOK' /\ HomeOK' /\ LinksOK'
<1>1. /\ call[t].seg \in registry' /\ lost \subseteq lost'
      /\ registry \cup lost \subseteq registry' \cup lost'
      /\ \A u \in Threads : pc(u) = "register" /\ u # t => \A h \in registry' : ar_ptr[h] # av(u)
  BY SetHeadFacts
<1>2. \A u \in Threads : Registering(u)' => u # t /\ Registering(u) /\ call'[u] = call[u]
  BY DEF Became, Registering, pc
<1>3. FreshOK'
  <2> SUFFICES ASSUME NEW u \in Threads, pc(u)' = "register"
               PROVE  /\ av(u)' # Main /\ lock'[av(u)'] = None
                      /\ \A w \in Threads :
                           thread_arena'[w] # av(u)' /\ (w # u => av(w)' # av(u)')
                      /\ \A h \in registry' : ar_ptr'[h] # av(u)'
                      /\ \A w \in Threads :
                           Registering(w)' => \A h \in call'[w].prev : ar_ptr'[h] # av(u)'
    BY DEF FreshOK
  <2>1. u # t /\ call'[u] = call[u] /\ pc(u) = "register" /\ av(u)' = av(u)
    BY DEF Became, pc, av
  <2>2. av(u) \in Nat /\ av(u) < narenas
    BY <2>1 DEF IInv, ArgsOK, TypeOK, Calls, Registering, pc, av
  <2>3. av(u) \in AllArenas /\ lock[av(u)] = None /\ av(u) # Main /\ av(t) # av(u)
    BY <2>1, <2>2, ArenasInRange DEF IInv, FreshOK
  <2>4. lock'[av(u)] = None
    BY <2>3
  <2>5. \A w \in Threads : thread_arena'[w] # av(u)
    BY <2>1, <2>3 DEF IInv, FreshOK
  <2>6. \A w \in Threads : w # u => av(w)' # av(u)
    BY <2>1, <2>2, <2>3, NoneApart DEF IInv, FreshOK, Became, av
  <2>7. \A w \in Threads : Registering(w)' => \A h \in call'[w].prev : ar_ptr'[h] # av(u)
    BY <1>2, <2>1 DEF IInv, FreshOK
  <2> QED BY <1>1, <2>1, <2>3, <2>4, <2>5, <2>6, <2>7
<1>4. KnownOK'
  <2> SUFFICES ASSUME NEW h \in DOMAIN ar_ptr, h \notin registry' \cup lost'
               PROVE  \E u \in Threads : Registering(u)' /\ call'[u].seg = h
    BY DEF KnownOK
  <2>1. PICK u \in Threads : Registering(u) /\ call[u].seg = h
    BY <1>1 DEF IInv, KnownOK
  <2>2. u # t
    BY <1>1, <2>1
  <2> QED BY <2>1, <2>2 DEF Became, Registering, pc
<1>5. HomeOK'
  <2>1. \A u \in Threads : AtHome(u)' => AtHome(u) /\ call'[u] = call[u]
    BY DEF Became, AtHome, pc
  <2> QED BY <1>1, <2>1 DEF IInv, HomeOK, Home, av
<1>6. LinksOK'
  BY LinksKept DEF IInv
<1> QED BY <1>3, <1>4, <1>5, <1>6

\* Arena narenas is linked: until then nobody knows it, and nobody has its mutex.
LEMMA NextArenaUnknown ==
  ASSUME IInv
  PROVE  /\ narenas \in Nat /\ narenas # Main /\ narenas \in AllArenas /\ lock[narenas] = None
         /\ \A u \in Threads : thread_arena[u] # narenas /\ av(u) # narenas
         /\ \A h \in DOMAIN ar_ptr : ar_ptr[h] # narenas
<1>1. narenas \in Nat /\ narenas # Main /\ narenas \in AllArenas
  BY ArenasInRange DEF IInv, TypeOK, Main
<1>2. /\ \A u \in Threads : thread_arena[u] # narenas /\ av(u) # narenas
      /\ \A h \in DOMAIN ar_ptr : ar_ptr[h] # narenas
  <2>1. \A h \in DOMAIN ar_ptr : ar_ptr[h] < narenas
    BY DEF IInv, ArgsOK
  <2>2. \A u \in Threads : /\ thread_arena[u] # None => thread_arena[u] < narenas
                           /\ av(u) # None => av(u) < narenas
    BY DEF IInv, ArgsOK
  <2> QED BY <1>1, <2>1, <2>2, NoneApart
<1>3. lock[narenas] = None
  BY <1>1, <1>2 DEF IInv, TypeOK, LocksOK
<1> QED BY <1>1, <1>2, <1>3

\* The thread that links an arena no longer counts among those about to.
LEMMA LinkCounts ==
  ASSUME IInv, NEW t \in Threads, pc(t) = "link", NEW c, Became(t, c), c.pc # "link",
         narenas' = narenas + 1
  PROVE  LinksOK'
<1>1. IsFiniteSet(Linking) /\ Cardinality(Linking) \in Nat /\ Cardinality(Threads) \in Nat
  BY Bounds, FS_Subset, FS_CardinalityType DEF Linking
<1>2. t \in Linking /\ Linking' = Linking \ {t}
  BY DEF Linking, Became, pc
<1>3. Cardinality(Linking') = Cardinality(Linking) - 1
  BY <1>1, <1>2, FS_RemoveElement
<1> QED BY <1>1, <1>3, Bounds DEF IInv, TypeOK, LinksOK

----------------------------------------------------------------------------
(* The steps of pt_malloc on the way to an arena.                           *)

LEMMA FirstLockStep ==
  ASSUME IInv, NEW t \in Threads, FirstLock(t)
  PROVE  IInv'
<1> DEFINE c == At(call[t], "fast", None)
<1>1. call[t] \in Calls /\ "fast" \in PCs /\ None \in Nat \cup {None} /\ pc(t) = "first"
  BY DEF IInv, TypeOK, PCs, FirstLock
<1>2. c \in Calls /\ c.pc = "fast" /\ c.av = None /\ c.old = call[t].old
  BY <1>1, AtFields
<1>3. Became(t, c)
  BY <1>2, GotoBecomes DEF FirstLock, IInv
<1> HIDE DEF c
<1>4. ~Working(t) /\ ~Registering(t)
  BY <1>1 DEF Working, Registering
<1>5. /\ lock[Main] = None /\ lock'[Main] = t /\ early' = t
      /\ lock' \in [AllArenas -> Threads \cup {None}]
      /\ \A a \in AllArenas : a # Main => lock'[a] = lock[a]
  BY MainInRange DEF FirstLock, Lock, IInv, TypeOK
<1>6. TypeOK'
  BY <1>3, <1>5 DEF IInv, TypeOK, Became, FirstLock, heaps, list
<1>7. ArgsOK'
  BY <1>2, <1>3, ArgsKept DEF IInv, TypeOK, FirstLock
<1>8. LocksOK'
  <2>1. \A u \in Threads : Working(u) => av(u) # Main
    BY <1>5, NoneApart DEF IInv, LocksOK
  <2>2. \A u \in Threads : Working(u)' => u # t /\ Working(u) /\ av(u)' = av(u)
    BY <1>2, <1>3 DEF Became, Working, pc, av
  <2>3. \A u \in Threads : Working(u) => av(u) \in AllArenas
    BY ArenasInRange DEF IInv, ArgsOK, TypeOK, Calls, pc, av
  <2>4. \A u \in Threads : Working(u)' =>
          lock'[av(u)'] = u /\ (av(u)' = Main => early' = None)
    BY <2>1, <2>2, <2>3, <1>5 DEF IInv, LocksOK
  <2>5. ASSUME NEW b \in AllArenas, b # Main, lock'[b] # None
        PROVE  (call'[lock'[b]].pc \in WorkingAt) /\ call'[lock'[b]].av = b
    <3>1. lock'[b] = lock[b] /\ lock[b] \in Threads /\ Working(lock[b]) /\ av(lock[b]) = b
      BY <2>5, <1>5 DEF IInv, LocksOK, TypeOK
    <3> QED BY <3>1, <1>3, <1>4 DEF Became, Working, WorkingAt, pc, av
  <2> QED BY <2>4, <2>5, <1>5 DEF LocksOK, Working, WorkingAt, pc, av
<1>9. FreshOK'
  <2>1. ASSUME NEW u \in Threads, pc(u) = "register", u # t
        PROVE  c.av # av(u) /\ lock'[av(u)] = None
    <3>1. av(u) \in Nat /\ av(u) < narenas
      BY <2>1 DEF IInv, ArgsOK, TypeOK, Calls, Registering, pc, av
    <3>2. av(u) \in AllArenas /\ lock[av(u)] = None /\ av(u) # Main
      BY <2>1, <3>1, ArenasInRange DEF IInv, FreshOK
    <3> QED BY <3>1, <3>2, <1>2, <1>5, NoneApart
  <2> QED BY <2>1, <1>2, <1>3, FreshKept DEF IInv, FirstLock
<1>10. KnownOK'
  BY <1>3, <1>4, KnownKept DEF IInv, FirstLock
<1>11. OutOK'
  BY <1>2, <1>3, OutKept DEF IInv, OutOK, FirstLock
<1>12. HomeOK'
  BY <1>2, <1>3, HomeKept DEF IInv, FirstLock
<1>13. LinksOK'
  BY <1>2, <1>3, LinksKept DEF IInv, FirstLock, heaps
<1> QED BY <1>6, <1>7, <1>8, <1>9, <1>10, <1>11, <1>12, <1>13 DEF IInv

LEMMA TryMainStep ==
  ASSUME IInv, NEW t \in Threads, TryMain(t)
  PROVE  IInv'
<1>1. CASE lock[Main] = None
  BY <1>1, MainKnown, ReturnStep DEF TryMain
<1>2. CASE lock[Main] # None
  <2>1. ~Working(t) /\ ~Registering(t) /\ call[t].ret \in {"fastbin", "carve"}
    BY DEF IInv, ArgsOK, Working, Registering, TryMain
  <2> DEFINE c == At(call[t], "new", None)
  <2>2. /\ "new" \in PCs /\ None \in Nat \cup {None} /\ TypeOK
        /\ c = At(call[t], "new", None) /\ Goto(t, c)
    BY <1>2 DEF IInv, PCs, TryMain
  <2> HIDE DEF c
  <2>3. /\ Became(t, c) /\ c.pc = "new" /\ c.av = None
        /\ c.old = call[t].old /\ c.ret = call[t].ret
    BY <2>2, MoveBecomes
  <2> QED BY <1>2, <2>1, <2>3, MoveStep DEF TryMain
<1> QED BY <1>1, <1>2

LEMMA WaitMainStep ==
  ASSUME IInv, NEW t \in Threads, WaitMain(t)
  PROVE  IInv'
BY MainKnown, ReturnStep DEF WaitMain

LEMMA ChooseStep ==
  ASSUME IInv, NEW t \in Threads, Choose(t)
  PROVE  IInv'
<1>1. /\ call[t] \in Calls /\ "carve" \in PCs /\ "slow" \in PCs /\ None \in Nat \cup {None}
      /\ ~Working(t) /\ ~Registering(t)
  BY DEF IInv, TypeOK, PCs, Working, Registering, Choose
<1> DEFINE a == thread_arena[t]
<1>2. CASE a # None /\ lock[a] = None
  <2>1. a \in Nat /\ a < narenas /\ \A u \in Threads : pc(u) = "register" => av(u) # a
    BY <1>2 DEF IInv, TypeOK, ArgsOK, FreshOK
  <2>2. Lock(t, a) /\ Goto(t, At(call[t], "carve", a))
    BY <1>2 DEF Choose
  <2> DEFINE c == At(call[t], "carve", a)
  <2>3. c \in Calls /\ c.pc = "carve" /\ c.av = a /\ c.old = call[t].old
    BY <1>1, <2>1, AtFields
  <2>4. Became(t, c)
    BY <2>2, <2>3, GotoBecomes DEF IInv
  <2>5. thread_arena' \in [Threads -> Nat \cup {None}]
        /\ \A w \in Threads : thread_arena'[w] \in {thread_arena[w], a}
    BY DEF IInv, TypeOK, Choose
  <2> HIDE DEF c, a
  <2> QED BY <1>1, <2>1, <2>2, <2>3, <2>4, <2>5, TakeStep DEF Choose
<1>3. CASE ~(a # None /\ lock[a] = None)
  <2> DEFINE c == At(call[t], "slow", None)
  <2>1. c \in Calls /\ c.pc = "slow" /\ c.av = None /\ c.old = call[t].old
    BY <1>1, AtFields
  <2>2. Became(t, c) /\ UNCHANGED lock
    BY <1>3, <2>1, GotoBecomes DEF IInv, Choose
  <2> HIDE DEF c
  <2> QED BY <1>1, <2>1, <2>2, MoveStep DEF Choose
<1> QED BY <1>2, <1>3

LEMMA HomeLockStep ==
  ASSUME IInv, NEW t \in Threads, HomeLock(t)
  PROVE  IInv'
<1> DEFINE p == IF pc(t) = "free_lock" THEN "freeing" ELSE "resizing"
           c == At(call[t], p, av(t))
<1>1. /\ call[t] \in Calls /\ p \in PCs /\ pc(t) \in {"free_lock", "resize_lock"}
      /\ p \in {"freeing", "resizing"}
      /\ ~Working(t) /\ ~Registering(t) /\ AtHome(t) /\ Goto(t, c) /\ Lock(t, av(t))
  BY DEF IInv, TypeOK, PCs, Working, Registering, AtHome, HomeLock
<1> HIDE DEF p
<1>2. av(t) \in Nat /\ av(t) < narenas /\ \A u \in Threads : pc(u) = "register" => av(u) # av(t)
  BY <1>1 DEF IInv, TypeOK, ArgsOK, FreshOK, Calls, av
<1>3. c \in Calls /\ c.pc = p /\ c.av = av(t) /\ c.old = call[t].old
  BY <1>1, <1>2, AtFields
<1>4. Became(t, c)
  BY <1>1, <1>3, GotoBecomes DEF IInv
<1>5. thread_arena' \in [Threads -> Nat \cup {None}]
      /\ \A w \in Threads : thread_arena'[w] \in {thread_arena[w], av(t)}
  BY DEF IInv, TypeOK, HomeLock
<1> HIDE DEF c
<1> QED BY <1>1, <1>2, <1>3, <1>4, <1>5, TakeStep DEF HomeLock

LEMMA NewArenaStep ==
  ASSUME IInv, NEW t \in Threads, new_arena(t)
  PROVE  IInv'
<1>1. ~Working(t) /\ ~Registering(t) /\ call[t].ret \in {"fastbin", "carve"}
  BY DEF IInv, ArgsOK, Working, Registering, new_arena
<1>2. "link" \in PCs /\ "wait" \in PCs /\ None \in Nat \cup {None} /\ TypeOK
  BY DEF IInv, PCs
<1>3. CASE narenas < MAX_ARENAS /\ Goto(t, At(call[t], "link", None))
  <2> DEFINE c == At(call[t], "link", None)
  <2>0. c = At(call[t], "link", None) /\ Goto(t, c)
    BY <1>3
  <2> HIDE DEF c
  <2>1. /\ Became(t, c) /\ c.pc = "link" /\ c.av = None
        /\ c.old = call[t].old /\ c.ret = call[t].ret
    BY <1>2, <2>0, MoveBecomes
  <2> QED BY <1>1, <1>3, <2>1, MoveStep DEF new_arena
<1>4. CASE Goto(t, At(call[t], "wait", None))
  <2> DEFINE c == At(call[t], "wait", None)
  <2>0. c = At(call[t], "wait", None) /\ Goto(t, c)
    BY <1>4
  <2> HIDE DEF c
  <2>1. /\ Became(t, c) /\ c.pc = "wait" /\ c.av = None
        /\ c.old = call[t].old /\ c.ret = call[t].ret
    BY <1>2, <2>0, MoveBecomes
  <2> QED BY <1>1, <2>1, MoveStep DEF new_arena
<1> QED BY <1>3, <1>4 DEF new_arena

----------------------------------------------------------------------------
(* Steps that end the work on an arena, and calls that begin.               *)

LEMMA FastbinStep ==
  ASSUME IInv, NEW t \in Threads, Fastbin(t)
  PROVE  IInv'
<1>1. /\ Working(t) /\ pc(t) = "fastbin" /\ call[t] \in Calls
      /\ (call[t].old # None => call[t].old \in Out) /\ "choose" \in PCs /\ None \in Nat \cup {None}
  BY DEF IInv, TypeOK, OutOK, Working, Fastbin, PCs
<1>2. ASSUME NEW m \in bins[av(t)], Result(t, call[t], m)
      PROVE  (\E d : Became(t, d) /\ Quiet(d)) /\ StocksOK
  <2>1. m \in Out /\ m \in Memory
    BY <1>1, <1>2, HoldsOut, OutInMemory DEF IInv, Holds
  <2> QED BY <1>1, <1>2, <2>1, ResultQuiet DEF IInv, Fastbin
<1>3. ASSUME Goto(t, At(call[t], "choose", None)), UNCHANGED live
      PROVE  (\E d : Became(t, d) /\ Quiet(d)) /\ StocksOK
  <2> DEFINE c == At(call[t], "choose", None)
  <2>1. c \in Calls /\ c.pc = "choose" /\ c.av = None /\ c.old = call[t].old
    BY <1>1, AtFields
  <2>2. Became(t, c)
    BY <1>3, <2>1, GotoBecomes DEF IInv
  <2>3. StocksOK
    BY <1>3 DEF IInv, TypeOK, OutOK, StocksOK, Fastbin
  <2> HIDE DEF c
  <2> QED BY <1>1, <2>1, <2>2, <2>3 DEF Quiet, QuietAt
<1>4. (\E d : Became(t, d) /\ Quiet(d)) /\ StocksOK
  BY <1>2, <1>3 DEF Fastbin
<1> QED BY <1>1, <1>4, WorkEnds DEF Fastbin

LEMMA ResizedStep ==
  ASSUME IInv, NEW t \in Threads, Resized(t)
  PROVE  IInv'
<1>1. /\ Working(t) /\ pc(t) = "resizing" /\ call[t] \in Calls
      /\ (call[t].old # None => call[t].old \in Out) /\ None \in Memory \cup {None}
  BY DEF IInv, TypeOK, OutOK, Working, Resized
<1>2. (\E d : Became(t, d) /\ Quiet(d)) /\ StocksOK
  BY <1>1, ResultQuiet, EntryIsQuiet DEF IInv, Resized
<1> QED BY <1>1, <1>2, WorkEnds DEF Resized

LEMMA ReplaceStep ==
  ASSUME IInv, NEW t \in Threads, Replace(t)
  PROVE  IInv'
<1>1. /\ ~Working(t) /\ ~Registering(t) /\ call[t] \in Calls /\ calls' \in Nat
      /\ (call[t].old # None => call[t].old \in Out)
  BY DEF IInv, TypeOK, OutOK, Working, Registering, Replace
<1>2. (\E d : Became(t, d) /\ Quiet(d)) /\ StocksOK
  BY <1>1, EntryIsQuiet DEF IInv, Replace
<1> QED BY <1>1, <1>2, CallMoves DEF Replace

LEMMA FreeOldStep ==
  ASSUME IInv, NEW t \in Threads, FreeOld(t)
  PROVE  IInv'
<1>1. /\ ~Working(t) /\ ~Registering(t) /\ call[t] \in Calls /\ calls' \in Nat
      /\ call[t].old \in Out /\ call[t].old \in Memory
  BY DEF IInv, TypeOK, ArgsOK, OutOK, Calls, Working, Registering, FreeOld
<1>2. live' \in [Memory -> Nat] /\ \A m \in Memory : live'[m] > 0 => m \in Out
  BY DEF IInv, TypeOK, OutOK, FreeOld
<1> QED BY <1>1, <1>2, FreeEntryStep DEF FreeOld

LEMMA MallocStep ==
  ASSUME IInv, NEW t \in Threads, pt_malloc(t)
  PROVE  IInv'
<1>1. PICK fast \in BOOLEAN : MallocEntry(t, [Idle EXCEPT !.fast = fast])
  BY DEF pt_malloc
<1> DEFINE c == [Idle EXCEPT !.fast = fast]
<1>2. c \in Calls /\ c.old = None
  BY IdleFields DEF Calls
<1>3. ~Working(t) /\ ~Registering(t) /\ calls' \in Nat
  BY DEF IInv, TypeOK, Working, Registering, pt_malloc, Called
<1> HIDE DEF c
<1>4. (\E d : Became(t, d) /\ Quiet(d)) /\ StocksOK
  BY <1>1, <1>2, EntryIsQuiet DEF IInv, c
<1> QED BY <1>3, <1>4, CallMoves DEF pt_malloc, Called

\* The program gives up a block it holds.
LEMMA TakenFacts ==
  ASSUME IInv, NEW m \in Memory, Taken(m)
  PROVE  /\ m \in Out /\ live' \in [Memory -> Nat]
         /\ \A k \in Memory : live'[k] > 0 => k \in Out
BY DEF IInv, TypeOK, OutOK, Taken

LEMMA FreeStep ==
  ASSUME IInv, NEW t \in Threads, pt_free(t)
  PROVE  IInv'
<1>1. PICK m \in Memory : Taken(m) /\ FreeEntry(t, [Idle EXCEPT !.old = m])
  BY DEF pt_free
<1> DEFINE c == [Idle EXCEPT !.old = m]
<1>2. c \in Calls /\ c.old = m
  BY IdleFields DEF Calls
<1>3. ~Working(t) /\ ~Registering(t) /\ calls' \in Nat
  BY DEF IInv, TypeOK, Working, Registering, pt_free, Called
<1>4. FreeEntry(t, c)
  BY <1>1
<1> HIDE DEF c
<1>5. /\ m \in Out /\ live' \in [Memory -> Nat]
      /\ \A k \in Memory : live'[k] > 0 => k \in Out
  BY <1>1, TakenFacts
<1> QED BY <1>2, <1>3, <1>4, <1>5, FreeEntryStep DEF pt_free, Called

LEMMA ReallocStep ==
  ASSUME IInv, NEW t \in Threads, pt_realloc(t)
  PROVE  IInv'
<1>1. PICK m \in Memory, fast \in BOOLEAN :
        LET c == [Idle EXCEPT !.fast = fast, !.old = m] IN
        /\ Taken(m)
        /\ IF m = Mapped THEN Goto(t, At(c, "malloc", None))
           ELSE Goto(t, At(c, "resize_lock", find_arena(m)))
  BY DEF pt_realloc
<1> DEFINE c == [Idle EXCEPT !.fast = fast, !.old = m]
<1>2. c \in Calls /\ c.old = m
  BY IdleFields DEF Calls
<1>3. ~Working(t) /\ ~Registering(t) /\ calls' \in Nat
  BY DEF IInv, TypeOK, Working, Registering, pt_realloc, Called
<1>4. /\ m = Mapped => Goto(t, At(c, "malloc", None))
      /\ m # Mapped => Goto(t, At(c, "resize_lock", find_arena(m)))
  BY <1>1
<1> HIDE DEF c
<1>5. m \in Out /\ StocksOK
  BY <1>1, TakenFacts DEF IInv, TypeOK, OutOK, StocksOK, pt_realloc
<1>6. "malloc" \in PCs /\ "resize_lock" \in PCs /\ find_arena(m) \in Nat /\ None \in Nat \cup {None}
  BY DEF IInv, TypeOK, PCs, find_arena, Main
<1>7. CASE m = Mapped
  <2> DEFINE d == At(c, "malloc", None)
  <2>1. d \in Calls /\ d.pc = "malloc" /\ d.av = None /\ d.old = m
    BY <1>2, <1>6, AtFields
  <2>2. Became(t, d)
    BY <1>4, <1>7, <2>1, GotoBecomes DEF IInv
  <2> HIDE DEF d
  <2>3. Quiet(d)
    BY <1>5, <2>1, NoneApart DEF Quiet, QuietAt
  <2> QED BY <1>3, <1>5, <2>2, <2>3, CallMoves DEF pt_realloc, Called
<1>8. CASE m # Mapped
  <2> DEFINE d == At(c, "resize_lock", find_arena(m))
  <2>1. d \in Calls /\ d.pc = "resize_lock" /\ d.av = find_arena(m) /\ d.old = m
    BY <1>2, <1>6, AtFields
  <2>2. Became(t, d)
    BY <1>4, <1>8, <2>1, GotoBecomes DEF IInv
  <2> HIDE DEF d
  <2> QED BY <1>3, <1>5, <1>8, <2>1, <2>2, HomeStep DEF pt_realloc, Called
<1> QED BY <1>7, <1>8

\* A block goes into the bins of its arena.
LEMMA FreedStep ==
  ASSUME IInv, NEW t \in Threads, Freed(t)
  PROVE  IInv'
<1>1. Working(t) /\ AtHome(t) /\ ~Registering(t) /\ pc(t) = "freeing"
  BY DEF Working, AtHome, Registering, Freed
<1>2. av(t) \in AllArenas
  BY <1>1, ArenasInRange DEF IInv, ArgsOK, TypeOK, Calls, av
<1> DEFINE m == call[t].old
<1>3. m \in Out /\ m # Mapped /\ (m \in lost \/ Home(m) = av(t))
  BY <1>1 DEF IInv, OutOK, HomeOK
<1>4. m \in Nat
  BY <1>3 DEF IInv, TypeOK, Out
<1> HIDE DEF m
<1>5. /\ bins' \in [AllArenas -> SUBSET Nat]
      /\ \A a \in AllArenas : \A h \in bins'[a] : h \in bins[a] \/ (a = av(t) /\ h = m)
  BY <1>2, <1>4 DEF IInv, TypeOK, Freed, m
<1>6. Became(t, Idle) /\ Idle.pc = "idle" /\ Idle.av = None /\ Idle.old = None
  BY IdleFields, GotoBecomes DEF IInv, Freed
<1>7. LocksOK'
  BY <1>1, <1>2, <1>6, LocksReleased DEF IInv, Freed, WorkingAt
<1>8. lock' \in [AllArenas -> Threads \cup {None}] /\ \A a \in AllArenas : lock'[a] \in {lock[a], None}
  BY <1>2 DEF IInv, TypeOK, Freed, Unlock
<1>9. TypeOK'
  BY <1>5, <1>6, <1>8 DEF IInv, TypeOK, Became, Freed, heaps, list
<1>10. ArgsOK'
  BY <1>6, ArgsKept DEF IInv, TypeOK, Freed
<1>11. FreshOK'
  <2>1. ASSUME NEW u \in Threads, pc(u) = "register", u # t
        PROVE  Idle.av # av(u) /\ lock'[av(u)] = None
    <3>1. av(u) \in Nat /\ av(u) < narenas
      BY <2>1 DEF IInv, ArgsOK, TypeOK, Calls, Registering, pc, av
    <3>2. av(u) \in AllArenas /\ lock[av(u)] = None
      BY <2>1, <3>1, ArenasInRange DEF IInv, FreshOK
    <3> QED BY <3>1, <3>2, <1>6, <1>8, NoneApart
  <2> QED BY <2>1, <1>6, FreshKept DEF IInv, Freed
<1>12. KnownOK'
  BY <1>1, <1>6, KnownKept DEF IInv, Freed
<1>13. OutOK'
  BY <1>3, <1>5, <1>6 DEF IInv, OutOK, Out, Became, Freed, heaps, list
<1>14. HomeOK'
  <2>1. \A a \in AllArenas : \A h \in bins'[a] : h \in lost' \/ Home(h)' = a
    BY <1>3, <1>5 DEF IInv, HomeOK, Home, Freed, heaps, list
  <2>2. \A u \in Threads : AtHome(u)' => u # t /\ AtHome(u) /\ call'[u] = call[u]
    BY <1>6 DEF Became, AtHome, pc
  <2> QED BY <2>1, <2>2 DEF IInv, HomeOK, Home, av, Freed, heaps, list
<1>15. LinksOK'
  BY <1>6, LinksKept DEF IInv, Freed, heaps
<1> QED BY <1>7, <1>9, <1>10, <1>11, <1>12, <1>13, <1>14, <1>15 DEF IInv

----------------------------------------------------------------------------
(* Steps that map a segment, register one or link an arena.                 *)

\* A segment more for an arena that exists, in sysmalloc.
LEMMA ExtendBegins ==
  ASSUME IInv, NEW t \in Threads, pc(t) = "carve", new_heap(t, av(t), "extend"),
         UNCHANGED <<lock, thread_arena, tcache, narenas, list, bins, live, early, calls>>
  PROVE  IInv'
<1>0. /\ "extend" \in PCs /\ Working(t) /\ ~Registering(t) /\ av(t) \in Nat /\ av(t) < narenas
  BY DEF IInv, TypeOK, ArgsOK, Calls, PCs, Working, Registering, av
<1>1. PICK c : /\ Became(t, c) /\ c.pc = "extend" /\ c.av = av(t) /\ c.old = call[t].old
               /\ c.ret = call[t].ret /\ c.seg = Len(ar_ptr) + 1 /\ c.prev = registry
  BY <1>0, NewHeapFacts
<1>2. /\ ar_ptr' \in Seq(Nat) /\ Len(ar_ptr') <= MaxHeaps
      /\ DOMAIN ar_ptr' = DOMAIN ar_ptr \cup {Len(ar_ptr) + 1}
      /\ ar_ptr'[Len(ar_ptr) + 1] = av(t)
      /\ \A h \in DOMAIN ar_ptr : ar_ptr'[h] = ar_ptr[h]
  BY <1>0, NewHeapFacts
<1>3. TypeOK'
  BY <1>1, <1>2 DEF IInv, TypeOK, Became, list
<1>4. ArgsOK'
  <2>1. \A h \in DOMAIN ar_ptr' : ar_ptr'[h] < narenas'
    BY <1>0, <1>2 DEF IInv, ArgsOK
  <2>2. registry \subseteq DOMAIN ar_ptr'
    BY <1>2 DEF IInv, TypeOK
  <2>3. ASSUME NEW u \in Threads
        PROVE  /\ thread_arena'[u] # None => thread_arena'[u] < narenas'
               /\ av(u)' # None => av(u)' < narenas'
               /\ (Working(u) \/ AtHome(u) \/ Registering(u))' => av(u)' # None
               /\ pc(u)' \in {"main", "new", "link", "register", "wait"} =>
                    call'[u].ret \in {"fastbin", "carve"}
               /\ pc(u)' \in {"free", "malloc"} => call'[u].old # None
               /\ Registering(u)' => /\ call'[u].seg \in DOMAIN ar_ptr'
                                     /\ ar_ptr'[call'[u].seg] = av(u)'
                                     /\ call'[u].prev \subseteq DOMAIN ar_ptr'
    <3>1. CASE u = t
      BY <3>1, <1>0, <1>1, <1>2, <2>2, NoneApart DEF IInv, ArgsOK, Became, pc, av
    <3>2. CASE u # t
      <4>1. call'[u] = call[u]
        BY <3>2, <1>1 DEF Became
      <4> QED BY <4>1, <1>2 DEF IInv, ArgsOK, Working, AtHome, Registering, pc, av
    <3> QED BY <3>1, <3>2
  <2> QED BY <2>1, <2>3 DEF ArgsOK
<1>5. LocksOK'
  <2>1. \A u \in Threads : (Working(u)' <=> Working(u)) /\ av(u)' = av(u)
    BY <1>0, <1>1 DEF Became, Working, pc, av
  <2>2. \A u \in Threads : (call'[u].pc \in WorkingAt <=> call[u].pc \in WorkingAt)
                           /\ call'[u].av = call[u].av
    BY <2>1 DEF Working, WorkingAt, pc, av
  <2>3. \A b \in AllArenas : lock'[b] # None => lock[b] \in Threads /\ lock'[b] = lock[b]
    BY DEF IInv, TypeOK
  <2> QED BY <2>1, <2>2, <2>3 DEF IInv, LocksOK, Working, WorkingAt, pc, av
<1>6. FreshOK'
  <2> SUFFICES ASSUME NEW u \in Threads, pc(u)' = "register"
               PROVE  /\ av(u)' # Main /\ lock'[av(u)'] = None
                      /\ \A w \in Threads :
                           thread_arena'[w] # av(u)' /\ (w # u => av(w)' # av(u)')
                      /\ \A h \in registry' : ar_ptr'[h] # av(u)'
                      /\ \A w \in Threads :
                           Registering(w)' => \A h \in call'[w].prev : ar_ptr'[h] # av(u)'
    BY DEF FreshOK
  <2>1. u # t /\ call'[u] = call[u] /\ pc(u) = "register"
    BY <1>1 DEF Became, pc
  <2>2. \A w \in Threads : av(w)' = av(w)
    BY <1>1 DEF Became, av
  <2>3. \A h \in registry : h \in DOMAIN ar_ptr /\ ar_ptr'[h] # av(u)
    BY <1>2, <2>1 DEF IInv, TypeOK, FreshOK
  <2>4. ASSUME NEW w \in Threads, Registering(w)', NEW h \in call'[w].prev
        PROVE  ar_ptr'[h] # av(u)
    <3>1. CASE w = t
      BY <3>1, <2>3, <2>4, <1>1 DEF Became
    <3>2. CASE w # t
      <4>1. call'[w] = call[w] /\ Registering(w)
        BY <3>2, <2>4, <1>1 DEF Became, Registering, pc
      <4>2. h \in DOMAIN ar_ptr /\ ar_ptr[h] # av(u)
        BY <4>1, <2>4, <2>1 DEF IInv, ArgsOK, FreshOK
      <4> QED BY <4>2, <1>2
    <3> QED BY <3>1, <3>2
  <2> QED BY <2>1, <2>2, <2>3, <2>4 DEF IInv, FreshOK, list
<1>7. KnownOK' /\ OutOK' /\ HomeOK'
  BY <1>0, NewHeapKeeps
<1>8. LinksOK'
  BY <1>1, LinksKept DEF IInv
<1> QED BY <1>3, <1>4, <1>5, <1>6, <1>7, <1>8 DEF IInv

LEMMA CarveStep ==
  ASSUME IInv, NEW t \in Threads, Carve(t)
  PROVE  IInv'
<1>1. /\ Working(t) /\ pc(t) = "carve" /\ call[t] \in Calls
      /\ (call[t].old # None => call[t].old \in Out)
  BY DEF IInv, TypeOK, OutOK, Working, Carve
<1>2. ASSUME NEW m \in Holds(av(t)) \cup {None} \cup (IF call[t].fast THEN {} ELSE {Mapped}),
             Result(t, call[t], m), Unlock(av(t)), UNCHANGED ar_ptr
      PROVE  IInv'
  <2>1. (m # None => m \in Out) /\ m \in Memory \cup {None}
    BY <1>1, HoldsOut, OutInMemory DEF IInv, Out
  <2>2. (\E d : Became(t, d) /\ Quiet(d)) /\ StocksOK
    BY <1>1, <1>2, <2>1, ResultQuiet DEF IInv, Carve
  <2> QED BY <1>1, <1>2, <2>2, WorkEnds DEF Carve, heaps
<1>3. ASSUME new_heap(t, av(t), "extend"), UNCHANGED <<lock, live>>
      PROVE  IInv'
  BY <1>1, <1>3, ExtendBegins DEF Carve
<1> QED BY <1>2, <1>3 DEF Carve

LEMMA RegisterHeapStep ==
  ASSUME IInv, NEW t \in Threads, register_heap(t)
  PROVE  IInv'
<1> DEFINE a == av(t)
           c == At(call[t], call[t].ret, a)
<1>1. /\ Registering(t) /\ ~Working(t) /\ pc(t) = "register" /\ call[t] \in Calls
      /\ call[t].ret \in {"fastbin", "carve"} /\ call[t].ret \in PCs
  BY DEF IInv, TypeOK, ArgsOK, PCs, Registering, Working, register_heap
<1>2. a \in Nat /\ a < narenas /\ a \in AllArenas
  BY <1>1, ArenasInRange DEF IInv, TypeOK, ArgsOK, Calls, av
<1> HIDE DEF a
<1>3. c \in Calls /\ c.pc = call[t].ret /\ c.av = a /\ c.old = call[t].old
  BY <1>1, <1>2, AtFields
<1>4. Became(t, c) /\ Lock(t, a) /\ SetHead(t)
  BY <1>3, GotoBecomes DEF IInv, register_heap, Return, a
<1>5. /\ thread_arena' \in [Threads -> Nat \cup {None}]
      /\ \A w \in Threads : thread_arena'[w] \in {thread_arena[w], a}
  BY <1>2 DEF IInv, TypeOK, register_heap, Return, a
<1> HIDE DEF c
<1>6. /\ lock' \in [AllArenas -> Threads \cup {None}]
      /\ \A b \in AllArenas : lock'[b] = lock[b] \/ b = a
  BY <1>2, <1>4 DEF IInv, TypeOK, Lock
<1>7. registry' \subseteq DOMAIN ar_ptr /\ lost' \subseteq DOMAIN ar_ptr /\ Out \subseteq Out'
  BY <1>1, <1>4, SetHeadFacts
<1>8. TypeOK'
  BY <1>4, <1>5, <1>6, <1>7 DEF IInv, TypeOK, Became, register_heap
<1>9. ArgsOK'
  <2>1. \A h \in DOMAIN ar_ptr' : ar_ptr'[h] < narenas'
    BY DEF IInv, ArgsOK, register_heap
  <2>2. ASSUME NEW u \in Threads
        PROVE  /\ thread_arena'[u] # None => thread_arena'[u] < narenas'
               /\ av(u)' # None => av(u)' < narenas'
               /\ (Working(u) \/ AtHome(u) \/ Registering(u))' => av(u)' # None
               /\ pc(u)' \in {"main", "new", "link", "register", "wait"} =>
                    call'[u].ret \in {"fastbin", "carve"}
               /\ pc(u)' \in {"free", "malloc"} => call'[u].old # None
               /\ Registering(u)' => /\ call'[u].seg \in DOMAIN ar_ptr'
                                     /\ ar_ptr'[call'[u].seg] = av(u)'
                                     /\ call'[u].prev \subseteq DOMAIN ar_ptr'
    <3>1. thread_arena'[u] # None => thread_arena'[u] < narenas'
      BY <1>2, <1>5 DEF IInv, ArgsOK, register_heap
    <3>2. CASE u = t
      <4>1. pc(u)' \in {"fastbin", "carve"} /\ av(u)' = a
        BY <3>2, <1>1, <1>3, <1>4 DEF Became, pc, av
      <4> QED BY <3>1, <4>1, <1>2, NoneApart DEF Registering, register_heap
    <3>3. CASE u # t
      <4>1. call'[u] = call[u]
        BY <3>3, <1>4 DEF Became
      <4> QED BY <3>1, <4>1 DEF IInv, ArgsOK, Working, AtHome, Registering, pc, av, register_heap
    <3> QED BY <3>2, <3>3
  <2> QED BY <2>1, <2>2 DEF ArgsOK
<1>10. LocksOK'
  BY <1>1, <1>2, <1>3, <1>4, LocksTaken DEF IInv, WorkingAt, register_heap
<1>11. FreshOK' /\ KnownOK' /\ HomeOK' /\ LinksOK'
  BY <1>1, <1>3, <1>4, <1>5, <1>6, RegisteredKeeps DEF register_heap, a
<1>12. OutOK'
  BY <1>3, <1>4, <1>7 DEF IInv, OutOK, Became, register_heap
<1> QED BY <1>8, <1>9, <1>10, <1>11, <1>12 DEF IInv

LEMMA ExtendStep ==
  ASSUME IInv, NEW t \in Threads, Extend(t)
  PROVE  IInv'
<1>1. Registering(t) /\ Working(t) /\ call[t] \in Calls /\ SetHead(t)
  BY DEF IInv, TypeOK, Registering, Working, Extend
<1>2. av(t) \in AllArenas
  BY <1>1, ArenasInRange DEF IInv, ArgsOK, TypeOK, Calls, av
<1>3. /\ registry' \subseteq DOMAIN ar_ptr /\ lost' \subseteq DOMAIN ar_ptr
      /\ call[t].seg \in registry' /\ Out \subseteq Out'
  BY <1>1, SetHeadFacts
<1>4. call[t].seg \in Memory /\ call[t].seg \in Out'
  BY <1>3, OutInMemory DEF IInv, Out
<1>5. PICK d : /\ Became(t, d) /\ d.pc \in {"idle", "free"} /\ d.av = None
               /\ d.old \in {None, call[t].old} /\ (d.pc = "free" => d.old # None)
  BY <1>1, <1>4, ResultEnds DEF IInv, Extend
<1>6. /\ live' \in [Memory -> Nat]
      /\ \A k \in Memory : live'[k] > 0 => live[k] > 0 \/ k = call[t].seg \/ k = call[t].old
  BY <1>1, <1>4, ResultEnds DEF IInv, Extend
<1>7. /\ lock' \in [AllArenas -> Threads \cup {None}]
      /\ \A b \in AllArenas : lock'[b] = lock[b] \/ b = av(t)
  BY <1>2 DEF IInv, TypeOK, Extend, Unlock
<1>8. TypeOK'
  BY <1>3, <1>5, <1>6, <1>7 DEF IInv, TypeOK, Became, Extend
<1>9. ArgsOK'
  BY <1>5 DEF IInv, TypeOK, ArgsOK, Became, Working, AtHome, Registering, pc, av, Extend
<1>10. LocksOK'
  BY <1>1, <1>2, <1>5, LocksReleased DEF IInv, WorkingAt, Extend
<1>11. FreshOK' /\ KnownOK' /\ HomeOK' /\ LinksOK'
  BY <1>1, <1>5, <1>7, RegisteredKeeps DEF Extend
<1>12. OutOK'
  <2>1. \A k \in Memory : live'[k] > 0 => k \in Out'
    BY <1>3, <1>4, <1>6, NoneApart DEF IInv, OutOK
  <2> QED BY <1>3, <1>5, <2>1 DEF IInv, OutOK, Became, Extend
<1> QED BY <1>8, <1>9, <1>10, <1>11, <1>12 DEF IInv

\* The arguments of calls once arena narenas is linked by t, which goes on as c.
LEMMA LinkedArgs ==
  ASSUME IInv, NEW t \in Threads, NEW c, Became(t, c), c.av = narenas, narenas' = narenas + 1,
         c.pc \in {"register", "fastbin", "carve"}, c.ret \in {"fastbin", "carve"},
         DOMAIN ar_ptr \subseteq DOMAIN ar_ptr',
         \A h \in DOMAIN ar_ptr : ar_ptr'[h] = ar_ptr[h],
         \A h \in DOMAIN ar_ptr' : ar_ptr'[h] < narenas',
         c.pc = "register" => /\ c.seg \in DOMAIN ar_ptr' /\ ar_ptr'[c.seg] = narenas
                              /\ c.prev \subseteq DOMAIN ar_ptr',
         \A w \in Threads : thread_arena'[w] \in {thread_arena[w], narenas}
  PROVE  ArgsOK'
<1>1. narenas \in Nat
  BY DEF IInv, TypeOK
<1>2. ASSUME NEW u \in Threads
      PROVE  /\ thread_arena'[u] # None => thread_arena'[u] < narenas'
             /\ av(u)' # None => av(u)' < narenas'
             /\ (Working(u) \/ AtHome(u) \/ Registering(u))' => av(u)' # None
             /\ pc(u)' \in {"main", "new", "link", "register", "wait"} =>
                  call'[u].ret \in {"fastbin", "carve"}
             /\ pc(u)' \in {"free", "malloc"} => call'[u].old # None
             /\ Registering(u)' => /\ call'[u].seg \in DOMAIN ar_ptr'
                                   /\ ar_ptr'[call'[u].seg] = av(u)'
                                   /\ call'[u].prev \subseteq DOMAIN ar_ptr'
  <2>1. thread_arena'[u] # None => thread_arena'[u] < narenas'
    <3>1. thread_arena[u] \in Nat \cup {None} /\ (thread_arena[u] # None => thread_arena[u] < narenas)
      BY DEF IInv, TypeOK, ArgsOK
    <3> QED BY <3>1, <1>1
  <2>2. CASE u = t
    <3>1. call'[u] = c
      BY <2>2 DEF Became
    <3> QED BY <2>1, <3>1, <1>1, NoneApart DEF Working, AtHome, Registering, pc, av
  <2>3. CASE u # t
    <3>1. call'[u] = call[u]
      BY <2>3 DEF Became
    <3>2. av(u) \in Nat \cup {None} /\ (av(u) # None => av(u) < narenas)
      BY DEF IInv, TypeOK, ArgsOK, Calls, av
    <3>3. av(u)' # None => av(u)' < narenas'
      BY <3>1, <3>2, <1>1 DEF av
    <3> QED BY <2>1, <3>1, <3>3 DEF IInv, ArgsOK, Working, AtHome, Registering, pc, av
  <2> QED BY <2>2, <2>3
<1> QED BY <1>2 DEF ArgsOK

\* The arenas that others are making stay unknown to the rest.
LEMMA LinkedFresh ==
  ASSUME IInv, NEW t \in Threads, pc(t) = "link", NEW c, Became(t, c), c.av = narenas,
         \A h \in DOMAIN ar_ptr : ar_ptr'[h] = ar_ptr[h],
         c.pc \in {"register", "fastbin", "carve"},
         c.pc = "register" => c.prev = registry /\ UNCHANGED <<lock, thread_arena>>,
         \A w \in Threads : thread_arena'[w] \in {thread_arena[w], narenas},
         \A a \in AllArenas : a # narenas => lock'[a] = lock[a], UNCHANGED list
  PROVE  FreshOK'
<1> SUFFICES ASSUME NEW u \in Threads, pc(u)' = "register"
             PROVE  /\ av(u)' # Main /\ lock'[av(u)'] = None
                    /\ \A w \in Threads :
                         thread_arena'[w] # av(u)' /\ (w # u => av(w)' # av(u)')
                    /\ \A h \in registry' : ar_ptr'[h] # av(u)'
                    /\ \A w \in Threads :
                         Registering(w)' => \A h \in call'[w].prev : ar_ptr'[h] # av(u)'
  BY DEF FreshOK
<1>1. \A w \in Threads : w # t => call'[w] = call[w] /\ av(w)' = av(w)
  BY DEF Became, av
<1>2. call'[t] = c /\ av(t)' = narenas
  BY DEF Became, av
<1>3. registry \subseteq DOMAIN ar_ptr /\ registry' = registry
  BY DEF IInv, TypeOK, list
<1>4. \A w \in Threads : Registering(w)' =>
        \/ w # t /\ Registering(w) /\ call'[w] = call[w] /\ call[w].prev \subseteq DOMAIN ar_ptr
        \/ w = t /\ call'[w].prev = registry
  BY <1>1, <1>2 DEF IInv, ArgsOK, Registering, pc
<1>5. CASE u = t
  <2>1. c.pc = "register"
    BY <1>2, <1>5 DEF pc
  <2>2. av(u)' = narenas /\ narenas # Main /\ lock' = lock /\ lock[narenas] = None
    BY <2>1, <1>2, <1>5, NextArenaUnknown
  <2>3. \A w \in Threads : thread_arena'[w] # narenas /\ (w # u => av(w)' # narenas)
    BY <2>1, <1>1, <1>5, NextArenaUnknown
  <2>4. \A h \in DOMAIN ar_ptr : ar_ptr'[h] # narenas
    BY NextArenaUnknown
  <2>5. \A w \in Threads : Registering(w)' => call'[w].prev \subseteq DOMAIN ar_ptr
    BY <1>3, <1>4
  <2> QED BY <2>2, <2>3, <2>4, <2>5, <1>3
<1>6. CASE u # t
  <2>1. pc(u) = "register" /\ av(u)' = av(u)
    BY <1>1, <1>6 DEF pc
  <2>2. av(u) \in Nat /\ av(u) < narenas
    BY <2>1 DEF IInv, ArgsOK, TypeOK, Calls, Registering, pc, av
  <2>3. av(u) \in AllArenas /\ lock'[av(u)] = None /\ av(u) # Main /\ av(u) # narenas
    BY <2>1, <2>2, ArenasInRange, NextArenaUnknown DEF IInv, FreshOK
  <2>4. \A w \in Threads : thread_arena'[w] # av(u) /\ (w # u => av(w)' # av(u))
    BY <1>1, <1>2, <2>1, <2>3 DEF IInv, FreshOK
  <2>5. \A h \in registry : ar_ptr'[h] # av(u)
    BY <1>3, <2>1 DEF IInv, FreshOK
  <2>6. \A w \in Threads : Registering(w)' => \A h \in call'[w].prev : ar_ptr'[h] # av(u)
    <3> SUFFICES ASSUME NEW w \in Threads, Registering(w)', NEW h \in call'[w].prev
                 PROVE  ar_ptr'[h] # av(u)
      OBVIOUS
    <3>1. CASE w = t
      BY <3>1, <1>4, <2>5
    <3>2. CASE w # t
      <4>1. Registering(w) /\ h \in call[w].prev /\ h \in DOMAIN ar_ptr
        BY <3>2, <1>4
      <4>2. ar_ptr[h] # av(u)
        BY <4>1, <2>1 DEF IInv, FreshOK
      <4> QED BY <4>1, <4>2
    <3> QED BY <3>1, <3>2
  <2> QED BY <1>3, <2>1, <2>3, <2>4, <2>5, <2>6
<1> QED BY <1>5, <1>6

LEMMA LinkArenaStep ==
  ASSUME IInv, NEW t \in Threads, LinkArena(t)
  PROVE  IInv'
<1>1. /\ pc(t) = "link" /\ ~Working(t) /\ ~Registering(t) /\ call[t] \in Calls
      /\ call[t].ret \in {"fastbin", "carve"} /\ call[t].ret \in PCs /\ "register" \in PCs
      /\ narenas \in Nat /\ narenas \in AllArenas /\ narenas' = narenas + 1
  BY NextArenaUnknown DEF IInv, TypeOK, ArgsOK, PCs, Working, Registering, LinkArena
<1>2. ASSUME new_heap(t, narenas, "register"), UNCHANGED <<lock, thread_arena>>
      PROVE  IInv'
  <2>0. narenas \in Nat /\ "register" \in PCs
    BY <1>1
  <2>1. PICK c : /\ Became(t, c) /\ c.pc = "register" /\ c.av = narenas /\ c.old = call[t].old
                 /\ c.ret = call[t].ret /\ c.seg = Len(ar_ptr) + 1 /\ c.prev = registry
    BY <1>2, <2>0, NewHeapFacts
  <2>2. /\ ar_ptr' \in Seq(Nat) /\ Len(ar_ptr') <= MaxHeaps
        /\ DOMAIN ar_ptr' = DOMAIN ar_ptr \cup {Len(ar_ptr) + 1}
        /\ ar_ptr'[Len(ar_ptr) + 1] = narenas
        /\ \A h \in DOMAIN ar_ptr : ar_ptr'[h] = ar_ptr[h]
    BY <1>2, <2>0, NewHeapFacts
  <2>3. TypeOK'
    BY <1>1, <1>2, <2>1, <2>2 DEF IInv, TypeOK, Became, LinkArena, list
  <2>4. ArgsOK'
    <3>1. \A h \in DOMAIN ar_ptr' : ar_ptr'[h] < narenas'
      <4>1. \A h \in DOMAIN ar_ptr : ar_ptr[h] \in Nat /\ ar_ptr[h] < narenas
        BY DEF IInv, TypeOK, ArgsOK
      <4> QED BY <2>0, <1>1, <2>2, <4>1
    <3>2. registry \subseteq DOMAIN ar_ptr'
      BY <2>2 DEF IInv, TypeOK
    <3> QED BY <1>1, <1>2, <2>1, <2>2, <3>1, <3>2, LinkedArgs
  <2>5. LocksOK'
    BY <1>1, <1>2, <2>1, LocksKept DEF IInv, WorkingAt, LinkArena
  <2>6. FreshOK'
    BY <1>1, <1>2, <2>1, <2>2, LinkedFresh DEF LinkArena
  <2>7. KnownOK' /\ OutOK' /\ HomeOK'
    BY <1>1, <1>2, NewHeapKeeps DEF LinkArena
  <2>8. LinksOK'
    BY <1>1, <2>1, LinkCounts
  <2> QED BY <2>3, <2>4, <2>5, <2>6, <2>7, <2>8 DEF IInv
<1>3. ASSUME Lock(t, narenas), Return(t, narenas, TRUE), UNCHANGED ar_ptr
      PROVE  IInv'
  <2> DEFINE c == At(call[t], call[t].ret, narenas)
  <2>1. /\ call[t].ret \in PCs /\ narenas \in Nat \cup {None} /\ TypeOK
        /\ c = At(call[t], call[t].ret, narenas) /\ Goto(t, c)
    BY <1>1, <1>3 DEF IInv, Return
  <2> HIDE DEF c
  <2>2. /\ Became(t, c) /\ c.pc = call[t].ret /\ c.av = narenas
        /\ c.old = call[t].old /\ c.ret = call[t].ret
    <3>1. call[t] \in Calls
      BY DEF IInv, TypeOK
    <3>2. /\ c \in Calls /\ c.pc = call[t].ret /\ c.av = narenas
          /\ c.old = call[t].old /\ c.ret = call[t].ret
      BY <2>1, <3>1, AtFields
    <3> QED BY <2>1, <3>2, GotoBecomes
  <2>3. /\ thread_arena' \in [Threads -> Nat \cup {None}]
        /\ \A w \in Threads : thread_arena'[w] \in {thread_arena[w], narenas}
    BY <1>1, <1>3 DEF IInv, TypeOK, Return
  <2>4. /\ lock' \in [AllArenas -> Threads \cup {None}]
        /\ \A a \in AllArenas : a # narenas => lock'[a] = lock[a]
    BY <1>1, <1>3 DEF IInv, TypeOK, Lock
  <2>5. TypeOK'
    BY <1>1, <1>3, <2>2, <2>3, <2>4 DEF IInv, TypeOK, Became, LinkArena, list
  <2>6. ArgsOK'
    <3>1. \A h \in DOMAIN ar_ptr' : ar_ptr'[h] < narenas'
      <4>1. \A h \in DOMAIN ar_ptr : ar_ptr[h] \in Nat /\ ar_ptr[h] < narenas
        BY DEF IInv, TypeOK, ArgsOK
      <4> QED BY <1>1, <1>3, <4>1
    <3> QED BY <1>1, <1>3, <2>2, <2>3, <3>1, LinkedArgs
  <2>7. LocksOK'
    BY <1>1, <1>3, <2>2, LocksTaken DEF IInv, WorkingAt, LinkArena
  <2>8. FreshOK'
    BY <1>1, <1>3, <2>2, <2>3, <2>4, LinkedFresh DEF LinkArena
  <2>9. KnownOK'
    <3>1. \A u \in Threads : Registering(u) => Registering(u)' /\ call'[u].seg = call[u].seg
      BY <1>1, <2>2 DEF Became, Registering, pc
    <3>2. UNCHANGED <<ar_ptr, registry, lost>>
      BY <1>3 DEF LinkArena, list
    <3> QED BY <3>1, <3>2 DEF IInv, KnownOK
  <2>10. OutOK'
    BY <2>2 DEF IInv, OutOK, Out, Became, LinkArena, list
  <2>11. HomeOK'
    BY <1>1, <1>3, <2>2 DEF IInv, HomeOK, Home, Became, AtHome, pc, av, LinkArena, list
  <2>12. LinksOK'
    BY <1>1, <2>2, LinkCounts
  <2> QED BY <2>5, <2>6, <2>7, <2>8, <2>9, <2>10, <2>11, <2>12 DEF IInv
<1> QED BY <1>2, <1>3 DEF LinkArena

----------------------------------------------------------------------------
(* The invariant, and what follows from it.                                 *)

LEMMA InitHolds == Init => IInv
<1> SUFFICES ASSUME Init PROVE IInv
  OBVIOUS
<1>1. \A t \in Threads : pc(t) = "idle" /\ av(t) = None /\ call[t].old = None
  BY IdleFields DEF Init, pc, av
<1>2. TypeOK
  <2>1. /\ lock \in [AllArenas -> Threads \cup {None}]
        /\ thread_arena \in [Threads -> Nat \cup {None}]
        /\ bins \in [AllArenas -> SUBSET Nat] /\ live \in [Memory -> Nat]
    BY DEF Init
  <2>2. tcache \in [Threads -> [Memory -> Nat] \cup {None}]
    BY DEF Init
  <2>3. call \in [Threads -> Calls]
    BY IdleFields DEF Init
  <2>4. /\ narenas \in Nat \ {0} /\ ar_ptr \in Seq(Nat) /\ Len(ar_ptr) <= MaxHeaps
        /\ registry = {} /\ lost = {} /\ early = None /\ calls = 0
    BY Bounds DEF Init
  <2> QED BY <2>1, <2>2, <2>3, <2>4 DEF TypeOK
<1>3. ArgsOK /\ LocksOK /\ FreshOK /\ KnownOK
  BY <1>1 DEF Init, ArgsOK, LocksOK, FreshOK, KnownOK, Working, AtHome, Registering
<1>4. OutOK /\ HomeOK
  BY <1>1, NoneApart DEF Init, OutOK, HomeOK, AtHome
<1>5. LinksOK
  <2>1. Linking = {}
    BY <1>1 DEF Linking
  <2>2. Cardinality(Linking) = 0
    BY <2>1, FS_EmptySet
  <2>3. Cardinality(Threads) \in Nat /\ Cardinality(Threads) # 0
    BY Bounds, FS_EmptySet, FS_CardinalityType
  <2> QED BY <2>2, <2>3, Bounds DEF Init, LinksOK
<1> QED BY <1>2, <1>3, <1>4, <1>5 DEF IInv

LEMMA StepHolds == IInv /\ [Next]_vars => IInv'
<1> SUFFICES ASSUME IInv, [Next]_vars PROVE IInv'
  OBVIOUS
<1>1. ASSUME NEW t \in Threads, Step(t)
      PROVE  IInv'
  <2>1. CASE GetFast(t)
    BY <2>1, GetArenaStep DEF GetFast
  <2>2. CASE GetSlow(t)
    BY <2>2, GetArenaStep DEF GetSlow
  <2> QED BY <1>1, <2>1, <2>2, FirstLockStep, TryMainStep, NewArenaStep, LinkArenaStep,
             RegisterHeapStep, WaitMainStep, FastbinStep, ChooseStep, CarveStep, ExtendStep,
             FreeOldStep, ReplaceStep, HomeLockStep, FreedStep, ResizedStep DEF Step
<1>2. CASE UNCHANGED vars
  <2>1. TypeOK'
    BY <1>2 DEF IInv, TypeOK, vars, heaps, list
  <2>2. ArgsOK'
    BY <1>2 DEF IInv, ArgsOK, Working, AtHome, Registering, pc, av, vars, heaps, list
  <2>3. LocksOK'
    BY <1>2 DEF IInv, LocksOK, Working, pc, av, vars
  <2>4. FreshOK'
    BY <1>2 DEF IInv, FreshOK, Registering, pc, av, vars, heaps, list
  <2>5. KnownOK'
    BY <1>2 DEF IInv, KnownOK, Registering, pc, vars, heaps, list
  <2>6. OutOK'
    BY <1>2 DEF IInv, OutOK, Out, vars, heaps, list
  <2>7. HomeOK'
    BY <1>2 DEF IInv, HomeOK, Home, AtHome, pc, av, vars, heaps, list
  <2>8. LinksOK'
    BY <1>2 DEF IInv, LinksOK, Linking, pc, vars, heaps
  <2> QED BY <2>1, <2>2, <2>3, <2>4, <2>5, <2>6, <2>7, <2>8 DEF IInv
<1> QED BY <1>1, <1>2, MallocStep, FreeStep, ReallocStep DEF Next

LEMMA InvariantHolds == Spec => []IInv
BY InitHolds, StepHolds, PTL DEF Spec

\* For any number of threads, arenas and calls: a thread is on an arena's bins
\* only under its mutex, and every path of pt_malloc, pt_free and pt_realloc
\* releases the mutex it took, but for the main one taken for a first request.
THEOREM MutexesMatchWork == Spec => []LocksMatchWork
<1>1. IInv => LocksMatchWork
  <2> SUFFICES ASSUME IInv PROVE LocksMatchWork
    OBVIOUS
  <2>1. \A a \in Arenas : a \in AllArenas
    BY ArenasInRange DEF IInv, TypeOK, Arenas
  <2> QED BY <2>1 DEF IInv, LocksOK, LocksMatchWork
<1> QED BY <1>1, InvariantHolds, PTL

\* For any number of threads, arenas and calls: two threads are never on the
\* chunks of one segment, or of the main arena's memory, unless register_heap
\* has at some time dropped that segment from its list.
THEOREM SegmentsStayApart == Spec => []OneThreadPerHeap
<1>1. ASSUME IInv, NEW t \in Threads, Working(t), NEW h \in Touches(t), h \notin lost
      PROVE  Home(h) = av(t)
  <2>1. av(t) \in AllArenas
    BY <1>1, ArenasInRange DEF IInv, ArgsOK, TypeOK, Calls, av
  <2>2. CASE pc(t) \in {"freeing", "resizing"}
    BY <1>1, <2>2 DEF IInv, HomeOK, AtHome, Touches
  <2>3. CASE pc(t) \notin {"freeing", "resizing"}
    <3>1. h \in Holds(av(t))
      BY <1>1, <2>3 DEF Touches
    <3>2. CASE h \in bins[av(t)]
      BY <1>1, <2>1, <3>2 DEF IInv, HomeOK
    <3>3. CASE h \in DOMAIN ar_ptr /\ ar_ptr[h] = av(t)
      BY <1>1, <3>3 DEF IInv, TypeOK, Home
    <3>4. CASE av(t) = Main /\ h = 0
      BY <3>4 DEF Home
    <3> QED BY <3>1, <3>2, <3>3, <3>4 DEF Holds
  <2> QED BY <2>2, <2>3
<1>2. IInv => OneThreadPerHeap
  <2> SUFFICES ASSUME IInv, NEW t \in Threads, NEW u \in Threads, t # u,
                      NEW h \in Touches(t) \cap Touches(u), h \notin lost
               PROVE  FALSE
    BY DEF OneThreadPerHeap
  <2>1. Working(t) /\ Working(u)
    BY DEF Touches
  <2>2. Home(h) = av(t) /\ Home(h) = av(u)
    BY <2>1, <1>1
  <2> QED BY <2>1, <2>2 DEF IInv, LocksOK
<1> QED BY <1>2, InvariantHolds, PTL

\* For any number of threads and any limit: the arenas never outnumber
\* MAX_ARENAS by as many as there are threads.
THEOREM ArenasStayBounded == Spec => []ArenasBounded
<1>1. IInv => ArenasBounded
  <2>1. Cardinality(Linking) \in Nat /\ Cardinality(Threads) \in Nat
    BY Bounds, FS_Subset, FS_CardinalityType DEF Linking
  <2> QED BY <2>1, Bounds DEF IInv, TypeOK, LinksOK, ArenasBounded
<1> QED BY <1>1, InvariantHolds, PTL

=============================================================================
