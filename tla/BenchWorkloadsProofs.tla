----------------------- MODULE BenchWorkloadsProofs -----------------------
(***************************************************************************)
(* The benchmark runner for every command line, every number of slots,     *)
(* workers and blocks, and every allocator that refuses when it likes.     *)
(* This module has the inductive invariant of BenchSession and shows that  *)
(* the passes of the workloads' loops, by the main thread or by worker     *)
(* threads, keep it, and that the programs made of these loops are tidy.   *)
(* BenchSessionProofs does the rest.                                       *)
(***************************************************************************)
EXTENDS BenchSession, FiniteSetTheorems, WellFoundedInduction, TLAPS

-----------------------------------------------------------------------------
(* Programs                                                                *)

OpNames == {"pair", "fill", "sweep", "random", "replace", "resize_or_drop", "resize_or_keep",
            "drift", "toggle", "produce", "consume"}
PartNames == {"all", "empty", "reverse", "first", "twice", "own", "victim", "stride", "one"}

Stages == [op : OpNames, counted : BOOLEAN, checked : BOOLEAN, iflive : BOOLEAN,
           publish : BOOLEAN, pay : {"none", "id", "chunk"}, part : PartNames]

\* Loops that overwrite pointers without looking, and loops that leave none.
NeedsEmpty(s) == s.op = "produce" \/ (s.op = "fill" /\ s.part # "empty")
Empties(s) == s.op = "consume" \/ (s.op = "sweep" /\ s.part # "first")

\* On entry to stage k every slot is empty: the stage before emptied them, or
\* they were empty when the program began and none has been used since.
EmptyAt(prog, k, fromEmpty) ==
  \/ k > 1 /\ Empties(prog[k - 1])
  \/ fromEmpty /\ (k = 1 \/ (k = 2 /\ prog[1].op = "pair"))

\* A program overwrites no pointer it still needs, the consumers of a "victim"
\* stage find what the producers before them made, and shares are well defined.
Tidy(prog, fromEmpty) ==
  \A k \in 1 .. Len(prog) :
    /\ NeedsEmpty(prog[k]) => EmptyAt(prog, k, fromEmpty)
    /\ prog[k].op = "produce" => prog[k].part \in {"own", "one"}
    /\ prog[k].op = "consume" => prog[k].part \in {"victim", "stride", "one"}
    /\ prog[k].op = "consume" /\ prog[k].part = "victim" =>
         k > 1 /\ prog[k - 1].op = "produce" /\ prog[k - 1].part = "own"

-----------------------------------------------------------------------------
(* What a workload holds                                                   *)

Objects == [size : Nat, fill : Nat]
Records == [ptr : Blocks \cup {Null}, size : Nat, seed : Nat]

\* The places a block can be held in: the slots, and the local variable of a
\* pair loop.
Hand == -1
Places == Slots \cup {Hand}

\* A slot whose block a consumer has freed still has the pointer.
Consumed(j) == At("consume") /\ \E t \in Threads : j \in done[t]

\* The block each place stands for.
Refs ==
  [n \in Places |->
     IF n = Hand THEN IF work.held THEN work.hand.ptr ELSE Null
     ELSE IF Consumed(n) THEN Null ELSE ptrs[n].ptr]

\* Every block a place stands for is live, and no two places share one.
Owns(h, r) ==
  /\ h \in [Blocks -> Objects \cup {Null}]
  /\ r \in [Places -> Blocks \cup {Null}]
  /\ \A n \in Places : r[n] # Null => h[r[n]] # Null
  /\ \A n, k \in Places : r[n] = r[k] /\ r[n] # Null => n = k

\* Live blocks nobody points to.
Lost(h, r) == {b \in Blocks : h[b] # Null /\ \A n \in Places : r[n] # b}

-----------------------------------------------------------------------------
(* The inductive invariant                                                 *)

Metrics(bytes) ==
  [allocs : Nat, frees : Nat, reallocs : Nat, remote : Nat, live_objects : Nat,
   live_bytes : {bytes}, checks : Nat, errors : Nat]
MetricsOK(mm) == mm \in Metrics(mm.live_bytes)

Works == [prog : Seq(Stages), stage : Nat \ {0}, i : Nat, held : BOOLEAN, hand : Records,
          id : Nat, rate : Nat, phase : PhaseKinds \cup {"idle"}, index : Int, count : Nat]

TypeOK ==
  /\ heap \in [Blocks -> Objects \cup {Null}] /\ invalid \in Nat /\ refused \in Nat
  /\ ptrs \in [Slots -> Records] /\ MetricsOK(m)
  /\ work \in Works
  /\ done \in [Threads -> SUBSET Slots]
  /\ cfg \in Configs /\ elapsed \in Nat

Working == main \in {"work", "run_phase", "run_tick", "cleanup"}

\* The running program began, or the next one begins, with empty slots: always,
\* except for the ticks of a realtime phase that keeps objects across its ticks.
FromEmpty ==
  main \in {"tick", "run_tick", "cleanup"} =>
    main # "cleanup" /\ (elapsed = 0 \/ work.phase = "RemoteFree")

KnownEmpty(k) == EmptyAt(work.prog, k, FromEmpty)
EmptySlots == \A j \in Slots : ptrs[j].ptr = Null

\* The program counter, and what the pass it stands at may rely on.
StageOK ==
  /\ work.stage <= Len(work.prog) + 1
  /\ work.held => At("pair")
  /\ \A t \in Threads : done[t] # {} =>
       (At("produce") \/ At("consume")) /\ done[t] \subseteq Share(t)
  /\ At("pair") /\ KnownEmpty(work.stage) => EmptySlots
  /\ At("fill") \/ At("sweep") => work.i < Passes
  /\ At("fill") /\ Stage.part # "empty" => \A j \in Slots : j >= work.i => ptrs[j].ptr = Null
  /\ At("sweep") => \A j \in Slots :
       (IF Stage.part = "reverse" THEN j > NSlots - 1 - work.i ELSE j < work.i) => ptrs[j].ptr = Null
  /\ At("produce") => \A j \in Slots : ptrs[j].ptr # Null => \E t \in Threads : j \in done[t]
  /\ At("consume") => \A j \in Slots : ptrs[j].ptr # Null => \E t \in Threads : j \in Share(t)
  /\ At("produce") \/ At("consume") => work.i = 0
  /\ ~ Running /\ KnownEmpty(work.stage) => EmptySlots

\* What is still to do: a benchmark, or a phase of one, that is under way is on
\* its list, and the lists hold only what the command line asks for.
Agenda ==
  /\ main \in {"tick", "run_tick", "cleanup"} => cfg.realtime
  /\ main \in {"tick", "run_tick", "cleanup", "run_phase"} => phases # << >>
  /\ Working \/ main \in {"identity", "starting", "phase", "tick"} => benches # << >>
  /\ benches \in Seq(Range(Chosen))
  /\ phases \in Seq(Range(WorkloadPhases))

\* Between programs nothing runs, and only a realtime phase between its ticks
\* holds anything.
MainOK ==
  /\ ~ Working => ~ Running /\ (FromEmpty => EmptySlots)
  /\ Working /\ (main = "run_tick" => work.phase = "RemoteFree") => KnownEmpty(Len(work.prog) + 1)
  /\ Agenda

\* debug_safety under the adaptive strategy frees twice on purpose.
Deliberate == cfg.adaptive /\ "debug_safety" \in Range(cfg.benches)
\* A diagnostic phase runs whose checks meet the wrong numbers.
Misnumbered ==
  /\ ~ cfg.realtime
  /\ Range(WorkloadPhases) \cap {"TinyCacheChurn", "MediumFragStrong", "RssDecayHold"} # {}

ProgOK ==
  /\ Working => Tidy(work.prog, FromEmpty)
  /\ \A k \in 1 .. Len(work.prog) :
       /\ work.prog[k].part = "twice" => Deliberate
       /\ work.prog[k].op = "random" => "random" \in Range(Chosen)
       /\ work.prog[k].checked =>
            (work.prog[k].op = "pair" /\ work.prog[k].pay = "chunk") \/ Misnumbered

HeapOK ==
  /\ Owns(heap, Refs)
  /\ Cardinality(Lost(heap, Refs)) <= refused
  /\ Lost(heap, Refs) # {} => "random" \in Range(Chosen)
  /\ work.held /\ Stage.pay = "chunk" /\ work.hand.ptr # Null =>
       heap[work.hand.ptr].fill = work.hand.seed

ServerOK ==
  /\ main \in {"load", "profile", "compare", "collect", "serve"} => fd = "closed" /\ srv = "none"
  /\ main = "load" => lib = "none"
  /\ main \in {"stop", "shutdown", "join", "close", "exit"} => lib # "open"
  /\ main \in {"close"} => srv \in {"none", "ended"}
  /\ main = "exit" => fd = "closed"
  /\ fd = "closed" => srv \in {"none", "ended"}

Counts == (invalid > 0 => Deliberate) /\ (m.errors > 0 => Misnumbered)

IInv == TypeOK /\ StageOK /\ MainOK /\ ProgOK /\ HeapOK /\ ServerOK /\ Counts

USE ZenonT(10), SMTT(20)

-----------------------------------------------------------------------------
(* The heap under the workloads' operations                                *)

\* Functions with the same values are equal.
LEMMA SameFunction ==
  ASSUME NEW S, NEW T, NEW f \in [S -> T], NEW g \in [S -> T], \A x \in S : f[x] = g[x]
  PROVE f = g
OBVIOUS

\* A new block, or none, in a place that held none.
LEMMA AllocOwns ==
  ASSUME NEW h, NEW r, Owns(h, r), NEW n \in Places, r[n] = Null,
         NEW b \in Blocks \cup {Null}, b # Null => h[b] = Null, NEW size \in Nat, NEW fill \in Nat
  PROVE /\ Owns(Put(h, b, size, fill), [r EXCEPT ![n] = b])
        /\ Lost(Put(h, b, size, fill), [r EXCEPT ![n] = b]) = Lost(h, r)
<1>1. PICK o : o = [size |-> size, fill |-> fill]
  OBVIOUS
<1>2. o \in Objects /\ o # Null /\ Null \notin Blocks
  BY <1>1, WorkloadConstants DEF Objects
<1>3. CASE b = Null
  <2>1. [r EXCEPT ![n] = b] = r
    BY <1>3 DEF Owns
  <2> QED BY <1>3, <2>1 DEF Put
<1>4. CASE b # Null
  <2>1. PICK g : g = [h EXCEPT ![b] = o]
    OBVIOUS
  <2>2. PICK q : q = [r EXCEPT ![n] = b]
    OBVIOUS
  <2>3. /\ h \in [Blocks -> Objects \cup {Null}] /\ r \in [Places -> Blocks \cup {Null}]
        /\ b \in Blocks /\ h[b] = Null
    BY <1>4 DEF Owns
  <2>4. /\ g \in [Blocks -> Objects \cup {Null}] /\ g[b] = o
        /\ \A c \in Blocks : c # b => g[c] = h[c]
    BY <2>1, <2>3, <1>2
  <2>5. /\ q \in [Places -> Blocks \cup {Null}] /\ q[n] = b
        /\ \A k \in Places : k # n => q[k] = r[k]
    BY <2>2, <2>3
  <2>6. \A k \in Places : r[k] # b
    BY <2>3, <1>4 DEF Owns
  <2>7. Owns(g, q)
    <3>1. \A k \in Places : q[k] # Null => g[q[k]] # Null
      BY <2>3, <2>4, <2>5, <1>2 DEF Owns
    <3>2. \A k, l \in Places : q[k] = q[l] /\ q[k] # Null => k = l
      BY <2>3, <2>5, <2>6, <1>2 DEF Owns
    <3> QED BY <2>4, <2>5, <3>1, <3>2 DEF Owns
  <2>8. Lost(g, q) = Lost(h, r)
    <3>1. ASSUME NEW c \in Blocks PROVE c \in Lost(g, q) <=> c \in Lost(h, r)
      <4>1. CASE c = b
        BY <4>1, <2>3, <2>5 DEF Lost
      <4>2. CASE c # b
        <5>1. g[c] = h[c]
          BY <4>2, <2>4
        <5>2. \A k \in Places : q[k] # c <=> r[k] # c
          BY <4>2, <2>5, <1>2
        <5> QED BY <5>1, <5>2 DEF Lost
      <4> QED BY <4>1, <4>2
    <3> QED BY <3>1 DEF Lost
  <2>9. Put(h, b, size, fill) = g
    BY <1>1, <1>4, <2>1 DEF Put
  <2> QED BY <2>2, <2>7, <2>8, <2>9
<1> QED BY <1>3, <1>4

\* A place's block is freed: it was live, and nothing else is lost.
LEMMA FreeOwns ==
  ASSUME NEW h, NEW r, Owns(h, r), NEW n \in Places
  PROVE /\ Misuse(h, r[n]) = 0
        /\ Owns(Drop(h, r[n]), [r EXCEPT ![n] = Null])
        /\ Lost(Drop(h, r[n]), [r EXCEPT ![n] = Null]) = Lost(h, r)
        /\ [r EXCEPT ![n] = Null][n] = Null
        /\ r[n] # Null => r[n] \in Blocks /\ Drop(h, r[n])[r[n]] = Null
<1>1. /\ h \in [Blocks -> Objects \cup {Null}] /\ r \in [Places -> Blocks \cup {Null}]
      /\ Null \notin Blocks
  BY WorkloadConstants DEF Owns
<1>2. Misuse(h, r[n]) = 0
  BY DEF Owns, Misuse
<1>3. [r EXCEPT ![n] = Null][n] = Null
  BY <1>1
<1>4. CASE r[n] = Null
  <2>1. [r EXCEPT ![n] = Null] = r
    BY <1>1, <1>4
  <2> QED BY <1>2, <1>3, <1>4, <2>1 DEF Drop
<1>5. CASE r[n] # Null
  <2>1. PICK g : g = [h EXCEPT ![r[n]] = Null]
    OBVIOUS
  <2>2. PICK q : q = [r EXCEPT ![n] = Null]
    OBVIOUS
  <2>3. r[n] \in Blocks
    BY <1>1, <1>5
  <2>4. /\ g \in [Blocks -> Objects \cup {Null}] /\ g[r[n]] = Null
        /\ \A c \in Blocks : c # r[n] => g[c] = h[c]
    BY <1>1, <2>1, <2>3
  <2>5. /\ q \in [Places -> Blocks \cup {Null}] /\ q[n] = Null
        /\ \A k \in Places : k # n => q[k] = r[k]
    BY <1>1, <2>2
  <2>6. \A k \in Places : r[k] = r[n] => k = n
    BY <1>5 DEF Owns
  <2>7. Owns(g, q)
    <3>1. \A k \in Places : q[k] # Null => k # n /\ q[k] = r[k] /\ r[k] # r[n] /\ r[k] \in Blocks
      BY <1>1, <2>5, <2>6
    <3>2. \A k \in Places : q[k] # Null => g[q[k]] # Null
      BY <3>1, <2>4 DEF Owns
    <3>3. \A k, l \in Places : q[k] = q[l] /\ q[k] # Null => k = l
      BY <3>1 DEF Owns
    <3> QED BY <2>4, <2>5, <3>2, <3>3 DEF Owns
  <2>8. Lost(g, q) = Lost(h, r)
    <3>1. ASSUME NEW c \in Blocks PROVE c \in Lost(g, q) <=> c \in Lost(h, r)
      <4>1. CASE c = r[n]
        BY <4>1, <2>4 DEF Lost
      <4>2. CASE c # r[n]
        <5>1. g[c] = h[c]
          BY <4>2, <2>4
        <5>2. \A k \in Places : q[k] # c <=> r[k] # c
          BY <4>2, <2>5, <1>1
        <5> QED BY <5>1, <5>2 DEF Lost
      <4> QED BY <4>1, <4>2
    <3> QED BY <3>1 DEF Lost
  <2>9. Drop(h, r[n]) = g
    BY <1>5, <2>1 DEF Drop
  <2> QED BY <1>2, <1>3, <2>2, <2>3, <2>4, <2>7, <2>8, <2>9
<1> QED BY <1>4, <1>5

\* A place's block is resized, in place or to a block that was not live.
LEMMA MoveOwns ==
  ASSUME NEW h, NEW r, Owns(h, r), NEW n \in Places, NEW b \in Blocks,
         b = r[n] \/ h[b] = Null, NEW size \in Nat
  PROVE /\ Owns(Moved(h, r[n], b, size), [r EXCEPT ![n] = b])
        /\ Lost(Moved(h, r[n], b, size), [r EXCEPT ![n] = b]) = Lost(h, r)
<1>1. PICK g : g = Drop(h, r[n])
  OBVIOUS
<1>2. PICK q : q = [r EXCEPT ![n] = Null]
  OBVIOUS
<1>3. PICK fill : fill = IF r[n] = Null THEN 0 ELSE h[r[n]].fill
  OBVIOUS
<1>4. /\ h \in [Blocks -> Objects \cup {Null}] /\ r \in [Places -> Blocks \cup {Null}]
      /\ b # Null /\ (r[n] # Null => h[r[n]] # Null)
  BY WorkloadConstants DEF Owns
<1>5. fill \in Nat
  BY <1>3, <1>4 DEF Objects
<1>6. Owns(g, q) /\ Lost(g, q) = Lost(h, r) /\ q[n] = Null
  BY <1>1, <1>2, FreeOwns
<1>7. g[b] = Null
  <2>1. CASE b = r[n]
    <3>1. r[n] # Null
      BY <2>1, <1>4
    <3>2. Drop(h, r[n])[r[n]] = Null
      BY <2>1, <3>1, <1>4 DEF Drop
    <3> QED BY <2>1, <3>2, <1>1
  <2>2. CASE b # r[n] /\ h[b] = Null
    BY <2>2, <1>1, <1>4 DEF Drop
  <2> QED BY <2>1, <2>2
<1>8. /\ Owns(Put(g, b, size, fill), [q EXCEPT ![n] = b])
      /\ Lost(Put(g, b, size, fill), [q EXCEPT ![n] = b]) = Lost(g, q)
  BY <1>5, <1>6, <1>7, AllocOwns
<1>9. [q EXCEPT ![n] = b] = [r EXCEPT ![n] = b]
  BY <1>2, <1>4
<1>10. Moved(h, r[n], b, size) = Put(g, b, size, fill)
  BY <1>1, <1>3, <1>4 DEF Moved
<1> QED BY <1>6, <1>8, <1>9, <1>10

\* A place forgets its block: at most that one is lost.
LEMMA ForgetOwns ==
  ASSUME NEW h, NEW r, Owns(h, r), NEW n \in Places
  PROVE /\ Owns(h, [r EXCEPT ![n] = Null])
        /\ Lost(h, [r EXCEPT ![n] = Null]) \subseteq Lost(h, r) \cup {r[n]}
<1>1. PICK q : q = [r EXCEPT ![n] = Null]
  OBVIOUS
<1>2. h \in [Blocks -> Objects \cup {Null}] /\ r \in [Places -> Blocks \cup {Null}]
  BY DEF Owns
<1>3. /\ q \in [Places -> Blocks \cup {Null}] /\ q[n] = Null
      /\ \A k \in Places : k # n => q[k] = r[k]
  BY <1>1, <1>2
<1>4. Owns(h, q)
  BY <1>2, <1>3 DEF Owns
<1>5. \A c \in Lost(h, q) : c \in Lost(h, r) \/ c = r[n]
  BY <1>3 DEF Lost
<1> QED BY <1>1, <1>4, <1>5

\* Losing at most one more block.
LEMMA LostCount ==
  ASSUME NEW S, S \subseteq Blocks, NEW T, T \subseteq Blocks, NEW x \in Blocks, T \subseteq S \cup {x}
  PROVE /\ Cardinality(S) \in Nat /\ Cardinality(T) \in Nat
        /\ Cardinality(T) <= Cardinality(S) + 1
<1>1. IsFiniteSet(S) /\ IsFiniteSet(T) /\ IsFiniteSet(S \cup {x})
  BY WorkloadConstants, FS_Subset, FS_AddElement
<1>2. Cardinality(S \cup {x}) <= Cardinality(S) + 1
  BY <1>1, FS_AddElement, FS_CardinalityType, SMT
<1>3. Cardinality(T) <= Cardinality(S \cup {x})
  BY <1>1, FS_Subset
<1>4. /\ Cardinality(S) \in Nat /\ Cardinality(T) \in Nat /\ Cardinality(S \cup {x}) \in Nat
  BY <1>1, FS_CardinalityType
<1> QED BY <1>2, <1>3, <1>4, SMT

\* The old block goes before the new one comes.
LEMMA ReplaceOwns ==
  ASSUME NEW h, NEW r, Owns(h, r), NEW n \in Places, NEW b \in Blocks \cup {Null},
         b # Null => Drop(h, r[n])[b] = Null, NEW size \in Nat, NEW fill \in Nat
  PROVE /\ Owns(Put(Drop(h, r[n]), b, size, fill), [r EXCEPT ![n] = b])
        /\ Lost(Put(Drop(h, r[n]), b, size, fill), [r EXCEPT ![n] = b]) = Lost(h, r)
<1>1. PICK g : g = Drop(h, r[n])
  OBVIOUS
<1>2. PICK q : q = [r EXCEPT ![n] = Null]
  OBVIOUS
<1>3. Owns(g, q) /\ Lost(g, q) = Lost(h, r) /\ q[n] = Null
  BY <1>1, <1>2, FreeOwns
<1>4. b # Null => g[b] = Null
  BY <1>1
<1>5. /\ Owns(Put(g, b, size, fill), [q EXCEPT ![n] = b])
      /\ Lost(Put(g, b, size, fill), [q EXCEPT ![n] = b]) = Lost(g, q)
  BY <1>3, <1>4, AllocOwns
<1>6. [q EXCEPT ![n] = b] = [r EXCEPT ![n] = b]
  BY <1>2 DEF Owns
<1> QED BY <1>1, <1>3, <1>5, <1>6

\* The new block comes first, and is another one.
LEMMA DropPut ==
  ASSUME NEW h, NEW r, Owns(h, r), NEW n \in Places, NEW b \in Blocks \cup {Null},
         b # Null => h[b] = Null, NEW size \in Nat, NEW fill \in Nat
  PROVE /\ Drop(Put(h, b, size, fill), r[n]) = Put(Drop(h, r[n]), b, size, fill)
        /\ b # Null => Drop(h, r[n])[b] = Null
<1>1. /\ h \in [Blocks -> Objects \cup {Null}] /\ r[n] \in Blocks \cup {Null}
      /\ r[n] # Null => h[r[n]] # Null
  BY DEF Owns
<1>2. CASE b = Null \/ r[n] = Null
  BY <1>1, <1>2 DEF Put, Drop
<1>3. CASE b # Null /\ r[n] # Null
  <2>1. b # r[n] /\ b \in Blocks /\ r[n] \in Blocks
    BY <1>1, <1>3
  <2>2. PICK o : o = [size |-> size, fill |-> fill]
    OBVIOUS
  <2>3. PICK old : old = r[n]
    OBVIOUS
  <2>4. [[h EXCEPT ![b] = o] EXCEPT ![old] = Null] = [[h EXCEPT ![old] = Null] EXCEPT ![b] = o]
    <3>1. PICK f1 : f1 = [h EXCEPT ![b] = o]
      OBVIOUS
    <3>2. PICK f2 : f2 = [h EXCEPT ![old] = Null]
      OBVIOUS
    <3>3. o \in Objects
      BY <2>2 DEF Objects
    <3>4. f1 \in [Blocks -> Objects \cup {Null}] /\ f2 \in [Blocks -> Objects \cup {Null}]
      BY <1>1, <2>1, <2>3, <3>1, <3>2, <3>3
    <3>5. PICK g1 : g1 = [f1 EXCEPT ![old] = Null]
      OBVIOUS
    <3>6. PICK g2 : g2 = [f2 EXCEPT ![b] = o]
      OBVIOUS
    <3>7. g1 \in [Blocks -> Objects \cup {Null}] /\ g2 \in [Blocks -> Objects \cup {Null}]
      BY <2>1, <2>3, <3>3, <3>4, <3>5, <3>6
    <3>8. \A c \in Blocks : g1[c] = g2[c]
      BY <1>1, <2>1, <2>3, <3>1, <3>2, <3>4, <3>5, <3>6
    <3>9. g1 = g2
      BY <3>7, <3>8, SameFunction
    <3> QED BY <3>1, <3>2, <3>5, <3>6, <3>9
  <2>5. [h EXCEPT ![old] = Null][b] = Null
    BY <1>1, <1>3, <2>1, <2>3
  <2> QED BY <1>3, <2>2, <2>3, <2>4, <2>5 DEF Put, Drop
<1> QED BY <1>2, <1>3

\* A moved block whose bytes are then written.
LEMMA PutMoved ==
  ASSUME NEW h, NEW r, Owns(h, r), NEW n \in Places, NEW b \in Blocks,
         b = r[n] \/ h[b] = Null, NEW size \in Nat, NEW fill \in Nat
  PROVE /\ Put(Moved(h, r[n], b, size), b, size, fill) = Put(Drop(h, r[n]), b, size, fill)
        /\ Drop(h, r[n])[b] = Null
<1>1. /\ h \in [Blocks -> Objects \cup {Null}] /\ r[n] \in Blocks \cup {Null} /\ b # Null
  BY WorkloadConstants DEF Owns
<1>2. PICK g : g = Drop(h, r[n])
  OBVIOUS
<1>3. PICK o : o = [size |-> size, fill |-> fill]
  OBVIOUS
<1>4. PICK o2 : o2 = [size |-> size, fill |-> IF r[n] = Null THEN 0 ELSE h[r[n]].fill]
  OBVIOUS
<1>5. g \in [Blocks -> Objects \cup {Null}]
  BY <1>1, <1>2 DEF Drop
<1>6. [[g EXCEPT ![b] = o2] EXCEPT ![b] = o] = [g EXCEPT ![b] = o]
  <2>1. PICK T : T = Objects \cup {Null, o, o2}
    OBVIOUS
  <2>2. g \in [Blocks -> T] /\ o \in T /\ o2 \in T
    BY <1>5, <2>1
  <2>3. PICK g1 : g1 = [g EXCEPT ![b] = o2]
    OBVIOUS
  <2>4. g1 \in [Blocks -> T]
    BY <2>2, <2>3
  <2>5. [g1 EXCEPT ![b] = o] \in [Blocks -> T] /\ [g EXCEPT ![b] = o] \in [Blocks -> T]
    BY <2>2, <2>4
  <2>6. \A c \in Blocks : [g1 EXCEPT ![b] = o][c] = [g EXCEPT ![b] = o][c]
    BY <2>2, <2>3, <2>4
  <2>7. [g1 EXCEPT ![b] = o] = [g EXCEPT ![b] = o]
    BY <2>5, <2>6, SameFunction
  <2> QED BY <2>3, <2>7
<1>7. g[b] = Null
  BY <1>1, <1>2 DEF Drop
<1> QED BY <1>1, <1>2, <1>3, <1>4, <1>6, <1>7 DEF Put, Moved

-----------------------------------------------------------------------------
(* The program counter, records and metrics                                *)

\* A running program is at one of its stages.
LEMMA StageType ==
  ASSUME TypeOK, Running
  PROVE work.stage \in 1 .. Len(work.prog) /\ Stage \in Stages
<1>1. work.prog \in Seq(Stages) /\ work.stage \in Nat \ {0}
  BY DEF TypeOK, Works
<1>2. work.stage \in 1 .. Len(work.prog)
  BY <1>1, SMT DEF Running
<1> QED BY <1>1, <1>2, SMT DEF Stage

\* What Passed changes: the pass, or at the last pass the stage.
LEMMA PassedFields ==
  ASSUME NEW w \in Works
  PROVE /\ Passed(w) \in Works
        /\ Passed(w).prog = w.prog /\ Passed(w).phase = w.phase
        /\ Passed(w).held = w.held /\ Passed(w).hand = w.hand
        /\ w.i + 1 < Passes => Passed(w).stage = w.stage /\ Passed(w).i = w.i + 1
        /\ ~ (w.i + 1 < Passes) => Passed(w).stage = w.stage + 1 /\ Passed(w).i = 0
<1>1. w.i + 1 \in Nat /\ w.stage + 1 \in Nat \ {0} /\ 0 \in Nat
  BY SMT DEF Works
<1>2. [w EXCEPT !.i = w.i + 1] \in Works
  BY <1>1 DEF Works
<1>3. [w EXCEPT !.stage = w.stage + 1, !.i = 0] \in Works
  BY <1>1 DEF Works
<1> QED BY <1>2, <1>3, SMT DEF Passed, Works

\* Numbered changes the number of the next record only.
LEMMA NumberedFields ==
  ASSUME NEW w \in Works
  PROVE /\ Numbered(w) \in Works
        /\ Numbered(w).prog = w.prog /\ Numbered(w).phase = w.phase
        /\ Numbered(w).held = w.held /\ Numbered(w).hand = w.hand
        /\ Numbered(w).stage = w.stage /\ Numbered(w).i = w.i
<1>1. [w EXCEPT !.id = w.id + 1] \in Works
  BY SMT DEF Works
<1> QED BY <1>1, SMT DEF Numbered, Works

\* What a pass writes and records; a chunk records what it writes.
LEMMA RecordType ==
  ASSUME TypeOK, NEW b \in Blocks \cup {Null}, NEW size \in Nat
  PROVE /\ Written \in Nat /\ Record(b, size) \in Records /\ Record(b, size).ptr = b
        /\ Stage.pay = "chunk" => Record(b, size).seed = Written
<1>1. work.id \in Nat /\ m.allocs \in Nat
  BY SMT DEF TypeOK, Works, MetricsOK, Metrics
<1>2. Written \in Nat /\ RecordedSeed \in Nat
  BY <1>1, SMT DEF Written, RecordedSeed
<1>3. Stage.pay = "chunk" => RecordedSeed = Written
  BY DEF RecordedSeed
<1> QED BY <1>2, <1>3, SMT DEF Record, Records

\* The value of an unused slot.
LEMMA EmptyType == Empty \in Records /\ Empty.ptr = Null
BY SMT DEF Empty, Records

\* Counting keeps the types of the figures and reports no error.
LEMMA AllocatedOK ==
  ASSUME NEW mm, MetricsOK(mm), NEW n \in Nat, NEW bytes
  PROVE MetricsOK(Allocated(mm, n, bytes)) /\ Allocated(mm, n, bytes).errors = mm.errors
<1>1. PICK v : v = mm.live_bytes + bytes
  OBVIOUS
<1>2. mm.allocs + n \in Nat /\ mm.live_objects + n \in Nat
  BY SMT DEF MetricsOK, Metrics
<1>3. PICK new : new = [mm EXCEPT !.allocs = mm.allocs + n, !.live_objects = mm.live_objects + n,
                                  !.live_bytes = v]
  OBVIOUS
<1>4. new \in Metrics(v)
  BY <1>2, <1>3 DEF MetricsOK, Metrics
<1>5. new.live_bytes = v /\ new.errors = mm.errors
  BY <1>3 DEF MetricsOK, Metrics
<1>6. Allocated(mm, n, bytes) = new
  BY <1>1, <1>3 DEF Allocated
<1> QED BY <1>4, <1>5, <1>6 DEF MetricsOK

\* Likewise for frees, whose subtractions stop at zero.
LEMMA FreedOK ==
  ASSUME NEW mm, MetricsOK(mm), NEW n \in Nat, NEW bytes, NEW remote \in Nat
  PROVE MetricsOK(Freed(mm, n, bytes, remote)) /\ Freed(mm, n, bytes, remote).errors = mm.errors
<1>1. PICK v : v = Minus(mm.live_bytes, bytes)
  OBVIOUS
<1>2. PICK o : o = Minus(mm.live_objects, n)
  OBVIOUS
<1>3. mm.frees + n \in Nat /\ mm.remote + remote \in Nat /\ o \in Nat
  BY <1>2, SMT DEF MetricsOK, Metrics, Minus
<1>4. PICK new : new = [mm EXCEPT !.frees = mm.frees + n, !.remote = mm.remote + remote,
                                  !.live_objects = o, !.live_bytes = v]
  OBVIOUS
<1>5. new \in Metrics(v)
  BY <1>3, <1>4 DEF MetricsOK, Metrics
<1>6. new.live_bytes = v /\ new.errors = mm.errors
  BY <1>4 DEF MetricsOK, Metrics
<1>7. Freed(mm, n, bytes, remote) = new
  BY <1>1, <1>2, <1>4 DEF Freed
<1> QED BY <1>5, <1>6, <1>7 DEF MetricsOK

\* Likewise for metrics_realloc.
LEMMA ReallocOK ==
  ASSUME NEW mm, MetricsOK(mm), NEW old, NEW size
  PROVE MetricsOK(metrics_realloc(mm, old, size)) /\ metrics_realloc(mm, old, size).errors = mm.errors
<1>1. PICK v : v = Minus(mm.live_bytes, old) + size
  OBVIOUS
<1>2. mm.reallocs + 1 \in Nat
  BY SMT DEF MetricsOK, Metrics
<1>3. PICK new : new = [mm EXCEPT !.reallocs = mm.reallocs + 1, !.live_bytes = v]
  OBVIOUS
<1>4. new \in Metrics(v)
  BY <1>2, <1>3 DEF MetricsOK, Metrics
<1>5. new.live_bytes = v /\ new.errors = mm.errors
  BY <1>3 DEF MetricsOK, Metrics
<1>6. metrics_realloc(mm, old, size) = new
  BY <1>1, <1>3 DEF metrics_realloc
<1> QED BY <1>4, <1>5, <1>6 DEF MetricsOK

\* A payload check adds an error only if it looks at a payload that differs.
LEMMA CheckOK ==
  ASSUME MetricsOK(m), NEW rec
  PROVE /\ MetricsOK(IfChecked(rec))
        /\ (~ Stage.checked \/ rec.ptr = Null \/ payload_check(rec)) => IfChecked(rec).errors = m.errors
<1>1. PICK e : e = IF payload_check(rec) THEN m.errors ELSE m.errors + 1
  OBVIOUS
<1>2. e \in Nat /\ (payload_check(rec) => e = m.errors) /\ m.checks + 1 \in Nat
  BY <1>1, SMT DEF MetricsOK, Metrics
<1>3. PICK mm : mm = [m EXCEPT !.checks = m.checks + 1, !.errors = e]
  OBVIOUS
<1>4. mm \in Metrics(m.live_bytes)
  BY <1>2, <1>3 DEF MetricsOK, Metrics
<1>5. mm.errors = e /\ mm.live_bytes = m.live_bytes
  BY <1>3 DEF MetricsOK, Metrics
<1>6. IfChecked(rec) \in {m, mm}
  BY <1>1, <1>3 DEF IfChecked, validation_check_record
<1>7. (~ Stage.checked \/ rec.ptr = Null) => IfChecked(rec) = m
  BY DEF IfChecked, validation_check_record
<1> QED BY <1>2, <1>4, <1>5, <1>6, <1>7 DEF MetricsOK

-----------------------------------------------------------------------------
(* The workers' shares                                                     *)

\* The slot a worker takes next is one of those it has left.
LEMMA MinIn ==
  ASSUME NEW S, S \subseteq Nat, S # {}
  PROVE Min(S) \in S
<1>1. PICK x \in S : \A y \in S : ~ (<<y, x>> \in OpToRel(<, Nat))
  BY NatLessThanWellFounded, WFMin
<1>2. ASSUME NEW y \in S PROVE x <= y
  <2>1. x \in Nat /\ y \in Nat
    OBVIOUS
  <2>2. CASE y < x
    <3>1. <<y, x>> \in {ss \in Nat \X Nat : ss[1] < ss[2]}
      BY <2>1, <2>2, SMT
    <3>2. <<y, x>> \in OpToRel(<, Nat)
      BY <3>1, Zenon DEF OpToRel
    <3> QED BY <1>1, <3>2
  <2> QED BY <2>1, <2>2, SMT
<1> QED BY <1>2 DEF Min

\* Quotient and remainder of a natural number.
LEMMA DivMod ==
  ASSUME NEW a \in Nat, NEW w \in Nat \ {0}
  PROVE a = w * (a \div w) + (a % w) /\ a % w \in 0 .. w - 1 /\ a \div w \in Nat
BY SMT

\* The remainder of a number below twice the divisor (the worker before this one).
LEMMA ModOnce ==
  ASSUME NEW a \in Nat, NEW w \in Nat \ {0}, a < w + w
  PROVE a % w = IF a < w THEN a ELSE a - w
<1>1. PICK q : q = a \div w
  OBVIOUS
<1>2. PICK r : r = a % w
  OBVIOUS
<1>3. a = w * q + r /\ r \in 0 .. w - 1 /\ q \in Nat
  BY <1>1, <1>2, DivMod
<1>4. q = 0 \/ q = 1 \/ q >= 2
  BY <1>3, SMT
<1>5. CASE q = 0
  BY <1>2, <1>3, <1>5, SMT
<1>6. CASE q = 1
  BY <1>2, <1>3, <1>6, SMT
<1>7. CASE q >= 2
  <2>1. PICK d \in Nat : q = 2 + d
    <3>1. q - 2 \in Nat /\ q = 2 + (q - 2)
      BY <1>3, <1>7, SMT
    <3> QED BY <3>1
  <2>2. w * q = w + w + w * d /\ w * d >= 0
    BY <2>1, SMT
  <2> QED BY <1>3, <2>2, SMT
<1> QED BY <1>4, <1>5, <1>6, <1>7

\* The victim of worker t is the worker before it.
LEMMA Victim ==
  ASSUME NEW t \in Threads
  PROVE (t + Workers - 1) % Workers = IF t = 0 THEN Workers - 1 ELSE t - 1
<1>1. Workers \in Nat \ {0} /\ t \in Nat /\ t < Workers
  BY WorkloadConstants, SMT DEF Threads
<1>2. PICK a : a = t + Workers - 1
  OBVIOUS
<1>3. a \in Nat /\ a < Workers + Workers /\ (a < Workers <=> t = 0)
  BY <1>1, <1>2, SMT
<1>4. a % Workers = IF a < Workers THEN a ELSE a - Workers
  BY <1>1, <1>3, ModOnce
<1> QED BY <1>1, <1>2, <1>3, <1>4, SMT

\* No two workers share a slot.
LEMMA SharesApart ==
  ASSUME NEW t \in Threads, NEW u \in Threads, NEW j, j \in Share(t), j \in Share(u),
         Stage.part \in {"own", "victim", "stride", "one"}
  PROVE t = u /\ j \in Slots
<1>1. CASE Stage.part = "own"
  BY <1>1 DEF Share, Owned
<1>2. CASE Stage.part = "victim"
  <2>1. (t + Workers - 1) % Workers = (u + Workers - 1) % Workers /\ j \in Slots
    BY <1>2 DEF Share, Owned
  <2>2. Workers \in Nat \ {0} /\ t \in 0 .. Workers - 1 /\ u \in 0 .. Workers - 1
    BY WorkloadConstants DEF Threads
  <2>3. (IF t = 0 THEN Workers - 1 ELSE t - 1) = (IF u = 0 THEN Workers - 1 ELSE u - 1)
    BY <2>1, Victim
  <2>4. t = u
    BY <2>2, <2>3, SMT
  <2> QED BY <2>1, <2>4
<1>3. CASE Stage.part = "stride"
  BY <1>3 DEF Share
<1>4. CASE Stage.part = "one"
  BY <1>4 DEF Share
<1> QED BY <1>1, <1>2, <1>3, <1>4

\* Every slot is in somebody's share, in the stages that have a stride or one worker.
LEMMA SharesCover ==
  ASSUME NEW j \in Slots, Stage.part \in {"stride", "one"}
  PROVE \E t \in Threads : j \in Share(t)
<1>1. j \in Nat /\ Workers \in Nat \ {0} /\ 0 \in Threads
  BY WorkloadConstants, SMT DEF Slots, Threads
<1>2. j % Workers \in Threads
  BY <1>1, DivMod DEF Threads
<1>3. CASE Stage.part = "stride"
  BY <1>2, <1>3 DEF Share
<1>4. CASE Stage.part = "one"
  BY <1>1, <1>4 DEF Share
<1> QED BY <1>3, <1>4

\* Each worker's own slots are some worker's victims.
LEMMA VictimsCover ==
  ASSUME NEW t \in Threads
  PROVE \E u \in Threads : Owned((u + Workers - 1) % Workers) = Owned(t)
<1>1. Workers \in Nat \ {0} /\ t \in 0 .. Workers - 1
  BY WorkloadConstants DEF Threads
<1>2. PICK u : u = IF t = Workers - 1 THEN 0 ELSE t + 1
  OBVIOUS
<1>3. u \in Threads /\ (IF u = 0 THEN Workers - 1 ELSE u - 1) = t
  BY <1>1, <1>2, SMT DEF Threads
<1>4. (u + Workers - 1) % Workers = t
  BY <1>3, Victim
<1> QED BY <1>3, <1>4

-----------------------------------------------------------------------------
(* A loop begins                                                           *)

\* A loop over the slots makes at least one pass.
LEMMA PassesPositive == (Stage.op = "fill" \/ Stage.op = "sweep") => Passes \in Nat \ {0}
<1>1. NSlots \in Nat /\ NSlots >= 2
  BY WorkloadConstants
<1>2. (NSlots * 9) \div 10 \in Nat \ {0} /\ NSlots \in Nat \ {0}
  BY <1>1, SMT
<1> QED BY <1>2 DEF Passes

\* The first pass of a loop, or the end of the program.
Entered ==
  /\ TypeOK /\ Tidy(work.prog, FromEmpty)
  /\ work.stage <= Len(work.prog) + 1 /\ work.i = 0 /\ ~ work.held
  /\ \A t \in Threads : done[t] = {}
  /\ KnownEmpty(work.stage) => EmptySlots
  /\ At("consume") /\ Stage.part = "victim" =>
       \A j \in Slots : ptrs[j].ptr # Null => \E t \in Threads : j \in Share(t)

\* At the first pass of a stage its invariant follows from what the stage before left.
LEMMA EnterStage == Entered => StageOK
<1> SUFFICES ASSUME Entered PROVE StageOK
  OBVIOUS
<1>1. ASSUME Running
      PROVE /\ NeedsEmpty(Stage) => EmptySlots
            /\ Stage.op = "consume" => Stage.part \in {"victim", "stride", "one"}
  <2>1. work.stage \in 1 .. Len(work.prog)
    BY <1>1, StageType DEF Entered
  <2> QED BY <2>1 DEF Entered, Tidy, Stage, KnownEmpty
<1>2. At("fill") \/ At("sweep") => work.i < Passes
  BY PassesPositive, SMT DEF Entered, At
<1>3. At("fill") /\ Stage.part # "empty" => \A j \in Slots : j >= work.i => ptrs[j].ptr = Null
  BY <1>1 DEF At, NeedsEmpty, EmptySlots
<1>4. At("sweep") => \A j \in Slots :
       (IF Stage.part = "reverse" THEN j > NSlots - 1 - work.i ELSE j < work.i) => ptrs[j].ptr = Null
  <2>1. work.i = 0 /\ NSlots \in Nat /\ \A j \in Slots : j \in 0 .. NSlots - 1
    BY WorkloadConstants DEF Entered, Slots
  <2>2. \A j \in Slots : ~ (j > NSlots - 1 - work.i) /\ ~ (j < work.i)
    BY <2>1, SMT
  <2> QED BY <2>2
<1>5. At("produce") => EmptySlots
  BY <1>1 DEF At, NeedsEmpty
<1>6. At("consume") => \A j \in Slots : ptrs[j].ptr # Null => \E t \in Threads : j \in Share(t)
  BY <1>1, SharesCover DEF At, Entered
<1> QED BY <1>2, <1>3, <1>4, <1>5, <1>6 DEF StageOK, Entered, EmptySlots

-----------------------------------------------------------------------------
(* A pass of a loop                                                        *)

\* What every step of a workload leaves alone.
InWork ==
  /\ UNCHANGED <<mainVars, serverVars>>
  /\ work'.prog = work.prog /\ work'.phase = work.phase

\* A pass of a loop leaves what concerns the main thread and the server alone.
LEMMA WorkFrame ==
  ASSUME IInv, Running, InWork, TypeOK', StageOK', HeapOK',
         invalid' > 0 => invalid > 0 \/ Deliberate, m'.errors > 0 => m.errors > 0 \/ Misnumbered
  PROVE IInv'
<1>1. UNCHANGED <<cfg, main, benches, phases, elapsed, lib, fd, running, srv>>
  BY DEF InWork, mainVars, serverVars
<1>2. Working' = Working /\ FromEmpty' = FromEmpty /\ Deliberate' = Deliberate
  BY <1>1 DEF InWork, Working, FromEmpty, Deliberate
<1>3. Chosen' = Chosen /\ WorkloadPhases' = WorkloadPhases
  BY <1>1 DEF Chosen, WorkloadPhases
<1>4. Misnumbered' = Misnumbered
  BY <1>1, <1>3 DEF Misnumbered
<1>5. Working
  BY DEF IInv, MainOK
<1>6. MainOK'
  BY <1>1, <1>2, <1>3, <1>5 DEF IInv, MainOK, Agenda, KnownEmpty, InWork
<1>7. ProgOK'
  BY <1>1, <1>2, <1>3, <1>4 DEF IInv, ProgOK, InWork
<1>8. ServerOK'
  BY <1>1 DEF IInv, ServerOK
<1>9. Counts'
  BY <1>2, <1>4 DEF IInv, Counts
<1> QED BY <1>6, <1>7, <1>8, <1>9 DEF IInv

\* While no worker has begun, a slot stands for the block it points to.
NoneDone == \A t \in Threads : done[t] = {}
\* Outside the loops of the workers every slot stands for its pointer.
LEMMA PlainRefs ==
  NoneDone => /\ Refs[Hand] = IF work.held THEN work.hand.ptr ELSE Null
              /\ \A j \in Slots : Refs[j] = ptrs[j].ptr
              /\ DOMAIN Refs = Places /\ Hand \notin Slots /\ Slots \subseteq Places /\ Hand \in Places
<1>1. \A j \in Slots : j # Hand
  BY WorkloadConstants, SMT DEF Slots, Hand
<1>2. \A j \in Slots : NoneDone => ~ Consumed(j)
  BY DEF NoneDone, Consumed
<1> QED BY <1>1, <1>2 DEF Refs, Places

\* The heap after a step on one place.
LEMMA OnePlace ==
  ASSUME Owns(heap, Refs), NEW n \in Places, NEW p,
         Refs'[n] = p, \A k \in Places \ {n} : Refs'[k] = Refs[k]
  PROVE Refs' = [Refs EXCEPT ![n] = p]
<1>1. Refs \in [Places -> Blocks \cup {Null}]
  BY DEF Owns
<1>2. DOMAIN Refs' = Places /\ Refs' = [k \in Places |-> Refs'[k]]
  BY DEF Refs
<1>3. [Refs EXCEPT ![n] = p] = [k \in Places |-> IF k = n THEN p ELSE Refs[k]]
  BY <1>1
<1>4. \A k \in Places : Refs'[k] = IF k = n THEN p ELSE Refs[k]
  OBVIOUS
<1>5. [k \in Places |-> Refs'[k]] = [k \in Places |-> IF k = n THEN p ELSE Refs[k]]
  BY <1>4
<1> QED BY <1>2, <1>3, <1>5

\* The blocks lost after a step: none of its own, or one refused by
\* random_workload's reallocate.
LEMMA HeapAfter ==
  ASSUME IInv, InWork, TypeOK', NEW r, Refs' = r, Owns(heap', r),
         \/ Lost(heap', r) = Lost(heap, Refs) /\ refused' >= refused
         \/ /\ "random" \in Range(Chosen) /\ refused' = refused + 1
            /\ \E x \in Blocks : Lost(heap', r) \subseteq Lost(heap, Refs) \cup {x},
         work'.held /\ Stage'.pay = "chunk" /\ work'.hand.ptr # Null =>
           heap'[work'.hand.ptr].fill = work'.hand.seed
  PROVE HeapOK'
<1>1. Chosen' = Chosen
  BY DEF InWork, mainVars, Chosen
<1>2. /\ Lost(heap, Refs) \subseteq Blocks /\ Lost(heap', r) \subseteq Blocks
      /\ refused \in Nat /\ refused' \in Nat
  BY DEF IInv, TypeOK, Lost
<1>3. /\ Cardinality(Lost(heap, Refs)) <= refused
      /\ Lost(heap, Refs) # {} => "random" \in Range(Chosen)
  BY DEF IInv, HeapOK
<1>4. Cardinality(Lost(heap', r)) <= refused' /\ (Lost(heap', r) # {} => "random" \in Range(Chosen))
  <2>1. CASE Lost(heap', r) = Lost(heap, Refs) /\ refused' >= refused
    <3>1. Cardinality(Lost(heap, Refs)) \in Nat
      BY <1>2, WorkloadConstants, FS_Subset, FS_CardinalityType
    <3> QED BY <1>2, <1>3, <2>1, <3>1, SMT
  <2>2. CASE /\ "random" \in Range(Chosen) /\ refused' = refused + 1
             /\ \E x \in Blocks : Lost(heap', r) \subseteq Lost(heap, Refs) \cup {x}
    <3>1. /\ Cardinality(Lost(heap, Refs)) \in Nat /\ Cardinality(Lost(heap', r)) \in Nat
          /\ Cardinality(Lost(heap', r)) <= Cardinality(Lost(heap, Refs)) + 1
      BY <1>2, <2>2, LostCount
    <3>2. Cardinality(Lost(heap', r)) <= refused'
      BY <1>2, <1>3, <2>2, <3>1, SMT
    <3> QED BY <2>2, <3>2
  <2> QED BY <2>1, <2>2
<1> QED BY <1>1, <1>4 DEF HeapOK

\* A pass of a loop of the main thread is over: what the next pass, or the next
\* loop, relies on.
LEMMA PassedStage ==
  ASSUME IInv, Running, InWork, TypeOK', ~ At("pair"), ~ At("produce"), ~ At("consume"),
         done' = done, ~ work'.held, NEW j \in Slots, NEW rec \in Records,
         ptrs' = [ptrs EXCEPT ![j] = rec],
         work.i + 1 < Passes => work'.stage = work.stage /\ work'.i = work.i + 1,
         ~ (work.i + 1 < Passes) => work'.stage = work.stage + 1 /\ work'.i = 0,
         At("fill") => j = work.i,
         At("sweep") => /\ j = IF Stage.part = "reverse" THEN NSlots - 1 - work.i ELSE work.i
                        /\ rec.ptr = Null
  PROVE StageOK' /\ NoneDone /\ NoneDone'
<1>1. /\ work.stage \in 1 .. Len(work.prog) /\ Stage \in Stages /\ work.i \in Nat
      /\ Len(work.prog) \in Nat
  <2>1. work.prog \in Seq(Stages) /\ work.i \in Nat
    BY DEF IInv, TypeOK, Works
  <2>2. Len(work.prog) \in Nat
    BY <2>1, SMT
  <2> QED BY <2>1, <2>2, StageType DEF IInv
<1>2. NoneDone /\ NoneDone'
  BY DEF IInv, StageOK, NoneDone
<1>3. FromEmpty' = FromEmpty /\ Working /\ Tidy(work.prog, FromEmpty)
  BY DEF InWork, mainVars, FromEmpty, IInv, MainOK, ProgOK
<1>4. ptrs \in [Slots -> Records] /\ ptrs'[j] = rec /\ \A k \in Slots : k # j => ptrs'[k] = ptrs[k]
  BY DEF IInv, TypeOK
<1>5. NSlots \in Nat /\ NSlots >= 2 /\ \A k \in Slots : k \in 0 .. NSlots - 1
  BY WorkloadConstants DEF Slots
<1>6. At("fill") \/ At("sweep") => work.i < Passes /\ Passes \in Nat
  BY PassesPositive DEF IInv, StageOK, At
<1>7. At("sweep") => \A k \in Slots :
       (IF Stage.part = "reverse" THEN k > NSlots - 1 - (work.i + 1) ELSE k < work.i + 1) =>
         ptrs'[k].ptr = Null
  <2> SUFFICES ASSUME At("sweep"), NEW k \in Slots,
                      IF Stage.part = "reverse" THEN k > NSlots - 1 - (work.i + 1) ELSE k < work.i + 1
               PROVE ptrs'[k].ptr = Null
    OBVIOUS
  <2>1. CASE k = j
    BY <2>1, <1>4
  <2>2. CASE k # j
    <3>1. IF Stage.part = "reverse" THEN k > NSlots - 1 - work.i ELSE k < work.i
      BY <2>2, <1>1, <1>5, SMT
    <3>2. ptrs[k].ptr = Null
      BY <3>1 DEF IInv, StageOK
    <3> QED BY <2>2, <3>2, <1>4
  <2> QED BY <2>1, <2>2
<1>8. CASE work.i + 1 < Passes
  <2>1. /\ work'.stage = work.stage /\ work'.i = work.i + 1 /\ Stage' = Stage /\ Running'
        /\ Len(work'.prog) = Len(work.prog)
    BY <1>8 DEF InWork, Stage, Running
  <2>2. Passes' = Passes
    BY <2>1 DEF Passes
  <2>3. \A op \in OpNames : At(op)' <=> At(op)
    BY <2>1 DEF At
  <2>4. At("fill") /\ Stage.part # "empty" => \A k \in Slots : k >= work.i + 1 => ptrs'[k].ptr = Null
    <3> SUFFICES ASSUME At("fill"), Stage.part # "empty", NEW k \in Slots, k >= work.i + 1
                 PROVE ptrs'[k].ptr = Null
      OBVIOUS
    <3>1. k >= work.i /\ k # j
      BY <1>1, <1>5, SMT
    <3>2. ptrs[k].ptr = Null
      BY <3>1 DEF IInv, StageOK
    <3> QED BY <3>1, <3>2, <1>4
  <2>5. work'.stage <= Len(work'.prog) + 1
    BY <1>1, <2>1, SMT
  <2>6. At("pair")' = At("pair") /\ At("fill")' = At("fill") /\ At("sweep")' = At("sweep")
        /\ At("produce")' = At("produce") /\ At("consume")' = At("consume")
    BY <2>1 DEF At
  <2>7. work'.i < Passes'
    BY <1>8, <2>1, <2>2
  <2> QED BY <1>2, <1>7, <2>1, <2>4, <2>5, <2>6, <2>7 DEF StageOK, NoneDone
<1>9. CASE ~ (work.i + 1 < Passes)
  <2>1. work'.stage = work.stage + 1 /\ work'.i = 0 /\ Len(work'.prog) = Len(work.prog)
    BY <1>9 DEF InWork
  <2>2. KnownEmpty(work.stage)' => EmptySlots'
    <3> SUFFICES ASSUME EmptyAt(work.prog, work.stage + 1, FromEmpty), NEW k \in Slots
                 PROVE ptrs'[k].ptr = Null
      BY <1>3, <2>1 DEF KnownEmpty, EmptySlots, InWork
    <3>1. (work.stage + 1) - 1 = work.stage /\ work.stage + 1 # 1 /\ (work.stage + 1 = 2 => work.stage = 1)
      BY <1>1, SMT
    <3>2. Empties(Stage)
      BY <3>1 DEF EmptyAt, At, Stage
    <3>3. At("sweep") /\ Stage.part # "first"
      BY <3>2 DEF Empties, At
    <3>4. Passes = NSlots
      BY <3>3 DEF Passes, At
    <3>5. work.i + 1 = NSlots
      BY <1>1, <1>5, <1>6, <1>9, <3>3, <3>4, SMT
    <3>6. IF Stage.part = "reverse" THEN k > NSlots - 1 - (work.i + 1) ELSE k < work.i + 1
      BY <1>1, <1>5, <3>5, SMT
    <3> QED BY <1>7, <3>3, <3>6
  <2>3. ~ (At("consume")' /\ Stage'.part = "victim")
    <3> SUFFICES ASSUME At("consume")', Stage'.part = "victim" PROVE FALSE
      OBVIOUS
    <3>1. work'.stage \in 1 .. Len(work.prog) /\ work'.stage - 1 = work.stage
      BY <1>1, <2>1, SMT DEF At, Running, InWork
    <3>2. work.prog[work'.stage].op = "consume" /\ work.prog[work'.stage].part = "victim"
      BY DEF At, Stage, InWork
    <3>3. work.prog[work'.stage - 1].op = "produce"
      BY <1>3, <3>1, <3>2 DEF Tidy
    <3> QED BY <3>1, <3>3 DEF At, Stage
  <2>4. work'.stage <= Len(work'.prog) + 1
    BY <1>1, <2>1, SMT
  <2>5. Entered'
    BY <1>2, <1>3, <2>1, <2>2, <2>3, <2>4 DEF Entered, NoneDone, InWork
  <2>6. Entered' => StageOK'
    BY EnterStage, PTL
  <2> QED BY <1>2, <2>5, <2>6
<1> QED BY <1>8, <1>9

\* The same for the whole state: a pass that changes one slot.
LEMMA SlotPass ==
  ASSUME IInv, Running, UNCHANGED <<mainVars, serverVars>>,
         ~ At("pair"), ~ At("produce"), ~ At("consume"), done' = done,
         NEW w \in {work, Numbered(work)}, work' = Passed(w),
         NEW j \in Slots, NEW rec \in Records, ptrs' = [ptrs EXCEPT ![j] = rec],
         At("fill") => j = work.i,
         At("sweep") => /\ j = IF Stage.part = "reverse" THEN NSlots - 1 - work.i ELSE work.i
                        /\ rec.ptr = Null,
         NEW r, r = [Refs EXCEPT ![j] = rec.ptr], Owns(heap', r),
         \/ Lost(heap', r) = Lost(heap, Refs) /\ refused' >= refused
         \/ /\ "random" \in Range(Chosen) /\ refused' = refused + 1
            /\ \E x \in Blocks : Lost(heap', r) \subseteq Lost(heap, Refs) \cup {x},
         invalid' = invalid, refused' \in Nat,
         MetricsOK(m'), m'.errors = m.errors \/ Misnumbered
  PROVE IInv'
<1>1. work \in Works /\ ~ work.held
  BY DEF IInv, TypeOK, StageOK
<1>2. /\ w \in Works /\ w.prog = work.prog /\ w.phase = work.phase /\ w.held = work.held
      /\ w.stage = work.stage /\ w.i = work.i
  BY <1>1, NumberedFields
<1>3. /\ work' \in Works /\ InWork /\ ~ work'.held
      /\ work.i + 1 < Passes => work'.stage = work.stage /\ work'.i = work.i + 1
      /\ ~ (work.i + 1 < Passes) => work'.stage = work.stage + 1 /\ work'.i = 0
  BY <1>1, <1>2, PassedFields DEF InWork
<1>4. TypeOK'
  <2>1. heap' \in [Blocks -> Objects \cup {Null}]
    BY DEF Owns
  <2>2. ptrs' \in [Slots -> Records]
    BY DEF IInv, TypeOK
  <2>3. UNCHANGED <<cfg, benches, phases, elapsed>>
    BY DEF mainVars
  <2> QED BY <1>3, <2>1, <2>2, <2>3 DEF IInv, TypeOK
<1>5. StageOK' /\ NoneDone /\ NoneDone'
  BY <1>3, <1>4, PassedStage
<1>6. /\ Refs[Hand] = Null /\ \A k \in Slots : Refs[k] = ptrs[k].ptr
      /\ Hand \notin Slots /\ Hand \in Places /\ j \in Places /\ Owns(heap, Refs)
  BY <1>1, <1>5, PlainRefs DEF IInv, HeapOK
<1>7. Refs'[Hand] = Null /\ \A k \in Slots : Refs'[k] = ptrs'[k].ptr
  <2>1. NoneDone' => /\ Refs'[Hand] = (IF work'.held THEN work'.hand.ptr ELSE Null)
                     /\ \A k \in Slots : Refs'[k] = ptrs'[k].ptr
    <3>1. \A k \in Slots : k # Hand
      BY <1>6
    <3>2. \A k \in Slots : NoneDone' => ~ Consumed(k)'
      BY DEF NoneDone, Consumed
    <3> QED BY <3>1, <3>2 DEF Refs, Places
  <2> QED BY <1>3, <1>5, <2>1
<1>8. Refs' = r
  <2>1. ptrs'[j] = rec /\ \A k \in Slots : k # j => ptrs'[k] = ptrs[k]
    BY DEF IInv, TypeOK
  <2>2. Refs'[j] = rec.ptr
    BY <1>7, <2>1
  <2>3. \A k \in Places \ {j} : Refs'[k] = Refs[k]
    BY <1>6, <1>7, <2>1 DEF Places
  <2> QED BY <1>4, <1>5, <1>6, <2>2, <2>3, OnePlace
<1>9. HeapOK'
  BY <1>3, <1>4, <1>8, HeapAfter
<1>10. m'.errors > 0 => m.errors > 0 \/ Misnumbered
  OBVIOUS
<1>11. invalid' > 0 => invalid > 0 \/ Deliberate
  OBVIOUS
<1> QED BY <1>3, <1>4, <1>5, <1>9, <1>10, <1>11, WorkFrame

\* What a loop of the main thread finds in a slot.
LEMMA AtSlot ==
  ASSUME IInv, Running, ~ At("pair"), ~ At("produce"), ~ At("consume"), NEW j \in Slots
  PROVE /\ Refs[j] = ptrs[j].ptr /\ j \in Places /\ Owns(heap, Refs)
        /\ ptrs[j] \in Records /\ ptrs[j].ptr \in Blocks \cup {Null}
        /\ Misuse(heap, ptrs[j].ptr) = 0
<1>1. NoneDone
  BY DEF IInv, StageOK, NoneDone
<1>2. Refs[j] = ptrs[j].ptr /\ j \in Places /\ Owns(heap, Refs)
  BY <1>1, PlainRefs DEF IInv, HeapOK
<1>3. ptrs[j] \in Records /\ ptrs[j].ptr \in Blocks \cup {Null}
  BY DEF IInv, TypeOK, Records
<1>4. Misuse(heap, Refs[j]) = 0
  BY <1>2 DEF Owns, Misuse
<1> QED BY <1>2, <1>3, <1>4

\* What the allocator can return, and that a null result is counted as a refusal.
LEMMA Results ==
  ASSUME IInv, NEW h, NEW old \in Blocks \cup {Null}
  PROVE /\ \A b \in AllocResults(h) : b \in Blocks \cup {Null} /\ (b # Null => h[b] = Null)
        /\ \A b \in ReallocResults(h, old) : b \in Blocks \cup {Null} /\ (b # Null => b = old \/ h[b] = Null)
        /\ \A b : Refuse(b) => /\ refused' \in Nat /\ refused' >= refused
                               /\ b = Null => refused' = refused + 1
  <1>1. refused \in Nat
    BY DEF IInv, TypeOK
  <1>2. ASSUME NEW b, Refuse(b)
        PROVE refused' \in Nat /\ refused' >= refused /\ (b = Null => refused' = refused + 1)
    BY <1>1, <1>2, SMT DEF Refuse
  <1>3. \A b \in AllocResults(h) : b \in Blocks \cup {Null} /\ (b # Null => h[b] = Null)
    BY DEF AllocResults, Refusals
  <1> QED BY <1>2, <1>3 DEF ReallocResults

\* A pass that changes no slot.
LEMMA IdlePass ==
  ASSUME IInv, Running, UNCHANGED <<mainVars, serverVars>>,
         ~ At("pair"), ~ At("produce"), ~ At("consume"), done' = done, work' = Passed(work),
         NEW j \in Slots, UNCHANGED <<heap, ptrs, invalid>>, refused' \in Nat, refused' >= refused,
         At("fill") => j = work.i,
         At("sweep") => /\ j = IF Stage.part = "reverse" THEN NSlots - 1 - work.i ELSE work.i
                        /\ ptrs[j].ptr = Null,
         MetricsOK(m'), m'.errors = m.errors \/ Misnumbered
  PROVE IInv'
<1>1. Refs[j] = ptrs[j].ptr /\ j \in Places /\ Owns(heap, Refs) /\ ptrs[j] \in Records
  BY AtSlot
<1>2. Refs = [Refs EXCEPT ![j] = ptrs[j].ptr]
  BY <1>1 DEF Owns
<1>3. ptrs' = [ptrs EXCEPT ![j] = ptrs[j]]
  BY DEF IInv, TypeOK
<1>4. PICK r : r = [Refs EXCEPT ![j] = ptrs[j].ptr]
  OBVIOUS
<1>5. Owns(heap', r) /\ Lost(heap', r) = Lost(heap, Refs)
  BY <1>1, <1>2, <1>4
<1> QED BY <1>1, <1>3, <1>4, <1>5, SlotPass

\* An allocation into an empty slot.
LEMMA FillSlot ==
  ASSUME IInv, Running, UNCHANGED <<mainVars, serverVars>>,
         ~ At("pair"), ~ At("produce"), ~ At("consume"), ~ At("sweep"), done' = done,
         NEW w \in {work, Numbered(work)}, work' = Passed(w),
         NEW j \in Slots, At("fill") => j = work.i, ptrs[j].ptr = Null,
         NEW size \in Sizes, NEW b \in AllocResults(heap), NEW fill \in Nat,
         heap' = Put(heap, b, size, fill), Refuse(b), ptrs' = [ptrs EXCEPT ![j] = Record(b, size)],
         invalid' = invalid, MetricsOK(m'), m'.errors = m.errors \/ Misnumbered
  PROVE IInv'
<1>1. Refs[j] = Null /\ j \in Places /\ Owns(heap, Refs)
  BY AtSlot
<1>2. /\ b \in Blocks \cup {Null} /\ (b # Null => heap[b] = Null)
      /\ refused' \in Nat /\ refused' >= refused
  BY Results
<1>3. size \in Nat
  BY WorkloadConstants
<1>4. Record(b, size) \in Records /\ Record(b, size).ptr = b
  BY <1>2, <1>3, RecordType DEF IInv
<1>5. PICK r : r = [Refs EXCEPT ![j] = Record(b, size).ptr]
  OBVIOUS
<1>6. Owns(heap', r) /\ Lost(heap', r) = Lost(heap, Refs)
  <2>1. /\ Owns(Put(heap, b, size, fill), [Refs EXCEPT ![j] = b])
        /\ Lost(Put(heap, b, size, fill), [Refs EXCEPT ![j] = b]) = Lost(heap, Refs)
    BY <1>1, <1>2, <1>3, AllocOwns
  <2> QED BY <1>4, <1>5, <2>1
<1> QED BY <1>2, <1>4, <1>5, <1>6, SlotPass

\* A slot's block is freed.
LEMMA ClearSlot ==
  ASSUME IInv, Running, UNCHANGED <<mainVars, serverVars>>,
         ~ At("pair"), ~ At("produce"), ~ At("consume"), ~ At("fill"), done' = done,
         work' = Passed(work), NEW j \in Slots,
         At("sweep") => j = IF Stage.part = "reverse" THEN NSlots - 1 - work.i ELSE work.i,
         heap' = Drop(heap, ptrs[j].ptr), refused' \in Nat, refused' >= refused,
         ptrs' = [ptrs EXCEPT ![j] = Empty],
         invalid' = invalid + Misuse(heap, ptrs[j].ptr), MetricsOK(m'), m'.errors = m.errors \/ Misnumbered
  PROVE IInv'
<1>1. /\ Refs[j] = ptrs[j].ptr /\ j \in Places /\ Owns(heap, Refs)
      /\ Misuse(heap, ptrs[j].ptr) = 0
  BY AtSlot
<1>2. invalid' = invalid
  BY <1>1, SMT DEF IInv, TypeOK
<1>3. PICK r : r = [Refs EXCEPT ![j] = Empty.ptr]
  OBVIOUS
<1>4. Owns(heap', r) /\ Lost(heap', r) = Lost(heap, Refs)
  <2>1. /\ Owns(Drop(heap, Refs[j]), [Refs EXCEPT ![j] = Null])
        /\ Lost(Drop(heap, Refs[j]), [Refs EXCEPT ![j] = Null]) = Lost(heap, Refs)
    BY <1>1, FreeOwns
  <2> QED BY <1>1, <1>3, <2>1, EmptyType
<1> QED BY <1>2, <1>3, <1>4, EmptyType, SlotPass

\* A slot's block is resized.
LEMMA MoveSlot ==
  ASSUME IInv, Running, UNCHANGED <<mainVars, serverVars>>,
         ~ At("pair"), ~ At("produce"), ~ At("consume"), ~ At("fill"), ~ At("sweep"), done' = done,
         work' = Passed(work), NEW j \in Slots, NEW size \in Sizes,
         NEW b \in ReallocResults(heap, ptrs[j].ptr), b # Null,
         heap' = Moved(heap, ptrs[j].ptr, b, size), Refuse(b),
         ptrs' = [ptrs EXCEPT ![j] = Record(b, size)],
         invalid' = invalid + Misuse(heap, ptrs[j].ptr), MetricsOK(m'), m'.errors = m.errors \/ Misnumbered
  PROVE IInv'
<1>1. /\ Refs[j] = ptrs[j].ptr /\ j \in Places /\ Owns(heap, Refs)
      /\ Misuse(heap, ptrs[j].ptr) = 0 /\ ptrs[j].ptr \in Blocks \cup {Null}
  BY AtSlot
<1>2. invalid' = invalid
  BY <1>1, SMT DEF IInv, TypeOK
<1>3. /\ b \in Blocks /\ (b = Refs[j] \/ heap[b] = Null)
      /\ refused' \in Nat /\ refused' >= refused
  BY <1>1, Results
<1>4. size \in Nat
  BY WorkloadConstants
<1>5. Record(b, size) \in Records /\ Record(b, size).ptr = b
  BY <1>3, <1>4, RecordType DEF IInv
<1>6. PICK r : r = [Refs EXCEPT ![j] = Record(b, size).ptr]
  OBVIOUS
<1>7. Owns(heap', r) /\ Lost(heap', r) = Lost(heap, Refs)
  <2>1. /\ Owns(Moved(heap, Refs[j], b, size), [Refs EXCEPT ![j] = b])
        /\ Lost(Moved(heap, Refs[j], b, size), [Refs EXCEPT ![j] = b]) = Lost(heap, Refs)
    BY <1>1, <1>3, <1>4, MoveOwns
  <2> QED BY <1>1, <1>5, <1>6, <2>1
<1> QED BY <1>2, <1>3, <1>5, <1>6, <1>7, SlotPass

\* A slot gets another block, written by the pass, for the one it had.
LEMMA ReplaceSlot ==
  ASSUME IInv, Running, UNCHANGED <<mainVars, serverVars>>,
         ~ At("pair"), ~ At("produce"), ~ At("consume"), ~ At("fill"), ~ At("sweep"), done' = done,
         NEW w \in {work, Numbered(work)}, work' = Passed(w), NEW j \in Slots, NEW size \in Sizes,
         NEW b \in Blocks \cup {Null}, b # Null => Drop(heap, ptrs[j].ptr)[b] = Null, NEW fill \in Nat,
         heap' = Put(Drop(heap, ptrs[j].ptr), b, size, fill), refused' \in Nat, refused' >= refused,
         ptrs' = [ptrs EXCEPT ![j] = Record(b, size)],
         invalid' = invalid + Misuse(heap, ptrs[j].ptr), MetricsOK(m'), m'.errors = m.errors \/ Misnumbered
  PROVE IInv'
<1>1. /\ Refs[j] = ptrs[j].ptr /\ j \in Places /\ Owns(heap, Refs)
      /\ Misuse(heap, ptrs[j].ptr) = 0
  BY AtSlot
<1>2. invalid' = invalid
  BY <1>1, SMT DEF IInv, TypeOK
<1>3. size \in Nat
  BY WorkloadConstants
<1>4. Record(b, size) \in Records /\ Record(b, size).ptr = b
  BY <1>3, RecordType DEF IInv
<1>5. PICK r : r = [Refs EXCEPT ![j] = Record(b, size).ptr]
  OBVIOUS
<1>6. Owns(heap', r) /\ Lost(heap', r) = Lost(heap, Refs)
  <2>1. b # Null => Drop(heap, Refs[j])[b] = Null
    BY <1>1
  <2>2. /\ Owns(Put(Drop(heap, Refs[j]), b, size, fill), [Refs EXCEPT ![j] = b])
        /\ Lost(Put(Drop(heap, Refs[j]), b, size, fill), [Refs EXCEPT ![j] = b]) = Lost(heap, Refs)
    BY <1>1, <1>3, <2>1, ReplaceOwns
  <2> QED BY <1>1, <1>4, <1>5, <2>2
<1> QED BY <1>2, <1>4, <1>5, <1>6, SlotPass

-----------------------------------------------------------------------------
(* The loops of the main thread                                            *)

\* Loops without a local pointer and without workers.
LEMMA OtherLoops ==
  ASSUME NEW op \in OpNames \ {"pair", "produce", "consume"}, At(op)
  PROVE Running /\ ~ At("pair") /\ ~ At("produce") /\ ~ At("consume")
BY DEF At

\* The metrics of a pass that checks nothing.
LEMMA MetricsPass ==
  ASSUME IInv, NEW size, NEW old
  PROVE /\ MetricsOK(m)
        /\ MetricsOK(IfCounted(metrics_alloc(m, size))) /\ IfCounted(metrics_alloc(m, size)).errors = m.errors
        /\ MetricsOK(metrics_alloc(m, size)) /\ metrics_alloc(m, size).errors = m.errors
        /\ MetricsOK(metrics_free(m, size)) /\ metrics_free(m, size).errors = m.errors
        /\ MetricsOK(IfCounted(metrics_realloc(m, old, size)))
        /\ IfCounted(metrics_realloc(m, old, size)).errors = m.errors
<1>1. MetricsOK(m) /\ 0 \in Nat /\ 1 \in Nat
  BY DEF IInv, TypeOK
<1>2. MetricsOK(metrics_alloc(m, size)) /\ metrics_alloc(m, size).errors = m.errors
  BY <1>1, AllocatedOK DEF metrics_alloc
<1>3. MetricsOK(metrics_free(m, size)) /\ metrics_free(m, size).errors = m.errors
  BY <1>1, FreedOK DEF metrics_free
<1>4. MetricsOK(metrics_realloc(m, old, size)) /\ metrics_realloc(m, old, size).errors = m.errors
  BY <1>1, ReallocOK
<1> QED BY <1>1, <1>2, <1>3, <1>4 DEF IfCounted

\* Only a diagnostic phase checks a slot.
LEMMA SlotChecks ==
  ASSUME IInv, Running, ~ At("pair"), NEW rec, NEW size, NEW old
  PROVE /\ MetricsOK(IfChecked(rec)) /\ (IfChecked(rec).errors = m.errors \/ Misnumbered)
        /\ MetricsOK(metrics_free(IfChecked(rec), size))
        /\ metrics_free(IfChecked(rec), size).errors = m.errors \/ Misnumbered
        /\ MetricsOK(metrics_realloc(IfChecked(rec), old, size))
        /\ metrics_realloc(IfChecked(rec), old, size).errors = m.errors \/ Misnumbered
<1>1. MetricsOK(m) /\ 0 \in Nat /\ 1 \in Nat
  BY DEF IInv, TypeOK
<1>2. work.stage \in 1 .. Len(work.prog)
  BY StageType DEF IInv
<1>3. Stage.checked => Misnumbered
  BY <1>2 DEF IInv, ProgOK, Stage, At
<1>4. MetricsOK(IfChecked(rec)) /\ (IfChecked(rec).errors = m.errors \/ Misnumbered)
  BY <1>1, <1>3, CheckOK
<1>5. PICK mm : mm = IfChecked(rec)
  OBVIOUS
<1>6. MetricsOK(metrics_free(mm, size)) /\ metrics_free(mm, size).errors = mm.errors
  BY <1>1, <1>4, <1>5, FreedOK DEF metrics_free
<1>7. MetricsOK(metrics_realloc(mm, old, size)) /\ metrics_realloc(mm, old, size).errors = mm.errors
  BY <1>4, <1>5, ReallocOK
<1> QED BY <1>4, <1>5, <1>6, <1>7

\* A loop over the slots stays within them.
LEMMA IndexInSlots ==
  ASSUME IInv, At("fill") \/ At("sweep")
  PROVE work.i \in Slots /\ NSlots - 1 - work.i \in Slots
<1>1. NSlots \in Nat /\ work.i \in Nat
  BY WorkloadConstants DEF IInv, TypeOK, Works
<1>2. work.i < Passes
  BY DEF IInv, StageOK
<1>3. Passes = NSlots \/ Passes = (NSlots * 9) \div 10
  BY DEF Passes, At
<1>4. (NSlots * 9) \div 10 <= NSlots /\ (NSlots * 9) \div 10 \in Nat
  BY <1>1, SMT
<1>5. work.i < NSlots
  BY <1>1, <1>2, <1>3, <1>4, SMT
<1> QED BY <1>1, <1>5, SMT DEF Slots

\* A pass of a filling loop: the slot it writes was empty, or it skips it.
LEMMA FillKeeps ==
  ASSUME IInv, Fill, UNCHANGED <<mainVars, serverVars>>
  PROVE IInv'
<1>1. At("fill") /\ invalid' = invalid /\ done' = done
  BY DEF Fill
<1>2. Running /\ ~ At("pair") /\ ~ At("produce") /\ ~ At("consume") /\ ~ At("sweep")
  BY <1>1 DEF At
<1>3. work.i \in Slots
  BY <1>1, IndexInSlots
<1>4. CASE /\ Stage.part = "empty" /\ ptrs[work.i].ptr # Null
           /\ work' = Passed(work)
           /\ UNCHANGED <<heap, refused, ptrs, m, snap>>
  <2>1. refused' \in Nat /\ refused' >= refused /\ MetricsOK(m')
    BY <1>4, SMT DEF IInv, TypeOK, MetricsOK
  <2> QED BY <1>1, <1>2, <1>3, <1>4, <2>1, IdlePass
<1>5. CASE /\ Stage.part # "empty" \/ ptrs[work.i].ptr = Null
           /\ \E size \in Sizes, b \in AllocResults(heap) :
                /\ heap' = Put(heap, b, size, Written)
                /\ Refuse(b)
                /\ ptrs' = [ptrs EXCEPT ![work.i] = Record(b, size)]
                /\ m' = IfCounted(metrics_alloc(m, size))
                /\ MaybePublish(m')
                /\ work' = Passed(Numbered(work))
  <2>1. PICK size \in Sizes, b \in AllocResults(heap) :
                /\ heap' = Put(heap, b, size, Written)
                /\ Refuse(b)
                /\ ptrs' = [ptrs EXCEPT ![work.i] = Record(b, size)]
                /\ m' = IfCounted(metrics_alloc(m, size))
                /\ work' = Passed(Numbered(work))
    BY <1>5
  <2>2. ptrs[work.i].ptr = Null
    <3>1. work.i >= work.i
      BY SMT DEF IInv, TypeOK, Works
    <3> QED BY <1>1, <1>3, <1>5, <3>1 DEF IInv, StageOK
  <2>3. MetricsOK(m') /\ m'.errors = m.errors
    BY <2>1, MetricsPass
  <2>4. Written \in Nat
    <3>1. 0 \in Nat
      OBVIOUS
    <3> QED BY <3>1, RecordType DEF IInv
  <2> QED BY <1>1, <1>2, <1>3, <2>1, <2>2, <2>3, <2>4, FillSlot
<1> QED BY <1>4, <1>5 DEF Fill

\* A pass of a freeing loop: the slot it frees is empty from then on.
LEMMA SweepKeeps ==
  ASSUME IInv, Sweep, UNCHANGED <<mainVars, serverVars>>
  PROVE IInv'
<1>1. PICK j : j = IF Stage.part = "reverse" THEN NSlots - 1 - work.i ELSE work.i
  OBVIOUS
<1>2. At("sweep") /\ refused' = refused /\ done' = done /\ work' = Passed(work)
  BY DEF Sweep
<1>3. Running /\ ~ At("pair") /\ ~ At("produce") /\ ~ At("consume") /\ ~ At("fill")
  BY <1>2 DEF At
<1>4. j \in Slots
  BY <1>1, <1>2, IndexInSlots
<1>5. refused' \in Nat /\ refused' >= refused
  BY <1>2, SMT DEF IInv, TypeOK
<1>6. CASE Stage.iflive /\ ptrs[j].ptr = Null
  <2>1. UNCHANGED <<heap, invalid, ptrs, m, snap>>
    BY <1>1, <1>6 DEF Sweep
  <2>2. MetricsOK(m') /\ m'.errors = m.errors
    BY <2>1 DEF IInv, TypeOK, MetricsOK
  <2> QED BY <1>1, <1>2, <1>3, <1>4, <1>5, <1>6, <2>1, <2>2, IdlePass
<1>7. CASE ~ (Stage.iflive /\ ptrs[j].ptr = Null)
  <2>1. /\ heap' = Drop(heap, ptrs[j].ptr)
        /\ invalid' = invalid + Misuse(heap, ptrs[j].ptr)
        /\ ptrs' = [ptrs EXCEPT ![j] = Empty]
        /\ m' = IF Stage.counted THEN metrics_free(IfChecked(ptrs[j]), ptrs[j].size) ELSE m
    BY <1>1, <1>7 DEF Sweep
  <2>2. MetricsOK(m') /\ (m'.errors = m.errors \/ Misnumbered)
    BY <1>3, <2>1, SlotChecks, MetricsPass
  <2> QED BY <1>1, <1>2, <1>3, <1>4, <1>5, <2>1, <2>2, ClearSlot
<1> QED BY <1>6, <1>7

\* A pass of random_workload: allocate and free the old block, reallocate, or free.
LEMMA RandomKeeps ==
  ASSUME IInv, Random, UNCHANGED <<mainVars, serverVars>>
  PROVE IInv'
<1>1. At("random") /\ work' = Passed(work) /\ UNCHANGED <<m, snap, done>>
  BY DEF Random
<1>2. Running /\ ~ At("pair") /\ ~ At("produce") /\ ~ At("consume") /\ ~ At("fill") /\ ~ At("sweep")
  BY <1>1 DEF At
<1>3. MetricsOK(m') /\ m'.errors = m.errors
  BY <1>1 DEF IInv, TypeOK, MetricsOK
<1>4. PICK j \in Slots : RandomReplace(j) \/ RandomRealloc(j) \/ FreeSlot(j)
  BY DEF Random
<1>5. /\ Refs[j] = ptrs[j].ptr /\ j \in Places /\ Owns(heap, Refs)
      /\ Misuse(heap, ptrs[j].ptr) = 0 /\ ptrs[j].ptr \in Blocks \cup {Null}
  BY <1>2, AtSlot
<1>6. CASE RandomReplace(j)
  <2>1. PICK size \in Sizes, b \in AllocResults(heap) :
          /\ heap' = Drop(Put(heap, b, size, 0), ptrs[j].ptr)
          /\ invalid' = invalid + Misuse(heap, ptrs[j].ptr)
          /\ Refuse(b)
          /\ ptrs' = [ptrs EXCEPT ![j] = Record(b, size)]
    BY <1>6 DEF RandomReplace
  <2>2. /\ b \in Blocks \cup {Null} /\ (b # Null => heap[b] = Null)
        /\ refused' \in Nat /\ refused' >= refused
    BY <2>1, Results
  <2>3. size \in Nat /\ 0 \in Nat
    BY WorkloadConstants
  <2>4. /\ Drop(Put(heap, b, size, 0), Refs[j]) = Put(Drop(heap, Refs[j]), b, size, 0)
        /\ b # Null => Drop(heap, Refs[j])[b] = Null
    BY <1>5, <2>2, <2>3, DropPut
  <2>5. /\ heap' = Put(Drop(heap, ptrs[j].ptr), b, size, 0)
        /\ b # Null => Drop(heap, ptrs[j].ptr)[b] = Null
    BY <1>5, <2>1, <2>4
  <2> QED BY <1>1, <1>2, <1>3, <2>1, <2>2, <2>3, <2>5, ReplaceSlot
<1>7. CASE RandomRealloc(j)
  <2>1. PICK size \in Sizes, b \in ReallocResults(heap, ptrs[j].ptr) :
          /\ heap' = Moved(heap, ptrs[j].ptr, b, size)
          /\ invalid' = invalid + Misuse(heap, ptrs[j].ptr)
          /\ Refuse(b)
          /\ ptrs' = [ptrs EXCEPT ![j] = Record(b, size)]
    BY <1>7 DEF RandomRealloc
  <2>2. CASE b # Null
    BY <1>1, <1>2, <1>3, <2>1, <2>2, MoveSlot
  <2>3. CASE b = Null
    <3>1. ptrs[j].ptr \in Blocks
      BY <1>5, <1>7 DEF RandomRealloc
    <3>2. heap' = heap /\ refused' \in Nat /\ refused' = refused + 1
      BY <1>5, <2>1, <2>3, Results DEF Moved
    <3>3. invalid' = invalid
      BY <1>5, <2>1, SMT DEF IInv, TypeOK
    <3>4. Record(b, size) \in Records /\ Record(b, size).ptr = Null
      BY <2>3, RecordType, WorkloadConstants DEF IInv
    <3>5. "random" \in Range(Chosen)
      <4>1. work.stage \in 1 .. Len(work.prog)
        BY <1>2, StageType DEF IInv
      <4> QED BY <1>1, <4>1 DEF IInv, ProgOK, At, Stage
    <3>6. PICK r : r = [Refs EXCEPT ![j] = Record(b, size).ptr]
      OBVIOUS
    <3>7. Owns(heap', r) /\ Lost(heap', r) \subseteq Lost(heap, Refs) \cup {ptrs[j].ptr}
      <4>1. /\ Owns(heap, [Refs EXCEPT ![j] = Null])
            /\ Lost(heap, [Refs EXCEPT ![j] = Null]) \subseteq Lost(heap, Refs) \cup {Refs[j]}
        BY <1>5, ForgetOwns
      <4> QED BY <1>5, <3>2, <3>4, <3>6, <4>1
    <3>8. \E x \in Blocks : Lost(heap', r) \subseteq Lost(heap, Refs) \cup {x}
      BY <3>1, <3>7
    <3> QED BY <1>1, <1>2, <1>3, <2>1, <3>2, <3>3, <3>4, <3>5, <3>6, <3>7, <3>8, SlotPass
  <2> QED BY <2>2, <2>3
<1>8. CASE FreeSlot(j)
  <2>1. /\ heap' = Drop(heap, ptrs[j].ptr)
        /\ invalid' = invalid + Misuse(heap, ptrs[j].ptr)
        /\ ptrs' = [ptrs EXCEPT ![j] = Empty]
        /\ refused' = refused
    BY <1>8 DEF FreeSlot
  <2>2. refused' \in Nat /\ refused' >= refused
    BY <2>1, SMT DEF IInv, TypeOK
  <2> QED BY <1>1, <1>2, <1>3, <2>1, <2>2, ClearSlot
<1> QED BY <1>4, <1>6, <1>7, <1>8

\* A pass that frees a slot's block and allocates another.
LEMMA ReplaceKeeps ==
  ASSUME IInv, Replace, UNCHANGED <<mainVars, serverVars>>
  PROVE IInv'
<1>1. At("replace") /\ work' = Passed(work) /\ UNCHANGED <<m, snap, done>>
  BY DEF Replace
<1>2. Running /\ ~ At("pair") /\ ~ At("produce") /\ ~ At("consume") /\ ~ At("fill") /\ ~ At("sweep")
  BY <1>1 DEF At
<1>3. MetricsOK(m') /\ m'.errors = m.errors
  BY <1>1 DEF IInv, TypeOK, MetricsOK
<1>4. PICK j \in Slots, size \in Sizes :
        \E b \in AllocResults(Drop(heap, ptrs[j].ptr)) :
            /\ heap' = Put(Drop(heap, ptrs[j].ptr), b, size, 0)
            /\ invalid' = invalid + Misuse(heap, ptrs[j].ptr)
            /\ Refuse(b)
            /\ ptrs' = [ptrs EXCEPT ![j] = Record(b, size)]
  BY DEF Replace
<1>5. PICK b \in AllocResults(Drop(heap, ptrs[j].ptr)) :
            /\ heap' = Put(Drop(heap, ptrs[j].ptr), b, size, 0)
            /\ invalid' = invalid + Misuse(heap, ptrs[j].ptr)
            /\ Refuse(b)
            /\ ptrs' = [ptrs EXCEPT ![j] = Record(b, size)]
  BY <1>4
<1>6. /\ b \in Blocks \cup {Null} /\ (b # Null => Drop(heap, ptrs[j].ptr)[b] = Null)
      /\ refused' \in Nat /\ refused' >= refused
  BY <1>5, Results
<1>7. 0 \in Nat
  OBVIOUS
<1> QED BY <1>1, <1>2, <1>3, <1>5, <1>6, <1>7, ReplaceSlot

\* A pass that frees or reallocates: a refused reallocate keeps the old block.
LEMMA ResizeKeeps ==
  ASSUME IInv, Resize, UNCHANGED <<mainVars, serverVars>>
  PROVE IInv'
<1>1. (At("resize_or_drop") \/ At("resize_or_keep")) /\ work' = Passed(work) /\ done' = done
  BY DEF Resize
<1>2. Running /\ ~ At("pair") /\ ~ At("produce") /\ ~ At("consume") /\ ~ At("fill") /\ ~ At("sweep")
  BY <1>1 DEF At
<1>0. PICK j \in Slots, size \in Sizes :
        \E b \in ReallocResults(heap, ptrs[j].ptr) :
          /\ Refuse(b)
          /\ invalid' = invalid + Misuse(heap, ptrs[j].ptr)
          /\ IF b # Null
             THEN /\ heap' = Moved(heap, ptrs[j].ptr, b, size)
                  /\ ptrs' = [ptrs EXCEPT ![j] = Record(b, size)]
                  /\ m' = IfCounted(metrics_realloc(m, ptrs[j].size, size))
             ELSE IF Stage.op = "resize_or_drop"
             THEN heap' = Drop(heap, ptrs[j].ptr) /\ ptrs' = [ptrs EXCEPT ![j] = Empty] /\ m' = m
             ELSE UNCHANGED <<heap, ptrs, m>>
  BY DEF Resize
<1>3. PICK b \in ReallocResults(heap, ptrs[j].ptr) :
          /\ Refuse(b)
          /\ invalid' = invalid + Misuse(heap, ptrs[j].ptr)
          /\ IF b # Null
             THEN /\ heap' = Moved(heap, ptrs[j].ptr, b, size)
                  /\ ptrs' = [ptrs EXCEPT ![j] = Record(b, size)]
                  /\ m' = IfCounted(metrics_realloc(m, ptrs[j].size, size))
             ELSE IF Stage.op = "resize_or_drop"
             THEN heap' = Drop(heap, ptrs[j].ptr) /\ ptrs' = [ptrs EXCEPT ![j] = Empty] /\ m' = m
             ELSE UNCHANGED <<heap, ptrs, m>>
  BY <1>0
<1>4. Misuse(heap, ptrs[j].ptr) = 0 /\ ptrs[j].ptr \in Blocks \cup {Null}
  BY <1>2, AtSlot
<1>5. refused' \in Nat /\ refused' >= refused
  BY <1>3, <1>4, Results
<1>6. MetricsOK(m') /\ m'.errors = m.errors
  BY <1>3, MetricsPass
<1>7. CASE b # Null
  BY <1>1, <1>2, <1>3, <1>6, <1>7, MoveSlot
<1>8. CASE b = Null /\ Stage.op = "resize_or_drop"
  BY <1>1, <1>2, <1>3, <1>5, <1>6, <1>8, ClearSlot
<1>9. CASE b = Null /\ Stage.op # "resize_or_drop"
  <2>1. invalid' = invalid
    BY <1>3, <1>4, SMT DEF IInv, TypeOK
  <2> QED BY <1>1, <1>2, <1>3, <1>5, <1>6, <1>9, <2>1, IdlePass
<1> QED BY <1>7, <1>8, <1>9

\* A pass of run_medium_frag_strong_phase's loop on one record.
LEMMA DriftKeeps ==
  ASSUME IInv, Drift, UNCHANGED <<mainVars, serverVars>>
  PROVE IInv'
<1>1. At("drift") /\ done' = done
  BY DEF Drift
<1>2. Running /\ ~ At("pair") /\ ~ At("produce") /\ ~ At("consume") /\ ~ At("fill") /\ ~ At("sweep")
  BY <1>1 DEF At
<1>3. PICK j \in Slots :
        /\ invalid' = invalid + Misuse(heap, ptrs[j].ptr)
        /\ \/ /\ ptrs[j].ptr = Null
              /\ \E size \in Sizes, b \in AllocResults(heap) :
                   /\ heap' = Put(heap, b, size, Written)
                   /\ Refuse(b)
                   /\ ptrs' = [ptrs EXCEPT ![j] = Record(b, size)]
                   /\ m' = metrics_alloc(m, size)
                   /\ work' = Passed(Numbered(work))
           \/ \E size \in Sizes, b \in ReallocResults(heap, ptrs[j].ptr) :
                   /\ Refuse(b)
                   /\ IF b = Null
                      THEN m' = IfChecked(ptrs[j]) /\ work' = Passed(work) /\ UNCHANGED <<heap, ptrs>>
                      ELSE /\ heap' = Put(Moved(heap, ptrs[j].ptr, b, size), b, size, work.id + 1)
                           /\ ptrs' = [ptrs EXCEPT ![j] = Record(b, size)]
                           /\ m' = metrics_realloc(IfChecked(ptrs[j]), ptrs[j].size, size)
                           /\ work' = Passed(Numbered(work))
           \/ /\ heap' = Drop(heap, ptrs[j].ptr)
              /\ ptrs' = [ptrs EXCEPT ![j] = Empty]
              /\ m' = metrics_free(IfChecked(ptrs[j]), ptrs[j].size)
              /\ work' = Passed(work)
              /\ UNCHANGED refused
  BY DEF Drift
<1>4. /\ Refs[j] = ptrs[j].ptr /\ j \in Places /\ Owns(heap, Refs)
      /\ Misuse(heap, ptrs[j].ptr) = 0 /\ ptrs[j].ptr \in Blocks \cup {Null}
  BY <1>2, AtSlot
<1>5. invalid' = invalid
  <2>1. invalid' = invalid + Misuse(heap, ptrs[j].ptr)
    BY <1>3
  <2>2. Misuse(heap, ptrs[j].ptr) = 0 /\ invalid \in Nat
    BY <1>4 DEF IInv, TypeOK
  <2> QED BY <2>1, <2>2, SMT
<1>6. ASSUME ptrs[j].ptr = Null, NEW size \in Sizes, NEW b \in AllocResults(heap),
             heap' = Put(heap, b, size, Written), Refuse(b),
             ptrs' = [ptrs EXCEPT ![j] = Record(b, size)],
             m' = metrics_alloc(m, size), work' = Passed(Numbered(work))
      PROVE IInv'
  <2>1. Written \in Nat
    <3>1. 0 \in Nat
      OBVIOUS
    <3> QED BY <3>1, RecordType DEF IInv
  <2>2. MetricsOK(m') /\ m'.errors = m.errors
    BY <1>6, MetricsPass
  <2> QED BY <1>1, <1>2, <1>5, <1>6, <2>1, <2>2, FillSlot
<1>7. ASSUME NEW size \in Sizes, NEW b \in ReallocResults(heap, ptrs[j].ptr), Refuse(b), b = Null,
             m' = IfChecked(ptrs[j]), work' = Passed(work), UNCHANGED <<heap, ptrs>>
      PROVE IInv'
  <2>1. refused' \in Nat /\ refused' >= refused
    BY <1>4, <1>7, Results
  <2>2. MetricsOK(m') /\ (m'.errors = m.errors \/ Misnumbered)
    BY <1>2, <1>7, SlotChecks
  <2> QED BY <1>1, <1>2, <1>5, <1>7, <2>1, <2>2, IdlePass
<1>8. ASSUME NEW size \in Sizes, NEW b \in ReallocResults(heap, ptrs[j].ptr), Refuse(b), b # Null,
             heap' = Put(Moved(heap, ptrs[j].ptr, b, size), b, size, work.id + 1),
             ptrs' = [ptrs EXCEPT ![j] = Record(b, size)],
             m' = metrics_realloc(IfChecked(ptrs[j]), ptrs[j].size, size),
             work' = Passed(Numbered(work))
      PROVE IInv'
  <2>1. /\ b \in Blocks /\ (b = Refs[j] \/ heap[b] = Null)
        /\ refused' \in Nat /\ refused' >= refused
    <3>1. PICK old \in Blocks \cup {Null} : old = ptrs[j].ptr
      BY <1>4
    <3>2. b \in ReallocResults(heap, old) /\ Refuse(b) /\ b # Null /\ Refs[j] = old
      BY <1>4, <1>8, <3>1
    <3>3. b \in Blocks \cup {Null} /\ (b = old \/ heap[b] = Null)
      BY <3>2, Results
    <3>4. refused' \in Nat /\ refused' >= refused
      BY <3>2, Results
    <3> QED BY <3>2, <3>3, <3>4
  <2>2. size \in Nat /\ work.id + 1 \in Nat
    BY WorkloadConstants, SMT DEF IInv, TypeOK, Works
  <2>3. PICK fill \in Nat : fill = work.id + 1
    BY <2>2
  <2>4. /\ Put(Moved(heap, Refs[j], b, size), b, size, fill) = Put(Drop(heap, Refs[j]), b, size, fill)
        /\ Drop(heap, Refs[j])[b] = Null
    <3>1. Owns(heap, Refs) /\ j \in Places /\ b \in Blocks /\ size \in Nat
      BY <1>4, <2>1, <2>2
    <3>2. b = Refs[j] \/ heap[b] = Null
      BY <2>1
    <3> QED BY <3>1, <3>2, PutMoved
  <2>5. heap' = Put(Drop(heap, ptrs[j].ptr), b, size, fill) /\ Drop(heap, ptrs[j].ptr)[b] = Null
    BY <1>4, <1>8, <2>3, <2>4
  <2>6. MetricsOK(m') /\ (m'.errors = m.errors \/ Misnumbered)
    BY <1>2, <1>8, SlotChecks
  <2>7. PICK c \in Blocks \cup {Null} : c = b
    BY <2>1
  <2> QED BY <1>1, <1>2, <1>3, <1>8, <2>1, <2>5, <2>6, <2>7, ReplaceSlot
<1>9. ASSUME heap' = Drop(heap, ptrs[j].ptr), ptrs' = [ptrs EXCEPT ![j] = Empty],
             m' = metrics_free(IfChecked(ptrs[j]), ptrs[j].size), work' = Passed(work),
             refused' = refused
      PROVE IInv'
  <2>1. refused' \in Nat /\ refused' >= refused
    BY <1>9, SMT DEF IInv, TypeOK
  <2>2. MetricsOK(m') /\ (m'.errors = m.errors \/ Misnumbered)
    BY <1>2, <1>9, SlotChecks
  <2> QED BY <1>1, <1>2, <1>3, <1>9, <2>1, <2>2, ClearSlot
<1> QED BY <1>3, <1>6, <1>7, <1>8, <1>9

\* A pass of the peak phase's ticks: allocate what is missing or free what is there.
LEMMA ToggleKeeps ==
  ASSUME IInv, Toggle, UNCHANGED <<mainVars, serverVars>>
  PROVE IInv'
<1>1. At("toggle") /\ work' = Passed(work) /\ done' = done
  BY DEF Toggle
<1>2. Running /\ ~ At("pair") /\ ~ At("produce") /\ ~ At("consume") /\ ~ At("fill") /\ ~ At("sweep")
  BY <1>1 DEF At
<1>3. PICK n : n = Ops(m) + work.i
  OBVIOUS
<1>4. n \in Nat /\ NSlots \in Nat \ {0}
  <2>1. m.allocs \in Nat /\ m.frees \in Nat /\ m.reallocs \in Nat
    BY DEF IInv, TypeOK, MetricsOK, Metrics
  <2>2. work.i \in Nat /\ NSlots \in Nat /\ NSlots >= 2
    BY WorkloadConstants DEF IInv, TypeOK, Works
  <2> QED BY <1>3, <2>1, <2>2, SMT DEF Ops
<1>5. PICK j : j = n % NSlots
  OBVIOUS
<1>6. j \in Slots
  BY <1>4, <1>5, DivMod DEF Slots
<1>7. /\ invalid' = invalid + Misuse(heap, ptrs[j].ptr)
      /\ IF ptrs[j].ptr = Null
         THEN \E size \in Sizes, b \in AllocResults(heap) :
                /\ heap' = Put(heap, b, size, 0)
                /\ Refuse(b)
                /\ ptrs' = [ptrs EXCEPT ![j] = Record(b, size)]
                /\ m' = metrics_alloc(m, size)
         ELSE /\ heap' = Drop(heap, ptrs[j].ptr)
              /\ ptrs' = [ptrs EXCEPT ![j] = Empty]
              /\ m' = metrics_free(m, ptrs[j].size)
              /\ UNCHANGED refused
  BY <1>3, <1>5 DEF Toggle
<1>8. CASE ptrs[j].ptr = Null
  <2>1. PICK size \in Sizes, b \in AllocResults(heap) :
                /\ heap' = Put(heap, b, size, 0)
                /\ Refuse(b)
                /\ ptrs' = [ptrs EXCEPT ![j] = Record(b, size)]
                /\ m' = metrics_alloc(m, size)
    BY <1>7, <1>8
  <2>2. MetricsOK(m') /\ m'.errors = m.errors /\ 0 \in Nat
    BY <2>1, MetricsPass
  <2>3. Misuse(heap, ptrs[j].ptr) = 0
    BY <1>2, <1>6, AtSlot
  <2>4. invalid' = invalid
    BY <1>7, <2>3, SMT DEF IInv, TypeOK
  <2> QED BY <1>1, <1>2, <1>6, <1>8, <2>1, <2>2, <2>4, FillSlot
<1>9. CASE ptrs[j].ptr # Null
  <2>1. refused' \in Nat /\ refused' >= refused
    BY <1>7, <1>9, SMT DEF IInv, TypeOK
  <2>2. MetricsOK(m') /\ m'.errors = m.errors
    BY <1>7, <1>9, MetricsPass
  <2> QED BY <1>1, <1>2, <1>6, <1>7, <1>9, <2>1, <2>2, ClearSlot
<1> QED BY <1>8, <1>9

-----------------------------------------------------------------------------
(* The pair loop                                                           *)

\* Half a pass of a pair loop: what the other half, or the next loop, relies on.
LEMMA PairStage ==
  ASSUME IInv, At("pair"), InWork, TypeOK', UNCHANGED <<ptrs, done>>,
         \/ work'.stage = work.stage
         \/ work'.stage = work.stage + 1 /\ work'.i = 0 /\ ~ work'.held
  PROVE StageOK' /\ NoneDone /\ NoneDone'
<1>1. Running
  BY DEF At
<1>2. work.stage \in 1 .. Len(work.prog) /\ Len(work.prog) \in Nat
  <2>1. work.prog \in Seq(Stages)
    BY DEF IInv, TypeOK, Works
  <2>2. Len(work.prog) \in Nat
    BY <2>1, SMT
  <2> QED BY <1>1, <2>2, StageType DEF IInv
<1>3. NoneDone /\ NoneDone'
  BY DEF IInv, StageOK, NoneDone, At
<1>4. FromEmpty' = FromEmpty /\ Working /\ Tidy(work.prog, FromEmpty)
  BY <1>1 DEF InWork, mainVars, FromEmpty, IInv, MainOK, ProgOK
<1>5. CASE work'.stage = work.stage
  <2>1. Stage' = Stage /\ Running' /\ KnownEmpty(work.stage)' = KnownEmpty(work.stage)
    BY <1>1, <1>4, <1>5 DEF InWork, Stage, Running, KnownEmpty
  <2>2. At("pair")' /\ ~ At("fill")' /\ ~ At("sweep")' /\ ~ At("produce")' /\ ~ At("consume")'
    BY <2>1 DEF At
  <2>3. work'.stage <= Len(work'.prog) + 1
    BY <1>2, <1>5, SMT DEF InWork
  <2>4. EmptySlots' = EmptySlots
    BY DEF EmptySlots
  <2> QED BY <1>3, <2>1, <2>2, <2>3, <2>4 DEF IInv, StageOK, NoneDone
<1>6. CASE work'.stage = work.stage + 1 /\ work'.i = 0 /\ ~ work'.held
  <2>1. KnownEmpty(work.stage)' => EmptySlots'
    <3> SUFFICES ASSUME EmptyAt(work.prog, work.stage + 1, FromEmpty) PROVE EmptySlots
      BY <1>4, <1>6 DEF KnownEmpty, EmptySlots, InWork
    <3>1. (work.stage + 1) - 1 = work.stage /\ work.stage + 1 # 1 /\ (work.stage + 1 = 2 => work.stage = 1)
      BY <1>2, SMT
    <3>2. ~ Empties(Stage)
      BY DEF Empties, At
    <3>3. FromEmpty /\ work.stage = 1
      BY <3>1, <3>2 DEF EmptyAt, Stage
    <3>4. KnownEmpty(work.stage)
      BY <3>3 DEF KnownEmpty, EmptyAt
    <3> QED BY <3>4 DEF IInv, StageOK
  <2>2. ~ (At("consume")' /\ Stage'.part = "victim")
    <3> SUFFICES ASSUME At("consume")', Stage'.part = "victim" PROVE FALSE
      OBVIOUS
    <3>1. work'.stage \in 1 .. Len(work.prog) /\ work'.stage - 1 = work.stage
      BY <1>2, <1>6, SMT DEF At, Running, InWork
    <3>2. work.prog[work'.stage].op = "consume" /\ work.prog[work'.stage].part = "victim"
      BY DEF At, Stage, InWork
    <3>3. work.prog[work'.stage - 1].op = "produce"
      BY <1>4, <3>1, <3>2 DEF Tidy
    <3> QED BY <3>1, <3>3 DEF At, Stage
  <2>3. work'.stage <= Len(work'.prog) + 1
    BY <1>2, <1>6, SMT DEF InWork
  <2>4. Entered'
    BY <1>3, <1>4, <1>6, <2>1, <2>2, <2>3 DEF Entered, NoneDone, InWork
  <2>5. Entered' => StageOK'
    BY EnterStage, PTL
  <2> QED BY <1>3, <2>4, <2>5
<1> QED BY <1>5, <1>6

\* The same for the whole state: only the block in hand changes.
LEMMA PairPass ==
  ASSUME IInv, At("pair"), UNCHANGED <<mainVars, serverVars>>, UNCHANGED <<ptrs, done>>,
         work' \in Works, work'.prog = work.prog, work'.phase = work.phase,
         \/ work'.stage = work.stage
         \/ work'.stage = work.stage + 1 /\ work'.i = 0 /\ ~ work'.held,
         NEW p, p = IF work'.held THEN work'.hand.ptr ELSE Null,
         Owns(heap', [Refs EXCEPT ![Hand] = p]),
         Lost(heap', [Refs EXCEPT ![Hand] = p]) = Lost(heap, Refs),
         refused' \in Nat, refused' >= refused,
         work'.held /\ Stage'.pay = "chunk" /\ work'.hand.ptr # Null =>
           heap'[work'.hand.ptr].fill = work'.hand.seed,
         invalid' \in Nat, invalid' = invalid \/ Deliberate,
         MetricsOK(m'), m'.errors = m.errors \/ Misnumbered
  PROVE IInv'
<1>1. InWork
  BY DEF InWork
<1>2. TypeOK'
  <2>1. heap' \in [Blocks -> Objects \cup {Null}]
    BY DEF Owns
  <2>2. UNCHANGED <<cfg, benches, phases, elapsed>>
    BY DEF mainVars
  <2> QED BY <2>1, <2>2 DEF IInv, TypeOK
<1>3. StageOK' /\ NoneDone /\ NoneDone'
  BY <1>1, <1>2, PairStage
<1>4. /\ \A k \in Slots : Refs[k] = ptrs[k].ptr
      /\ Hand \notin Slots /\ Hand \in Places /\ Owns(heap, Refs)
  BY <1>3, PlainRefs DEF IInv, HeapOK
<1>5. Refs'[Hand] = p /\ \A k \in Slots : Refs'[k] = ptrs'[k].ptr
  <2>1. \A k \in Slots : k # Hand
    BY <1>4
  <2>2. \A k \in Slots : ~ Consumed(k)'
    BY <1>3 DEF NoneDone, Consumed
  <2> QED BY <2>1, <2>2 DEF Refs, Places
<1>6. \A k \in Places \ {Hand} : Refs'[k] = Refs[k]
  BY <1>4, <1>5 DEF Places
<1>7. Refs' = [Refs EXCEPT ![Hand] = p]
  BY <1>2, <1>3, <1>4, <1>5, <1>6, OnePlace
<1>8. PICK r : r = [Refs EXCEPT ![Hand] = p]
  OBVIOUS
<1>9. HeapOK'
  BY <1>1, <1>2, <1>7, <1>8, HeapAfter
<1>10. m'.errors > 0 => m.errors > 0 \/ Misnumbered
  OBVIOUS
<1>11. invalid' > 0 => invalid > 0 \/ Deliberate
  OBVIOUS
<1>12. Running
  BY DEF At
<1> QED BY <1>1, <1>2, <1>3, <1>9, <1>10, <1>11, <1>12, WorkFrame

\* The first half of a pair loop's pass: the new block is in the hand.
LEMMA PairAllocKeeps ==
  ASSUME IInv, PairAlloc, UNCHANGED <<mainVars, serverVars>>
  PROVE IInv'
<1>1. At("pair") /\ ~ work.held /\ UNCHANGED <<invalid, ptrs, snap, done>>
  BY DEF PairAlloc
<1>2. PICK size \in Sizes, b \in AllocResults(heap) :
       /\ heap' = Put(heap, b, size, Written)
       /\ Refuse(b)
       /\ m' = IfCounted(metrics_alloc(m, size))
       /\ work' = Numbered([work EXCEPT !.held = TRUE, !.hand = Record(b, size)])
  BY DEF PairAlloc
<1>3. PICK old \in Blocks \cup {Null} : TRUE
  OBVIOUS
<1>4. /\ b \in Blocks \cup {Null} /\ (b # Null => heap[b] = Null)
      /\ refused' \in Nat /\ refused' >= refused
  BY <1>2, <1>3, Results
<1>5. size \in Nat
  BY WorkloadConstants
<1>6. PICK rec : rec = Record(b, size)
  OBVIOUS
<1>7. Written \in Nat /\ rec \in Records /\ rec.ptr = b /\ (Stage.pay = "chunk" => rec.seed = Written)
  BY <1>4, <1>5, <1>6, RecordType DEF IInv
<1>8. PICK w : w = [work EXCEPT !.held = TRUE, !.hand = rec]
  OBVIOUS
<1>9. w \in Works
  BY <1>7, <1>8 DEF IInv, TypeOK, Works
<1>10. w.prog = work.prog /\ w.phase = work.phase /\ w.stage = work.stage /\ w.held /\ w.hand = rec
  BY <1>8 DEF IInv, TypeOK, Works
<1>11. /\ work' \in Works /\ work'.prog = work.prog /\ work'.phase = work.phase
       /\ work'.stage = work.stage /\ work'.held /\ work'.hand = rec
  BY <1>2, <1>6, <1>8, <1>9, <1>10, NumberedFields
<1>12. Refs[Hand] = Null /\ Hand \in Places /\ Owns(heap, Refs)
  <2>1. NoneDone
    BY <1>1 DEF IInv, StageOK, NoneDone, At
  <2> QED BY <1>1, <2>1, PlainRefs DEF IInv, HeapOK
<1>13. PICK p : p = IF work'.held THEN work'.hand.ptr ELSE Null
  OBVIOUS
<1>14. p = b
  BY <1>7, <1>11, <1>13
<1>15. /\ Owns(heap', [Refs EXCEPT ![Hand] = p])
       /\ Lost(heap', [Refs EXCEPT ![Hand] = p]) = Lost(heap, Refs)
  <2>1. /\ Owns(Put(heap, b, size, Written), [Refs EXCEPT ![Hand] = b])
        /\ Lost(Put(heap, b, size, Written), [Refs EXCEPT ![Hand] = b]) = Lost(heap, Refs)
    BY <1>4, <1>5, <1>7, <1>12, AllocOwns
  <2> QED BY <1>2, <1>14, <2>1
<1>16. work'.held /\ Stage'.pay = "chunk" /\ work'.hand.ptr # Null =>
         heap'[work'.hand.ptr].fill = work'.hand.seed
  <2>1. Stage' = Stage
    BY <1>11 DEF Stage
  <2>2. heap \in [Blocks -> Objects \cup {Null}]
    BY DEF IInv, TypeOK
  <2>3. b # Null => heap'[b].fill = Written
    BY <1>2, <1>4, <2>2 DEF Put
  <2> QED BY <1>7, <1>11, <2>1, <2>3
<1>17. MetricsOK(m') /\ m'.errors = m.errors
  BY <1>2, MetricsPass
<1>18. invalid' \in Nat /\ invalid' = invalid
  BY <1>1 DEF IInv, TypeOK
<1> QED BY <1>1, <1>4, <1>11, <1>13, <1>15, <1>16, <1>17, <1>18, PairPass

\* The second half: the block in the hand is freed, by debug_safety twice.
LEMMA PairFreeKeeps ==
  ASSUME IInv, PairFree, UNCHANGED <<mainVars, serverVars>>
  PROVE IInv'
<1>1. At("pair") /\ work.held /\ UNCHANGED <<refused, ptrs, done>>
  BY DEF PairFree
<1>2. PICK p : p = work.hand.ptr
  OBVIOUS
<1>3. PICK again : again = IF Stage.part = "twice" /\ work.i % Every = 0
                           THEN Misuse(Drop(heap, p), p) ELSE 0
  OBVIOUS
<1>4. /\ heap' = Drop(heap, p)
      /\ invalid' = invalid + Misuse(heap, p) + again
      /\ m' = IF Stage.counted THEN metrics_free(IfChecked(work.hand), work.hand.size) ELSE m
      /\ work' = Passed([work EXCEPT !.held = FALSE, !.hand = Empty])
  BY <1>2, <1>3 DEF PairFree
<1>5. Refs[Hand] = p /\ Hand \in Places /\ Owns(heap, Refs)
  <2>1. NoneDone
    BY <1>1 DEF IInv, StageOK, NoneDone, At
  <2> QED BY <1>1, <1>2, <2>1, PlainRefs DEF IInv, HeapOK
<1>6. Misuse(heap, p) = 0
  BY <1>5 DEF Owns, Misuse
<1>7. work.stage \in 1 .. Len(work.prog)
  BY <1>1, StageType DEF IInv, At
<1>8. again \in {0, 1} /\ (again = 0 \/ Deliberate)
  BY <1>3, <1>7 DEF Misuse, IInv, ProgOK, Stage
<1>9. invalid' \in Nat /\ (invalid' = invalid \/ Deliberate)
  <2>1. invalid \in Nat
    BY DEF IInv, TypeOK
  <2>2. invalid' = invalid + again /\ invalid' \in Nat
    BY <1>4, <1>6, <1>8, <2>1, SMT
  <2>3. again = 0 => invalid' = invalid
    BY <2>1, <2>2, SMT
  <2> QED BY <1>8, <2>2, <2>3
<1>10. PICK w : w = [work EXCEPT !.held = FALSE, !.hand = Empty]
  OBVIOUS
<1>11. w \in Works
  BY <1>10, EmptyType DEF IInv, TypeOK, Works
<1>12. w.prog = work.prog /\ w.phase = work.phase /\ w.stage = work.stage /\ ~ w.held
  BY <1>10 DEF IInv, TypeOK, Works
<1>13. /\ work' \in Works /\ work'.prog = work.prog /\ work'.phase = work.phase /\ ~ work'.held
       /\ \/ work'.stage = work.stage
          \/ work'.stage = work.stage + 1 /\ work'.i = 0 /\ ~ work'.held
  BY <1>4, <1>10, <1>11, <1>12, PassedFields
<1>14. PICK q : q = IF work'.held THEN work'.hand.ptr ELSE Null
  OBVIOUS
<1>15. /\ Owns(heap', [Refs EXCEPT ![Hand] = q])
       /\ Lost(heap', [Refs EXCEPT ![Hand] = q]) = Lost(heap, Refs)
  <2>1. /\ Owns(Drop(heap, Refs[Hand]), [Refs EXCEPT ![Hand] = Null])
        /\ Lost(Drop(heap, Refs[Hand]), [Refs EXCEPT ![Hand] = Null]) = Lost(heap, Refs)
    BY <1>5, FreeOwns
  <2> QED BY <1>4, <1>5, <1>13, <1>14, <2>1
<1>16. MetricsOK(m') /\ (m'.errors = m.errors \/ Misnumbered)
  <2>1. MetricsOK(m) /\ 0 \in Nat /\ 1 \in Nat
    BY DEF IInv, TypeOK
  <2>2. ~ Stage.checked \/ work.hand.ptr = Null \/ payload_check(work.hand) \/ Misnumbered
    BY <1>1, <1>7 DEF IInv, ProgOK, HeapOK, payload_check, Stage
  <2>3. PICK mm : mm = IfChecked(work.hand)
    OBVIOUS
  <2>4. MetricsOK(mm) /\ (mm.errors = m.errors \/ Misnumbered)
    BY <2>1, <2>2, <2>3, CheckOK
  <2>5. PICK size : size = work.hand.size
    OBVIOUS
  <2>6. MetricsOK(metrics_free(mm, size)) /\ metrics_free(mm, size).errors = mm.errors
    BY <2>1, <2>4, FreedOK DEF metrics_free
  <2> QED BY <1>4, <2>1, <2>3, <2>4, <2>5, <2>6
<1>17. refused' \in Nat /\ refused' >= refused
  BY <1>1, SMT DEF IInv, TypeOK
<1> QED BY <1>1, <1>9, <1>13, <1>14, <1>15, <1>16, <1>17, PairPass

-----------------------------------------------------------------------------
(* The worker threads                                                      *)

\* What worker t finds when it has something left: its next slot is its own,
\* and no worker has had it.
LEMMA NextSlot ==
  ASSUME IInv, At("produce") \/ At("consume"), NEW t \in Threads, Share(t) # done[t]
  PROVE /\ Stage.part \in {"own", "victim", "stride", "one"}
        /\ Min(Share(t) \ done[t]) \in Slots /\ Min(Share(t) \ done[t]) \in Share(t)
        /\ \A u \in Threads : Min(Share(t) \ done[t]) \notin done[u]
        /\ \A u \in Threads : done[u] \subseteq Share(u)
<1>1. work.stage \in 1 .. Len(work.prog) /\ Working
  BY StageType DEF IInv, At, MainOK
<1>2. Stage.part \in {"own", "victim", "stride", "one"}
  BY <1>1 DEF IInv, ProgOK, Tidy, Stage, At
<1>3. \A u \in Threads : done[u] \subseteq Share(u)
  BY DEF IInv, StageOK
<1>4. \A k \in Share(t) : k \in Slots
  BY <1>2, SharesApart
<1>5. PICK S : S = Share(t) \ done[t]
  OBVIOUS
<1>6. Slots \subseteq Nat
  BY WorkloadConstants, SMT DEF Slots
<1>7. S \subseteq Nat /\ S # {}
  BY <1>3, <1>4, <1>5, <1>6
<1>8. Min(S) \in S
  BY <1>7, MinIn
<1>9. PICK j : j = Min(S)
  OBVIOUS
<1>10. j \in Share(t) /\ j \notin done[t] /\ j \in Slots
  BY <1>4, <1>5, <1>8, <1>9
<1>11. ASSUME NEW u \in Threads PROVE j \notin done[u]
  BY <1>2, <1>3, <1>10, SharesApart
<1> QED BY <1>2, <1>3, <1>5, <1>9, <1>10, <1>11

\* A worker has dealt with its next slot.
LEMMA WorkerPass ==
  ASSUME IInv, At("produce") \/ At("consume"), NEW t \in Threads, Share(t) # done[t],
         UNCHANGED <<mainVars, serverVars>>, UNCHANGED <<work, m, invalid>>,
         NEW j, j = Min(Share(t) \ done[t]), done' = [done EXCEPT ![t] = @ \cup {j}],
         ptrs' \in [Slots -> Records], \A k \in Slots \ {j} : ptrs'[k] = ptrs[k],
         At("consume") => ptrs' = ptrs,
         NEW r, Refs' = r, Owns(heap', r), Lost(heap', r) = Lost(heap, Refs),
         refused' \in Nat, refused' >= refused
  PROVE IInv'
<1>1. InWork /\ Running /\ ~ At("pair") /\ ~ At("fill") /\ ~ At("sweep")
  BY DEF InWork, At
<1>2. /\ j \in Slots /\ j \in Share(t) /\ \A u \in Threads : j \notin done[u]
      /\ \A u \in Threads : done[u] \subseteq Share(u)
  BY NextSlot
<1>3. done \in [Threads -> SUBSET Slots]
  BY DEF IInv, TypeOK
<1>4. done' \in [Threads -> SUBSET Slots] /\ done'[t] = done[t] \cup {j}
      /\ \A u \in Threads \ {t} : done'[u] = done[u]
  BY <1>2, <1>3
<1>5. TypeOK'
  <2>1. heap' \in [Blocks -> Objects \cup {Null}]
    BY DEF Owns
  <2>2. UNCHANGED <<cfg, benches, phases, elapsed>>
    BY DEF mainVars
  <2> QED BY <1>4, <2>1, <2>2 DEF IInv, TypeOK, MetricsOK
<1>6. StageOK'
  <2>1. Running' = Running /\ Stage' = Stage
    BY DEF Running, Stage
  <2>2. /\ At("pair")' = At("pair") /\ At("fill")' = At("fill") /\ At("sweep")' = At("sweep")
        /\ At("produce")' = At("produce") /\ At("consume")' = At("consume")
    BY <2>1 DEF At
  <2>3. \A u \in Threads : Share(u)' = Share(u)
    BY <2>1 DEF Share
  <2>4. \A u \in Threads : done'[u] \subseteq Share(u) /\ done[u] \subseteq done'[u]
    BY <1>2, <1>4
  <2>5. At("produce") => \A k \in Slots : ptrs'[k].ptr # Null => \E u \in Threads : k \in done'[u]
    <3> SUFFICES ASSUME At("produce"), NEW k \in Slots, ptrs'[k].ptr # Null
                 PROVE \E u \in Threads : k \in done'[u]
      OBVIOUS
    <3>1. CASE k = j
      BY <3>1, <1>4
    <3>2. CASE k # j
      <4>1. ptrs[k].ptr # Null
        BY <3>2
      <4>2. PICK u \in Threads : k \in done[u]
        BY <4>1 DEF IInv, StageOK
      <4> QED BY <2>4, <4>2
    <3> QED BY <3>1, <3>2
  <2>6. At("consume") => \A k \in Slots : ptrs'[k].ptr # Null => \E u \in Threads : k \in Share(u)
    BY DEF IInv, StageOK
  <2>7. ~ work.held /\ work.stage <= Len(work.prog) + 1 /\ work.i = 0
    BY <1>1 DEF IInv, StageOK
  <2> QED BY <1>1, <2>1, <2>2, <2>3, <2>4, <2>5, <2>6, <2>7 DEF StageOK
<1>7. HeapOK'
  <2>1. ~ work'.held
    BY <1>1 DEF IInv, StageOK
  <2> QED BY <1>1, <1>5, <2>1, HeapAfter
<1> QED BY <1>1, <1>5, <1>6, <1>7, WorkFrame

\* A producer fills a slot of its own share.
LEMMA WorkerAllocKeeps ==
  ASSUME IInv, NEW t \in Threads, WorkerAlloc(t), UNCHANGED <<mainVars, serverVars>>
  PROVE IInv'
<1>1. PICK j : j = Min(Share(t) \ done[t])
  OBVIOUS
<1>2. /\ At("produce") /\ Share(t) # done[t] /\ UNCHANGED <<invalid, m, snap, work>>
      /\ done' = [done EXCEPT ![t] = @ \cup {j}]
  BY <1>1 DEF WorkerAlloc
<1>3. PICK size \in Sizes, b \in AllocResults(heap) :
             /\ heap' = Put(heap, b, size, 0)
             /\ Refuse(b)
             /\ ptrs' = [ptrs EXCEPT ![j] = Record(b, size)]
  BY <1>1 DEF WorkerAlloc
<1>4. PICK old \in Blocks \cup {Null} : TRUE
  OBVIOUS
<1>5. /\ b \in Blocks \cup {Null} /\ (b # Null => heap[b] = Null)
      /\ refused' \in Nat /\ refused' >= refused
  BY <1>3, <1>4, Results
<1>6. size \in Nat /\ 0 \in Nat
  BY WorkloadConstants
<1>7. PICK rec : rec = Record(b, size)
  OBVIOUS
<1>8. rec \in Records /\ rec.ptr = b
  BY <1>5, <1>6, <1>7, RecordType DEF IInv
<1>9. j \in Slots /\ \A u \in Threads : j \notin done[u]
  BY <1>1, <1>2, NextSlot
<1>10. ptrs \in [Slots -> Records]
  BY DEF IInv, TypeOK
<1>11. ptrs' \in [Slots -> Records] /\ ptrs'[j] = rec /\ \A k \in Slots \ {j} : ptrs'[k] = ptrs[k]
  BY <1>3, <1>7, <1>8, <1>9, <1>10
<1>12. ptrs[j].ptr = Null
  BY <1>2, <1>9 DEF IInv, StageOK
<1>13. ~ At("consume") /\ ~ At("consume")' /\ ~ At("pair")
  BY <1>2 DEF At, Running, Stage
<1>14. \A k \in Slots : k # Hand
  BY WorkloadConstants, SMT DEF Slots, Hand
<1>15. /\ Refs[j] = Null /\ j \in Places /\ Owns(heap, Refs) /\ Refs'[j] = b
       /\ \A k \in Places \ {j} : Refs'[k] = Refs[k]
  BY <1>2, <1>8, <1>9, <1>11, <1>12, <1>13, <1>14 DEF Refs, Consumed, Places, IInv, HeapOK
<1>16. Refs' = [Refs EXCEPT ![j] = b]
  BY <1>15, OnePlace
<1>17. PICK r : r = [Refs EXCEPT ![j] = b]
  OBVIOUS
<1>18. Owns(heap', r) /\ Lost(heap', r) = Lost(heap, Refs)
  <2>1. PICK fill \in Nat : fill = 0
    BY <1>6
  <2>2. /\ Owns(Put(heap, b, size, fill), [Refs EXCEPT ![j] = b])
        /\ Lost(Put(heap, b, size, fill), [Refs EXCEPT ![j] = b]) = Lost(heap, Refs)
    <3>1. Refs[j] = Null /\ j \in Places /\ Owns(heap, Refs)
      BY <1>15
    <3>2. size \in Nat /\ b \in Blocks \cup {Null} /\ (b # Null => heap[b] = Null)
      BY <1>5, <1>6
    <3> QED BY <3>1, <3>2, AllocOwns
  <2> QED BY <1>3, <1>17, <2>1, <2>2
<1> QED BY <1>1, <1>2, <1>5, <1>11, <1>13, <1>16, <1>17, <1>18, WorkerPass

\* A consumer frees a slot of its share, which no other thread has.
LEMMA WorkerFreeKeeps ==
  ASSUME IInv, NEW t \in Threads, WorkerFree(t), UNCHANGED <<mainVars, serverVars>>
  PROVE IInv'
<1>1. PICK j : j = Min(Share(t) \ done[t])
  OBVIOUS
<1>2. /\ At("consume") /\ Share(t) # done[t] /\ UNCHANGED <<refused, ptrs, m, snap, work>>
      /\ done' = [done EXCEPT ![t] = @ \cup {j}]
      /\ heap' = Drop(heap, ptrs[j].ptr) /\ invalid' = invalid + Misuse(heap, ptrs[j].ptr)
  BY <1>1 DEF WorkerFree
<1>3. j \in Slots /\ \A u \in Threads : j \notin done[u]
  BY <1>1, <1>2, NextSlot
<1>4. At("consume")'
  BY <1>2 DEF At, Running, Stage
<1>5. \A k \in Slots : k # Hand
  BY WorkloadConstants, SMT DEF Slots, Hand
<1>6. done \in [Threads -> SUBSET Slots] /\ ptrs \in [Slots -> Records]
  BY DEF IInv, TypeOK
<1>7. ~ Consumed(j) /\ Consumed(j)' /\ \A k \in Slots \ {j} : Consumed(k)' <=> Consumed(k)
  <2>1. done'[t] = done[t] \cup {j} /\ \A u \in Threads \ {t} : done'[u] = done[u]
    BY <1>2, <1>6
  <2> QED BY <1>2, <1>3, <1>4, <2>1 DEF Consumed
<1>8. /\ Refs[j] = ptrs[j].ptr /\ j \in Places /\ Owns(heap, Refs) /\ Refs'[j] = Null
      /\ \A k \in Places \ {j} : Refs'[k] = Refs[k]
  BY <1>2, <1>3, <1>5, <1>7 DEF Refs, Places, IInv, HeapOK
<1>9. Refs' = [Refs EXCEPT ![j] = Null]
  BY <1>8, OnePlace
<1>10. PICK r : r = [Refs EXCEPT ![j] = Null]
  OBVIOUS
<1>11. Owns(heap', r) /\ Lost(heap', r) = Lost(heap, Refs)
  <2>1. /\ Owns(Drop(heap, Refs[j]), [Refs EXCEPT ![j] = Null])
        /\ Lost(Drop(heap, Refs[j]), [Refs EXCEPT ![j] = Null]) = Lost(heap, Refs)
    BY <1>8, FreeOwns
  <2> QED BY <1>2, <1>8, <1>10, <2>1
<1>12. invalid' = invalid
  <2>1. Misuse(heap, Refs[j]) = 0
    BY <1>8 DEF Owns, Misuse
  <2>2. Misuse(heap, ptrs[j].ptr) = 0
    BY <1>8, <2>1
  <2> QED BY <1>2, <2>2, SMT DEF IInv, TypeOK
<1>13. refused' \in Nat /\ refused' >= refused
  BY <1>2, SMT DEF IInv, TypeOK
<1> QED BY <1>1, <1>2, <1>6, <1>9, <1>10, <1>11, <1>12, <1>13, WorkerPass

\* All workers have ended: nothing changes hands, and the next loop begins.
LEMMA JoinKeeps ==
  ASSUME IInv, Join, UNCHANGED <<mainVars, serverVars>>
  PROVE IInv'
<1>1. /\ done' = [t \in Threads |-> {}] /\ work' = [work EXCEPT !.stage = @ + 1]
      /\ UNCHANGED <<heap, invalid, refused>>
      /\ ptrs' = IF Stage.op = "produce" THEN ptrs ELSE [j \in Slots |-> Empty]
  BY DEF Join
<1>2. At("produce") \/ At("consume")
  BY DEF Join
<1>3. \A t \in Threads : done[t] = Share(t)
  BY DEF Join
<1>4. /\ Running /\ ~ At("pair") /\ ~ work.held /\ work.i = 0
      /\ work.stage \in 1 .. Len(work.prog) /\ Working
  BY <1>2, StageType DEF IInv, At, StageOK, MainOK
<1>5. Len(work.prog) \in Nat
  <2>1. work.prog \in Seq(Stages)
    BY DEF IInv, TypeOK, Works
  <2> QED BY <2>1, SMT
<1>6. /\ work' \in Works /\ work'.stage = work.stage + 1 /\ work'.prog = work.prog
      /\ work'.phase = work.phase /\ work'.i = 0 /\ ~ work'.held
  <2>1. work.stage + 1 \in Nat \ {0} /\ work \in Works
    BY <1>4, <1>5, SMT DEF IInv, TypeOK
  <2>2. [work EXCEPT !.stage = work.stage + 1] \in Works
    BY <2>1 DEF Works
  <2>3. PICK w : w = [work EXCEPT !.stage = work.stage + 1]
    OBVIOUS
  <2>4. w.stage = work.stage + 1 /\ w.prog = work.prog /\ w.phase = work.phase /\ w.i = work.i
        /\ w.held = work.held
    BY <2>1, <2>3 DEF Works
  <2>5. work' = w
    BY <1>1, <2>3
  <2> QED BY <1>4, <2>2, <2>3, <2>4, <2>5
<1>7. InWork
  BY <1>6 DEF InWork
<1>8. NoneDone' /\ done' \in [Threads -> SUBSET Slots]
  BY <1>1 DEF NoneDone
<1>9. Stage.part \in {"own", "victim", "stride", "one"}
  BY <1>2, <1>4 DEF IInv, ProgOK, Tidy, Stage, At
<1>10. MetricsOK(m') /\ m'.errors = m.errors
  <2>1. PICK used : used = UNION {Share(t) : t \in Threads}
    OBVIOUS
  <2>2. used \subseteq Slots
    BY <1>9, <2>1, SharesApart
  <2>3. IsFiniteSet(Slots)
    <3>1. 0 \in Int /\ NSlots - 1 \in Int
      BY WorkloadConstants, SMT
    <3> QED BY <3>1, FS_Interval DEF Slots
  <2>4. Cardinality(used) \in Nat
    BY <2>2, <2>3, FS_Subset, FS_CardinalityType
  <2>5. PICK bytes : m' = IfCounted(IF Stage.op = "produce" THEN Allocated(m, Cardinality(used), bytes)
                                    ELSE Freed(m, Cardinality(used), bytes, Cardinality(used)))
    BY <2>1 DEF Join
  <2>6. PICK n \in Nat : n = Cardinality(used)
    BY <2>4
  <2>7. MetricsOK(m)
    BY DEF IInv, TypeOK
  <2>8. MetricsOK(Allocated(m, n, bytes)) /\ Allocated(m, n, bytes).errors = m.errors
    BY <2>7, AllocatedOK
  <2>9. MetricsOK(Freed(m, n, bytes, n)) /\ Freed(m, n, bytes, n).errors = m.errors
    BY <2>7, FreedOK
  <2> QED BY <2>5, <2>6, <2>7, <2>8, <2>9 DEF IfCounted
<1>11. ptrs' \in [Slots -> Records] /\ ptrs \in [Slots -> Records]
  BY <1>1, EmptyType DEF IInv, TypeOK
<1>12. TypeOK'
  <2>1. UNCHANGED <<cfg, benches, phases, elapsed>>
    BY DEF mainVars
  <2> QED BY <1>1, <1>6, <1>8, <1>10, <1>11, <2>1 DEF IInv, TypeOK
<1>13. Refs' = Refs
  <2>1. \A k \in Slots : k # Hand
    BY WorkloadConstants, SMT DEF Slots, Hand
  <2>2. \A k \in Slots : ~ Consumed(k)'
    BY <1>8 DEF NoneDone, Consumed
  <2>3. ASSUME NEW k \in Slots PROVE Refs'[k] = Refs[k]
    <3>1. Refs'[k] = ptrs'[k].ptr
      BY <2>1, <2>2 DEF Refs, Places
    <3>2. CASE At("produce")
      <4>1. ptrs' = ptrs /\ ~ Consumed(k)
        BY <1>1, <3>2 DEF At, Consumed
      <4> QED BY <2>1, <3>1, <4>1 DEF Refs, Places
    <3>3. CASE At("consume")
      <4>1. ptrs'[k] = Empty
        BY <1>1, <3>3 DEF At
      <4>2. CASE ptrs[k].ptr = Null
        BY <2>1, <3>1, <4>1, <4>2, EmptyType DEF Refs, Places
      <4>3. CASE ptrs[k].ptr # Null
        <5>1. Consumed(k)
          BY <1>3, <3>3, <4>3 DEF IInv, StageOK, Consumed
        <5> QED BY <2>1, <3>1, <4>1, <5>1, EmptyType DEF Refs, Places
      <4> QED BY <4>2, <4>3
    <3> QED BY <1>2, <3>2, <3>3
  <2>4. Refs'[Hand] = Null /\ Refs[Hand] = Null
    BY <1>4, <1>6 DEF Refs, Places
  <2>5. \A k \in Places : Refs'[k] = Refs[k]
    BY <2>3, <2>4 DEF Places
  <2>6. Refs = [k \in Places |-> Refs[k]] /\ Refs' = [k \in Places |-> Refs'[k]]
    BY DEF Refs
  <2> QED BY <2>5, <2>6
<1>14. HeapOK'
  <2>1. Owns(heap', Refs) /\ Lost(heap', Refs) = Lost(heap, Refs) /\ refused' >= refused
    BY <1>1, SMT DEF IInv, HeapOK, TypeOK
  <2>2. PICK r : r = Refs
    OBVIOUS
  <2> QED BY <1>6, <1>7, <1>12, <1>13, <2>1, <2>2, HeapAfter
<1>15. FromEmpty' = FromEmpty /\ Tidy(work.prog, FromEmpty)
  BY <1>4, <1>7 DEF InWork, mainVars, FromEmpty, IInv, ProgOK
<1>16. KnownEmpty(work.stage)' => EmptySlots'
  <2>1. CASE At("consume")
    <3>1. \A k \in Slots : ptrs'[k] = Empty
      BY <1>1, <2>1 DEF At
    <3> QED BY <3>1, EmptyType DEF EmptySlots
  <2>2. CASE At("produce")
    <3>1. (work.stage + 1) - 1 = work.stage /\ work.stage + 1 # 1 /\ (work.stage + 1 = 2 => work.stage = 1)
      BY <1>4, <1>5, SMT
    <3>2. ~ Empties(Stage)
      BY <2>2 DEF Empties, At
    <3>3. ~ EmptyAt(work.prog, work.stage + 1, FromEmpty)
      BY <2>2, <3>1, <3>2 DEF EmptyAt, Stage, At
    <3> QED BY <1>6, <1>15, <3>3 DEF KnownEmpty
  <2> QED BY <1>2, <2>1, <2>2
<1>17. At("consume")' /\ Stage'.part = "victim" =>
         \A j \in Slots : ptrs'[j].ptr # Null => \E t \in Threads : j \in Share(t)'
  <2> SUFFICES ASSUME At("consume")', Stage'.part = "victim", NEW j \in Slots, ptrs'[j].ptr # Null
               PROVE \E t \in Threads : j \in Share(t)'
    OBVIOUS
  <2>1. work'.stage \in 1 .. Len(work.prog) /\ work'.stage - 1 = work.stage
    BY <1>4, <1>5, <1>6, SMT DEF At, Running
  <2>2. work.prog[work'.stage].op = "consume" /\ work.prog[work'.stage].part = "victim"
    BY <1>6 DEF At, Stage
  <2>3. work.prog[work'.stage - 1].op = "produce" /\ work.prog[work'.stage - 1].part = "own"
    BY <1>15, <2>1, <2>2 DEF Tidy
  <2>4. At("produce") /\ Stage.part = "own"
    BY <1>4, <2>1, <2>3 DEF At, Stage
  <2>5. ptrs' = ptrs
    BY <1>1, <2>4 DEF At
  <2>6. PICK t \in Threads : j \in done[t]
    BY <2>4, <2>5 DEF IInv, StageOK
  <2>7. j \in Owned(t)
    BY <1>3, <2>4, <2>6 DEF Share
  <2>8. PICK u \in Threads : Owned((u + Workers - 1) % Workers) = Owned(t)
    BY VictimsCover
  <2>9. Share(u)' = Owned((u + Workers - 1) % Workers)
    BY DEF Share, Owned
  <2> QED BY <2>7, <2>8, <2>9
<1>18. work'.stage <= Len(work'.prog) + 1
  BY <1>4, <1>5, <1>6, SMT
<1>19. Entered'
  BY <1>6, <1>8, <1>12, <1>15, <1>16, <1>17, <1>18 DEF Entered, NoneDone
<1>20. Entered' => StageOK'
  BY EnterStage, PTL
<1>21. invalid' > 0 => invalid > 0 \/ Deliberate
  BY <1>1
<1>22. m'.errors > 0 => m.errors > 0 \/ Misnumbered
  BY <1>10
<1> QED BY <1>4, <1>7, <1>12, <1>14, <1>19, <1>20, <1>21, <1>22, WorkFrame

-----------------------------------------------------------------------------
(* The programs                                                            *)

PayNames == {"none", "id", "chunk"}

\* What matters of a stage.
Is(s, op, part, pay, checked) ==
  s \in Stages /\ s.op = op /\ s.part = part /\ s.pay = pay /\ s.checked = checked

\* A loop as Loop makes it.
LEMMA LoopIs ==
  ASSUME NEW op \in OpNames
  PROVE Is(Loop(op), op, "all", "none", FALSE)
BY DEF Loop, Stages, PartNames, Is

\* What each wrapper of a loop changes.
LEMMA WrapIs ==
  ASSUME NEW s, NEW op, NEW part, NEW pay, NEW checked, Is(s, op, part, pay, checked)
  PROVE /\ Is(Counted(s), op, part, pay, checked)
        /\ Is(IfLive(s), op, part, pay, checked)
        /\ Is(Publishing(s), op, part, pay, checked)
        /\ Is(Checked(s), op, part, pay, TRUE)
        /\ \A p \in PartNames : Is(Part(s, p), op, p, pay, checked)
        /\ \A p \in PayNames : Is(Pay(s, p), op, part, p, checked)
<1>1. Is(Counted(s), op, part, pay, checked)
  BY DEF Counted, Stages, Is
<1>2. Is(IfLive(s), op, part, pay, checked)
  BY DEF IfLive, Stages, Is
<1>3. Is(Publishing(s), op, part, pay, checked)
  BY DEF Publishing, Stages, Is
<1>4. Is(Checked(s), op, part, pay, TRUE)
  BY DEF Checked, Stages, Is
<1>5. ASSUME NEW p \in PartNames PROVE Is(Part(s, p), op, p, pay, checked)
  BY DEF Part, Stages, Is
<1>6. ASSUME NEW p \in PayNames PROVE Is(Pay(s, p), op, part, p, checked)
  BY DEF Pay, Stages, Is, PayNames
<1> QED BY <1>1, <1>2, <1>3, <1>4, <1>5, <1>6

\* The names the programs use.
LEMMA Names ==
  /\ {"pair", "fill", "sweep", "random", "replace", "resize_or_drop", "resize_or_keep",
      "drift", "toggle", "produce", "consume"} \subseteq OpNames
  /\ {"all", "empty", "reverse", "first", "twice", "own", "victim", "stride", "one"} \subseteq PartNames
  /\ {"none", "id", "chunk"} \subseteq PayNames
BY DEF OpNames, PartNames, PayNames

\* A program that may begin, with the slots empty if fe, and that leaves them
\* empty if clears.
Sound(prog, fe, clears) ==
  prog \in Seq(Stages) /\ Tidy(prog, fe) /\ (clears => EmptyAt(prog, Len(prog) + 1, fe))

Threaded(s) == s.op \in {"produce", "consume"}

\* The empty program keeps the rules.
LEMMA NoStage == ASSUME NEW fe PROVE Sound(<< >>, fe, FALSE) /\ Len(<< >>) = 0
BY SMT DEF Sound, Tidy

\* Programs of one loop.
LEMMA OneStage ==
  ASSUME NEW a \in Stages, NEW fe \in BOOLEAN, NEW clears \in BOOLEAN, ~ Threaded(a),
         NeedsEmpty(a) => fe, clears => Empties(a) \/ (fe /\ a.op = "pair")
  PROVE Sound(<<a>>, fe, clears) /\ \A k \in 1 .. Len(<<a>>) : <<a>>[k] = a
<1>1. PICK p : p = <<a>>
  OBVIOUS
<1>2. p \in Seq(Stages) /\ Len(p) = 1 /\ p[1] = a /\ 1 .. 1 = {1} /\ Len(p) + 1 = 2
  BY <1>1, SMT
<1>3. clears => EmptyAt(p, 2, fe)
  BY <1>2, SMT DEF EmptyAt
<1>4. Tidy(p, fe)
  BY <1>2, SMT DEF Tidy, EmptyAt, Threaded
<1> QED BY <1>1, <1>2, <1>3, <1>4 DEF Sound

\* Programs of two loops: fill and drain, produce and consume.
LEMMA TwoStages ==
  ASSUME NEW a \in Stages, NEW b \in Stages, NEW fe \in BOOLEAN,
         NeedsEmpty(a) => fe, NeedsEmpty(b) => Empties(a) \/ (fe /\ a.op = "pair"),
         a.op # "consume", a.op = "produce" => a.part \in {"own", "one"}, b.op # "produce",
         b.op = "consume" => \/ b.part \in {"stride", "one"}
                             \/ b.part = "victim" /\ a.op = "produce" /\ a.part = "own"
  PROVE /\ Sound(<<a, b>>, fe, Empties(b))
        /\ \A k \in 1 .. Len(<<a, b>>) : <<a, b>>[k] \in {a, b}
<1>1. PICK p : p = <<a, b>>
  OBVIOUS
<1>2. /\ p \in Seq(Stages) /\ Len(p) = 2 /\ p[1] = a /\ p[2] = b /\ 1 .. 2 = {1, 2}
      /\ Len(p) + 1 = 3
  BY <1>1, SMT
<1>3. Empties(b) => EmptyAt(p, 3, fe)
  BY <1>2, SMT DEF EmptyAt
<1>4. Tidy(p, fe)
  BY <1>2, SMT DEF Tidy, EmptyAt
<1> QED BY <1>1, <1>2, <1>3, <1>4 DEF Sound

\* Programs of three loops, of which only the first fills.
LEMMA ThreeStages ==
  ASSUME NEW a \in Stages, NEW b \in Stages, NEW c \in Stages, NEW fe \in BOOLEAN,
         NeedsEmpty(a) => fe, ~ NeedsEmpty(b), ~ NeedsEmpty(c),
         ~ Threaded(a), ~ Threaded(b), ~ Threaded(c)
  PROVE /\ Sound(<<a, b, c>>, fe, Empties(c))
        /\ \A k \in 1 .. Len(<<a, b, c>>) : <<a, b, c>>[k] \in {a, b, c}
<1>1. PICK p : p = <<a, b, c>>
  OBVIOUS
<1>2. /\ p \in Seq(Stages) /\ Len(p) = 3 /\ p[1] = a /\ p[2] = b /\ p[3] = c /\ 1 .. 3 = {1, 2, 3}
      /\ Len(p) + 1 = 4
  BY <1>1, SMT
<1>3. Empties(c) => EmptyAt(p, 4, fe)
  BY <1>2, SMT DEF EmptyAt
<1>4. Tidy(p, fe)
  BY <1>2, SMT DEF Tidy, EmptyAt, Threaded
<1> QED BY <1>1, <1>2, <1>3, <1>4 DEF Sound

\* Programs of four loops: fill and drain, twice.
LEMMA FourStages ==
  ASSUME NEW a \in Stages, NEW b \in Stages, NEW c \in Stages, NEW d \in Stages, NEW fe \in BOOLEAN,
         NeedsEmpty(a) => fe, ~ NeedsEmpty(b), NeedsEmpty(c) => Empties(b), ~ NeedsEmpty(d),
         ~ Threaded(a), ~ Threaded(b), ~ Threaded(c), ~ Threaded(d)
  PROVE /\ Sound(<<a, b, c, d>>, fe, Empties(d))
        /\ \A k \in 1 .. Len(<<a, b, c, d>>) : <<a, b, c, d>>[k] \in {a, b, c, d}
<1>1. PICK p : p = <<a, b, c, d>>
  OBVIOUS
<1>2. /\ p \in Seq(Stages) /\ Len(p) = 4 /\ p[1] = a /\ p[2] = b /\ p[3] = c /\ p[4] = d
      /\ 1 .. 4 = {1, 2, 3, 4} /\ Len(p) + 1 = 5
  BY <1>1, SMT
<1>3. Empties(d) => EmptyAt(p, 5, fe)
  BY <1>2, SMT DEF EmptyAt
<1>4. Tidy(p, fe)
  BY <1>2, SMT DEF Tidy, EmptyAt, Threaded
<1> QED BY <1>1, <1>2, <1>3, <1>4 DEF Sound

\* Programs of five loops, none of which fills blindly.
LEMMA FiveStages ==
  ASSUME NEW a \in Stages, NEW b \in Stages, NEW c \in Stages, NEW d \in Stages, NEW e \in Stages,
         NEW fe \in BOOLEAN,
         \A s \in {a, b, c, d, e} : ~ NeedsEmpty(s) /\ ~ Threaded(s)
  PROVE /\ Sound(<<a, b, c, d, e>>, fe, Empties(e))
        /\ \A k \in 1 .. Len(<<a, b, c, d, e>>) : <<a, b, c, d, e>>[k] \in {a, b, c, d, e}
<1>1. PICK p : p = <<a, b, c, d, e>>
  OBVIOUS
<1>2. /\ p \in Seq(Stages) /\ Len(p) = 5 /\ p[1] = a /\ p[2] = b /\ p[3] = c /\ p[4] = d /\ p[5] = e
      /\ 1 .. 5 = {1, 2, 3, 4, 5} /\ Len(p) + 1 = 6
  BY <1>1, SMT
<1>3. Empties(e) => EmptyAt(p, 6, fe)
  BY <1>2, SMT DEF EmptyAt
<1>4. Tidy(p, fe)
  BY <1>2, SMT DEF Tidy, Threaded
<1> QED BY <1>1, <1>2, <1>3, <1>4 DEF Sound


\* A stage that frees nothing twice, loses nothing and checks nothing but what
\* it has just written.
Calm(s) == s.part # "twice" /\ s.op # "random" /\ (s.checked => s.op = "pair" /\ s.pay = "chunk")
AllCalm(prog) == \A k \in 1 .. Len(prog) : Calm(prog[k])
Unchecked(prog) == \A k \in 1 .. Len(prog) : ~ prog[k].checked

\* same_size: allocate and free in turn.
LEMMA SameSizeSound ==
  Sound(same_size, TRUE, TRUE) /\ AllCalm(same_size) /\ Unchecked(same_size)
<1>1. PICK a : a = Loop("pair")
  OBVIOUS
<1>2. Is(a, "pair", "all", "none", FALSE)
  BY <1>1, LoopIs, WrapIs, Names
<1>3. /\ Sound(<<a>>, TRUE, TRUE)
      /\ \A k \in 1 .. Len(<<a>>) : <<a>>[k] \in {a}
  BY <1>2, OneStage DEF Is, NeedsEmpty, Empties, Threaded
<1> QED BY <1>1, <1>2, <1>3 DEF Is, Empties, Sound, AllCalm, Calm, Unchecked, same_size

\* batch_workload: fill, then free.
LEMMA BatchSound ==
  Sound(batch_workload, TRUE, TRUE) /\ AllCalm(batch_workload) /\ Unchecked(batch_workload)
<1>1. PICK a : a = Loop("fill")
  OBVIOUS
<1>2. PICK b : b = Loop("sweep")
  OBVIOUS
<1>3. PICK c : c = Loop("fill")
  OBVIOUS
<1>4. PICK d : d = Loop("sweep")
  OBVIOUS
<1>5. Is(a, "fill", "all", "none", FALSE)
  BY <1>1, LoopIs, WrapIs, Names
<1>6. Is(b, "sweep", "all", "none", FALSE)
  BY <1>2, LoopIs, WrapIs, Names
<1>7. Is(c, "fill", "all", "none", FALSE)
  BY <1>3, LoopIs, WrapIs, Names
<1>8. Is(d, "sweep", "all", "none", FALSE)
  BY <1>4, LoopIs, WrapIs, Names
<1>9. /\ Sound(<<a, b, c, d>>, TRUE, Empties(d))
      /\ \A k \in 1 .. Len(<<a, b, c, d>>) : <<a, b, c, d>>[k] \in {a, b, c, d}
  <2>1. \A s \in {a, b, c, d} : s \in Stages /\ ~ Threaded(s)
    BY <1>5, <1>6, <1>7, <1>8 DEF Is, Threaded
  <2>2. ~ NeedsEmpty(b) /\ ~ NeedsEmpty(d) /\ (NeedsEmpty(c) => Empties(b))
    BY <1>6, <1>7, <1>8 DEF Is, NeedsEmpty, Empties
  <2> QED BY <2>1, <2>2, FourStages
<1> QED BY <1>1, <1>2, <1>3, <1>4, <1>5, <1>6, <1>7, <1>8, <1>9
    DEF Is, Empties, Sound, AllCalm, Calm, Unchecked, batch_workload

\* fragmentation_workload: fill, free or resize at random, free what is left.
LEMMA FragmentationSound ==
  /\ Sound(fragmentation_workload, TRUE, TRUE)
  /\ AllCalm(fragmentation_workload)
  /\ Unchecked(fragmentation_workload)
<1>1. PICK a : a = Loop("fill")
  OBVIOUS
<1>2. PICK b : b = Loop("resize_or_drop")
  OBVIOUS
<1>3. PICK c : c = IfLive(Loop("sweep"))
  OBVIOUS
<1>4. Is(a, "fill", "all", "none", FALSE)
  BY <1>1, LoopIs, WrapIs, Names
<1>5. Is(b, "resize_or_drop", "all", "none", FALSE)
  BY <1>2, LoopIs, WrapIs, Names
<1>6. Is(c, "sweep", "all", "none", FALSE)
  BY <1>3, LoopIs, WrapIs, Names
<1>7. /\ Sound(<<a, b, c>>, TRUE, Empties(c))
      /\ \A k \in 1 .. Len(<<a, b, c>>) : <<a, b, c>>[k] \in {a, b, c}
  BY <1>4, <1>5, <1>6, ThreeStages DEF Is, NeedsEmpty, Empties, Threaded
<1> QED BY <1>1, <1>2, <1>3, <1>4, <1>5, <1>6, <1>7
    DEF Is, Empties, Sound, AllCalm, Calm, Unchecked, fragmentation_workload

\* cross_thread_free_workload: producers, then consumers of the thread before.
LEMMA CrossThreadSound ==
  /\ Sound(cross_thread_free_workload, TRUE, TRUE)
  /\ AllCalm(cross_thread_free_workload)
  /\ Unchecked(cross_thread_free_workload)
<1>1. PICK a : a = Part(Loop("produce"), "own")
  OBVIOUS
<1>2. PICK b : b = Part(Loop("consume"), "victim")
  OBVIOUS
<1>3. Is(a, "produce", "own", "none", FALSE)
  BY <1>1, LoopIs, WrapIs, Names
<1>4. Is(b, "consume", "victim", "none", FALSE)
  BY <1>2, LoopIs, WrapIs, Names
<1>5. /\ Sound(<<a, b>>, TRUE, Empties(b))
      /\ \A k \in 1 .. Len(<<a, b>>) : <<a, b>>[k] \in {a, b}
  BY <1>3, <1>4, TwoStages DEF Is, NeedsEmpty, Empties, Threaded
<1> QED BY <1>1, <1>2, <1>3, <1>4, <1>5
    DEF Is, Empties, Sound, AllCalm, Calm, Unchecked, cross_thread_free_workload

\* phase_changing_workload: its phases one after the other.
LEMMA PhaseChangingSound ==
  /\ Sound(phase_changing_workload, TRUE, TRUE)
  /\ AllCalm(phase_changing_workload)
  /\ Unchecked(phase_changing_workload)
<1>1. PICK a : a = Loop("pair")
  OBVIOUS
<1>2. PICK b : b = Loop("replace")
  OBVIOUS
<1>3. PICK c : c = Loop("pair")
  OBVIOUS
<1>4. PICK d : d = Part(Loop("fill"), "empty")
  OBVIOUS
<1>5. PICK e : e = IfLive(Loop("sweep"))
  OBVIOUS
<1>6. Is(a, "pair", "all", "none", FALSE)
  BY <1>1, LoopIs, WrapIs, Names
<1>7. Is(b, "replace", "all", "none", FALSE)
  BY <1>2, LoopIs, WrapIs, Names
<1>8. Is(c, "pair", "all", "none", FALSE)
  BY <1>3, LoopIs, WrapIs, Names
<1>9. Is(d, "fill", "empty", "none", FALSE)
  BY <1>4, LoopIs, WrapIs, Names
<1>10. Is(e, "sweep", "all", "none", FALSE)
  BY <1>5, LoopIs, WrapIs, Names
<1>11. /\ Sound(<<a, b, c, d, e>>, TRUE, Empties(e))
      /\ \A k \in 1 .. Len(<<a, b, c, d, e>>) : <<a, b, c, d, e>>[k] \in {a, b, c, d, e}
  <2>1. \A s \in {a, b, c, d, e} : s \in Stages /\ ~ NeedsEmpty(s) /\ ~ Threaded(s)
    BY <1>6, <1>7, <1>8, <1>9, <1>10 DEF Is, NeedsEmpty, Threaded
  <2>2. a \in Stages /\ b \in Stages /\ c \in Stages /\ d \in Stages /\ e \in Stages
    BY <2>1
  <2>3. \A s \in {a, b, c, d, e} : ~ NeedsEmpty(s) /\ ~ Threaded(s)
    BY <2>1
  <2> QED BY <2>2, <2>3, FiveStages
<1> QED BY <1>1, <1>2, <1>3, <1>4, <1>5, <1>6, <1>7, <1>8, <1>9, <1>10, <1>11
    DEF Is, Empties, Sound, AllCalm, Calm, Unchecked, phase_changing_workload

\* random_workload: the one program whose loop may lose a pointer.
LEMMA RandomSound ==
  /\ Sound(random_workload, TRUE, TRUE)
  /\ Unchecked(random_workload)
  /\ \A k \in 1 .. Len(random_workload) : random_workload[k].part # "twice"
<1>1. PICK a : a = Loop("random")
  OBVIOUS
<1>2. PICK b : b = IfLive(Loop("sweep"))
  OBVIOUS
<1>3. Is(a, "random", "all", "none", FALSE)
  BY <1>1, LoopIs, WrapIs, Names
<1>4. Is(b, "sweep", "all", "none", FALSE)
  BY <1>2, LoopIs, WrapIs, Names
<1>5. /\ Sound(<<a, b>>, TRUE, Empties(b))
      /\ \A k \in 1 .. Len(<<a, b>>) : <<a, b>>[k] \in {a, b}
  BY <1>3, <1>4, TwoStages DEF Is, NeedsEmpty, Empties, Threaded
<1> QED BY <1>1, <1>2, <1>3, <1>4, <1>5 DEF Is, Empties, Sound, AllCalm, Calm, Unchecked, random_workload

\* generated_small_churn.
LEMMA SmallChurnSound ==
  Sound(generated_small_churn, TRUE, TRUE) /\ AllCalm(generated_small_churn) /\ Unchecked(generated_small_churn)
<1>1. PICK a : a = Publishing(Counted(Loop("pair")))
  OBVIOUS
<1>2. Is(a, "pair", "all", "none", FALSE)
  BY <1>1, LoopIs, WrapIs, Names
<1>3. /\ Sound(<<a>>, TRUE, TRUE)
      /\ \A k \in 1 .. Len(<<a>>) : <<a>>[k] \in {a}
  BY <1>2, OneStage DEF Is, NeedsEmpty, Empties, Threaded
<1> QED BY <1>1, <1>2, <1>3 DEF Is, Empties, Sound, AllCalm, Calm, Unchecked, generated_small_churn

\* generated_fragmentation.
LEMMA GeneratedFragmentationSound ==
  /\ Sound(generated_fragmentation, TRUE, TRUE)
  /\ AllCalm(generated_fragmentation)
  /\ Unchecked(generated_fragmentation)
<1>1. PICK a : a = Counted(Loop("fill"))
  OBVIOUS
<1>2. PICK b : b = Publishing(Counted(Loop("resize_or_keep")))
  OBVIOUS
<1>3. PICK c : c = IfLive(Counted(Loop("sweep")))
  OBVIOUS
<1>4. Is(a, "fill", "all", "none", FALSE)
  BY <1>1, LoopIs, WrapIs, Names
<1>5. Is(b, "resize_or_keep", "all", "none", FALSE)
  BY <1>2, LoopIs, WrapIs, Names
<1>6. Is(c, "sweep", "all", "none", FALSE)
  BY <1>3, LoopIs, WrapIs, Names
<1>7. /\ Sound(<<a, b, c>>, TRUE, Empties(c))
      /\ \A k \in 1 .. Len(<<a, b, c>>) : <<a, b, c>>[k] \in {a, b, c}
  BY <1>4, <1>5, <1>6, ThreeStages DEF Is, NeedsEmpty, Empties, Threaded
<1> QED BY <1>1, <1>2, <1>3, <1>4, <1>5, <1>6, <1>7
    DEF Is, Empties, Sound, AllCalm, Calm, Unchecked, generated_fragmentation

\* generated_peak_release.
LEMMA PeakReleaseSound ==
  Sound(generated_peak_release, TRUE, TRUE) /\ AllCalm(generated_peak_release) /\ Unchecked(generated_peak_release)
<1>1. PICK a : a = Publishing(Counted(Loop("fill")))
  OBVIOUS
<1>2. PICK b : b = Publishing(Counted(Loop("sweep")))
  OBVIOUS
<1>3. Is(a, "fill", "all", "none", FALSE)
  BY <1>1, LoopIs, WrapIs, Names
<1>4. Is(b, "sweep", "all", "none", FALSE)
  BY <1>2, LoopIs, WrapIs, Names
<1>5. /\ Sound(<<a, b>>, TRUE, Empties(b))
      /\ \A k \in 1 .. Len(<<a, b>>) : <<a, b>>[k] \in {a, b}
  BY <1>3, <1>4, TwoStages DEF Is, NeedsEmpty, Empties, Threaded
<1> QED BY <1>1, <1>2, <1>3, <1>4, <1>5
    DEF Is, Empties, Sound, AllCalm, Calm, Unchecked, generated_peak_release

\* generated_remote_free: each consumer frees what the thread before it made.
LEMMA RemoteFreeSound ==
  Sound(generated_remote_free, TRUE, TRUE) /\ AllCalm(generated_remote_free) /\ Unchecked(generated_remote_free)
<1>1. PICK a : a = Publishing(Counted(Part(Loop("produce"), "own")))
  OBVIOUS
<1>2. PICK b : b = Publishing(Counted(Part(Loop("consume"), "victim")))
  OBVIOUS
<1>3. Is(a, "produce", "own", "none", FALSE)
  BY <1>1, LoopIs, WrapIs, Names
<1>4. Is(b, "consume", "victim", "none", FALSE)
  BY <1>2, LoopIs, WrapIs, Names
<1>5. /\ Sound(<<a, b>>, TRUE, Empties(b))
      /\ \A k \in 1 .. Len(<<a, b>>) : <<a, b>>[k] \in {a, b}
  BY <1>3, <1>4, TwoStages DEF Is, NeedsEmpty, Empties, Threaded
<1> QED BY <1>1, <1>2, <1>3, <1>4, <1>5
    DEF Is, Empties, Sound, AllCalm, Calm, Unchecked, generated_remote_free

\* run_tiny_cache_churn_phase checks payloads.
LEMMA TinyCacheSound ==
  /\ Sound(run_tiny_cache_churn_phase, TRUE, TRUE)
  /\ \A k \in 1 .. Len(run_tiny_cache_churn_phase) :
       run_tiny_cache_churn_phase[k].part # "twice" /\ run_tiny_cache_churn_phase[k].op # "random"
<1>1. PICK a : a = Pay(Counted(Loop("fill")), "id")
  OBVIOUS
<1>2. PICK b : b = Part(Checked(Counted(Loop("sweep"))), "reverse")
  OBVIOUS
<1>3. PICK c : c = Pay(Counted(Loop("fill")), "id")
  OBVIOUS
<1>4. PICK d : d = Part(Checked(Counted(Loop("sweep"))), "reverse")
  OBVIOUS
<1>5. Is(a, "fill", "all", "id", FALSE)
  BY <1>1, LoopIs, WrapIs, Names
<1>6. Is(b, "sweep", "reverse", "none", TRUE)
  BY <1>2, LoopIs, WrapIs, Names
<1>7. Is(c, "fill", "all", "id", FALSE)
  BY <1>3, LoopIs, WrapIs, Names
<1>8. Is(d, "sweep", "reverse", "none", TRUE)
  BY <1>4, LoopIs, WrapIs, Names
<1>9. /\ Sound(<<a, b, c, d>>, TRUE, Empties(d))
      /\ \A k \in 1 .. Len(<<a, b, c, d>>) : <<a, b, c, d>>[k] \in {a, b, c, d}
  <2>1. \A s \in {a, b, c, d} : s \in Stages /\ ~ Threaded(s)
    BY <1>5, <1>6, <1>7, <1>8 DEF Is, Threaded
  <2>2. ~ NeedsEmpty(b) /\ ~ NeedsEmpty(d) /\ (NeedsEmpty(c) => Empties(b))
    BY <1>6, <1>7, <1>8 DEF Is, NeedsEmpty, Empties
  <2> QED BY <2>1, <2>2, FourStages
<1> QED BY <1>1, <1>2, <1>3, <1>4, <1>5, <1>6, <1>7, <1>8, <1>9
    DEF Is, Empties, Sound, AllCalm, Calm, Unchecked, run_tiny_cache_churn_phase

\* run_remote_dominant_phase: consumers take every Workers-th slot.
LEMMA RemoteDominantSound ==
  /\ Sound(run_remote_dominant_phase, TRUE, TRUE)
  /\ AllCalm(run_remote_dominant_phase)
  /\ Unchecked(run_remote_dominant_phase)
<1>1. PICK a : a = Pay(Counted(Loop("fill")), "id")
  OBVIOUS
<1>2. PICK b : b = Counted(Part(Loop("consume"), "stride"))
  OBVIOUS
<1>3. Is(a, "fill", "all", "id", FALSE)
  BY <1>1, LoopIs, WrapIs, Names
<1>4. Is(b, "consume", "stride", "none", FALSE)
  BY <1>2, LoopIs, WrapIs, Names
<1>5. /\ Sound(<<a, b>>, TRUE, Empties(b))
      /\ \A k \in 1 .. Len(<<a, b>>) : <<a, b>>[k] \in {a, b}
  BY <1>3, <1>4, TwoStages DEF Is, NeedsEmpty, Empties, Threaded
<1> QED BY <1>1, <1>2, <1>3, <1>4, <1>5
    DEF Is, Empties, Sound, AllCalm, Calm, Unchecked, run_remote_dominant_phase

\* run_medium_frag_strong_phase checks payloads.
LEMMA MediumFragSound ==
  /\ Sound(run_medium_frag_strong_phase, TRUE, TRUE)
  /\ \A k \in 1 .. Len(run_medium_frag_strong_phase) :
       run_medium_frag_strong_phase[k].part # "twice" /\ run_medium_frag_strong_phase[k].op # "random"
<1>1. PICK a : a = Pay(Checked(Counted(Loop("drift"))), "id")
  OBVIOUS
<1>2. PICK b : b = IfLive(Checked(Counted(Loop("sweep"))))
  OBVIOUS
<1>3. Is(a, "drift", "all", "id", TRUE)
  BY <1>1, LoopIs, WrapIs, Names
<1>4. Is(b, "sweep", "all", "none", TRUE)
  BY <1>2, LoopIs, WrapIs, Names
<1>5. /\ Sound(<<a, b>>, TRUE, Empties(b))
      /\ \A k \in 1 .. Len(<<a, b>>) : <<a, b>>[k] \in {a, b}
  BY <1>3, <1>4, TwoStages DEF Is, NeedsEmpty, Empties, Threaded
<1> QED BY <1>1, <1>2, <1>3, <1>4, <1>5
    DEF Is, Empties, Sound, AllCalm, Calm, Unchecked, run_medium_frag_strong_phase

\* run_rss_decay_hold_phase checks payloads.
LEMMA RssDecaySound ==
  /\ Sound(run_rss_decay_hold_phase, TRUE, TRUE)
  /\ \A k \in 1 .. Len(run_rss_decay_hold_phase) :
       run_rss_decay_hold_phase[k].part # "twice" /\ run_rss_decay_hold_phase[k].op # "random"
<1>1. PICK a : a = Pay(Counted(Loop("fill")), "id")
  OBVIOUS
<1>2. PICK b : b = Part(Checked(Counted(Loop("sweep"))), "first")
  OBVIOUS
<1>3. PICK c : c = Pay(Checked(Counted(Loop("pair"))), "id")
  OBVIOUS
<1>4. PICK d : d = IfLive(Checked(Counted(Loop("sweep"))))
  OBVIOUS
<1>5. Is(a, "fill", "all", "id", FALSE)
  BY <1>1, LoopIs, WrapIs, Names
<1>6. Is(b, "sweep", "first", "none", TRUE)
  BY <1>2, LoopIs, WrapIs, Names
<1>7. Is(c, "pair", "all", "id", TRUE)
  BY <1>3, LoopIs, WrapIs, Names
<1>8. Is(d, "sweep", "all", "none", TRUE)
  BY <1>4, LoopIs, WrapIs, Names
<1>9. /\ Sound(<<a, b, c, d>>, TRUE, Empties(d))
      /\ \A k \in 1 .. Len(<<a, b, c, d>>) : <<a, b, c, d>>[k] \in {a, b, c, d}
  <2>1. \A s \in {a, b, c, d} : s \in Stages /\ ~ Threaded(s)
    BY <1>5, <1>6, <1>7, <1>8 DEF Is, Threaded
  <2>2. ~ NeedsEmpty(b) /\ ~ NeedsEmpty(d) /\ (NeedsEmpty(c) => Empties(b))
    BY <1>6, <1>7, <1>8 DEF Is, NeedsEmpty, Empties
  <2> QED BY <2>1, <2>2, FourStages
<1> QED BY <1>1, <1>2, <1>3, <1>4, <1>5, <1>6, <1>7, <1>8, <1>9
    DEF Is, Empties, Sound, AllCalm, Calm, Unchecked, run_rss_decay_hold_phase

\* A tick of a churn leaves the slots of other ticks alone.
LEMMA ChurnChunkSound ==
  ASSUME NEW fe \in BOOLEAN
  PROVE Sound(generated_small_churn_chunk, fe, FALSE) /\ AllCalm(generated_small_churn_chunk)
<1>1. PICK a : a = Pay(Checked(Counted(Loop("pair"))), "chunk")
  OBVIOUS
<1>2. Is(a, "pair", "all", "chunk", TRUE)
  BY <1>1, LoopIs, WrapIs, Names
<1>3. Sound(<<a>>, fe, FALSE) /\ \A k \in 1 .. Len(<<a>>) : <<a>>[k] = a
  BY <1>2, OneStage DEF Is, NeedsEmpty, Threaded
<1> QED BY <1>1, <1>2, <1>3 DEF Is, AllCalm, Calm, generated_small_churn_chunk

\* A tick of remote frees leaves nothing.
LEMMA RemoteChunkSound ==
  Sound(generated_remote_realtime_chunk, TRUE, TRUE) /\ AllCalm(generated_remote_realtime_chunk)
<1>1. PICK a : a = Counted(Part(Loop("produce"), "one"))
  OBVIOUS
<1>2. PICK b : b = Counted(Part(Loop("consume"), "one"))
  OBVIOUS
<1>3. Is(a, "produce", "one", "none", FALSE)
  BY <1>1, LoopIs, WrapIs, Names
<1>4. Is(b, "consume", "one", "none", FALSE)
  BY <1>2, LoopIs, WrapIs, Names
<1>5. /\ Sound(<<a, b>>, TRUE, Empties(b))
      /\ \A k \in 1 .. Len(<<a, b>>) : <<a, b>>[k] \in {a, b}
  BY <1>3, <1>4, TwoStages DEF Is, NeedsEmpty, Empties, Threaded
<1> QED BY <1>1, <1>2, <1>3, <1>4, <1>5
    DEF Is, Empties, Sound, AllCalm, Calm, generated_remote_realtime_chunk

\* The first tick of the fragmentation phase fills the slots.
LEMMA FragmentationChunkSound ==
  /\ Sound(generated_fragmentation_realtime_chunk(FALSE), TRUE, FALSE)
  /\ AllCalm(generated_fragmentation_realtime_chunk(FALSE))
<1>1. PICK a : a = Counted(Loop("fill"))
  OBVIOUS
<1>2. PICK b : b = Counted(Loop("resize_or_keep"))
  OBVIOUS
<1>3. Is(a, "fill", "all", "none", FALSE)
  BY <1>1, LoopIs, WrapIs, Names
<1>4. Is(b, "resize_or_keep", "all", "none", FALSE)
  BY <1>2, LoopIs, WrapIs, Names
<1>5. /\ Sound(<<a, b>>, TRUE, Empties(b))
      /\ \A k \in 1 .. Len(<<a, b>>) : <<a, b>>[k] \in {a, b}
  BY <1>3, <1>4, TwoStages DEF Is, NeedsEmpty, Empties, Threaded
<1> QED BY <1>1, <1>2, <1>3, <1>4, <1>5
    DEF Is, Empties, Sound, AllCalm, Calm, generated_fragmentation_realtime_chunk

\* Its later ticks only resize what is there.
LEMMA FragmentationTickSound ==
  ASSUME NEW fe \in BOOLEAN
  PROVE Sound(generated_fragmentation_realtime_chunk(TRUE), fe, FALSE) /\ AllCalm(generated_fragmentation_realtime_chunk(TRUE))
<1>1. PICK a : a = Counted(Loop("resize_or_keep"))
  OBVIOUS
<1>2. Is(a, "resize_or_keep", "all", "none", FALSE)
  BY <1>1, LoopIs, WrapIs, Names
<1>3. Sound(<<a>>, fe, FALSE) /\ \A k \in 1 .. Len(<<a>>) : <<a>>[k] = a
  BY <1>2, OneStage DEF Is, NeedsEmpty, Threaded
<1> QED BY <1>1, <1>2, <1>3 DEF Is, AllCalm, Calm, generated_fragmentation_realtime_chunk

\* A tick of the peak phase fills what is empty or frees what is there.
LEMMA PeakChunkSound ==
  ASSUME NEW fe \in BOOLEAN
  PROVE Sound(generated_peak_release_realtime_chunk, fe, FALSE) /\ AllCalm(generated_peak_release_realtime_chunk)
<1>1. PICK a : a = Counted(Loop("toggle"))
  OBVIOUS
<1>2. Is(a, "toggle", "all", "none", FALSE)
  BY <1>1, LoopIs, WrapIs, Names
<1>3. Sound(<<a>>, fe, FALSE) /\ \A k \in 1 .. Len(<<a>>) : <<a>>[k] = a
  BY <1>2, OneStage DEF Is, NeedsEmpty, Threaded
<1> QED BY <1>1, <1>2, <1>3 DEF Is, AllCalm, Calm, generated_peak_release_realtime_chunk

\* cleanup_realtime_state frees whatever the ticks left.
LEMMA CleanupSound == Sound(cleanup_realtime_state, FALSE, TRUE) /\ AllCalm(cleanup_realtime_state)
<1>1. PICK a : a = IfLive(Counted(Loop("sweep")))
  OBVIOUS
<1>2. Is(a, "sweep", "all", "none", FALSE)
  BY <1>1, LoopIs, WrapIs, Names
<1>3. Sound(<<a>>, FALSE, TRUE) /\ \A k \in 1 .. Len(<<a>>) : <<a>>[k] = a
  BY <1>2, OneStage DEF Is, NeedsEmpty, Empties, Threaded
<1> QED BY <1>1, <1>2, <1>3 DEF Is, AllCalm, Calm, cleanup_realtime_state

\* debug_safety frees twice only under the adaptive strategy.
LEMMA DebugSafetySound ==
  ASSUME NEW adaptive \in BOOLEAN
  PROVE /\ Sound(debug_safety_workload(adaptive), TRUE, TRUE)
        /\ Unchecked(debug_safety_workload(adaptive))
        /\ \A k \in 1 .. Len(debug_safety_workload(adaptive)) :
             /\ debug_safety_workload(adaptive)[k].op = "pair"
             /\ debug_safety_workload(adaptive)[k].part = "twice" => adaptive
<1>1. PICK part : part = IF adaptive THEN "twice" ELSE "all"
  OBVIOUS
<1>2. PICK a : a = Part(Loop("pair"), part)
  OBVIOUS
<1>3. part \in PartNames /\ (part = "twice" => adaptive)
  BY <1>1 DEF PartNames
<1>4. Is(a, "pair", part, "none", FALSE)
  BY <1>2, <1>3, LoopIs, WrapIs, Names
<1>5. Sound(<<a>>, TRUE, TRUE) /\ \A k \in 1 .. Len(<<a>>) : <<a>>[k] = a
  BY <1>4, OneStage DEF Is, NeedsEmpty, Empties, Threaded
<1>6. debug_safety_workload(adaptive) = <<a>>
  BY <1>1, <1>2 DEF debug_safety_workload
<1> QED BY <1>3, <1>4, <1>5, <1>6 DEF Is, Unchecked

\* What run_one starts.
LEMMA RunOneSound ==
  ASSUME NEW name \in KnownBenches \ {"generated_workload"}, NEW adaptive \in BOOLEAN
  PROVE /\ Sound(run_one(name, adaptive), TRUE, TRUE) /\ Unchecked(run_one(name, adaptive))
        /\ \A k \in 1 .. Len(run_one(name, adaptive)) :
             /\ run_one(name, adaptive)[k].part = "twice" => adaptive /\ name = "debug_safety"
             /\ run_one(name, adaptive)[k].op = "random" => name = "random"
<1>1. PICK prog : prog = run_one(name, adaptive)
  OBVIOUS
<1>2. CASE name = "random"
  <2>1. prog = random_workload
    BY <1>1, <1>2 DEF run_one
  <2> QED BY <1>1, <1>2, <2>1, RandomSound
<1>3. CASE name = "debug_safety"
  <2>1. prog = debug_safety_workload(adaptive)
    BY <1>1, <1>3 DEF run_one
  <2> QED BY <1>1, <1>3, <2>1, DebugSafetySound
<1>4. CASE name \notin {"random", "debug_safety"}
  <2>1. prog \in {same_size, batch_workload, fragmentation_workload, cross_thread_free_workload,
                  phase_changing_workload}
    <3>1. CASE name \in {"same_size", "same_size_64", "same_size_256"}
      BY <1>1, <3>1 DEF run_one
    <3>2. CASE name \in {"batch", "throughput_server"}
      BY <1>1, <3>2 DEF run_one
    <3>3. CASE name = "fragmentation"
      BY <1>1, <3>3 DEF run_one
    <3>4. CASE name \in {"cross_thread_free", "producer_consumer"}
      BY <1>1, <3>4 DEF run_one
    <3>5. CASE name \in {"latency_sample", "realtime_latency"}
      BY <1>1, <3>5 DEF run_one, latency_sample_workload, same_size
    <3>6. CASE name \in {"phase_changing", "memory_constrained"}
      BY <1>1, <3>6 DEF run_one
    <3>7. CASE name = "large_streaming"
      BY <1>1, <3>7 DEF run_one, large_streaming_workload, same_size
    <3> QED BY <1>4, <3>1, <3>2, <3>3, <3>4, <3>5, <3>6, <3>7 DEF KnownBenches
  <2>2. Sound(prog, TRUE, TRUE) /\ AllCalm(prog) /\ Unchecked(prog)
    BY <2>1, SameSizeSound, BatchSound, FragmentationSound, CrossThreadSound, PhaseChangingSound
  <2> QED BY <1>1, <2>2 DEF AllCalm, Calm
<1> QED BY <1>2, <1>3, <1>4

\* What a phase of generated_workload, run to completion, starts.
LEMMA GeneratedSound ==
  ASSUME NEW kind \in PhaseKinds
  PROVE /\ Sound(GeneratedProgram(kind), TRUE, TRUE)
        /\ \A k \in 1 .. Len(GeneratedProgram(kind)) :
             /\ GeneratedProgram(kind)[k].part # "twice" /\ GeneratedProgram(kind)[k].op # "random"
             /\ GeneratedProgram(kind)[k].checked =>
                  kind \in {"TinyCacheChurn", "MediumFragStrong", "RssDecayHold"}
<1>1. PICK prog : prog = GeneratedProgram(kind)
  OBVIOUS
<1>2. CASE kind \in {"TinyCacheChurn", "MediumFragStrong", "RssDecayHold"}
  <2>1. prog \in {run_tiny_cache_churn_phase, run_medium_frag_strong_phase, run_rss_decay_hold_phase}
    BY <1>1, <1>2 DEF GeneratedProgram
  <2> QED BY <1>1, <1>2, <2>1, TinyCacheSound, MediumFragSound, RssDecaySound
<1>3. CASE kind \notin {"TinyCacheChurn", "MediumFragStrong", "RssDecayHold"}
  <2>1. prog \in {generated_small_churn, generated_fragmentation, generated_remote_free,
                  generated_peak_release, run_remote_dominant_phase}
    <3>1. CASE kind = "SmallChurn"
      BY <1>1, <3>1 DEF GeneratedProgram
    <3>2. CASE kind = "FragmentationDrift"
      BY <1>1, <3>2 DEF GeneratedProgram
    <3>3. CASE kind = "RemoteFree"
      BY <1>1, <3>3 DEF GeneratedProgram
    <3>4. CASE kind = "LargeBurst"
      BY <1>1, <3>4 DEF GeneratedProgram, generated_large_burst, generated_small_churn
    <3>5. CASE kind = "PeakRelease"
      BY <1>1, <3>5 DEF GeneratedProgram
    <3>6. CASE kind = "LatencyLoop"
      BY <1>1, <3>6 DEF GeneratedProgram, generated_latency_loop, generated_small_churn
    <3>7. CASE kind = "RemoteDominant"
      BY <1>1, <3>7 DEF GeneratedProgram
    <3> QED BY <1>3, <3>1, <3>2, <3>3, <3>4, <3>5, <3>6, <3>7 DEF PhaseKinds
  <2>2. Sound(prog, TRUE, TRUE) /\ AllCalm(prog) /\ Unchecked(prog)
    BY <2>1, SmallChurnSound, GeneratedFragmentationSound, RemoteFreeSound, PeakReleaseSound,
       RemoteDominantSound
  <2> QED BY <1>1, <2>2 DEF AllCalm, Calm, Unchecked
<1> QED BY <1>2, <1>3

\* What a tick of a realtime phase starts: only the first one, and those of a
\* remote phase, find the slots empty, and only the latter leave them so.
LEMMA TickSound ==
  ASSUME NEW kind, NEW initialized \in BOOLEAN
  PROVE /\ Sound(run_realtime_phase_chunk(kind, initialized), ~ initialized \/ kind = "RemoteFree",
                 kind = "RemoteFree")
        /\ AllCalm(run_realtime_phase_chunk(kind, initialized))
<1>1. PICK prog : prog = run_realtime_phase_chunk(kind, initialized)
  OBVIOUS
<1>2. PICK fe \in BOOLEAN : fe = (~ initialized \/ kind = "RemoteFree")
  OBVIOUS
<1>3. CASE kind = "RemoteFree"
  <2>1. prog = generated_remote_realtime_chunk
    BY <1>1, <1>3 DEF run_realtime_phase_chunk
  <2> QED BY <1>1, <1>3, <2>1, RemoteChunkSound
<1>4. CASE kind # "RemoteFree"
  <2>1. Sound(prog, fe, FALSE) /\ AllCalm(prog)
    <3>1. CASE kind \in {"SmallChurn", "LargeBurst", "LatencyLoop"}
      <4>1. prog = generated_small_churn_chunk
        BY <1>1, <3>1 DEF run_realtime_phase_chunk, generated_small_churn_chunk,
                          generated_large_burst_chunk, generated_latency_loop_chunk
      <4> QED BY <4>1, ChurnChunkSound
    <3>2. CASE kind = "FragmentationDrift"
      <4>1. prog = generated_fragmentation_realtime_chunk(initialized)
        BY <1>1, <3>2 DEF run_realtime_phase_chunk
      <4>2. CASE initialized
        BY <4>1, <4>2, FragmentationTickSound
      <4>3. CASE ~ initialized
        BY <1>2, <4>1, <4>3, FragmentationChunkSound
      <4> QED BY <4>2, <4>3
    <3>3. CASE kind = "PeakRelease"
      <4>1. prog = generated_peak_release_realtime_chunk
        BY <1>1, <3>3 DEF run_realtime_phase_chunk
      <4> QED BY <4>1, PeakChunkSound
    <3>4. CASE kind \notin {"SmallChurn", "LargeBurst", "LatencyLoop", "FragmentationDrift", "PeakRelease"}
      <4>1. prog = << >>
        BY <1>1, <1>4, <3>4 DEF run_realtime_phase_chunk
      <4>2. AllCalm(<< >>)
        BY SMT DEF AllCalm
      <4> QED BY <4>1, <4>2, NoStage
    <3> QED BY <3>1, <3>2, <3>3, <3>4
  <2> QED BY <1>1, <1>2, <1>4, <2>1
<1> QED BY <1>3, <1>4

=============================================================================
