-------------------------- MODULE AdaptationProofs --------------------------
(***************************************************************************)
(* Proofs about the two halves of the adaptive loop, the windows it        *)
(* observes and the selector that acts on them.                            *)
(*                                                                         *)
(* TelemetryWindow, for any number of counters and whatever threads bump   *)
(* them while they are read: a single extractor's windows partition the    *)
(* events, and one thread that also resets never reports an event twice.   *)
(*                                                                         *)
(* ModeSelector, for any number of threads, any environment, window,       *)
(* cooldown and features: type correctness, that overlapping switches      *)
(* leave the active mode marked Active, and that every window boundary     *)
(* records one event.  For a program of one thread also that switches are  *)
(* a cooldown apart and, under the rule selector, that a lasting workload  *)
(* ends in the mode the rules name.                                        *)
(***************************************************************************)
EXTENDS TelemetryWindow, ModeSelector, FiniteSetTheorems, TLAPS

-----------------------------------------------------------------------------
(* TelemetryWindow: a single extractor                                     *)

\* At most one thread extracts, as when a single thread reaches the window boundaries.
SoleExtractor == \A a, b \in Extractors : a = b

\* The counters thread t has copied in the extraction it is in.
Copied(t) ==
  IF step[t] = "locked" THEN Counters
  ELSE IF step[t] = "read" THEN {c \in Counters : c < at[t]} ELSE {}

\* A copy lies between the baseline and the counter, which only grow.
CopiesBetween ==
  ~ cleared => \A t \in Callers : \A c \in Copied(t) : base[c] <= current[t][c] /\ current[t][c] <= count[c]

WindowInv ==
  /\ SoleExtractor /\ WindowTypeOK /\ CopiesBetween /\ ReportsPartition
  /\ \A t \in Callers : step[t] \in {"read", "locked"} => t \in Extractors
  /\ \A t \in Callers : step[t] \in {"idle", "locked"} => at[t] = 1
  /\ \A t \in Callers : step[t] = "clear" => cleared

\* The initial state satisfies the invariant.
LEMMA InitWindow == SoleExtractor /\ WindowInit => WindowInv
<1> SUFFICES ASSUME SoleExtractor, WindowInit PROVE WindowInv OBVIOUS
<1>1. WindowTypeOK
  <2>1. 1 \in Counters BY WindowConstants DEF Counters
  <2>2. Zero \in [Counters -> Nat] /\ Zero \in [Counters -> 0 .. EventLimit]
    BY WindowConstants DEF Zero
  <2>3. cleared \in BOOLEAN BY Zenon DEF WindowInit
  <2> QED BY <2>1, <2>2, <2>3 DEF WindowInit, WindowTypeOK
<1>2. CopiesBetween BY DEF WindowInit, CopiesBetween, Copied
<1>3. ReportsPartition BY DEF WindowInit, ReportsPartition, Zero
<1> QED BY <1>1, <1>2, <1>3 DEF WindowInv, WindowInit

\* An event moves its counter away from baseline and copies, and is pending.
LEMMA EventStep == ASSUME WindowInv, NEW c \in Counters, Event(c) PROVE WindowInv'
<1> USE DEF WindowInv
<1>1. WindowTypeOK' BY WindowConstants DEF Event, WindowTypeOK
<1>2. \A d \in Counters : count[d] <= count'[d] BY DEF Event, WindowTypeOK
<1>3. \A t \in Callers : Copied(t)' = Copied(t) /\ Copied(t) \subseteq Counters
  BY DEF Event, Copied
<1>4. CopiesBetween'
  <2> SUFFICES ASSUME ~ cleared, NEW t \in Callers, NEW d \in Copied(t)
               PROVE  base[d] <= current[t][d] /\ current[t][d] <= count'[d]
    BY <1>3 DEF CopiesBetween, Event
  <2>1. base[d] <= current[t][d] /\ current[t][d] <= count[d] BY DEF CopiesBetween
  <2>2. d \in Counters BY <1>3
  <2> QED BY <2>1, <2>2, <1>2, <1>1 DEF WindowTypeOK
<1>5. ReportsPartition' BY DEF Event, WindowTypeOK, ReportsPartition
<1> QED BY <1>1, <1>4, <1>5 DEF Event, SoleExtractor

\* Nothing is copied yet when the extraction starts.
LEMMA ExtractStep == ASSUME WindowInv, NEW t \in Callers, Extract(t) PROVE WindowInv'
<1> USE DEF WindowInv
<1>1. WindowTypeOK' BY DEF Extract, WindowTypeOK
<1>2. Copied(t)' = {}
  <2>1. step'[t] = "read" /\ at'[t] = 1 BY DEF Extract, WindowTypeOK
  <2>2. \A c \in Counters : ~ (c < 1) BY DEF Counters
  <2> QED BY <2>1, <2>2 DEF Copied
<1>3. \A u \in Callers \ {t} : Copied(u)' = Copied(u) BY DEF Extract, WindowTypeOK, Copied
<1>4. CopiesBetween' BY <1>2, <1>3 DEF Extract, CopiesBetween
<1>5. ReportsPartition' BY DEF Extract, ReportsPartition
<1> QED BY <1>1, <1>4, <1>5 DEF Extract, WindowTypeOK, SoleExtractor

\* The copy just read equals its counter, which is not below the baseline.
LEMMA ReadStep == ASSUME WindowInv, NEW t \in Callers, ReadCounter(t) PROVE WindowInv'
<1> USE DEF WindowInv
<1>0. at[t] \in Counters /\ N \in Nat BY WindowConstants DEF WindowTypeOK
<1>1. /\ step[t] = "read"
      /\ at' \in [Callers -> Counters]
      /\ step' \in [Callers -> {"idle", "read", "locked", "clear"}]
      /\ \A u \in Callers \ {t} : step'[u] = step[u] /\ at'[u] = at[u]
      /\ \/ step'[t] = "read" /\ at'[t] = at[t] + 1
         \/ step'[t] = "locked" /\ at[t] = N /\ at'[t] = 1
  <2>1. CASE at[t] < N
    <3>1. at[t] + 1 \in Counters BY <1>0, <2>1 DEF Counters
    <3> QED BY <2>1, <3>1 DEF ReadCounter, Advance, WindowTypeOK
  <2>2. CASE ~ (at[t] < N)
    <3>1. at[t] = N /\ 1 \in Counters BY <1>0, <2>2 DEF Counters
    <3> QED BY <2>2, <3>1, Zenon DEF ReadCounter, Advance, WindowTypeOK
  <2> QED BY <2>1, <2>2
<1>2. WindowTypeOK'
  <2>1. current' \in [Callers -> [Counters -> Nat]] BY <1>0 DEF ReadCounter, WindowTypeOK
  <2> QED BY <1>1, <2>1 DEF ReadCounter, WindowTypeOK
<1>3. \A u \in Callers \ {t} : Copied(u)' = Copied(u) /\ current'[u] = current[u]
  BY <1>1, Zenon DEF ReadCounter, WindowTypeOK, Copied
<1>4. \A c \in Copied(t)' : c \in Counters /\ (c = at[t] \/ c \in Copied(t))
  <2> SUFFICES ASSUME NEW c \in Counters, c # at[t], c \in Copied(t)' PROVE c < at[t]
    BY <1>1 DEF Copied
  <2>1. CASE step'[t] = "read" /\ at'[t] = at[t] + 1
    <3>1. c < at[t] + 1 BY <2>1 DEF Copied
    <3> QED BY <3>1, <1>0 DEF Counters
  <2>2. CASE step'[t] = "locked" /\ at[t] = N BY <2>2, <1>0 DEF Counters
  <2> QED BY <1>1, <2>1, <2>2
<1>5. ASSUME ~ cleared, NEW c \in Copied(t)'
      PROVE  base[c] <= current'[t][c] /\ current'[t][c] <= count[c]
  <2>1. CASE c = at[t]
    <3>1. current'[t][c] = count[c] BY <2>1, <1>0 DEF ReadCounter, WindowTypeOK
    <3>2. base[c] <= count[c] /\ count[c] \in Nat BY <1>5, <2>1, <1>0 DEF ReportsPartition, WindowTypeOK
    <3>3. count[c] <= count[c] BY <3>2
    <3> QED BY <3>1, <3>2, <3>3
  <2>2. CASE c # at[t]
    <3>1. c \in Copied(t) BY <1>4, <2>2
    <3>2. current'[t][c] = current[t][c] BY <2>2, <1>4, <1>0 DEF ReadCounter, WindowTypeOK
    <3> QED BY <1>5, <3>1, <3>2 DEF CopiesBetween
  <2> QED BY <2>1, <2>2
<1>6. CopiesBetween' BY <1>3, <1>5 DEF ReadCounter, CopiesBetween
<1>7. ReportsPartition' BY DEF ReadCounter, ReportsPartition
<1>8. \A u \in Callers : /\ step'[u] \in {"read", "locked"} => u \in Extractors
                         /\ step'[u] \in {"idle", "locked"} => at'[u] = 1
                         /\ step'[u] = "clear" => cleared
  BY <1>1
<1> QED BY <1>2, <1>6, <1>7, <1>8 DEF ReadCounter, SoleExtractor

\* What the window reports is what leaves the pending part.
LEMMA ExtractLockedStep == ASSUME WindowInv, NEW t \in Callers, ExtractLocked(t) PROVE WindowInv'
<1> USE DEF WindowInv
<1>1. step[t] = "locked" /\ Copied(t) = Counters BY DEF ExtractLocked, Copied
<1>2. \A c \in Counters : /\ base[c] \in Nat /\ current[t][c] \in Nat /\ count[c] \in Nat
                          /\ reported[c] \in Nat /\ happened[c] \in Nat
  BY WindowConstants DEF WindowTypeOK
<1>3. WindowTypeOK'
  <2>1. \A c \in Counters : reported[c] + Delta(current[t][c], base[c]) \in Nat
    BY <1>2 DEF Delta
  <2>2. reported' \in [Counters -> Nat] BY <2>1 DEF ExtractLocked
  <2> QED BY <2>2 DEF ExtractLocked, WindowTypeOK
<1>4. ReportsPartition'
  <2> SUFFICES ASSUME ~ cleared, NEW c \in Counters
               PROVE  /\ base'[c] <= count'[c]
                      /\ reported'[c] + (count'[c] - base'[c]) = happened'[c]
    BY DEF ReportsPartition, ExtractLocked
  <2>1. /\ base[c] <= current[t][c] /\ current[t][c] <= count[c]
        /\ reported[c] + (count[c] - base[c]) = happened[c]
    BY <1>1 DEF CopiesBetween, ReportsPartition
  <2>2. Delta(current[t][c], base[c]) = current[t][c] - base[c] BY <1>2, <2>1 DEF Delta
  <2>3. /\ reported'[c] = reported[c] + (current[t][c] - base[c])
        /\ base'[c] = current[t][c] /\ count'[c] = count[c] /\ happened'[c] = happened[c]
    BY <2>2 DEF ExtractLocked
  <2> QED BY <1>2, <2>1, <2>3
<1>5. CopiesBetween'
  <2>1. \A u \in Callers \ {t} : step[u] \notin {"read", "locked"}
    BY <1>1 DEF SoleExtractor
  <2>2. \A u \in Callers : step'[u] \notin {"read", "locked"}
    BY <2>1 DEF ExtractLocked, WindowTypeOK
  <2> QED BY <2>2 DEF CopiesBetween, Copied
<1> QED BY <1>3, <1>4, <1>5 DEF ExtractLocked, WindowTypeOK, SoleExtractor

\* A reset ends the claim.
LEMMA ResetStep == ASSUME WindowInv, NEW t \in Callers, Reset(t) PROVE WindowInv'
<1> USE DEF WindowInv
<1>1. cleared' /\ (CopiesBetween /\ ReportsPartition)'
  BY DEF Reset, CopiesBetween, ReportsPartition
<1>2. WindowTypeOK' BY DEF Reset, WindowTypeOK, Zero
<1> QED BY <1>1, <1>2 DEF Reset, WindowTypeOK, SoleExtractor

\* Counters are cleared only after a reset has begun.
LEMMA ClearStep == ASSUME WindowInv, NEW t \in Callers, ClearCounter(t) PROVE WindowInv'
<1> USE DEF WindowInv
<1>1. cleared' /\ (CopiesBetween /\ ReportsPartition)'
  BY DEF ClearCounter, CopiesBetween, ReportsPartition
<1>2. at[t] \in Counters /\ N \in Nat BY WindowConstants DEF WindowTypeOK
<1>3. /\ at' \in [Callers -> Counters]
      /\ step' \in [Callers -> {"idle", "read", "locked", "clear"}]
      /\ \A u \in Callers \ {t} : step'[u] = step[u] /\ at'[u] = at[u]
      /\ step'[t] = "clear" \/ (step'[t] = "idle" /\ at'[t] = 1)
  <2>1. CASE at[t] < N
    <3>1. at[t] + 1 \in Counters BY <1>2, <2>1 DEF Counters
    <3> QED BY <2>1, <3>1 DEF ClearCounter, Advance, WindowTypeOK
  <2>2. CASE ~ (at[t] < N)
    <3>1. 1 \in Counters BY <1>2, <2>2 DEF Counters
    <3> QED BY <2>2, <3>1, Zenon DEF ClearCounter, Advance, WindowTypeOK
  <2> QED BY <2>1, <2>2
<1>4. WindowTypeOK' BY <1>2, <1>3 DEF ClearCounter, WindowTypeOK
<1> QED BY <1>1, <1>3, <1>4 DEF SoleExtractor

\* Every step, and stuttering, keeps the invariant.
LEMMA NextWindow == WindowInv /\ [WindowNext]_windowVars => WindowInv'
<1> SUFFICES ASSUME WindowInv, [WindowNext]_windowVars PROVE WindowInv' OBVIOUS
<1>1. CASE UNCHANGED windowVars
  BY <1>1 DEF windowVars, WindowInv, SoleExtractor, WindowTypeOK, CopiesBetween, Copied, ReportsPartition
<1> QED
  BY <1>1, EventStep, ExtractStep, ReadStep, ExtractLockedStep, ResetStep, ClearStep DEF WindowNext

\* A single extractor's windows neither lose nor repeat an event before a reset: what they
\* reported and what is pending make up what happened, for every number of counters.
THEOREM WindowsPartitionEvents == SoleExtractor /\ WindowSpec => []ReportsPartition
<1>1. WindowInv => ReportsPartition BY DEF WindowInv
<1> QED BY <1>1, InitWindow, NextWindow, PTL DEF WindowSpec

----------------------------------------------------------------------------
(* One thread that extracts and resets.                                     *)

\* Extractions and resets are calls of one thread, and so never overlap.
SoleCaller == \A a, b \in Callers : a = b

\* What is reported and what the next window will report have happened.
Accounted(c) == base[c] <= count[c] /\ reported[c] + (count[c] - base[c]) <= happened[c]

\* A reset leaves the counters it has not reached yet unaccounted, until it has
\* cleared them; the baseline stays zero meanwhile.
OnceInv ==
  /\ SoleCaller /\ WindowInv /\ NothingTwice
  /\ \A c \in Counters :
       (\A t \in Callers : step[t] = "clear" => c < at[t]) => Accounted(c)
  /\ \A t \in Callers : \A c \in Counters : step[t] = "clear" => base[c] = 0
  /\ \A t \in Callers : \A c \in Copied(t) :
       base[c] <= current[t][c] /\ current[t][c] <= count[c]

\* The values an account is made of are numbers.
LEMMA AccountNumbers ==
  ASSUME WindowTypeOK, NEW c \in Counters
  PROVE  count[c] \in Nat /\ base[c] \in Nat /\ reported[c] \in Nat /\ happened[c] \in Nat
BY WindowConstants DEF WindowTypeOK

LEMMA InitOnce == SoleCaller /\ WindowInit => OnceInv
<1> SUFFICES ASSUME SoleCaller, WindowInit PROVE OnceInv OBVIOUS
<1>1. SoleExtractor BY DEF SoleCaller, SoleExtractor, Callers
<1>2. WindowInv BY <1>1, InitWindow
<1>3. \A c \in Counters : Accounted(c) BY DEF WindowInit, Zero, Accounted
<1>4. NothingTwice BY DEF WindowInit, Zero, NothingTwice
<1>5. \A t \in Callers : step[t] = "idle" BY DEF WindowInit
<1> QED BY <1>2, <1>3, <1>4, <1>5 DEF OnceInv, Copied

\* An event adds as much to what has happened as to what is pending.
LEMMA EventOnce == ASSUME OnceInv, NEW e \in Counters, Event(e) PROVE OnceInv'
<1>1. WindowInv' /\ WindowTypeOK /\ WindowTypeOK' BY EventStep DEF OnceInv, WindowInv
<1>2. /\ UNCHANGED <<base, step, at, current, reported>>
      /\ \A c \in Counters :
           \/ count'[c] = count[c] /\ happened'[c] = happened[c]
           \/ count'[c] = count[c] + 1 /\ happened'[c] = happened[c] + 1
  BY <1>1 DEF Event, WindowTypeOK
<1>3. \A c \in Counters : Accounted(c) => Accounted(c)'
  BY <1>1, <1>2, AccountNumbers DEF Accounted
<1>4. NothingTwice' BY <1>1, <1>2, AccountNumbers DEF OnceInv, NothingTwice
<1>5. \A t \in Callers : Copied(t)' = Copied(t) /\ Copied(t) \subseteq Counters
  BY <1>2 DEF Copied
<1>6. ASSUME NEW t \in Callers, NEW c \in Copied(t)
      PROVE  base'[c] <= current'[t][c] /\ current'[t][c] <= count'[c]
  <2>1. base[c] <= current[t][c] /\ current[t][c] <= count[c] BY DEF OnceInv
  <2>2. c \in Counters /\ current[t][c] \in Nat BY <1>1, <1>5 DEF WindowTypeOK
  <2> QED BY <1>1, <1>2, <2>1, <2>2, AccountNumbers
<1> QED BY <1>1, <1>2, <1>3, <1>4, <1>5, <1>6 DEF OnceInv, SoleCaller

\* The steps of an extraction up to the lock only fill the copy.
LEMMA ReadOnce ==
  ASSUME OnceInv, NEW t \in Callers, Extract(t) \/ ReadCounter(t)
  PROVE  OnceInv'
<1>1. WindowInv' /\ WindowTypeOK BY ExtractStep, ReadStep DEF OnceInv, WindowInv
<1>2. /\ UNCHANGED <<count, base, happened, reported>>
      /\ \A u \in Callers : u = t
      /\ step[t] # "clear" /\ step'[t] # "clear"
  BY <1>1 DEF Extract, ReadCounter, Advance, OnceInv, SoleCaller, WindowTypeOK
<1>3. \A c \in Counters : Accounted(c) BY <1>2 DEF OnceInv
<1>4. \A c \in Counters : Accounted(c)' BY <1>2, <1>3 DEF Accounted
<1>5. \A c \in Copied(t)' : base[c] <= current'[t][c] /\ current'[t][c] <= count[c]
  <2>1. CASE Extract(t)
    <3>1. step'[t] = "read" /\ at'[t] = 1 BY <1>1, <2>1 DEF Extract, WindowTypeOK, OnceInv, WindowInv
    <3>2. \A c \in Counters : ~ (c < 1) BY DEF Counters
    <3> QED BY <3>1, <3>2 DEF Copied
  <2>2. CASE ReadCounter(t)
    <3>0. at[t] \in Counters /\ step[t] = "read" /\ N \in Nat
      BY <1>1, <2>2, WindowConstants DEF ReadCounter, WindowTypeOK
    <3>1. \A c \in Copied(t)' : c \in Counters /\ (c = at[t] \/ c \in Copied(t))
      <4> SUFFICES ASSUME NEW c \in Counters, c # at[t], c \in Copied(t)' PROVE c < at[t]
        BY <3>0 DEF Copied
      <4>1. \/ step'[t] = "read" /\ at'[t] = at[t] + 1
            \/ step'[t] = "locked" /\ ~ (at[t] < N)
        BY <1>1, <2>2, <3>0 DEF ReadCounter, Advance, WindowTypeOK
      <4>2. CASE step'[t] = "read" /\ at'[t] = at[t] + 1
        <5>1. c < at[t] + 1 BY <4>2 DEF Copied
        <5> QED BY <3>0, <5>1 DEF Counters
      <4>3. CASE ~ (at[t] < N) BY <3>0, <4>3 DEF Counters
      <4> QED BY <4>1, <4>2, <4>3
    <3> SUFFICES ASSUME NEW c \in Copied(t)'
                 PROVE  base[c] <= current'[t][c] /\ current'[t][c] <= count[c]
      OBVIOUS
    <3>2. CASE c = at[t]
      <4>1. current'[t][c] = count[c] BY <1>1, <2>2, <3>0, <3>2 DEF ReadCounter, WindowTypeOK
      <4>2. base[c] <= count[c] /\ count[c] \in Nat
        BY <1>1, <1>3, <3>0, <3>2, AccountNumbers DEF Accounted
      <4>3. count[c] <= count[c] BY <4>2
      <4> QED BY <4>1, <4>2, <4>3
    <3>3. CASE c # at[t]
      <4>1. c \in Copied(t) BY <3>1, <3>3
      <4>2. current'[t][c] = current[t][c]
        BY <1>1, <2>2, <3>0, <3>1, <3>3 DEF ReadCounter, WindowTypeOK
      <4> QED BY <4>1, <4>2 DEF OnceInv
    <3> QED BY <3>2, <3>3
  <2> QED BY <2>1, <2>2
<1> QED BY <1>1, <1>2, <1>4, <1>5 DEF OnceInv, SoleCaller, NothingTwice

\* What the window reports is no longer pending.
LEMMA ExtractLockedOnce ==
  ASSUME OnceInv, NEW t \in Callers, ExtractLocked(t)
  PROVE  OnceInv'
<1>1. WindowInv' /\ WindowTypeOK BY ExtractLockedStep DEF OnceInv, WindowInv
<1>2. /\ UNCHANGED <<count, happened>> /\ \A u \in Callers : u = t
      /\ step[t] = "locked" /\ step'[t] = "idle" /\ Copied(t) = Counters
  BY <1>1 DEF ExtractLocked, OnceInv, SoleCaller, WindowTypeOK, Copied
<1>3. ASSUME NEW c \in Counters PROVE Accounted(c)' /\ reported'[c] <= happened'[c]
  <2>1. /\ base[c] <= current[t][c] /\ current[t][c] <= count[c]
        /\ base[c] <= count[c] /\ reported[c] + (count[c] - base[c]) <= happened[c]
    BY <1>2 DEF OnceInv, Accounted
  <2>2. current[t][c] \in Nat BY <1>1 DEF WindowTypeOK
  <2>3. Delta(current[t][c], base[c]) = current[t][c] - base[c]
    BY <1>1, <2>1, <2>2, AccountNumbers DEF Delta
  <2>4. /\ reported'[c] = reported[c] + (current[t][c] - base[c]) /\ base'[c] = current[t][c]
        /\ count'[c] = count[c] /\ happened'[c] = happened[c]
    BY <2>3 DEF ExtractLocked
  <2> QED BY <1>1, <2>1, <2>2, <2>4, AccountNumbers DEF Accounted
<1>4. Copied(t)' = {} BY <1>2 DEF Copied
<1> QED BY <1>1, <1>2, <1>3, <1>4 DEF OnceInv, SoleCaller, NothingTwice

\* A reset moves the baseline back, below counters that are still to be cleared.
LEMMA ResetOnce == ASSUME OnceInv, NEW t \in Callers, Reset(t) PROVE OnceInv'
<1>1. WindowInv' /\ WindowTypeOK BY ResetStep DEF OnceInv, WindowInv
<1>2. /\ UNCHANGED <<reported, happened>> /\ \A u \in Callers : u = t
      /\ step'[t] = "clear" /\ at'[t] = 1 /\ base' = Zero
  BY <1>1 DEF Reset, OnceInv, WindowInv, SoleCaller, WindowTypeOK
<1>3. \A c \in Counters : ~ (c < 1) /\ base'[c] = 0 BY <1>2 DEF Counters, Zero
<1>4. Copied(t)' = {} BY <1>2 DEF Copied
<1> QED BY <1>1, <1>2, <1>3, <1>4 DEF OnceInv, SoleCaller, NothingTwice

\* A cleared counter holds nothing that has been reported.
LEMMA ClearOnce == ASSUME OnceInv, NEW t \in Callers, ClearCounter(t) PROVE OnceInv'
<1>1. WindowInv' /\ WindowTypeOK BY ClearStep DEF OnceInv, WindowInv
<1>2. /\ UNCHANGED <<base, reported, happened>> /\ \A u \in Callers : u = t
      /\ step[t] = "clear" /\ at[t] \in Counters /\ N \in Nat
      /\ count' = [count EXCEPT ![at[t]] = 0]
  BY <1>1, WindowConstants DEF ClearCounter, OnceInv, SoleCaller, WindowTypeOK
<1>3. \/ step'[t] = "clear" /\ at'[t] = at[t] + 1
      \/ step'[t] = "idle" /\ ~ (at[t] < N)
  BY <1>1, <1>2 DEF ClearCounter, Advance, WindowTypeOK
<1>4. ASSUME NEW c \in Counters, step'[t] = "clear" => c < at'[t]
      PROVE  Accounted(c)'
  <2>1. base[c] = 0 /\ reported[c] <= happened[c]
    BY <1>2 DEF OnceInv, NothingTwice
  <2>2. CASE c = at[t]
    <3>1. count'[c] = 0 BY <1>1, <1>2, <2>2 DEF WindowTypeOK
    <3> QED BY <1>1, <1>2, <2>1, <3>1, AccountNumbers DEF Accounted
  <2>3. CASE c # at[t]
    <3>1. c < at[t] BY <1>2, <1>3, <1>4, <2>3 DEF Counters
    <3>2. Accounted(c) BY <1>2, <3>1 DEF OnceInv
    <3>3. count'[c] = count[c] BY <1>1, <1>2, <2>3 DEF WindowTypeOK
    <3> QED BY <1>2, <3>2, <3>3 DEF Accounted
  <2> QED BY <2>2, <2>3
<1>5. Copied(t)' = {} BY <1>3 DEF Copied
<1>6. \A c \in Counters : base'[c] = 0 BY <1>2 DEF OnceInv
<1> QED BY <1>1, <1>2, <1>4, <1>5, <1>6 DEF OnceInv, SoleCaller, NothingTwice

LEMMA NextOnce == OnceInv /\ [WindowNext]_windowVars => OnceInv'
<1> SUFFICES ASSUME OnceInv, [WindowNext]_windowVars PROVE OnceInv' OBVIOUS
<1>1. CASE UNCHANGED windowVars
  <2>1. WindowInv' BY NextWindow DEF OnceInv
  <2> QED BY <1>1, <2>1 DEF windowVars, OnceInv, SoleCaller, NothingTwice, Accounted, Copied
<1> QED
  BY <1>1, EventOnce, ReadOnce, ExtractLockedOnce, ResetOnce, ClearOnce DEF WindowNext

\* One thread that extracts and resets in turn never reports an event in two windows, for
\* every number of counters and whatever other threads count meanwhile.
THEOREM NoEventTwice == SoleCaller /\ WindowSpec => []NothingTwice
<1>1. OnceInv => NothingTwice BY DEF OnceInv
<1> QED BY <1>1, InitOnce, NextOnce, PTL DEF WindowSpec

-----------------------------------------------------------------------------
(* ModeSelector                                                            *)

\* Most leaves need no arithmetic: Zenon first, then SMT.
USE ZenonT(10), SMTT(20)

\* Quotient and remainder of a natural number (the window arithmetic).
LEMMA DivMod ==
  ASSUME NEW c \in Nat, NEW W \in Nat \ {0}
  PROVE  c = W * (c \div W) + (c % W) /\ c % W \in 0..W-1 /\ c \div W \in Nat
  OBVIOUS

\* Multiplication by the window length is monotone.
LEMMA TimesMonotone ==
  ASSUME NEW W \in Nat, NEW a \in Nat, NEW b \in Nat, a < b
  PROVE  W * a + W <= W * b
<1>1. PICK d \in Nat : b = a + 1 + d
   <2>1. b - a - 1 \in Nat /\ b = a + 1 + (b - a - 1) OBVIOUS
   <2> QED BY <2>1
<1>2. W * b = W * a + W + W * d BY <1>1
<1>3. W * d >= 0 BY <1>1
<1> QED BY <1>2, <1>3, <1>1

\* A number has one quotient.
LEMMA QuotientUnique ==
  ASSUME NEW W \in Nat \ {0}, NEW a \in Nat, NEW b \in Nat,
         NEW r \in 0 .. W - 1, NEW s \in 0 .. W - 1, W * a + r = W * b + s
  PROVE  a = b
<1>0. W * a \in Nat /\ W * b \in Nat OBVIOUS
<1>1. CASE a < b
  <2>1. W * a + W <= W * b BY <1>1, TimesMonotone
  <2> QED BY <2>1, <1>0
<1>2. CASE b < a
  <2>1. W * b + W <= W * a BY <1>2, TimesMonotone
  <2> QED BY <2>1, <1>0
<1> QED BY <1>1, <1>2

\* The call whose count is a multiple of the window enters the next window.
LEMMA NextQuotient ==
  ASSUME NEW c \in Nat, NEW W \in Nat \ {0}, (c+1) % W = 0
  PROVE  (c+1) \div W = c \div W + 1
<1> DEFINE q == c \div W r == c % W p == (c+1) \div W
<1>1. c = W * q + r /\ r \in 0..W-1 /\ q \in Nat BY DivMod
<1>2. c + 1 = W * p /\ p \in Nat BY DivMod, c+1 \in Nat
<1> HIDE DEF q, r, p
<1>3. W * q \in Nat /\ W * p \in Nat BY <1>1, <1>2
<1>4. CASE r = W - 1
  <2>1. W * (q + 1) = W * q + W BY <1>1
  <2>2. W * (q+1) + 0 = W * p + 0 BY <2>1, <1>1, <1>2, <1>3, <1>4
  <2>3. 0 \in 0..W-1 /\ q + 1 \in Nat BY <1>1
  <2> QED BY QuotientUnique, <2>2, <2>3, <1>2 DEF q, p
<1>5. CASE r # W - 1
  <2>1. W * q + (r+1) = W * p + 0 /\ r + 1 \in 0..W-1 /\ 0 \in 0..W-1 BY <1>5, <1>1, <1>2, <1>3
  <2>2. q = p BY QuotientUnique, <2>1, <1>1, <1>2
  <2> QED BY <2>1, <2>2, <1>1, <1>3
<1> QED BY <1>4, <1>5

\* Any other call stays in its window.
LEMMA SameQuotient ==
  ASSUME NEW c \in Nat, NEW W \in Nat \ {0}, (c+1) % W # 0
  PROVE  (c+1) \div W = c \div W
<1> DEFINE q == c \div W r == c % W p == (c+1) \div W s == (c+1) % W
<1>1. c = W * q + r /\ r \in 0..W-1 /\ q \in Nat BY DivMod
<1>2. c + 1 = W * p + s /\ p \in Nat /\ s \in 0..W-1 BY DivMod, c+1 \in Nat
<1>6. s # 0 OBVIOUS
<1> HIDE DEF q, r, p, s
<1>3. W * q \in Nat /\ W * p \in Nat BY <1>1, <1>2
<1>4. W * q + r = W * p + (s - 1) /\ s - 1 \in 0..W-1 BY <1>1, <1>2, <1>3, <1>6
<1> QED BY QuotientUnique, <1>4, <1>1, <1>2 DEF q, p

----------------------------------------------------------------------------
(* The inductive invariant                                                  *)

\* An active mode that is not marked is being marked, or about to be replaced.
MarkPending ==
  \/ states[active] = "Active"
  \/ \E t \in Threads :
       \/ pc[t] \in {"store_previous", "store_active"}
       \/ pc[t] = "mark_active" /\ call[t].next = active

\* adaptive_set_mode only runs adaptive_activate_mode.
ManualOnlyActivates ==
  \A t \in Threads : call[t].manual =>
    pc[t] \in {"load_old", "retire", "store_previous", "store_active", "mark_active"}

IInv == TypeOK /\ MarkPending /\ ManualOnlyActivates /\ EventPerWindow

USE DEF Goto, Finish

\* The feature records and the empty call are well typed.
LEMMA NoCallType == NoCall \in Calls /\ Quiet \in FeatureRecord
BY DEF NoCall, Calls, Quiet, FeatureRecord, Modes

\* What the environment and a decision may name.
LEMMA DecisionType ==
  ASSUME env \in Envs
  PROVE  /\ ConfiguredMode(env) \in Modes
         /\ \A d \in Decisions : d.f \in FeatureRecord /\ d.next \in Modes /\ d.gain \in BOOLEAN
<1>1. ConfiguredMode(env) \in Modes BY DEF ConfiguredMode, Modes
<1>2. \A f : SelectMode(env, f) \in Modes BY DEF SelectMode, Modes
<1>3. \A f, m : RuleGain(f, m) \in BOOLEAN BY DEF RuleGain
<1>4. \A d \in Decisions : d.f \in FeatureRecord /\ d.next \in Modes /\ d.gain \in BOOLEAN
  BY <1>2, <1>3, SelectorConstants DEF Decisions
<1> QED BY <1>1, <1>4

\* The boundary threads are finitely many.
LEMMA BoundaryFinite == IsFiniteSet(AtBoundary) /\ Cardinality(AtBoundary) \in Nat
BY SelectorConstants, FS_Subset, FS_CardinalityType DEF AtBoundary

\* Init establishes the invariant.
LEMMA InitIInv == Init => IInv
<1> SUFFICES ASSUME Init PROVE IInv OBVIOUS
<1>1. TypeOK
  <2>1. ConfiguredMode(env) \in Modes
    BY DecisionType DEF Init
  <2>2. Cooldown + 1 \in 0 .. Cooldown + 1 /\ 0 \in 0 .. Cooldown + 1 /\ 0 \in 0 .. CallLimit
    BY SelectorConstants
  <2>3. past \in [sinceSwitch : 0 .. Cooldown + 1, f : FeatureRecord, streak : 0 .. Cooldown + 1,
                 from : Modes]
    BY <2>1, <2>2, NoCallType, SelectorConstants DEF Init
  <2>4. call \in [Threads -> Calls] /\ pc \in [Threads -> PCs]
    BY NoCallType DEF Init, PCs
  <2> QED BY <2>1, <2>2, <2>3, <2>4 DEF Init, TypeOK
<1>2. MarkPending BY <1>1, DecisionType DEF Init, MarkPending, TypeOK
<1>3. ManualOnlyActivates BY DEF Init, ManualOnlyActivates, NoCall
<1>4. EventPerWindow
  <2>1. AtBoundary = {} BY DEF Init, AtBoundary
  <2>2. Cardinality(AtBoundary) = 0 BY <2>1, FS_EmptySet
  <2>3. 0 \div Window = 0 BY SelectorConstants
  <2> QED BY <2>2, <2>3 DEF Init, EventPerWindow
<1> QED BY <1>1, <1>2, <1>3, <1>4 DEF IInv

\* A step that keeps the boundary threads keeps the count of events.
LEMMA SameBoundary ==
  ASSUME EventPerWindow, AtBoundary' = AtBoundary, UNCHANGED <<eventSeq, counter>>
  PROVE  EventPerWindow'
BY DEF EventPerWindow

\* Tick adds a boundary thread exactly when the count enters a new window.
LEMMA TickStep == ASSUME IInv, NEW t \in Threads, Tick(t) PROVE IInv'
<1> USE SelectorConstants DEF IInv
<1>1. TypeOK'
  <2>1. counter + 1 \in 0 .. CallLimit BY DEF Tick, TypeOK
  <2>2. call' \in [Threads -> Calls] BY <2>1 DEF Tick, TypeOK, Calls
  <2>3. pc' \in [Threads -> PCs] BY DEF Tick, TypeOK, PCs
  <2> QED BY <2>1, <2>2, <2>3 DEF Tick, TypeOK
<1>2. MarkPending' BY DEF Tick, TypeOK, MarkPending, Calls
<1>3. ManualOnlyActivates' BY DEF Tick, TypeOK, ManualOnlyActivates, Calls
<1>4. EventPerWindow'
  <2>1. counter \in Nat /\ Window \in Nat \ {0} /\ eventSeq \in Nat BY DEF TypeOK
  <2>2. CASE (counter + 1) % Window = 0
    <3>1. AtBoundary' = AtBoundary \cup {t} /\ t \notin AtBoundary
      BY <2>2 DEF Tick, TypeOK, AtBoundary, ManualOnlyActivates, Calls
    <3>2. Cardinality(AtBoundary') = Cardinality(AtBoundary) + 1
      BY <3>1, BoundaryFinite, FS_AddElement
    <3>3. (counter + 1) \div Window = counter \div Window + 1 BY <2>1, <2>2, NextQuotient
    <3>4. counter \div Window \in Nat BY <2>1, DivMod
    <3> QED BY <2>1, <3>2, <3>3, <3>4, BoundaryFinite DEF EventPerWindow, Tick
  <2>3. CASE (counter + 1) % Window # 0
    <3>1. AtBoundary' = AtBoundary BY <2>3 DEF Tick, AtBoundary
    <3>2. (counter + 1) \div Window = counter \div Window BY <2>1, <2>3, SameQuotient
    <3> QED BY <3>1, <3>2 DEF EventPerWindow, Tick
  <2> QED BY <2>2, <2>3
<1> QED BY <1>1, <1>2, <1>3, <1>4

\* The window's decision is well typed; nothing shared changes.
LEMMA ObserveStep == ASSUME IInv, NEW t \in Threads, Observe(t) PROVE IInv'
<1> USE DEF IInv
<1>1. PICK d \in Decisions :
        call' = [call EXCEPT ![t] = [@ EXCEPT !.f = d.f, !.next = d.next, !.gain = d.gain,
                                              !.current = active]]
  BY DEF Observe
<1>2. d.f \in FeatureRecord /\ d.next \in Modes /\ d.gain \in BOOLEAN
  BY DecisionType DEF TypeOK
<1>3. TypeOK'
  <2>1. call' \in [Threads -> Calls] BY <1>1, <1>2 DEF TypeOK, Calls
  <2> QED BY <2>1 DEF Observe, TypeOK, PCs
<1>4. \A u \in Threads : /\ call'[u].manual = call[u].manual
                         /\ pc[u] = "mark_active" => call'[u].next = call[u].next
  BY <1>1 DEF Observe, TypeOK, Calls
<1>5. MarkPending' BY <1>4 DEF Observe, TypeOK, MarkPending
<1>6. ManualOnlyActivates' BY <1>4 DEF Observe, TypeOK, ManualOnlyActivates
<1>7. AtBoundary' = AtBoundary BY <1>4 DEF Observe, TypeOK, AtBoundary
<1>8. EventPerWindow' BY <1>7, SameBoundary DEF Observe
<1> QED BY <1>3, <1>5, <1>6, <1>8

\* Check only moves its thread on.
LEMMA CheckStep == ASSUME IInv, NEW t \in Threads, Check(t) PROVE IInv'
<1> USE DEF IInv
<1>1. TypeOK' BY DEF Check, TypeOK, PCs
<1>2. MarkPending' BY DEF Check, TypeOK, MarkPending
<1>3. ManualOnlyActivates' BY DEF Check, TypeOK, ManualOnlyActivates
<1>4. AtBoundary' = AtBoundary BY DEF Check, TypeOK, AtBoundary
<1>5. EventPerWindow' BY <1>4, SameBoundary DEF Check
<1> QED BY <1>1, <1>2, <1>3, <1>5

\* The end of the cooldown is a count of calls.
LEMMA SetCooldownStep == ASSUME IInv, NEW t \in Threads, SetCooldown(t) PROVE IInv'
<1> USE DEF IInv
<1>1. TypeOK'
  <2>0. call[t].n \in Nat /\ Cooldown \in Nat /\ Window \in Nat
    BY SelectorConstants DEF TypeOK, Calls
  <2>1. call[t].n + Cooldown * Window \in Nat BY <2>0
  <2>2. call' \in [Threads -> Calls]
    <3>1. call[t] \in Calls /\ call \in [Threads -> Calls] BY DEF TypeOK
    <3>2. [call[t] EXCEPT !.switched = TRUE] \in Calls BY <3>1 DEF Calls
    <3> QED BY <3>1, <3>2 DEF SetCooldown
  <2> QED BY <2>1, <2>2 DEF SetCooldown, TypeOK, PCs
<1>2. \A u \in Threads : call'[u].manual = call[u].manual /\ call'[u].next = call[u].next
  BY DEF SetCooldown, TypeOK, Calls
<1>3. MarkPending' BY <1>2 DEF SetCooldown, TypeOK, MarkPending
<1>4. ManualOnlyActivates' BY <1>2 DEF SetCooldown, TypeOK, ManualOnlyActivates
<1>5. AtBoundary' = AtBoundary BY <1>2 DEF SetCooldown, TypeOK, AtBoundary
<1>6. EventPerWindow' BY <1>5, SameBoundary DEF SetCooldown
<1> QED BY <1>1, <1>3, <1>4, <1>6

\* The event recorded stands for the boundary thread that leaves.
LEMMA RecordStep == ASSUME IInv, NEW t \in Threads, Record(t) PROVE IInv'
<1> USE DEF IInv
<1>1. TypeOK'
  <2>1. call' \in [Threads -> Calls] BY NoCallType DEF Record, TypeOK
  <2>2. \A k \in Nat : Capped(k) \in 0 .. Cooldown + 1 BY SelectorConstants DEF Capped
  <2>3. past' \in [sinceSwitch : 0 .. Cooldown + 1, f : FeatureRecord, streak : 0 .. Cooldown + 1,
                 from : Modes]
    <3>1. past.sinceSwitch + 1 \in Nat /\ past.streak + 1 \in Nat
      BY SelectorConstants DEF TypeOK
    <3>2. 0 \in 0 .. Cooldown + 1 /\ 1 \in 0 .. Cooldown + 1 BY SelectorConstants
    <3>3. call[t].f \in FeatureRecord /\ call[t].current \in Modes /\ past.from \in Modes
      BY DEF TypeOK, Calls
    <3>4. Capped(past.sinceSwitch + 1) \in 0 .. Cooldown + 1
            /\ Capped(past.streak + 1) \in 0 .. Cooldown + 1 BY <2>2, <3>1
    <3> QED BY <3>2, <3>3, <3>4 DEF Record
  <2> QED BY <2>1, <2>3 DEF Record, TypeOK, PCs
<1>2. MarkPending' BY DEF Record, TypeOK, MarkPending
<1>3. ManualOnlyActivates' BY DEF Record, TypeOK, ManualOnlyActivates, NoCall
<1>4. EventPerWindow'
  <2>1. AtBoundary' = AtBoundary \ {t} /\ t \in AtBoundary
    BY DEF Record, TypeOK, AtBoundary, ManualOnlyActivates
  <2>2. Cardinality(AtBoundary') = Cardinality(AtBoundary) - 1
    BY <2>1, BoundaryFinite, FS_RemoveElement
  <2> QED BY <2>2, BoundaryFinite DEF Record, EventPerWindow, TypeOK
<1> QED BY <1>1, <1>2, <1>3, <1>4


\* adaptive_set_mode starts outside any boundary.
LEMMA SetModeStep == ASSUME IInv, NEW t \in Threads, SetMode(t) PROVE IInv'
<1> USE DEF IInv
<1>1. PICK m \in Requested :
        call' = [call EXCEPT ![t] = [NoCall EXCEPT !.next = m, !.manual = TRUE]]
  BY DEF SetMode
<1>2. TypeOK'
  <2>1. m \in Modes BY SelectorConstants
  <2>2. [NoCall EXCEPT !.next = m, !.manual = TRUE] \in Calls BY <2>1, NoCallType DEF Calls
  <2>3. call' \in [Threads -> Calls] BY <1>1, <2>2 DEF TypeOK
  <2> QED BY <2>3 DEF SetMode, TypeOK, PCs
<1>3. /\ call'[t].manual = TRUE
      /\ \A u \in Threads \ {t} : call'[u] = call[u]
  BY <1>1 DEF TypeOK, NoCall
<1>4. MarkPending' BY <1>3 DEF SetMode, TypeOK, MarkPending
<1>5. ManualOnlyActivates' BY <1>3 DEF SetMode, TypeOK, ManualOnlyActivates
<1>6. AtBoundary' = AtBoundary BY <1>3 DEF SetMode, TypeOK, AtBoundary
<1>7. EventPerWindow' BY <1>6, SameBoundary DEF SetMode
<1> QED BY <1>2, <1>4, <1>5, <1>7

\* Returning from adaptive_activate_mode keeps the boundary threads.
LEMMA ReturnKeeps ==
  ASSUME IInv, NEW t \in Threads, Return(t), pc[t] \in {"load_old", "mark_active"}
  PROVE  /\ pc' \in [Threads -> PCs] /\ call' \in [Threads -> Calls]
         /\ pc'[t] \in {"idle", "set_cooldown"}
         /\ \A u \in Threads \ {t} : pc'[u] = pc[u] /\ call'[u] = call[u]
         /\ ~ call'[t].manual
         /\ AtBoundary' = AtBoundary
<1> USE DEF IInv
<1>1. CASE call[t].manual
  <2>1. pc' = [pc EXCEPT ![t] = "idle"] /\ call' = [call EXCEPT ![t] = NoCall]
    BY <1>1 DEF Return
  <2>2. AtBoundary' = AtBoundary BY <1>1, <2>1 DEF TypeOK, AtBoundary
  <2> QED BY <2>1, <2>2, NoCallType DEF TypeOK, PCs, NoCall
<1>2. CASE ~ call[t].manual
  <2>1. pc' = [pc EXCEPT ![t] = "set_cooldown"] /\ call' = call BY <1>2 DEF Return
  <2>2. AtBoundary' = AtBoundary BY <1>2, <2>1 DEF TypeOK, AtBoundary
  <2> QED BY <1>2, <2>1, <2>2 DEF TypeOK, PCs
<1> QED BY <1>1, <1>2

\* Reading the mode to be retired changes nothing shared.
LEMMA LoadOldStep == ASSUME IInv, NEW t \in Threads, LoadOld(t) PROVE IInv'
<1> USE DEF IInv
<1>1. CASE active = call[t].next
  <2>1. Return(t) /\ pc[t] = "load_old" BY <1>1 DEF LoadOld
  <2>2. /\ pc' \in [Threads -> PCs] /\ call' \in [Threads -> Calls]
        /\ pc'[t] \in {"idle", "set_cooldown"}
        /\ \A u \in Threads \ {t} : pc'[u] = pc[u] /\ call'[u] = call[u]
        /\ ~ call'[t].manual /\ AtBoundary' = AtBoundary
    BY <2>1, ReturnKeeps
  <2>3. TypeOK' BY <2>2 DEF LoadOld, TypeOK
  <2>4. MarkPending' BY <2>1, <2>2 DEF LoadOld, MarkPending
  <2>5. ManualOnlyActivates' BY <2>2 DEF ManualOnlyActivates
  <2>6. EventPerWindow' BY <2>2, SameBoundary DEF LoadOld
  <2> QED BY <2>3, <2>4, <2>5, <2>6
<1>2. CASE active # call[t].next
  <2>1. /\ pc[t] = "load_old" /\ pc' = [pc EXCEPT ![t] = "retire"]
        /\ call' = [call EXCEPT ![t] = [@ EXCEPT !.old = active]]
    BY <1>2 DEF LoadOld
  <2>2. call' \in [Threads -> Calls] BY <2>1 DEF TypeOK, Calls
  <2>3. \A u \in Threads : call'[u].manual = call[u].manual /\ call'[u].next = call[u].next
    BY <2>1 DEF TypeOK, Calls
  <2>4. TypeOK' BY <2>1, <2>2 DEF LoadOld, TypeOK, PCs
  <2>5. MarkPending' BY <2>1, <2>3 DEF LoadOld, TypeOK, MarkPending
  <2>6. ManualOnlyActivates' BY <2>1, <2>3 DEF TypeOK, ManualOnlyActivates
  <2>7. AtBoundary' = AtBoundary BY <2>1, <2>3 DEF TypeOK, AtBoundary
  <2>8. EventPerWindow' BY <2>7, SameBoundary DEF LoadOld
  <2> QED BY <2>4, <2>5, <2>6, <2>8
<1> QED BY <1>1, <1>2

\* A thread that retires a mode will store another.
LEMMA RetireStep == ASSUME IInv, NEW t \in Threads, Retire(t) PROVE IInv'
<1> USE DEF IInv
<1>1. TypeOK'
  <2>1. call[t].old \in Modes BY DEF TypeOK, Calls
  <2> QED BY <2>1 DEF Retire, TypeOK, PCs
<1>2. MarkPending'
  <2>1. pc'[t] = "store_previous" BY DEF Retire, TypeOK
  <2> QED BY <2>1 DEF MarkPending
<1>3. ManualOnlyActivates' BY DEF Retire, TypeOK, ManualOnlyActivates
<1>4. AtBoundary' = AtBoundary BY DEF Retire, TypeOK, AtBoundary
<1>5. EventPerWindow' BY <1>4, SameBoundary DEF Retire
<1> QED BY <1>1, <1>2, <1>3, <1>5

\* Still about to store the active mode.
LEMMA StorePreviousStep == ASSUME IInv, NEW t \in Threads, StorePrevious(t) PROVE IInv'
<1> USE DEF IInv
<1>1. TypeOK'
  <2>1. call[t].old \in Modes BY DEF TypeOK, Calls
  <2> QED BY <2>1 DEF StorePrevious, TypeOK, PCs
<1>2. MarkPending'
  <2>1. pc'[t] = "store_active" BY DEF StorePrevious, TypeOK
  <2> QED BY <2>1 DEF MarkPending
<1>3. ManualOnlyActivates' BY DEF StorePrevious, TypeOK, ManualOnlyActivates
<1>4. AtBoundary' = AtBoundary BY DEF StorePrevious, TypeOK, AtBoundary
<1>5. EventPerWindow' BY <1>4, SameBoundary DEF StorePrevious
<1> QED BY <1>1, <1>2, <1>3, <1>5

\* The thread that stored the active mode is about to mark it.
LEMMA StoreActiveStep == ASSUME IInv, NEW t \in Threads, StoreActive(t) PROVE IInv'
<1> USE DEF IInv
<1>1. call' \in [Threads -> Calls] BY DEF StoreActive, TypeOK, Calls
<1>2. \A u \in Threads : call'[u].manual = call[u].manual /\ call'[u].next = call[u].next
  BY DEF StoreActive, TypeOK, Calls
<1>3. TypeOK'
  <2>1. call[t].next \in Modes BY DEF TypeOK, Calls
  <2> QED BY <1>1, <2>1 DEF StoreActive, TypeOK, PCs
<1>4. MarkPending'
  <2>1. pc'[t] = "mark_active" /\ call'[t].next = active' BY <1>2 DEF StoreActive, TypeOK
  <2> QED BY <2>1 DEF MarkPending
<1>5. ManualOnlyActivates' BY <1>2 DEF StoreActive, TypeOK, ManualOnlyActivates
<1>6. AtBoundary' = AtBoundary BY <1>2 DEF StoreActive, TypeOK, AtBoundary
<1>7. EventPerWindow' BY <1>6, SameBoundary DEF StoreActive
<1> QED BY <1>3, <1>4, <1>5, <1>7

\* Marking either marks the active mode or leaves the pending marker of it in place.
LEMMA MarkActiveStep == ASSUME IInv, NEW t \in Threads, MarkActive(t) PROVE IInv'
<1> USE DEF IInv
<1>1. /\ pc' \in [Threads -> PCs] /\ call' \in [Threads -> Calls]
      /\ pc'[t] \in {"idle", "set_cooldown"}
      /\ \A u \in Threads \ {t} : pc'[u] = pc[u] /\ call'[u] = call[u]
      /\ ~ call'[t].manual /\ AtBoundary' = AtBoundary
  BY ReturnKeeps DEF MarkActive
<1>2. call[t].next \in Modes BY DEF TypeOK, Calls
<1>3. TypeOK' BY <1>1, <1>2 DEF MarkActive, TypeOK
<1>4. MarkPending'
  <2>1. CASE call[t].next = active BY <1>2, <2>1 DEF MarkActive, TypeOK, MarkPending
  <2>2. CASE call[t].next # active
    <3>1. states'[active] = states[active] /\ active' = active
      BY <1>2, <2>2 DEF MarkActive, TypeOK
    <3> QED BY <1>1, <2>2, <3>1 DEF MarkActive, MarkPending
  <2> QED BY <2>1, <2>2
<1>5. ManualOnlyActivates' BY <1>1 DEF ManualOnlyActivates
<1>6. EventPerWindow' BY <1>1, SameBoundary DEF MarkActive
<1> QED BY <1>3, <1>4, <1>5, <1>6

----------------------------------------------------------------------------
(* Theorems                                                                 *)

\* Every step, and stuttering, keeps the invariant.
LEMMA NextIInv == IInv /\ [Next]_vars => IInv'
<1> SUFFICES ASSUME IInv, [Next]_vars PROVE IInv' OBVIOUS
<1>1. CASE UNCHANGED vars
  BY <1>1 DEF vars, IInv, TypeOK, MarkPending, ManualOnlyActivates, EventPerWindow, AtBoundary
<1>2. CASE Next
  <2>1. PICK t \in Threads : Tick(t) \/ SetMode(t) \/ Step(t) BY <1>2 DEF Next
  <2> QED
    BY <2>1, TickStep, SetModeStep, ObserveStep, CheckStep, SetCooldownStep, RecordStep,
       LoadOldStep, RetireStep, StorePreviousStep, StoreActiveStep, MarkActiveStep DEF Step
<1> QED BY <1>1, <1>2

\* The inductive invariant holds of the selector for any threads and constants.
THEOREM Inductive == Spec => []IInv
BY InitIInv, NextIInv, PTL DEF Spec

\* The selector's variables keep their types, whatever switches overlap.
THEOREM TypeCorrect == Spec => []TypeOK
<1>1. IInv => TypeOK BY DEF IInv
<1> QED BY <1>1, Inductive, PTL

\* Once no thread is switching, the active mode is marked Active, for any number of
\* threads in adaptive_activate_mode at once.
THEOREM ActiveModeIsMarked == Spec => []ActiveIsMarked
<1>1. IInv => ActiveIsMarked BY DEF IInv, MarkPending, ActiveIsMarked, AllIdle
<1> QED BY <1>1, Inductive, PTL

\* Every window boundary yields one selector event, for any window length and number
\* of threads.
THEOREM EveryWindowHasAnEvent == Spec => []EventPerWindow
<1>1. IInv => EventPerWindow BY DEF IInv
<1> QED BY <1>1, Inductive, PTL

----------------------------------------------------------------------------
(* One thread: the cooldown.                                                *)

\* A single thread makes all calls, so that boundaries come one after the other.
SoleThread == \E t : Threads = {t}

LastBoundary == Window * (counter \div Window)
Span == Cooldown * Window

\* Where thread t is with the last boundary: done with it, deciding, or switching.
Resting(t) == pc[t] = "idle" \/ call[t].manual
Deciding(t) ==
  /\ ~ call[t].manual
  /\ pc[t] \in {"observe", "check"} \/ (pc[t] = "record" /\ ~ call[t].switched)
Switching(t) ==
  /\ ~ call[t].manual
  /\ pc[t] \in {"load_old", "retire", "store_previous", "store_active", "mark_active",
                "set_cooldown"}
Switched(t) == ~ call[t].manual /\ pc[t] = "record" /\ call[t].switched

\* The cooldown ends Span calls after the boundary of the last switch.  Until a
\* boundary is recorded, sinceSwitch lags one window behind the counter.
Spacing(t) ==
  /\ Resting(t) =>
       /\ cooldownUntil <= LastBoundary + Span
       /\ \/ past.sinceSwitch >= Cooldown
          \/ cooldownUntil + Window * past.sinceSwitch >= LastBoundary + Span
  /\ Deciding(t) =>
       /\ cooldownUntil + Window <= LastBoundary + Span
       /\ \/ past.sinceSwitch >= Cooldown
          \/ cooldownUntil + Window * past.sinceSwitch + Window >= LastBoundary + Span
  /\ Switching(t) \/ Switched(t) => past.sinceSwitch + 1 >= Cooldown
  /\ Switched(t) => cooldownUntil = LastBoundary + Span
  /\ ~ Resting(t) => call[t].n = LastBoundary
  /\ call[t].switched => pc[t] = "record"

\* The quantities of the invariant are numbers.
LEMMA SpacingNumbers ==
  ASSUME TypeOK
  PROVE  /\ Window \in Nat \ {0} /\ Cooldown \in Nat /\ Span \in Nat /\ counter \in Nat
         /\ LastBoundary \in Nat /\ cooldownUntil \in Nat
         /\ past.sinceSwitch \in Nat /\ Window * past.sinceSwitch \in Nat
         /\ past.streak \in Nat /\ Window * past.streak \in Nat
<1>1. Window \in Nat \ {0} /\ Cooldown \in Nat /\ counter \in Nat
  BY SelectorConstants DEF TypeOK
<1>2. past.sinceSwitch \in Nat /\ past.streak \in Nat /\ cooldownUntil \in Nat
  BY <1>1 DEF TypeOK
<1>3. Span \in Nat
  BY <1>1 DEF Span
<1>4. counter \div Window \in Nat
  BY <1>1, DivMod
<1>5. LastBoundary \in Nat
  BY <1>1, <1>4 DEF LastBoundary
<1>6. \A k \in Nat : Window * k \in Nat
  BY <1>1
<1> QED BY <1>1, <1>2, <1>3, <1>5, <1>6

\* A sum of windows that reaches the span has as many windows as the cooldown.
LEMMA EnoughWindows ==
  ASSUME NEW W \in Nat \ {0}, NEW s \in Nat, NEW C \in Nat, W * s >= C * W
  PROVE  s >= C
<1>1. CASE s < C
  <2>1. W * s + W <= W * C
    BY <1>1, TimesMonotone
  <2>2. W * C = C * W /\ W * s \in Nat /\ C * W \in Nat
    OBVIOUS
  <2> QED BY <2>1, <2>2
<1> QED BY <1>1

\* A step of thread t that stays in the same part of the call and leaves the
\* counter, the cooldown and the history alone.
LEMMA SpacingKept ==
  ASSUME NEW t \in Threads, Spacing(t), UNCHANGED <<counter, cooldownUntil, past>>,
         ~ Resting(t)' => call'[t].n = call[t].n,
         Resting(t)' <=> Resting(t), Deciding(t)' => Deciding(t),
         Switching(t)' => Switching(t), Switched(t)' => Switched(t),
         call'[t].switched => pc'[t] = "record"
  PROVE  Spacing(t)'
BY DEF Spacing, LastBoundary

\* Counting a call: the boundary moves by one window or not at all.
LEMMA NextBoundary ==
  ASSUME TypeOK, counter' = counter + 1
  PROVE  /\ (counter + 1) % Window = 0 =>
              LastBoundary' = counter + 1 /\ LastBoundary' = LastBoundary + Window
         /\ (counter + 1) % Window # 0 => LastBoundary' = LastBoundary
<1>0. counter \in Nat /\ Window \in Nat \ {0}
  BY SelectorConstants DEF TypeOK
<1>1. ASSUME (counter + 1) % Window = 0
      PROVE  LastBoundary' = counter + 1 /\ LastBoundary' = LastBoundary + Window
  <2> DEFINE q == counter \div Window p == (counter + 1) \div Window
  <2>1. p = q + 1 /\ q \in Nat
    BY <1>0, <1>1, NextQuotient, DivMod
  <2>2. counter + 1 = Window * p + 0
    BY <1>0, <1>1, DivMod, counter + 1 \in Nat
  <2>4. LastBoundary' = Window * p /\ LastBoundary = Window * q
    BY DEF LastBoundary
  <2> HIDE DEF p, q
  <2>3. Window * p = Window * q + Window
    BY <1>0, <2>1
  <2>5. Window * p \in Int
    BY <1>0, <2>1
  <2> QED BY <1>0, <2>2, <2>3, <2>4, <2>5
<1>2. ASSUME (counter + 1) % Window # 0 PROVE LastBoundary' = LastBoundary
  BY <1>0, <1>2, SameQuotient DEF LastBoundary
<1> QED BY <1>1, <1>2

\* A call counted outside of a boundary, or at the next one.
LEMMA TickSpacing ==
  ASSUME IInv, NEW t \in Threads, Spacing(t), Tick(t)
  PROVE  Spacing(t)'
<1>0. TypeOK /\ call[t] \in Calls /\ counter \in Nat /\ Window \in Nat \ {0}
  BY SelectorConstants DEF IInv, TypeOK
<1>1. /\ pc[t] = "idle" /\ Resting(t) /\ ~ call[t].switched /\ ~ call[t].manual
      /\ UNCHANGED <<cooldownUntil, past>> /\ counter' = counter + 1
  BY DEF Tick, Resting, Spacing, IInv, ManualOnlyActivates
<1>2. CASE (counter + 1) % Window = 0
  <2>1. /\ pc'[t] = "observe" /\ call'[t].n = counter + 1
        /\ ~ call'[t].switched /\ ~ call'[t].manual
    BY <1>0, <1>1, <1>2 DEF Tick, TypeOK, Calls
  <2>2. Deciding(t)' /\ ~ Resting(t)' /\ ~ Switching(t)' /\ ~ Switched(t)'
    BY <2>1 DEF Deciding, Resting, Switching, Switched
  <2>3. LastBoundary' = counter + 1 /\ LastBoundary' = LastBoundary + Window
    BY <1>0, <1>1, <1>2, NextBoundary
  <2>4. /\ cooldownUntil <= LastBoundary + Span
        /\ \/ past.sinceSwitch >= Cooldown
           \/ cooldownUntil + Window * past.sinceSwitch >= LastBoundary + Span
    BY <1>1 DEF Spacing
  <2>5. cooldownUntil + Window <= LastBoundary' + Span
    BY <1>0, <2>3, <2>4, SpacingNumbers
  <2>6. \/ past.sinceSwitch >= Cooldown
        \/ cooldownUntil + Window * past.sinceSwitch + Window >= LastBoundary' + Span
    BY <1>0, <2>3, <2>4, SpacingNumbers
  <2> QED BY <1>1, <2>1, <2>2, <2>3, <2>5, <2>6 DEF Spacing
<1>3. CASE (counter + 1) % Window # 0
  <2>1. UNCHANGED <<pc, call>>
    BY <1>3 DEF Tick
  <2>2. LastBoundary' = LastBoundary
    BY <1>0, <1>1, <1>3, NextBoundary
  <2> QED BY <1>1, <2>1, <2>2 DEF Spacing, Resting, Deciding, Switching, Switched
<1> QED BY <1>2, <1>3

\* The decision about the window.
LEMMA ObserveSpacing ==
  ASSUME IInv, NEW t \in Threads, Spacing(t), Observe(t)
  PROVE  Spacing(t)'
<1>1. PICK d \in Decisions :
        call' = [call EXCEPT ![t] = [@ EXCEPT !.f = d.f, !.next = d.next, !.gain = d.gain,
                                              !.current = active]]
  BY DEF Observe
<1>2. /\ call'[t].n = call[t].n /\ call'[t].manual = call[t].manual
      /\ call'[t].switched = call[t].switched
  BY <1>1 DEF IInv, TypeOK, Calls
<1>3. pc[t] = "observe" /\ pc'[t] = "check" /\ UNCHANGED <<counter, cooldownUntil, past>>
  BY DEF Observe, IInv, TypeOK
<1>4. ~ call[t].switched
  BY <1>3 DEF Spacing
<1>5. /\ Resting(t)' <=> Resting(t)
      /\ Deciding(t)' => Deciding(t)
      /\ ~ Switching(t)' /\ ~ Switched(t)' /\ ~ call'[t].switched
  BY <1>2, <1>3, <1>4 DEF Resting, Deciding, Switching, Switched
<1> QED BY <1>2, <1>3, <1>5, SpacingKept

\* A switch goes ahead only when the cooldown is over: then the last one is at
\* least as many windows ago as the cooldown has.
LEMMA CheckSpacing ==
  ASSUME IInv, NEW t \in Threads, Spacing(t), Check(t)
  PROVE  Spacing(t)'
<1>1. /\ pc[t] = "check" /\ UNCHANGED <<counter, cooldownUntil, past, call>>
      /\ pc'[t] = "record" \/ (pc'[t] = "load_old" /\ ~ (call[t].n < cooldownUntil))
  BY DEF Check, IInv, TypeOK
<1>2. ~ call[t].switched /\ ~ call[t].manual
  BY <1>1 DEF Spacing, IInv, ManualOnlyActivates
<1>3. ~ Resting(t) /\ ~ Resting(t)' /\ Deciding(t) /\ ~ Switched(t)' /\ TypeOK
  BY <1>1, <1>2 DEF Resting, Deciding, Switched, IInv
<1>4. CASE pc'[t] = "record"
  <2>1. ~ Switching(t)'
    BY <1>4 DEF Switching
  <2> QED BY <1>1, <1>2, <1>3, <1>4, <2>1, SpacingKept
<1>5. CASE pc'[t] = "load_old" /\ ~ (call[t].n < cooldownUntil)
  <2>1. ~ Deciding(t)' /\ LastBoundary' = LastBoundary
    BY <1>1, <1>5 DEF Deciding, LastBoundary
  <2>2. /\ call[t].n = LastBoundary
        /\ \/ past.sinceSwitch >= Cooldown
           \/ cooldownUntil + Window * past.sinceSwitch + Window >= LastBoundary + Span
    BY <1>3 DEF Spacing
  <2>3. past.sinceSwitch + 1 >= Cooldown
    <3>1. CASE past.sinceSwitch >= Cooldown
      BY <1>3, <3>1, SpacingNumbers
    <3>2. CASE cooldownUntil + Window * past.sinceSwitch + Window >= LastBoundary + Span
      <4>1. Window * past.sinceSwitch + Window >= Span
        BY <1>3, <1>5, <2>2, <3>2, SpacingNumbers
      <4>2. Window * (past.sinceSwitch + 1) = Window * past.sinceSwitch + Window
        BY <1>3, SpacingNumbers
      <4>3. Window * (past.sinceSwitch + 1) >= Cooldown * Window /\ past.sinceSwitch + 1 \in Nat
        BY <1>3, <4>1, <4>2, SpacingNumbers DEF Span
      <4> QED BY <1>3, <4>3, SpacingNumbers, EnoughWindows
    <3> QED BY <2>2, <3>1, <3>2
  <2> QED BY <1>1, <1>2, <1>3, <2>1, <2>2, <2>3 DEF Spacing
<1> QED BY <1>1, <1>4, <1>5

\* The new cooldown starts at the boundary of the switch.
LEMMA SetCooldownSpacing ==
  ASSUME IInv, NEW t \in Threads, Spacing(t), SetCooldown(t)
  PROVE  Spacing(t)'
<1>1. /\ pc[t] = "set_cooldown" /\ pc'[t] = "record" /\ UNCHANGED <<counter, past>>
      /\ cooldownUntil' = call[t].n + Span
      /\ call'[t].n = call[t].n /\ call'[t].manual = call[t].manual /\ call'[t].switched
  BY DEF SetCooldown, IInv, TypeOK, Calls, Span
<1>2. ~ call[t].manual
  BY <1>1 DEF IInv, ManualOnlyActivates
<1>3. Switching(t) /\ ~ Resting(t)
  BY <1>1, <1>2 DEF Switching, Resting
<1>4. ~ Resting(t)' /\ ~ Deciding(t)' /\ ~ Switching(t)' /\ LastBoundary' = LastBoundary
  BY <1>1, <1>2 DEF Resting, Deciding, Switching, LastBoundary
<1> QED BY <1>1, <1>3, <1>4 DEF Spacing

\* Recording the boundary makes sinceSwitch catch up with the counter.
LEMMA RecordSpacing ==
  ASSUME IInv, NEW t \in Threads, Spacing(t), Record(t)
  PROVE  Spacing(t)'
<1>1. /\ pc[t] = "record" /\ pc'[t] = "idle" /\ call'[t] = NoCall
      /\ UNCHANGED <<counter, cooldownUntil>>
      /\ past'.sinceSwitch = IF call[t].switched THEN 0 ELSE Capped(past.sinceSwitch + 1)
  BY DEF Record, IInv, TypeOK
<1>2. ~ call[t].manual /\ TypeOK
  BY <1>1 DEF IInv, ManualOnlyActivates
<1>3. /\ Resting(t)' /\ ~ Deciding(t)' /\ ~ Switching(t)' /\ ~ Switched(t)'
      /\ ~ call'[t].switched /\ LastBoundary' = LastBoundary
  BY <1>1 DEF Resting, Deciding, Switching, Switched, NoCall, LastBoundary
<1>4. CASE call[t].switched
  <2>1. cooldownUntil = LastBoundary + Span
    BY <1>1, <1>2, <1>4 DEF Spacing, Switched
  <2>2. past'.sinceSwitch = 0
    BY <1>1, <1>4
  <2>3. /\ cooldownUntil <= LastBoundary + Span
        /\ cooldownUntil + Window * past'.sinceSwitch >= LastBoundary + Span
    BY <1>2, <2>1, <2>2, SpacingNumbers
  <2> QED BY <1>1, <1>3, <2>3 DEF Spacing
<1>5. CASE ~ call[t].switched
  <2>1. /\ cooldownUntil + Window <= LastBoundary + Span
        /\ \/ past.sinceSwitch >= Cooldown
           \/ cooldownUntil + Window * past.sinceSwitch + Window >= LastBoundary + Span
    BY <1>1, <1>2, <1>5 DEF Spacing, Deciding
  <2>2. cooldownUntil <= LastBoundary + Span
    BY <1>2, <2>1, SpacingNumbers
  <2>3. past'.sinceSwitch = IF past.sinceSwitch + 1 > Cooldown + 1 THEN Cooldown + 1
                            ELSE past.sinceSwitch + 1
    BY <1>1, <1>5 DEF Capped
  <2>4. CASE past.sinceSwitch >= Cooldown
    <3>1. past'.sinceSwitch >= Cooldown
      BY <1>2, <2>3, <2>4, SpacingNumbers
    <3> QED BY <1>1, <1>3, <2>2, <3>1 DEF Spacing
  <2>5. CASE ~ (past.sinceSwitch >= Cooldown)
    <3>1. past'.sinceSwitch = past.sinceSwitch + 1
      BY <1>2, <2>3, <2>5, SpacingNumbers
    <3>2. Window * past'.sinceSwitch = Window * past.sinceSwitch + Window
      BY <1>2, <3>1, SpacingNumbers
    <3>3. cooldownUntil + Window * past'.sinceSwitch >= LastBoundary + Span
      BY <1>2, <2>1, <2>5, <3>2, SpacingNumbers
    <3> QED BY <1>1, <1>3, <2>2, <3>3 DEF Spacing
  <2> QED BY <2>4, <2>5
<1> QED BY <1>4, <1>5

\* adaptive_set_mode is no boundary: it starts and ends outside of one.
LEMMA SetModeSpacing ==
  ASSUME IInv, NEW t \in Threads, Spacing(t), SetMode(t)
  PROVE  Spacing(t)'
<1>1. /\ pc[t] = "idle" /\ pc'[t] = "load_old" /\ UNCHANGED <<counter, cooldownUntil, past>>
      /\ call'[t].manual /\ ~ call'[t].switched
  BY DEF SetMode, IInv, TypeOK, NoCall
<1>2. /\ Resting(t) /\ Resting(t)' /\ ~ Deciding(t)' /\ ~ Switching(t)' /\ ~ Switched(t)'
  BY <1>1 DEF Resting, Deciding, Switching, Switched
<1> QED BY <1>1, <1>2, SpacingKept

\* adaptive_activate_mode returns.
LEMMA ReturnSpacing ==
  ASSUME IInv, NEW t \in Threads, Spacing(t), Return(t), pc[t] \in {"load_old", "mark_active"},
         UNCHANGED <<counter, cooldownUntil, past>>
  PROVE  Spacing(t)'
<1>1. CASE call[t].manual
  <2>1. pc'[t] = "idle" /\ call'[t] = NoCall
    BY <1>1 DEF Return, IInv, TypeOK
  <2>2. /\ Resting(t) /\ Resting(t)' /\ ~ Deciding(t)' /\ ~ Switching(t)' /\ ~ Switched(t)'
        /\ ~ call'[t].switched
    BY <1>1, <2>1 DEF Resting, Deciding, Switching, Switched, NoCall
  <2> QED BY <2>2, SpacingKept
<1>2. CASE ~ call[t].manual
  <2>1. pc'[t] = "set_cooldown" /\ call' = call
    BY <1>2 DEF Return, IInv, TypeOK
  <2>2. ~ call[t].switched
    BY DEF Spacing
  <2>3. /\ ~ Resting(t) /\ ~ Resting(t)' /\ ~ Deciding(t)' /\ Switching(t) /\ ~ Switched(t)'
    BY <1>2, <2>1 DEF Resting, Deciding, Switching, Switched
  <2> QED BY <2>1, <2>2, <2>3, SpacingKept
<1> QED BY <1>1, <1>2

\* The steps inside adaptive_activate_mode.
LEMMA ActivateSpacing ==
  ASSUME IInv, NEW t \in Threads, Spacing(t),
         LoadOld(t) \/ Retire(t) \/ StorePrevious(t) \/ StoreActive(t) \/ MarkActive(t)
  PROVE  Spacing(t)'
<1>0. UNCHANGED <<counter, cooldownUntil, past>> /\ call[t] \in Calls
  BY DEF LoadOld, Retire, StorePrevious, StoreActive, MarkActive, IInv, TypeOK
<1>1. CASE pc[t] = "mark_active" \/ (pc[t] = "load_old" /\ active = call[t].next)
  <2>1. Return(t)
    BY <1>1 DEF LoadOld, Retire, StorePrevious, StoreActive, MarkActive
  <2> QED BY <1>0, <1>1, <2>1, ReturnSpacing
<1>2. CASE ~ (pc[t] = "mark_active" \/ (pc[t] = "load_old" /\ active = call[t].next))
  <2>1. /\ pc[t] \in {"load_old", "retire", "store_previous", "store_active"}
        /\ pc'[t] \in {"retire", "store_previous", "store_active", "mark_active"}
    BY <1>2 DEF LoadOld, Retire, StorePrevious, StoreActive, MarkActive, IInv, TypeOK
  <2>2. call' = call \/ call' = [call EXCEPT ![t] = [@ EXCEPT !.old = active]]
    BY <1>2 DEF LoadOld, Retire, StorePrevious, StoreActive, MarkActive
  <2>3. /\ call'[t].n = call[t].n /\ call'[t].manual = call[t].manual
        /\ call'[t].switched = call[t].switched
    BY <1>0, <2>2 DEF IInv, TypeOK, Calls
  <2>4. ~ call[t].switched
    BY <2>1 DEF Spacing
  <2>5. /\ Resting(t)' <=> Resting(t)
        /\ Switching(t)' => Switching(t)
        /\ ~ Deciding(t)' /\ ~ Switched(t)'
    BY <2>1, <2>3 DEF Resting, Deciding, Switching, Switched
  <2> QED BY <1>0, <2>3, <2>4, <2>5, SpacingKept
<1> QED BY <1>1, <1>2

\* The cooldown invariant of the sole thread.
CooldownInv == SoleThread /\ IInv /\ \A t \in Threads : Spacing(t)

LEMMA InitCooldown == SoleThread /\ Init => CooldownInv
<1> SUFFICES ASSUME SoleThread, Init, NEW t \in Threads PROVE Spacing(t)
  BY InitIInv DEF CooldownInv
<1>1. /\ Resting(t) /\ ~ Deciding(t) /\ ~ Switching(t) /\ ~ Switched(t)
      /\ ~ call[t].switched
  BY DEF Init, Resting, Deciding, Switching, Switched, NoCall
<1>2. TypeOK /\ cooldownUntil = 0 /\ past.sinceSwitch = Cooldown + 1
  BY InitIInv DEF IInv, Init
<1>3. cooldownUntil <= LastBoundary + Span /\ past.sinceSwitch >= Cooldown
  BY <1>2, SpacingNumbers
<1> QED BY <1>1, <1>3 DEF Spacing

LEMMA NextCooldown == CooldownInv /\ [Next]_vars => CooldownInv'
<1> SUFFICES ASSUME CooldownInv, [Next]_vars PROVE CooldownInv'
  OBVIOUS
<1>0. IInv' /\ SoleThread'
  BY NextIInv DEF CooldownInv, SoleThread
<1>1. CASE UNCHANGED vars
  BY <1>0, <1>1 DEF vars, CooldownInv, Spacing, Resting, Deciding, Switching, Switched,
                    LastBoundary
<1>2. ASSUME NEW t \in Threads, Tick(t) \/ SetMode(t) \/ Step(t)
      PROVE  CooldownInv'
  <2>1. Spacing(t)'
    BY <1>2, TickSpacing, SetModeSpacing, ObserveSpacing, CheckSpacing, SetCooldownSpacing,
       RecordSpacing, ActivateSpacing DEF CooldownInv, Step
  <2>2. \A u \in Threads : u = t
    BY DEF CooldownInv, SoleThread
  <2> QED BY <1>0, <2>1, <2>2 DEF CooldownInv
<1> QED BY <1>1, <1>2 DEF Next

\* With one thread two switches are a cooldown apart, for every window and cooldown,
\* selector kind, features and adaptive_set_mode calls in between.
THEOREM SwitchesAreSpaced == SoleThread /\ Spec => []CooldownSpacesSwitches
<1>1. CooldownInv => CooldownSpacesSwitches
  BY DEF CooldownInv, IInv, ManualOnlyActivates, Spacing, Switched, CooldownSpacesSwitches
<1> QED BY <1>1, InitCooldown, NextCooldown, PTL DEF Spec

----------------------------------------------------------------------------
(* One thread under the rule selector: settling.                            *)

\* Nothing but the rules chooses modes: neither the cost model nor adaptive_set_mode.
RulesDecide ==
  /\ SoleThread /\ Requested = {}
  /\ \A e \in Envs : SelectorKind(e) # "Model"

\* The rules name a mode for features f, and f shows the expected gain.
Wanted(f) == RuleGain(f, SelectMode(env, f))

\* The active mode is not yet the one wanted for the features last seen.
Unsettled == past.streak > 0 /\ Wanted(past.f) /\ active # SelectMode(env, past.f)

\* Features without the expected gain have left the mode they found.
Stayed == past.streak > 0 /\ ~ Wanted(past.f) => active = past.from

\* Only a running cooldown delays a switch that is wanted, and each boundary with the
\* same features uses up one window of it; a switch that is not wanted does not begin.
Settling(t) ==
  /\ ~ call[t].manual
  /\ pc[t] # "idle" => SelectorKind(env) = "Rule"
  /\ pc[t] = "idle" \/ Deciding(t) => Stayed
  /\ pc[t] = "idle" /\ Unsettled =>
       /\ LastBoundary < cooldownUntil
       /\ cooldownUntil + Window * past.streak <= LastBoundary + Span
  /\ Deciding(t) /\ Unsettled =>
       cooldownUntil + Window * past.streak + Window <= LastBoundary + Span
  /\ pc[t] \notin {"idle", "observe"} => call[t].next = SelectMode(env, call[t].f)
  /\ pc[t] # "observe" /\ Deciding(t) => call[t].current = active
  /\ pc[t] = "check" => (call[t].gain <=> Wanted(call[t].f))
  /\ Switching(t) \/ Switched(t) => Wanted(call[t].f)
  /\ pc[t] \in {"mark_active", "set_cooldown"} \/ Switched(t) => active = call[t].next
  /\ pc[t] = "record" /\ Wanted(call[t].f)
       => active = call[t].next \/ LastBoundary < cooldownUntil

SettlingInv == RulesDecide /\ CooldownInv /\ \A t \in Threads : Settling(t)

\* A step of the call that leaves the active mode alone.
LEMMA SettlingKept ==
  ASSUME NEW t \in Threads, Settling(t),
         UNCHANGED <<env, active, counter, cooldownUntil, past>>,
         ~ call'[t].manual, pc'[t] # "idle", Deciding(t)' => Deciding(t),
         pc'[t] \notin {"idle", "observe"} => call'[t].next = SelectMode(env, call'[t].f),
         pc[t] # "idle",
         pc'[t] # "observe" /\ Deciding(t)' => call'[t].current = active,
         pc'[t] = "check" => (call'[t].gain <=> Wanted(call'[t].f)),
         Switching(t)' \/ Switched(t)' => Wanted(call'[t].f),
         pc'[t] \in {"mark_active", "set_cooldown"} \/ Switched(t)' => active = call'[t].next,
         pc'[t] = "record" /\ Wanted(call'[t].f)
           => active = call'[t].next \/ LastBoundary < cooldownUntil
  PROVE  Settling(t)'
<1>1. (Stayed' <=> Stayed) /\ (Unsettled' <=> Unsettled) /\ LastBoundary' = LastBoundary
  BY DEF Stayed, Unsettled, Wanted, LastBoundary
<1>2. \A f : Wanted(f)' <=> Wanted(f)
  BY DEF Wanted
<1> QED BY <1>1, <1>2 DEF Settling

\* Counting a call.
LEMMA TickSettling ==
  ASSUME SettlingInv, NEW t \in Threads, Tick(t)
  PROVE  Settling(t)'
<1>0. TypeOK /\ call[t] \in Calls /\ Settling(t) /\ Spacing(t)
  BY DEF SettlingInv, CooldownInv, IInv, TypeOK
<1>1. /\ pc[t] = "idle" /\ ~ call[t].manual /\ UNCHANGED <<env, active, cooldownUntil, past>>
      /\ counter' = counter + 1 /\ (Unsettled' <=> Unsettled) /\ Stayed /\ Stayed'
      /\ SelectorKind(env) = "Rule"
  BY <1>0 DEF Tick, Settling, Unsettled, Stayed, Wanted, SettlingInv, RulesDecide, TypeOK
<1>2. CASE (counter + 1) % Window = 0
  <2>1. pc'[t] = "observe" /\ ~ call'[t].manual
    BY <1>0, <1>1, <1>2 DEF Tick, TypeOK, Calls
  <2>2. ~ Switched(t)' /\ ~ Switching(t)'
    BY <2>1 DEF Switched, Switching
  <2>3. LastBoundary' = LastBoundary + Window
    BY <1>0, <1>1, <1>2, NextBoundary
  <2>4. Unsettled => cooldownUntil + Window * past.streak <= LastBoundary + Span
    BY <1>0, <1>1 DEF Settling
  <2>5. Unsettled => cooldownUntil + Window * past.streak + Window <= LastBoundary' + Span
    BY <1>0, <2>3, <2>4, SpacingNumbers
  <2> QED BY <1>1, <2>1, <2>2, <2>5 DEF Settling
<1>3. CASE (counter + 1) % Window # 0
  <2>1. UNCHANGED <<pc, call>>
    BY <1>3 DEF Tick
  <2>2. LastBoundary' = LastBoundary
    BY <1>0, <1>1, <1>3, NextBoundary
  <2> QED BY <1>0, <1>1, <2>1, <2>2 DEF Settling, Deciding, Switched, Switching
<1> QED BY <1>2, <1>3

\* The rules name the mode for the window.
LEMMA ObserveSettling ==
  ASSUME SettlingInv, NEW t \in Threads, Observe(t)
  PROVE  Settling(t)'
<1>0. TypeOK /\ call[t] \in Calls /\ Settling(t) /\ env \in Envs /\ RulesDecide
  BY DEF SettlingInv, CooldownInv, IInv, TypeOK
<1>1. PICK d \in Decisions :
        call' = [call EXCEPT ![t] = [@ EXCEPT !.f = d.f, !.next = d.next, !.gain = d.gain,
                                              !.current = active]]
  BY DEF Observe
<1>2. d.next = SelectMode(env, d.f) /\ (d.gain <=> Wanted(d.f))
  <2>1. PICK f \in Features :
          d = [f |-> f, next |-> SelectMode(env, f), gain |-> RuleGain(f, SelectMode(env, f))]
    BY <1>0 DEF Observe, Settling, Decisions
  <2>2. d.f = f /\ d.next = SelectMode(env, f) /\ d.gain = RuleGain(f, SelectMode(env, f))
    BY <2>1
  <2> QED BY <2>2 DEF Wanted
<1>3. /\ call'[t].f = d.f /\ call'[t].next = d.next /\ call'[t].gain = d.gain
      /\ call'[t].current = active /\ call'[t].manual = call[t].manual
      /\ call'[t].switched = call[t].switched
  BY <1>0, <1>1 DEF TypeOK, Calls
<1>4. /\ pc[t] = "observe" /\ pc'[t] = "check" /\ ~ call[t].manual
      /\ UNCHANGED <<env, active, counter, cooldownUntil, past>>
  BY <1>0 DEF Observe, TypeOK, Settling
<1>5. Deciding(t) /\ ~ Switched(t)' /\ ~ Switching(t)'
  BY <1>4 DEF Deciding, Switched, Switching
<1> QED BY <1>0, <1>2, <1>3, <1>4, <1>5, SettlingKept

\* Only the mode being right, the cooldown or a missing gain keeps the selector from
\* switching.
LEMMA CheckSettling ==
  ASSUME SettlingInv, NEW t \in Threads, Check(t)
  PROVE  Settling(t)'
<1>0. TypeOK /\ Settling(t) /\ Spacing(t)
  BY DEF SettlingInv, CooldownInv, IInv
<1>1. /\ pc[t] = "check" /\ UNCHANGED <<env, active, counter, cooldownUntil, past, call>>
      /\ \/ pc'[t] = "load_old" /\ call[t].gain
         \/ /\ pc'[t] = "record"
            /\ call[t].n < cooldownUntil \/ call[t].next = call[t].current \/ ~ call[t].gain
  BY <1>0 DEF Check, TypeOK
<1>2. /\ ~ call[t].manual /\ ~ call[t].switched /\ Deciding(t) /\ call[t].current = active
      /\ (call[t].gain <=> Wanted(call[t].f)) /\ call[t].next = SelectMode(env, call[t].f)
  BY <1>0, <1>1 DEF Settling, Spacing, Deciding
<1>3. /\ ~ Switched(t)' /\ call[t].n = LastBoundary
      /\ Switching(t)' => pc'[t] = "load_old"
  BY <1>0, <1>1, <1>2 DEF Switched, Switching, Spacing, Resting
<1> QED BY <1>0, <1>1, <1>2, <1>3, SettlingKept

\* The steps inside adaptive_activate_mode make the chosen mode the active one.
LEMMA ActivateSettling ==
  ASSUME SettlingInv, NEW t \in Threads,
         LoadOld(t) \/ Retire(t) \/ StorePrevious(t) \/ StoreActive(t) \/ MarkActive(t)
  PROVE  Settling(t)'
<1>0. TypeOK /\ call[t] \in Calls /\ Settling(t) /\ Spacing(t)
  BY DEF SettlingInv, CooldownInv, IInv, TypeOK
<1>1. /\ UNCHANGED <<env, counter, cooldownUntil, past>>
      /\ pc[t] \in {"load_old", "retire", "store_previous", "store_active", "mark_active"}
  BY DEF LoadOld, Retire, StorePrevious, StoreActive, MarkActive
<1>2. /\ ~ call[t].manual /\ ~ call[t].switched /\ SelectorKind(env) = "Rule"
      /\ call[t].next = SelectMode(env, call[t].f) /\ Wanted(call[t].f)
  BY <1>0, <1>1 DEF Settling, Spacing, Switching
<1>3. call' = call \/ call' = [call EXCEPT ![t] = [@ EXCEPT !.old = active]]
  BY <1>2 DEF LoadOld, Retire, StorePrevious, StoreActive, MarkActive, Return
<1>4. /\ call'[t].manual = call[t].manual /\ call'[t].switched = call[t].switched
      /\ call'[t].next = call[t].next /\ call'[t].f = call[t].f
  BY <1>0, <1>3 DEF TypeOK, Calls
<1>5. /\ pc'[t] \in {"retire", "store_previous", "store_active", "mark_active", "set_cooldown"}
      /\ pc'[t] \in {"mark_active", "set_cooldown"} => active' = call[t].next
  <2>1. CASE LoadOld(t)
    BY <1>0, <1>2, <2>1 DEF LoadOld, Return, TypeOK
  <2>2. CASE Retire(t) \/ StorePrevious(t)
    BY <1>0, <2>2 DEF Retire, StorePrevious, TypeOK
  <2>3. CASE StoreActive(t)
    BY <1>0, <2>3 DEF StoreActive, TypeOK
  <2>4. CASE MarkActive(t)
    BY <1>0, <1>2, <2>4 DEF MarkActive, Return, TypeOK, Settling
  <2> QED BY <2>1, <2>2, <2>3, <2>4
<1>6. ~ Deciding(t)' /\ ~ Switched(t)'
  BY <1>5 DEF Deciding, Switched
<1>7. Wanted(call[t].f)'
  BY <1>1, <1>2, <1>4 DEF Wanted
<1> QED BY <1>1, <1>2, <1>4, <1>5, <1>6, <1>7 DEF Settling

\* The cooldown starts with the right mode active.
LEMMA SetCooldownSettling ==
  ASSUME SettlingInv, NEW t \in Threads, SetCooldown(t)
  PROVE  Settling(t)'
<1>0. TypeOK /\ call[t] \in Calls /\ Settling(t)
  BY DEF SettlingInv, CooldownInv, IInv, TypeOK
<1>1. /\ pc[t] = "set_cooldown" /\ pc'[t] = "record" /\ UNCHANGED <<env, active>>
      /\ call'[t].manual = call[t].manual /\ call'[t].switched
      /\ call'[t].next = call[t].next /\ call'[t].f = call[t].f
  BY <1>0 DEF SetCooldown, TypeOK, Calls
<1>2. ~ Deciding(t)' /\ ~ call[t].manual /\ SelectorKind(env) = "Rule"
  BY <1>0, <1>1 DEF Deciding, Settling
<1>3. Wanted(call[t].f)'
  BY <1>0, <1>1, <1>2 DEF Wanted, Settling, Switching
<1> QED BY <1>0, <1>1, <1>2, <1>3 DEF Settling

\* A boundary recorded without the mode wanted lies within the cooldown, and so do all
\* before it that saw the same features.  One that wanted none has left the mode alone.
LEMMA RecordSettling ==
  ASSUME SettlingInv, NEW t \in Threads, Record(t)
  PROVE  Settling(t)'
<1>0. TypeOK /\ call[t] \in Calls /\ Settling(t) /\ Spacing(t)
  BY DEF SettlingInv, CooldownInv, IInv, TypeOK
<1>1. /\ pc[t] = "record" /\ pc'[t] = "idle" /\ call'[t] = NoCall
      /\ UNCHANGED <<env, active, counter, cooldownUntil>>
      /\ past'.f = call[t].f
      /\ past'.streak = IF call[t].f = past.f THEN Capped(past.streak + 1) ELSE 1
      /\ past'.from = IF call[t].f = past.f /\ past.streak > 0 THEN past.from
                      ELSE call[t].current
  BY <1>0 DEF Record, TypeOK
<1>2. /\ ~ call'[t].manual /\ ~ Deciding(t)' /\ ~ Switched(t)' /\ ~ Switching(t)'
      /\ LastBoundary' = LastBoundary /\ (Wanted(past.f)' <=> Wanted(call[t].f))
  BY <1>1 DEF NoCall, Deciding, Switched, Switching, LastBoundary, Wanted
<1>3. ~ call[t].manual /\ call[t].next = SelectMode(env, call[t].f)
  BY <1>0, <1>1 DEF Settling
<1>a. CASE ~ Wanted(call[t].f)
  <2>1. Deciding(t) /\ call[t].current = active /\ Stayed
    BY <1>0, <1>1, <1>3, <1>a DEF Settling, Deciding, Switched
  <2>2. past'.from = active
    BY <1>1, <1>a, <2>1 DEF Stayed
  <2>3. Stayed' /\ ~ Unsettled'
    BY <1>1, <1>2, <1>a, <2>2 DEF Stayed, Unsettled
  <2> QED BY <1>1, <1>2, <2>3 DEF Settling
<1>b. Wanted(call[t].f) => Stayed'
  BY <1>2 DEF Stayed
<1>4. CASE Wanted(call[t].f) /\ active = call[t].next
  <2>1. ~ Unsettled'
    BY <1>1, <1>3, <1>4 DEF Unsettled
  <2> QED BY <1>1, <1>2, <1>4, <1>b, <2>1 DEF Settling
<1>5. CASE Wanted(call[t].f) /\ active # call[t].next
  <2>1. ~ Switched(t) /\ LastBoundary < cooldownUntil
    BY <1>0, <1>1, <1>5 DEF Settling
  <2>2. Deciding(t)
    BY <1>1, <1>3, <2>1 DEF Deciding, Switched
  <2>3. cooldownUntil + Window <= LastBoundary + Span
    BY <1>0, <2>2 DEF Spacing
  <2>4. cooldownUntil + Window * past'.streak <= LastBoundary + Span
    <3>1. CASE past'.streak = 1
      <4>1. Window * past'.streak = Window
        BY <1>0, <3>1, SpacingNumbers
      <4> QED BY <2>3, <4>1
    <3>2. CASE past'.streak # 1
      <4>1. call[t].f = past.f /\ past'.streak = Capped(past.streak + 1)
        BY <1>1, <3>2
      <4>2. past.streak > 0
        BY <1>0, <3>2, <4>1, SpacingNumbers DEF Capped
      <4>3. Unsettled
        BY <1>3, <1>5, <4>1, <4>2 DEF Unsettled
      <4>4. cooldownUntil + Window * past.streak + Window <= LastBoundary + Span
        BY <1>0, <2>2, <4>3 DEF Settling
      <4>5. past'.streak <= past.streak + 1 /\ past'.streak \in Nat
        BY <1>0, <4>1, SpacingNumbers DEF Capped
      <4>6. Window * past'.streak <= Window * past.streak + Window
        <5>1. CASE past'.streak = past.streak + 1
          BY <1>0, <5>1, SpacingNumbers
        <5>2. CASE past'.streak < past.streak + 1
          <6>1. Window * past'.streak + Window <= Window * (past.streak + 1)
            BY <1>0, <4>5, <5>2, SpacingNumbers, TimesMonotone
          <6>2. Window * (past.streak + 1) = Window * past.streak + Window
            BY <1>0, SpacingNumbers
          <6>3. Window * past'.streak \in Nat
            BY <1>0, <4>5, SpacingNumbers
          <6> QED BY <1>0, <6>1, <6>2, <6>3, SpacingNumbers
        <5> QED BY <1>0, <4>5, <5>1, <5>2, SpacingNumbers
      <4>7. Window * past'.streak \in Nat
        BY <1>0, <4>5, SpacingNumbers
      <4> QED BY <1>0, <4>4, <4>6, <4>7, SpacingNumbers
    <3> QED BY <3>1, <3>2
  <2> QED BY <1>1, <1>2, <1>5, <1>b, <2>1, <2>4 DEF Settling
<1> QED BY <1>a, <1>4, <1>5

LEMMA InitSettling == RulesDecide /\ Init => SettlingInv
<1> SUFFICES ASSUME RulesDecide, Init, NEW t \in Threads PROVE Settling(t)
  BY InitCooldown DEF SettlingInv, RulesDecide
<1>1. pc[t] = "idle" /\ call[t] = NoCall /\ ~ (past.streak > 0)
  BY DEF Init
<1>2. /\ ~ Deciding(t) /\ ~ Switched(t) /\ ~ Switching(t) /\ ~ Unsettled /\ Stayed
      /\ ~ call[t].manual
  BY <1>1 DEF Deciding, Switched, Switching, Unsettled, Stayed, NoCall
<1> QED BY <1>1, <1>2 DEF Settling

LEMMA NextSettling == SettlingInv /\ [Next]_vars => SettlingInv'
<1> SUFFICES ASSUME SettlingInv, [Next]_vars PROVE SettlingInv'
  OBVIOUS
<1>0. CooldownInv' /\ RulesDecide'
  BY NextCooldown DEF SettlingInv, RulesDecide, SoleThread
<1>1. CASE UNCHANGED vars
  BY <1>0, <1>1 DEF vars, SettlingInv, Settling, Unsettled, Stayed, Wanted, Deciding, Switched,
                     Switching, LastBoundary
<1>2. ASSUME NEW t \in Threads, Tick(t) \/ SetMode(t) \/ Step(t)
      PROVE  SettlingInv'
  <2>1. ~ SetMode(t)
    BY DEF SettlingInv, RulesDecide, SetMode
  <2>2. Settling(t)'
    BY <1>2, <2>1, TickSettling, ObserveSettling, CheckSettling, SetCooldownSettling,
       RecordSettling, ActivateSettling DEF Step
  <2>3. \A u \in Threads : u = t
    BY DEF SettlingInv, RulesDecide, SoleThread
  <2> QED BY <1>0, <2>2, <2>3 DEF SettlingInv
<1> QED BY <1>1, <1>2 DEF Next

\* When only the rules choose modes, one thread that sees the same features for a
\* cooldown's length ends in the mode the rules name for them or, if they lack the
\* expected gain, in the mode they found, for any features, window and cooldown.
THEOREM SelectorSettles == RulesDecide /\ Spec => []SettlesOnRule
<1>1. SettlingInv => SettlesOnRule
  <2>a. ASSUME SettlingInv, AllIdle PROVE Stayed
    BY <2>a DEF SettlingInv, RulesDecide, SoleThread, AllIdle, Settling
  <2> SUFFICES ASSUME SettlingInv, AllIdle, past.streak >= Cooldown, Unsettled
               PROVE  FALSE
    BY <2>a DEF SettlesOnRule, Outcome, Unsettled, Stayed, Wanted
  <2>0. PICK t : t \in Threads
    BY DEF SettlingInv, RulesDecide, SoleThread
  <2>1. TypeOK /\ pc[t] = "idle" /\ Settling(t)
    BY <2>0 DEF SettlingInv, CooldownInv, IInv, AllIdle
  <2>2. /\ LastBoundary < cooldownUntil
        /\ cooldownUntil + Window * past.streak <= LastBoundary + Span
    BY <2>1 DEF Settling
  <2>3. Window * past.streak < Span
    BY <2>1, <2>2, SpacingNumbers
  <2>4. Window * past.streak >= Cooldown * Window
    <3>1. CASE past.streak = Cooldown
      BY <2>1, <3>1, SpacingNumbers
    <3>2. CASE Cooldown < past.streak
      <4>1. Window * Cooldown + Window <= Window * past.streak
        BY <2>1, <3>2, SpacingNumbers, TimesMonotone
      <4>2. Window * Cooldown = Cooldown * Window /\ Window * Cooldown \in Nat
        BY <2>1, SpacingNumbers
      <4> QED BY <2>1, <4>1, <4>2, SpacingNumbers
    <3> QED BY <2>1, <3>1, <3>2, SpacingNumbers
  <2> QED BY <2>1, <2>3, <2>4, SpacingNumbers DEF Span
<1> QED BY <1>1, InitSettling, NextSettling, PTL DEF Spec

=============================================================================
