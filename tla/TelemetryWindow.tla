-------------------------- MODULE TelemetryWindow --------------------------
(***************************************************************************)
(* The delta windows of src/adaptive_telemetry.cpp: event counters that    *)
(* any thread bumps, adaptive_extract_window_features, which reads them    *)
(* one by one and only then locks the baseline, and adaptive_stats_reset,  *)
(* which clears the baseline and then the counters one by one.             *)
(***************************************************************************)
EXTENDS Integers

CONSTANTS
  N,           \* number of counters in TelemetryCounters
  Extractors,  \* threads that extract windows
  Resetters,   \* threads that reset the statistics
  EventLimit   \* bound on the events of one counter

ASSUME WindowConstants == N \in Nat \ {0} /\ EventLimit \in Nat

Callers == Extractors \cup Resetters
Counters == 1 .. N

VARIABLES
  count,     \* the atomic counters of g_stats and the histograms
  base,      \* g_window_base
  step, at,    \* per thread: the next step, and the counter it is at
  current,   \* per thread: the local copy read_counters fills
  happened,  \* history: events so far
  reported,  \* history: events summed over the extracted windows
  cleared    \* history: the statistics have been reset

windowVars == <<count, base, step, at, current, happened, reported, cleared>>

Zero == [c \in Counters |-> 0]

\* Copies and baselines hold one natural number per counter.
WindowTypeOK ==
  /\ count \in [Counters -> Nat] /\ base \in [Counters -> Nat]
  /\ step \in [Callers -> {"idle", "read", "locked", "clear"}]
  /\ at \in [Callers -> Counters]
  /\ current \in [Callers -> [Counters -> Nat]]
  /\ happened \in [Counters -> 0 .. EventLimit] /\ reported \in [Counters -> Nat]
  /\ cleared \in BOOLEAN

WindowInit ==
  /\ count = Zero /\ base = Zero
  /\ step = [t \in Callers |-> "idle"] /\ at = [t \in Callers |-> 1]
  /\ current = [t \in Callers |-> Zero]
  /\ happened = Zero /\ reported = Zero /\ cleared = FALSE

\* An adaptive_telemetry_on_* hook bumps a counter.
Event(c) ==
  /\ happened[c] < EventLimit
  /\ count' = [count EXCEPT ![c] = @ + 1]
  /\ happened' = [happened EXCEPT ![c] = @ + 1]
  /\ UNCHANGED <<base, step, at, current, reported, cleared>>

\* Thread t is done with counter at[t]: on to the next one, or to the step `done'.
Advance(t, done) ==
  IF at[t] < N THEN at' = [at EXCEPT ![t] = @ + 1] /\ UNCHANGED step
  ELSE at' = [at EXCEPT ![t] = 1] /\ step' = [step EXCEPT ![t] = done]

----------------------------------------------------------------------------
(* adaptive_extract_window_features                                         *)

Extract(t) ==
  /\ step[t] = "idle" /\ t \in Extractors
  /\ step' = [step EXCEPT ![t] = "read"]
  /\ UNCHANGED <<count, base, at, current, happened, reported, cleared>>

ReadCounter(t) ==
  /\ step[t] = "read"
  /\ current' = [current EXCEPT ![t] = [@ EXCEPT ![at[t]] = count[at[t]]]]
  /\ Advance(t, "locked")
  /\ UNCHANGED <<count, base, happened, reported, cleared>>

\* delta_u64: a counter below its baseline was reset, so all of it is new.
Delta(cur, b) == IF cur >= b THEN cur - b ELSE cur

\* Mutant: the baseline advances to the counters as they are by now.
ExtractLockedFresh(t) ==
  /\ step[t] = "locked"
  /\ reported' = [c \in Counters |-> reported[c] + Delta(current[t][c], base[c])]
  /\ base' = count
  /\ step' = [step EXCEPT ![t] = "idle"]
  /\ UNCHANGED <<count, at, current, happened, cleared>>

\* Under g_window_mutex: the deltas are the window, the copy is the new baseline.
ExtractLocked(t) ==
  /\ step[t] = "locked"
  /\ reported' = [c \in Counters |-> reported[c] + Delta(current[t][c], base[c])]
  /\ base' = current[t]
  /\ step' = [step EXCEPT ![t] = "idle"]
  /\ UNCHANGED <<count, at, current, happened, cleared>>

----------------------------------------------------------------------------
(* adaptive_stats_reset                                                     *)

Reset(t) ==
  /\ step[t] = "idle" /\ t \in Resetters
  /\ base' = Zero
  /\ cleared' = TRUE
  /\ step' = [step EXCEPT ![t] = "clear"]
  /\ UNCHANGED <<count, at, current, happened, reported>>

\* Mutant: the loop ends before the last counter.
ClearAllButLast(t) ==
  /\ step[t] = "clear"
  /\ count' = [count EXCEPT ![at[t]] = IF at[t] < N THEN 0 ELSE @]
  /\ Advance(t, "idle")
  /\ UNCHANGED <<base, current, happened, reported, cleared>>

ClearCounter(t) ==
  /\ step[t] = "clear"
  /\ count' = [count EXCEPT ![at[t]] = 0]
  /\ Advance(t, "idle")
  /\ UNCHANGED <<base, current, happened, reported, cleared>>

WindowNext ==
  \/ \E c \in Counters : Event(c)
  \/ \E t \in Callers :
       Extract(t) \/ ReadCounter(t) \/ ExtractLocked(t) \/ Reset(t) \/ ClearCounter(t)

WindowSpec == WindowInit /\ [][WindowNext]_windowVars

----------------------------------------------------------------------------
(* Properties                                                               *)

\* adaptive_extract_window_features returns only what happened since the previous
\* extraction: no event is part of two windows.
NothingTwice == \A c \in Counters : reported[c] <= happened[c]

\* With one extractor and until the first reset every event is in exactly one window or
\* still to come, although counters move while they are copied.
ReportsPartition ==
  ~ cleared => \A c \in Counters :
    base[c] <= count[c] /\ reported[c] + (count[c] - base[c]) = happened[c]
=============================================================================
