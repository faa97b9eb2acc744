---------------------------- MODULE ModeSelector ----------------------------
(***************************************************************************)
(* The runtime and the selector of the adaptive allocator                  *)
(* (src/adaptive_runtime.cpp, src/adaptive_selector.cpp): the environment  *)
(* is read once, every malloc and free counts towards the observation      *)
(* window, and at a window boundary the calling thread may soft-switch the *)
(* active mode.  Nothing is locked: each access to an atomic is one step,  *)
(* and threads at different boundaries, or in adaptive_set_mode, overlap.  *)
(***************************************************************************)
EXTENDS Integers, FiniteSets

CONSTANTS
  Threads,
  Envs,         \* the environments the process may be started with
  Features,     \* the feature vectors a window may show
  Requested,    \* the modes the program may pass to adaptive_set_mode
  ModelPicks,   \* the modes the cost model may pick
  Window,       \* mode_window
  Cooldown,     \* mode_cooldown
  CallLimit     \* bound on counted calls

Modes == {"Balanced", "ThroughputCache", "DeterministicLatency", "CompactRSS",
          "FragmentationStable", "CrossThreadMessage", "LargeObjectStreaming",
          "HardenedDebug"}

\* MY_MALLOC_ADAPTIVE_MODE, _MODE_SELECTOR and _DEBUG_MODE.
EnvRecord ==
  [mode : Modes \cup {"unset", "auto", "other"},
   selector : {"unset", "rule", "model", "hybrid", "fixed", "manual"},
   debug : BOOLEAN]

\* WorkloadFeatures, each ratio by the thresholds it is compared with: 0 and 1 are
\* below the rule's threshold (0 where a rule asks for calm), 2 is above it, 3 is
\* above the expected-gain threshold too.  `enough' holds the volume conditions met.
FeatureRecord ==
  [safety : BOOLEAN, remote : 0 .. 3, large : 0 .. 3, mapped : 0 .. 2, slow : 0 .. 3,
   entropy : BOOLEAN, frag : 0 .. 3, cache : 0 .. 3,
   enough : SUBSET {"frees", "bytes", "mapped", "calls256", "calls512"}]

ASSUME SelectorConstants ==
  /\ Envs \subseteq EnvRecord
  /\ Features \subseteq FeatureRecord
  /\ Requested \subseteq Modes
  /\ ModelPicks \subseteq Modes
  /\ IsFiniteSet(Threads)
  /\ Window \in Nat \ {0}
  /\ Cooldown \in Nat
  /\ CallLimit \in Nat

VARIABLES
  env,            \* the environment init_once reads
  active,         \* g_active_mode
  previous,       \* g_previous_mode
  states,         \* g_mode_states
  counter,        \* g_selector_counter
  cooldownUntil,  \* g_cooldown_until
  eventSeq,       \* g_selector_event_seq
  pc, call,       \* per thread: the next step and the local variables
  past            \* history: boundaries recorded since the last switch, the last
                  \* features, for how many boundaries in a row (both capped) and
                  \* the mode that was active at the first of these

vars == <<env, active, previous, states, counter, cooldownUntil, eventSeq, pc, call, past>>

PCs == {"idle", "observe", "check", "load_old", "retire", "store_previous", "store_active",
        "mark_active", "set_cooldown", "record"}

\* manual: the call is adaptive_set_mode (history).
Calls == [n : Nat, f : FeatureRecord, current : Modes, next : Modes,
          gain : BOOLEAN, old : Modes, switched : BOOLEAN, manual : BOOLEAN]

Quiet == [safety |-> FALSE, remote |-> 0, large |-> 0, mapped |-> 0, slow |-> 0,
          entropy |-> FALSE, frag |-> 0, cache |-> 0, enough |-> {}]
NoCall == [n |-> 0, f |-> Quiet, current |-> "Balanced", next |-> "Balanced",
           gain |-> FALSE, old |-> "Balanced", switched |-> FALSE,
           manual |-> FALSE]

\* Every mode variable names a mode, and the counter respects its bound.
TypeOK ==
  /\ env \in Envs
  /\ active \in Modes /\ previous \in Modes
  /\ states \in [Modes -> {"Inactive", "Active", "Retired"}]
  /\ counter \in 0 .. CallLimit
  /\ cooldownUntil \in Nat
  /\ eventSeq \in Nat
  /\ pc \in [Threads -> PCs]
  /\ call \in [Threads -> Calls]
  /\ past \in [sinceSwitch : 0 .. Cooldown + 1, f : FeatureRecord, streak : 0 .. Cooldown + 1,
               from : Modes]

----------------------------------------------------------------------------
(* init_once                                                                *)

ModeAuto(e) == e.mode \in {"unset", "auto"} /\ ~ e.debug

ConfiguredMode(e) ==
  IF e.debug THEN "HardenedDebug" ELSE IF e.mode \in Modes THEN e.mode ELSE "Balanced"

ParsedSelector(e) ==
  CASE e.selector = "fixed"  -> "Fixed"
    [] e.selector = "manual" -> "Manual"
    [] e.selector = "rule"   -> "Rule"
    [] OTHER                 -> "Model"

\* An explicit mode makes an automatic selector fixed, `auto' a fixed one automatic.
SelectorKind(e) ==
  LET kind == ParsedSelector(e)
  IN CASE ModeAuto(e) /\ kind = "Fixed" -> "Model"
       [] ~ ModeAuto(e) /\ e.mode # "unset" /\ kind \in {"Rule", "Model"} -> "Fixed"
       [] OTHER -> kind

Init ==
  /\ env \in Envs
  /\ active = ConfiguredMode(env)
  /\ previous = ConfiguredMode(env)
  /\ states = [m \in Modes |-> IF m = ConfiguredMode(env) THEN "Active" ELSE "Inactive"]
  /\ counter = 0
  /\ cooldownUntil = 0
  /\ eventSeq = 0
  /\ pc = [t \in Threads |-> "idle"]
  /\ call = [t \in Threads |-> NoCall]
  /\ past = [sinceSwitch |-> Cooldown + 1, f |-> Quiet, streak |-> 0,
             from |-> ConfiguredMode(env)]

----------------------------------------------------------------------------
(* Decisions                                                                *)

\* adaptive_select_mode: the first rule that applies.
SelectMode(e, f) ==
  IF e.debug \/ f.safety THEN "HardenedDebug"
  ELSE IF f.remote >= 2 /\ "frees" \in f.enough THEN "CrossThreadMessage"
  ELSE IF f.large >= 2 /\ "bytes" \in f.enough THEN "LargeObjectStreaming"
  ELSE IF f.mapped = 2 /\ "mapped" \in f.enough THEN "CompactRSS"
  ELSE IF f.slow >= 2 /\ "calls256" \in f.enough THEN "DeterministicLatency"
  ELSE IF f.entropy /\ f.frag >= 2 THEN "FragmentationStable"
  ELSE IF f.cache >= 2 /\ f.remote = 0 /\ f.mapped = 0 /\ "calls512" \in f.enough
       THEN "ThroughputCache"
  ELSE "Balanced"

\* expected_gain of the rule selector.
RuleGain(f, next) ==
  \/ next = "HardenedDebug"
  \/ f.remote = 3 \/ f.large = 3 \/ f.slow = 3 \/ f.frag = 3 \/ f.cache = 3

\* What maybe_switch may decide about a window; the cost model, whose weights are
\* generated, may pick any of ModelPicks with or without enough confidence.
Decisions ==
  IF SelectorKind(env) = "Rule"
  THEN {[f |-> f, next |-> SelectMode(env, f), gain |-> RuleGain(f, SelectMode(env, f))] :
          f \in Features}
  ELSE [f : Features, next : ModelPicks, gain : BOOLEAN]

----------------------------------------------------------------------------
(* adaptive_selector_maybe_switch                                           *)

Goto(t, next) == pc' = [pc EXCEPT ![t] = next]
Finish(t) == Goto(t, "idle") /\ call' = [call EXCEPT ![t] = NoCall]

\* Count the call; only the one that ends a window goes on.
Tick(t) ==
  /\ pc[t] = "idle"
  /\ SelectorKind(env) \in {"Rule", "Model"}
  /\ counter < CallLimit
  /\ counter' = counter + 1
  /\ IF (counter + 1) % Window = 0
     THEN Goto(t, "observe") /\ call' = [call EXCEPT ![t] = [@ EXCEPT !.n = counter + 1]]
     ELSE UNCHANGED <<pc, call>>
  /\ UNCHANGED <<env, active, previous, states, cooldownUntil, eventSeq, past>>

\* Extract the window's features, read the current mode and decide on the next.
Observe(t) ==
  /\ pc[t] = "observe"
  /\ \E d \in Decisions :
        call' = [call EXCEPT ![t] = [@ EXCEPT !.f = d.f, !.next = d.next, !.gain = d.gain,
                                              !.current = active]]
  /\ Goto(t, "check")
  /\ UNCHANGED <<env, active, previous, states, counter, cooldownUntil, eventSeq, past>>

\* Mutant: a call in cooldown returns without an event.
CheckSilent(t) ==
  /\ pc[t] = "check"
  /\ IF call[t].n < cooldownUntil THEN Finish(t)
     ELSE /\ Goto(t, IF call[t].next = call[t].current \/ ~ call[t].gain
                      THEN "record" ELSE "load_old")
          /\ UNCHANGED call
  /\ UNCHANGED <<env, active, previous, states, counter, cooldownUntil, eventSeq, past>>

\* Mutant: the expected gain is not asked for.
CheckNoHysteresis(t) ==
  /\ pc[t] = "check"
  /\ Goto(t, IF call[t].n < cooldownUntil \/ call[t].next = call[t].current
             THEN "record" ELSE "load_old")
  /\ UNCHANGED <<env, active, previous, states, counter, cooldownUntil, eventSeq, call, past>>

\* Cooldown, no change and hysteresis only record an event.
Check(t) ==
  /\ pc[t] = "check"
  /\ Goto(t, IF \/ call[t].n < cooldownUntil
                \/ call[t].next = call[t].current
                \/ ~ call[t].gain
             THEN "record" ELSE "load_old")
  /\ UNCHANGED <<env, active, previous, states, counter, cooldownUntil, eventSeq, call, past>>

\* Mutant: the cooldown is counted in calls.
SetCooldownInCalls(t) ==
  /\ pc[t] = "set_cooldown"
  /\ cooldownUntil' = call[t].n + Cooldown
  /\ call' = [call EXCEPT ![t] = [@ EXCEPT !.switched = TRUE]]
  /\ Goto(t, "record")
  /\ UNCHANGED <<env, active, previous, states, counter, eventSeq, past>>

\* Whatever adaptive_activate_mode did, the cooldown starts and the event says so.
SetCooldown(t) ==
  /\ pc[t] = "set_cooldown"
  /\ cooldownUntil' = call[t].n + Cooldown * Window
  /\ call' = [call EXCEPT ![t] = [@ EXCEPT !.switched = TRUE]]
  /\ Goto(t, "record")
  /\ UNCHANGED <<env, active, previous, states, counter, eventSeq, past>>

Capped(k) == IF k > Cooldown + 1 THEN Cooldown + 1 ELSE k

\* record_selector_event, the return of every boundary call.
Record(t) ==
  /\ pc[t] = "record"
  /\ eventSeq' = eventSeq + 1
  /\ past' = [sinceSwitch |-> IF call[t].switched THEN 0 ELSE Capped(past.sinceSwitch + 1),
               f |-> call[t].f,
               streak |-> IF call[t].f = past.f THEN Capped(past.streak + 1) ELSE 1,
               from |-> IF call[t].f = past.f /\ past.streak > 0 THEN past.from
                        ELSE call[t].current]
  /\ Finish(t)
  /\ UNCHANGED <<env, active, previous, states, counter, cooldownUntil>>

----------------------------------------------------------------------------
(* adaptive_activate_mode and adaptive_set_mode                             *)

SetMode(t) ==
  /\ pc[t] = "idle"
  /\ \E m \in Requested :
        call' = [call EXCEPT ![t] = [NoCall EXCEPT !.next = m, !.manual = TRUE]]
  /\ Goto(t, "load_old")
  /\ UNCHANGED <<env, active, previous, states, counter, cooldownUntil, eventSeq, past>>

\* adaptive_activate_mode returns to its caller.
Return(t) ==
  IF call[t].manual THEN Finish(t) ELSE Goto(t, "set_cooldown") /\ UNCHANGED call

LoadOld(t) ==
  /\ pc[t] = "load_old"
  /\ IF active = call[t].next THEN Return(t)
     ELSE Goto(t, "retire") /\ call' = [call EXCEPT ![t] = [@ EXCEPT !.old = active]]
  /\ UNCHANGED <<env, active, previous, states, counter, cooldownUntil, eventSeq, past>>

Retire(t) ==
  /\ pc[t] = "retire"
  /\ states' = [states EXCEPT ![call[t].old] = "Retired"]
  /\ Goto(t, "store_previous")
  /\ UNCHANGED <<env, active, previous, counter, cooldownUntil, eventSeq, call, past>>

StorePrevious(t) ==
  /\ pc[t] = "store_previous"
  /\ previous' = call[t].old
  /\ Goto(t, "store_active")
  /\ UNCHANGED <<env, active, states, counter, cooldownUntil, eventSeq, call, past>>

StoreActive(t) ==
  /\ pc[t] = "store_active"
  /\ active' = call[t].next
  /\ Goto(t, "mark_active")
  /\ UNCHANGED <<env, previous, states, counter, cooldownUntil, eventSeq, call, past>>

\* Mutant: a mode that was retired is not marked again.
MarkFirstTime(t) ==
  /\ pc[t] = "mark_active"
  /\ states' = [states EXCEPT ![call[t].next] = IF @ = "Inactive" THEN "Active" ELSE @]
  /\ Return(t)
  /\ UNCHANGED <<env, active, previous, counter, cooldownUntil, eventSeq, past>>

MarkActive(t) ==
  /\ pc[t] = "mark_active"
  /\ states' = [states EXCEPT ![call[t].next] = "Active"]
  /\ Return(t)
  /\ UNCHANGED <<env, active, previous, counter, cooldownUntil, eventSeq, past>>

Step(t) ==
  \/ Observe(t) \/ Check(t) \/ SetCooldown(t) \/ Record(t)
  \/ LoadOld(t) \/ Retire(t) \/ StorePrevious(t) \/ StoreActive(t) \/ MarkActive(t)

Next == \E t \in Threads : Tick(t) \/ SetMode(t) \/ Step(t)

Spec == Init /\ [][Next]_vars

----------------------------------------------------------------------------
(* Properties                                                               *)

AllIdle == \A t \in Threads : pc[t] = "idle"
AtBoundary == {t \in Threads : pc[t] # "idle" /\ ~ call[t].manual}

\* However switches overlap, once no thread is inside adaptive_activate_mode the
\* active mode is marked Active (adaptive_mode_state of adaptive_current_mode).
ActiveIsMarked == AllIdle => states[active] = "Active"

\* Every window boundary records exactly one event, on each of the four returns of
\* adaptive_selector_maybe_switch, and threads at two boundaries do not lose one.
EventPerWindow == eventSeq + Cardinality(AtBoundary) = counter \div Window

\* With one thread, two switches of the selector are Cooldown windows apart.
CooldownSpacesSwitches ==
  \A t \in Threads : pc[t] = "record" /\ call[t].switched => past.sinceSwitch + 1 >= Cooldown

\* Where a lasting workload leads: to the mode the rules name for its windows if they
\* show the expected gain, and nowhere if they do not (hysteresis).
Outcome(e, f, from) == IF RuleGain(f, SelectMode(e, f)) THEN SelectMode(e, f) ELSE from

\* With one thread, once the same features have been seen for a cooldown's length the
\* active mode is the one the rules name for them; if these features lack the expected
\* gain it is the one that was active when they first appeared, however quiet the
\* windows are and however many rules compete for them.
SettlesOnRule ==
  AllIdle /\ past.streak > 0 /\ past.streak >= Cooldown
    => active = Outcome(env, past.f, past.from)
=============================================================================
