------------------------ MODULE BenchSessionProofs ------------------------
(***************************************************************************)
(* The benchmark runner frees only what it owns, leaves nothing allocated  *)
(* behind, and its payload checks fail only where the code numbers its     *)
(* records wrongly.  The passes of the loops keep the invariant by         *)
(* BenchWorkloadsProofs; here main, the server's thread and the client are *)
(* shown to keep it too.                                                   *)
(***************************************************************************)
EXTENDS BenchWorkloadsProofs

USE ZenonT(10), SMTT(20)

-----------------------------------------------------------------------------
(* The main thread between programs                                        *)

\* Between programs no worker has begun and nothing is in hand.
LEMMA AtRest ==
  ASSUME IInv, ~ Running
  PROVE /\ NoneDone /\ ~ work.held /\ work.stage = Len(work.prog) + 1 /\ Len(work.prog) \in Nat
        /\ Refs = [n \in Places |-> IF n = Hand THEN Null ELSE ptrs[n].ptr]
<1>1. NoneDone /\ ~ work.held
  BY DEF IInv, StageOK, NoneDone, At
<1>2. work.prog \in Seq(Stages) /\ work.stage \in Nat
  BY DEF IInv, TypeOK, Works
<1>3. Len(work.prog) \in Nat
  BY <1>2, SMT
<1>4. work.stage <= Len(work.prog) + 1
  BY DEF IInv, StageOK
<1>5. work.stage = Len(work.prog) + 1
  BY <1>2, <1>3, <1>4, SMT DEF Running
<1>6. \A n : ~ Consumed(n)
  BY DEF Consumed, At
<1> QED BY <1>1, <1>3, <1>5, <1>6 DEF Refs

\* A step of the main thread that allocates and frees nothing.
LEMMA MainFrame ==
  ASSUME IInv, cfg' = cfg, UNCHANGED <<heap, refused, invalid>>, TypeOK', StageOK', MainOK', ServerOK',
         Refs' = Refs, ~ work'.held, m'.errors = m.errors \/ m'.errors = 0,
         Working' => Tidy(work'.prog, FromEmpty'),
         \A k \in 1 .. Len(work'.prog) :
           /\ work'.prog[k].part = "twice" => Deliberate
           /\ work'.prog[k].op = "random" => "random" \in Range(Chosen)
           /\ work'.prog[k].checked =>
                (work'.prog[k].op = "pair" /\ work'.prog[k].pay = "chunk") \/ Misnumbered
  PROVE IInv'
<1>1. Chosen' = Chosen /\ WorkloadPhases' = WorkloadPhases /\ Deliberate' = Deliberate
  BY DEF Chosen, WorkloadPhases, Deliberate
<1>2. Misnumbered' = Misnumbered
  BY <1>1 DEF Misnumbered
<1>3. ProgOK'
  BY <1>1, <1>2 DEF ProgOK
<1>4. HeapOK'
  BY <1>1 DEF IInv, HeapOK
<1>5. Counts'
  <2>1. m'.errors > 0 => m.errors > 0
    <3>1. ~ (0 > 0)
      BY SMT
    <3> QED BY <3>1
  <2> QED BY <1>1, <1>2, <2>1 DEF IInv, Counts
<1> QED BY <1>3, <1>4, <1>5 DEF IInv

\* No program runs before the step or after it.
LEMMA RestStep ==
  ASSUME IInv, ~ Running, cfg' = cfg, UNCHANGED <<heap, refused, invalid, done>>, TypeOK',
         ~ Working', ~ Running', ~ work'.held, work'.stage <= Len(work'.prog) + 1,
         work'.prog \in {work.prog, << >>}, \A j \in Slots : ptrs'[j].ptr = ptrs[j].ptr,
         KnownEmpty(work.stage)' \/ FromEmpty' => EmptySlots,
         Agenda', ServerOK', m'.errors = m.errors \/ m'.errors = 0
  PROVE IInv'
<1>1. NoneDone /\ Refs = [n \in Places |-> IF n = Hand THEN Null ELSE ptrs[n].ptr]
  BY AtRest
<1>2. \A n : ~ Consumed(n)'
  BY DEF Consumed, At
<1>3. Refs' = [n \in Places |-> IF n = Hand THEN Null ELSE ptrs'[n].ptr]
  BY <1>2 DEF Refs
<1>4. Refs' = Refs
  <2>1. \A n \in Places : n # Hand => ptrs'[n].ptr = ptrs[n].ptr
    BY DEF Places
  <2>2. [n \in Places |-> IF n = Hand THEN Null ELSE ptrs'[n].ptr]
        = [n \in Places |-> IF n = Hand THEN Null ELSE ptrs[n].ptr]
    BY <2>1
  <2> QED BY <1>1, <1>3, <2>2
<1>5. EmptySlots => EmptySlots'
  BY DEF EmptySlots
<1>6. StageOK'
  BY <1>1, <1>5 DEF StageOK, NoneDone, At
<1>7. MainOK'
  BY <1>5 DEF MainOK
<1>8. \A k \in 1 .. Len(work'.prog) : work'.prog = work.prog
  <2>1. \A k \in 1 .. Len(<< >>) : FALSE
    BY SMT
  <2> QED BY <2>1
<1>9. \A k \in 1 .. Len(work'.prog) :
        /\ work'.prog[k].part = "twice" => Deliberate
        /\ work'.prog[k].op = "random" => "random" \in Range(Chosen)
        /\ work'.prog[k].checked =>
             (work'.prog[k].op = "pair" /\ work'.prog[k].pay = "chunk") \/ Misnumbered
  BY <1>8 DEF IInv, ProgOK
<1> QED BY <1>4, <1>6, <1>7, <1>9, MainFrame

\* The main thread starts a program.
LEMMA StartStep ==
  ASSUME IInv, ~ Working, cfg' = cfg, UNCHANGED <<heap, refused, invalid, ptrs, done, m>>, TypeOK',
         Working', work'.stage = 1, work'.i = 0, ~ work'.held, Tidy(work'.prog, FromEmpty'),
         (main' = "run_tick" => work'.phase = "RemoteFree") =>
            EmptyAt(work'.prog, Len(work'.prog) + 1, FromEmpty'),
         FromEmpty' => EmptySlots, Agenda', ServerOK',
         \A k \in 1 .. Len(work'.prog) :
           /\ work'.prog[k].part = "twice" => Deliberate
           /\ work'.prog[k].op = "random" => "random" \in Range(Chosen)
           /\ work'.prog[k].checked =>
                (work'.prog[k].op = "pair" /\ work'.prog[k].pay = "chunk") \/ Misnumbered
  PROVE IInv'
<1>1. ~ Running
  BY DEF IInv, MainOK
<1>2. NoneDone /\ Refs = [n \in Places |-> IF n = Hand THEN Null ELSE ptrs[n].ptr]
  BY <1>1, AtRest
<1>3. NoneDone'
  BY <1>2 DEF NoneDone
<1>4. \A n : ~ Consumed(n)'
  BY <1>3 DEF Consumed, NoneDone
<1>5. Refs' = Refs
  BY <1>2, <1>4 DEF Refs
<1>6. work'.prog \in Seq(Stages)
  BY DEF TypeOK, Works
<1>7. Len(work'.prog) \in Nat
  BY <1>6, SMT
<1>8. work'.stage <= Len(work'.prog) + 1
  BY <1>7, SMT
<1>9. KnownEmpty(work.stage)' => EmptySlots'
  <2>1. ~ (1 > 1) /\ 1 # 2
    BY SMT
  <2>2. EmptyAt(work'.prog, 1, FromEmpty') => FromEmpty'
    BY <2>1 DEF EmptyAt
  <2> QED BY <2>2 DEF KnownEmpty, EmptySlots
<1>10. ~ (At("consume")' /\ Stage'.part = "victim")
  <2> SUFFICES ASSUME At("consume")', Stage'.part = "victim" PROVE FALSE
    OBVIOUS
  <2>1. 1 \in 1 .. Len(work'.prog) /\ ~ (1 > 1)
    BY <1>7, SMT DEF At, Running
  <2>2. work'.prog[1].op = "consume" /\ work'.prog[1].part = "victim"
    BY DEF At, Stage
  <2> QED BY <2>1, <2>2 DEF Tidy
<1>11. Entered'
  BY <1>3, <1>8, <1>9, <1>10 DEF Entered, NoneDone
<1>12. Entered' => StageOK'
  BY EnterStage, PTL
<1>13. MainOK'
  BY DEF MainOK, KnownEmpty
<1> QED BY <1>5, <1>11, <1>12, <1>13, MainFrame

\* A step of the main thread outside the ticks that leaves the workload alone.
LEMMA QuietStep ==
  ASSUME IInv, ~ Working, main # "tick", ~ Working', main' # "tick",
         UNCHANGED <<heap, invalid, refused, ptrs, work, done, cfg, elapsed>>,
         MetricsOK(m'), m'.errors = m.errors \/ m'.errors = 0,
         Agenda', ServerOK'
  PROVE IInv'
<1>1. ~ Running /\ (FromEmpty => EmptySlots)
  BY DEF IInv, MainOK
<1>2. FromEmpty
  BY DEF FromEmpty, Working
<1>3. TypeOK'
  BY DEF IInv, TypeOK
<1>4. ~ Running' /\ work'.prog \in {work.prog, << >>} /\ ~ work'.held
      /\ work'.stage <= Len(work'.prog) + 1
  BY <1>1, AtRest DEF Running, IInv, StageOK
<1>5. \A j \in Slots : ptrs'[j].ptr = ptrs[j].ptr
  OBVIOUS
<1> QED BY <1>1, <1>2, <1>3, <1>4, <1>5, RestStep

-----------------------------------------------------------------------------
(* The lists of benchmarks and phases                                      *)

\* Head and tail of a sequence.
LEMMA TailIn ==
  ASSUME NEW T, NEW s \in Seq(T), s # << >>
  PROVE Tail(s) \in Seq(T) /\ Head(s) \in T
BY SMT

\* A function on 1 .. n is a sequence.
LEMMA AsSeq ==
  ASSUME NEW T, NEW n \in Nat, NEW f \in [1 .. n -> T]
  PROVE f \in Seq(T) /\ DOMAIN f = 1 .. n
BY SMT

\* A sequence is one of its own elements.
LEMMA OwnRange ==
  ASSUME NEW T, NEW s \in Seq(T)
  PROVE /\ Len(s) \in Nat /\ DOMAIN s = 1 .. Len(s) /\ s \in Seq(Range(s))
        /\ \A i \in 1 .. Len(s) : s[i] \in Range(s) /\ s[i] \in T
<1>1. Len(s) \in Nat /\ DOMAIN s = 1 .. Len(s) /\ s \in [1 .. Len(s) -> T]
  BY SMT
<1>2. \A i \in 1 .. Len(s) : s[i] \in Range(s) /\ s[i] \in T
  BY <1>1 DEF Range
<1>3. s \in [1 .. Len(s) -> Range(s)]
  BY <1>1, <1>2
<1> QED BY <1>1, <1>2, <1>3, AsSeq

\* What (n - 1) \div r + 1 picks when every one of k elements is repeated r times.
LEMMA QuotientIndex ==
  ASSUME NEW k \in Nat, NEW r \in Nat \ {0}, NEW n \in 1 .. k * r
  PROVE ((n - 1) \div r) + 1 \in 1 .. k
<1>1. k * r \in Nat
  BY SMT
<1>2. n - 1 \in Nat /\ n - 1 < k * r
  BY <1>1, SMT
<1>3. PICK q : q = (n - 1) \div r
  OBVIOUS
<1>4. PICK t : t = (n - 1) % r
  OBVIOUS
<1>5. n - 1 = r * q + t /\ t \in 0 .. r - 1 /\ q \in Nat
  BY <1>2, <1>3, <1>4, DivMod
<1>6. CASE q >= k
  <2>1. PICK d \in Nat : q = k + d
    <3>1. q - k \in Nat /\ q = k + (q - k)
      BY <1>5, <1>6, SMT
    <3> QED BY <3>1
  <2>2. r * q = k * r + r * d /\ r * d >= 0
    BY <2>1, SMT
  <2> QED BY <1>1, <1>2, <1>5, <2>2, SMT
<1>7. CASE q < k
  BY <1>3, <1>5, <1>7, SMT
<1> QED BY <1>5, <1>6, <1>7, SMT

\* The fields of the command line.
LEMMA ConfigFields ==
  ASSUME IInv
  PROVE /\ cfg.benches \in Seq(STRING) /\ cfg.repeats \in Nat \ {0} /\ cfg.file \in Seq(PhaseKinds)
        /\ cfg.phase_repeat \in Nat \ {0} /\ cfg.rate \in Nat /\ cfg.adaptive \in BOOLEAN
<1>1. cfg \in Configs
  BY DEF IInv, TypeOK
<1> QED BY <1>1, SessionConstants

\* The benchmarks of the profiles.
ProfileNames ==
  {"same_size_64", "same_size_256", "same_size", "batch", "random", "fragmentation",
   "cross_thread_free", "latency_sample", "phase_changing"}

\* What the profiles name.
LEMMA ProfileType ==
  ASSUME NEW profile
  PROVE profile_benches(profile) \in Seq(ProfileNames)
<1>1. <<"same_size_64", "random">> \in Seq(ProfileNames)
  BY SMT DEF ProfileNames
<1>2. <<"same_size_64", "same_size_256", "batch", "random">> \in Seq(ProfileNames)
  BY SMT DEF ProfileNames
<1>3. <<"random", "fragmentation", "cross_thread_free">> \in Seq(ProfileNames)
  BY SMT DEF ProfileNames
<1>4. <<"same_size_64", "same_size_256", "same_size", "batch", "random",
        "fragmentation", "cross_thread_free", "latency_sample", "phase_changing">> \in Seq(ProfileNames)
  BY SMT DEF ProfileNames
<1>5. << >> \in Seq(ProfileNames)
  BY SMT
<1> QED BY <1>1, <1>2, <1>3, <1>4, <1>5 DEF profile_benches

\* No profile has debug_safety.
LEMMA ChosenType ==
  ASSUME IInv
  PROVE /\ Len(Chosen) \in Nat /\ DOMAIN Chosen = 1 .. Len(Chosen) /\ Chosen \in Seq(Range(Chosen))
        /\ \A i \in 1 .. Len(Chosen) : Chosen[i] \in Range(Chosen)
        /\ "debug_safety" \in Range(Chosen) => "debug_safety" \in Range(cfg.benches)
<1>1. cfg.benches \in Seq(STRING)
  BY ConfigFields
<1>2. PICK s : s = profile_benches(cfg.profile)
  OBVIOUS
<1>3. s \in Seq(ProfileNames)
  BY <1>2, ProfileType
<1>4. "debug_safety" \notin Range(s)
  <2>1. DOMAIN s = 1 .. Len(s) /\ \A i \in 1 .. Len(s) : s[i] \in ProfileNames
    BY <1>3, OwnRange
  <2> QED BY <2>1 DEF Range, ProfileNames
<1>5. PICK T : Chosen \in Seq(T)
  BY <1>1, <1>2, <1>3 DEF Chosen
<1>6. /\ Len(Chosen) \in Nat /\ DOMAIN Chosen = 1 .. Len(Chosen) /\ Chosen \in Seq(Range(Chosen))
      /\ \A i \in 1 .. Len(Chosen) : Chosen[i] \in Range(Chosen)
  BY <1>5, OwnRange
<1> QED BY <1>2, <1>4, <1>6 DEF Chosen

\* Repetition adds no benchmark.
LEMMA RepeatedType ==
  ASSUME IInv
  PROVE Repeated(Chosen) \in Seq(Range(Chosen))
<1>1. PICK s : s = Chosen
  OBVIOUS
<1>2. PICK r : r = cfg.repeats
  OBVIOUS
<1>3. Len(s) \in Nat /\ r \in Nat \ {0} /\ \A i \in 1 .. Len(s) : s[i] \in Range(s)
  BY <1>1, <1>2, ChosenType, ConfigFields
<1>4. Len(s) * r \in Nat
  BY <1>3, SMT
<1>5. PICK f : f = [n \in 1 .. Len(s) * r |-> s[((n - 1) \div r) + 1]]
  OBVIOUS
<1>6. ASSUME NEW n \in 1 .. Len(s) * r PROVE f[n] \in Range(s)
  <2>1. PICK i : i = ((n - 1) \div r) + 1
    OBVIOUS
  <2>2. i \in 1 .. Len(s)
    BY <1>3, <1>4, <2>1, QuotientIndex
  <2>3. f[n] = s[i]
    BY <1>5, <2>1
  <2> QED BY <1>3, <2>2, <2>3
<1>7. f \in [1 .. Len(s) * r -> Range(s)]
  BY <1>5, <1>6
<1>8. f \in Seq(Range(s))
  BY <1>4, <1>7, AsSeq
<1>9. Repeated(Chosen) = f
  BY <1>1, <1>2, <1>5 DEF Repeated
<1> QED BY <1>1, <1>8, <1>9

\* The phases of the configuration file or of the template.
LEMMA WorkloadPhasesType ==
  ASSUME IInv
  PROVE /\ WorkloadPhases \in Seq(PhaseKinds) /\ WorkloadPhases \in Seq(Range(WorkloadPhases))
        /\ Len(WorkloadPhases) \in Nat /\ Range(WorkloadPhases) \subseteq PhaseKinds
        /\ \A i \in 1 .. Len(WorkloadPhases) : WorkloadPhases[i] \in Range(WorkloadPhases)
<1>1. cfg.file \in Seq(PhaseKinds)
  BY ConfigFields
<1>2. {"SmallChurn", "FragmentationDrift", "RemoteFree", "LargeBurst", "PeakRelease", "LatencyLoop",
       "TinyCacheChurn", "RemoteDominant", "MediumFragStrong", "RssDecayHold"} = PhaseKinds
  BY DEF PhaseKinds
<1>3. ASSUME NEW a \in PhaseKinds PROVE <<a>> \in Seq(PhaseKinds)
  BY SMT
<1>4. ASSUME NEW a \in PhaseKinds, NEW b \in PhaseKinds PROVE <<a, b>> \in Seq(PhaseKinds)
  BY SMT
<1>5. <<"SmallChurn", "FragmentationDrift", "RemoteFree", "LargeBurst",
        "PeakRelease", "LatencyLoop">> \in Seq(PhaseKinds)
  BY SMT DEF PhaseKinds
<1>6. WorkloadPhases \in Seq(PhaseKinds)
  BY <1>1, <1>2, <1>3, <1>4, <1>5 DEF WorkloadPhases, generated_template
<1>7. PICK s : s = WorkloadPhases
  OBVIOUS
<1>8. /\ s \in Seq(Range(s)) /\ Len(s) \in Nat /\ DOMAIN s = 1 .. Len(s)
      /\ \A i \in 1 .. Len(s) : s[i] \in Range(s) /\ s[i] \in PhaseKinds
  BY <1>6, <1>7, OwnRange
<1>9. Range(s) \subseteq PhaseKinds
  BY <1>8 DEF Range
<1> QED BY <1>6, <1>7, <1>8, <1>9

\* The larger of two numbers.
LEMMA MaxTwo ==
  ASSUME NEW a \in Nat, NEW b \in Nat
  PROVE Max({a, b}) \in {a, b} /\ Max({a, b}) >= a /\ Max({a, b}) >= b
<1>1. PICK c \in {a, b} : \A y \in {a, b} : c >= y
  <2>1. CASE a >= b
    BY <2>1, SMT
  <2>2. CASE b >= a
    BY <2>2, SMT
  <2> QED BY <2>1, <2>2, SMT
<1>2. Max({a, b}) \in {a, b} /\ \A y \in {a, b} : Max({a, b}) >= y
  BY <1>1 DEF Max
<1> QED BY <1>2

\* Repetition adds no phase.
LEMMA RepeatedPhasesType ==
  ASSUME IInv
  PROVE RepeatedPhases \in Seq(Range(WorkloadPhases)) /\ TotalPhases \in Nat
<1>1. PICK s : s = WorkloadPhases
  OBVIOUS
<1>2. PICK r : r = Max({1, cfg.phase_repeat})
  OBVIOUS
<1>3. Len(s) \in Nat /\ r \in Nat /\ \A i \in 1 .. Len(s) : s[i] \in Range(s)
  <2>1. 1 \in Nat /\ cfg.phase_repeat \in Nat
    BY ConfigFields
  <2>2. r \in {1, cfg.phase_repeat}
    BY <1>2, <2>1, MaxTwo
  <2> QED BY <1>1, <2>1, <2>2, WorkloadPhasesType
<1>4. Len(s) * r \in Nat
  BY <1>3, SMT
<1>5. PICK f : f = [n \in 1 .. Len(s) * r |-> s[((n - 1) % Len(s)) + 1]]
  OBVIOUS
<1>6. ASSUME NEW n \in 1 .. Len(s) * r PROVE f[n] \in Range(s)
  <2>1. PICK i : i = (n - 1) % Len(s)
    OBVIOUS
  <2>2. Len(s) \in Nat \ {0} /\ n - 1 \in Nat
    <3>1. CASE Len(s) = 0
      BY <1>3, <3>1, SMT
    <3>2. CASE Len(s) # 0
      BY <1>3, <1>4, <3>2, SMT
    <3> QED BY <3>1, <3>2
  <2>3. i \in 0 .. Len(s) - 1
    BY <2>1, <2>2, DivMod
  <2>4. i + 1 \in 1 .. Len(s)
    BY <2>2, <2>3, SMT
  <2>5. f[n] = s[i + 1]
    BY <1>5, <2>1
  <2> QED BY <1>3, <2>4, <2>5
<1>7. f \in [1 .. Len(s) * r -> Range(s)]
  BY <1>5, <1>6
<1>8. f \in Seq(Range(s))
  BY <1>4, <1>7, AsSeq
<1>9. RepeatedPhases = f /\ TotalPhases = Len(s) * r
  BY <1>1, <1>2, <1>5 DEF RepeatedPhases, TotalPhases
<1> QED BY <1>1, <1>4, <1>8, <1>9

-----------------------------------------------------------------------------
(* The steps of the main thread                                            *)

\* Where nothing is under way.
Plain == {"load", "profile", "compare", "collect", "serve", "bench", "unload", "stop", "shutdown",
          "join", "close", "exit"}

\* The lists are left alone.
LEMMA SameAgenda ==
  ASSUME IInv, UNCHANGED <<cfg, benches, phases>>, main' \in Plain
  PROVE Agenda' /\ ~ Working' /\ main' # "tick"
<1>1. main' \notin {"tick", "run_tick", "cleanup", "run_phase", "work", "identity", "starting", "phase"}
  BY DEF Plain
<1>2. ~ Working' /\ main' # "tick"
  BY <1>1 DEF Working
<1>3. Chosen' = Chosen /\ WorkloadPhases' = WorkloadPhases
  BY DEF Chosen, WorkloadPhases
<1> QED BY <1>1, <1>2, <1>3 DEF IInv, MainOK, Agenda

\* Plugin, socket and server thread are left alone.
LEMMA SameServer ==
  ASSUME IInv, UNCHANGED <<lib, fd, srv>>,
         main' \in {"bench", "unload", "identity", "starting", "phase", "tick", "work", "run_phase",
                    "run_tick", "cleanup"}
  PROVE ServerOK'
BY DEF IInv, ServerOK

\* A step from one plain place to another.
LEMMA PlainStep ==
  ASSUME IInv, main \in Plain, main' \in Plain,
         UNCHANGED <<heap, invalid, refused, ptrs, work, done, m, cfg, elapsed, benches, phases>>,
         ServerOK'
  PROVE IInv'
<1>1. Agenda' /\ ~ Working' /\ main' # "tick"
  BY SameAgenda
<1>2. ~ Working /\ main # "tick"
  BY DEF Plain, Working
<1>3. MetricsOK(m') /\ m'.errors = m.errors
  BY DEF IInv, TypeOK, MetricsOK
<1> QED BY <1>1, <1>2, <1>3, QuietStep

\* The strategy is loaded, or main returns at once.
LEMMA LoadKeeps ==
  ASSUME IInv, load_strategy
  PROVE IInv'
<1>1. /\ main = "load" /\ main' \in {"profile", "exit"} /\ (main' = "exit" => lib' # "open")
      /\ UNCHANGED <<workVars, serverVars, cfg, benches, phases, elapsed>>
  BY DEF load_strategy, Goto
<1>2. ServerOK'
  BY <1>1 DEF IInv, ServerOK, serverVars
<1> QED BY <1>1, <1>2, PlainStep DEF Plain, workVars

\* The benchmarks of the command line, or of the profile.
LEMMA ChooseKeeps ==
  ASSUME IInv, ChooseBenches
  PROVE IInv'
<1>1. main = "profile" /\ UNCHANGED <<workVars, serverVars, cfg, phases, elapsed, lib>>
  BY DEF ChooseBenches
<1>2. CASE main' = "unload" /\ benches' = benches
  <2>1. ServerOK'
    BY <1>1, <1>2, SameServer DEF serverVars
  <2> QED BY <1>1, <1>2, <2>1, PlainStep DEF Plain, workVars
<1>3. CASE main' = "compare" /\ benches' = Repeated(Chosen)
  <2>1. ServerOK'
    BY <1>1, <1>3 DEF IInv, ServerOK, serverVars
  <2>2. Chosen' = Chosen /\ WorkloadPhases' = WorkloadPhases
    BY <1>1 DEF Chosen, WorkloadPhases
  <2>3. ~ Working' /\ ~ Working
    BY <1>1, <1>3 DEF Working
  <2>4. Agenda'
    BY <1>1, <1>3, <2>2, <2>3, RepeatedType DEF IInv, MainOK, Agenda
  <2>5. MetricsOK(m') /\ m'.errors = m.errors
    BY <1>1 DEF workVars, IInv, TypeOK, MetricsOK
  <2> QED BY <1>1, <1>3, <2>1, <2>3, <2>4, <2>5, QuietStep DEF workVars
<1> QED BY <1>2, <1>3 DEF ChooseBenches, Goto

\* The comparison of the fixed modes touches nothing else.
LEMMA CompareKeeps ==
  ASSUME IInv, Compare \/ capture_fixed_mode_reference \/ collect_mode_comparison_traces
  PROVE IInv'
<1>1. /\ main \in {"compare", "collect"} /\ main' \in {"collect", "serve"}
      /\ UNCHANGED <<workVars, serverVars, cfg, benches, phases, elapsed, lib>>
  BY DEF Compare, capture_fixed_mode_reference, collect_mode_comparison_traces, Goto
<1>2. ServerOK'
  BY <1>1 DEF IInv, ServerOK, serverVars
<1> QED BY <1>1, <1>2, PlainStep DEF Plain, workVars

\* The server starts, is not asked for, or fails and main leaves.
LEMMA StartKeeps ==
  ASSUME IInv, start
  PROVE IInv'
<1>1. /\ main = "serve" /\ main' \in {"bench", "unload"}
      /\ UNCHANGED <<heap, invalid, refused, ptrs, m, work, done>>
      /\ UNCHANGED <<cfg, benches, phases, elapsed, lib>>
      /\ UNCHANGED <<fd, srv>> \/ fd' = "open"
  BY DEF start, Goto
<1>2. ServerOK'
  BY <1>1 DEF IInv, ServerOK
<1> QED BY <1>1, <1>2, PlainStep DEF Plain

\* The plugin is closed.
LEMMA UnloadKeeps ==
  ASSUME IInv, unload_strategy
  PROVE IInv'
<1>1. /\ main = "unload" /\ main' = "stop" /\ lib' # "open"
      /\ UNCHANGED <<workVars, serverVars, cfg, benches, phases, elapsed>>
  BY DEF unload_strategy, Goto
<1>2. ServerOK'
  BY <1>1 DEF IInv, ServerOK, serverVars
<1> QED BY <1>1, <1>2, PlainStep DEF Plain, workVars

\* The server's thread ends before its socket is closed.
LEMMA StopKeeps ==
  ASSUME IInv, stop
  PROVE IInv'
<1>1. UNCHANGED <<workVars, cfg, benches, phases, elapsed, lib, srv>>
  BY DEF stop
<1>2. CASE main = "stop" /\ main' = "shutdown" /\ fd' = fd
  <2>1. ServerOK'
    BY <1>1, <1>2 DEF IInv, ServerOK
  <2> QED BY <1>1, <1>2, <2>1, PlainStep DEF Plain, workVars
<1>3. CASE main = "shutdown" /\ main' = "join" /\ fd' = IF fd = "open" THEN "shutdown" ELSE fd
  <2>1. ServerOK'
    BY <1>1, <1>3 DEF IInv, ServerOK
  <2> QED BY <1>1, <1>3, <2>1, PlainStep DEF Plain, workVars
<1>4. CASE main = "join" /\ main' = "close" /\ srv \in {"none", "ended"} /\ fd' = fd
  <2>1. ServerOK'
    BY <1>1, <1>4 DEF IInv, ServerOK
  <2> QED BY <1>1, <1>4, <2>1, PlainStep DEF Plain, workVars
<1>5. CASE main = "close" /\ main' = "exit" /\ fd' = "closed"
  <2>1. ServerOK'
    BY <1>1, <1>5 DEF IInv, ServerOK
  <2> QED BY <1>1, <1>5, <2>1, PlainStep DEF Plain, workVars
<1> QED BY <1>2, <1>3, <1>4, <1>5 DEF stop, Goto

\* A program as Began starts it.
LEMMA BeganFields ==
  ASSUME IInv, NEW prog \in Seq(Stages)
  PROVE /\ Began(prog) \in Works /\ Began(prog).prog = prog /\ Began(prog).stage = 1
        /\ Began(prog).i = 0 /\ ~ Began(prog).held /\ Began(prog).phase = work.phase
<1>1. work \in Works /\ 1 \in Nat \ {0} /\ 0 \in Nat /\ FALSE \in BOOLEAN
  BY DEF IInv, TypeOK
<1>2. PICK w : w = [work EXCEPT !.prog = prog, !.stage = 1, !.i = 0, !.held = FALSE, !.hand = Empty]
  OBVIOUS
<1>3. w \in Works
  BY <1>1, <1>2, EmptyType DEF Works
<1>4. w.prog = prog /\ w.stage = 1 /\ w.i = 0 /\ ~ w.held /\ w.phase = work.phase
  BY <1>1, <1>2 DEF Works
<1>5. Began(prog) = w
  BY <1>2 DEF Began
<1> QED BY <1>3, <1>4, <1>5

\* The next benchmark is run_one's program, the generated workload, or the end.
LEMMA NextBenchKeeps ==
  ASSUME IInv, NextBench
  PROVE IInv'
<1>1. /\ main = "bench" /\ UNCHANGED <<cfg, lib, fd, srv, benches, phases, elapsed>>
      /\ UNCHANGED <<heap, invalid, refused, ptrs, m, done>>
  BY DEF NextBench, sessionOnly, serverVars
<1>2. Chosen' = Chosen /\ WorkloadPhases' = WorkloadPhases
  BY <1>1 DEF Chosen, WorkloadPhases
<1>3. ~ Working /\ main \in Plain
  BY <1>1 DEF Working, Plain
<1>4. CASE main' = "unload" /\ work' = work
  <2>1. ServerOK'
    BY <1>1, <1>4, SameServer
  <2> QED BY <1>1, <1>3, <1>4, <2>1, PlainStep DEF Plain
<1>5. CASE main' = "identity" /\ work' = work /\ benches # << >>
  <2>1. ServerOK'
    BY <1>1, <1>5, SameServer
  <2>2. ~ Working'
    BY <1>5 DEF Working
  <2>3. Agenda'
    BY <1>1, <1>2, <1>5, <2>2 DEF IInv, MainOK, Agenda
  <2>4. MetricsOK(m') /\ m'.errors = m.errors
    BY <1>1 DEF IInv, TypeOK, MetricsOK
  <2> QED BY <1>1, <1>3, <1>5, <2>1, <2>2, <2>3, <2>4, QuietStep
<1>6. CASE /\ main' = "work" /\ benches # << >> /\ Head(benches) \in KnownBenches \ {"generated_workload"}
           /\ work' = [Began(run_one(Head(benches), cfg.adaptive)) EXCEPT !.phase = "idle"]
  <2>1. PICK name : name = Head(benches)
    OBVIOUS
  <2>2. PICK prog : prog = run_one(name, cfg.adaptive)
    OBVIOUS
  <2>3. name \in Range(Chosen)
    BY <1>6, <2>1, TailIn DEF IInv, MainOK, Agenda
  <2>4. /\ Sound(prog, TRUE, TRUE) /\ Unchecked(prog)
        /\ \A k \in 1 .. Len(prog) : /\ prog[k].part = "twice" => cfg.adaptive /\ name = "debug_safety"
                                     /\ prog[k].op = "random" => name = "random"
    <3>1. cfg.adaptive \in BOOLEAN
      BY ConfigFields
    <3> QED BY <1>6, <2>1, <2>2, <3>1, RunOneSound
  <2>5. PICK w : w = Began(prog)
    OBVIOUS
  <2>6. w \in Works /\ w.prog = prog /\ w.stage = 1 /\ w.i = 0 /\ ~ w.held
    BY <2>4, <2>5, BeganFields DEF Sound
  <2>7. [w EXCEPT !.phase = "idle"] \in Works
    BY <2>6 DEF Works
  <2>8. work' = [w EXCEPT !.phase = "idle"]
    BY <1>6, <2>1, <2>2, <2>5
  <2>9. work' \in Works /\ work'.prog = prog /\ work'.stage = 1 /\ work'.i = 0 /\ ~ work'.held
    BY <2>6, <2>7, <2>8 DEF Works
  <2>10. TypeOK'
    BY <1>1, <2>9 DEF IInv, TypeOK, MetricsOK
  <2>11. Working' /\ FromEmpty' /\ FromEmpty
    BY <1>1, <1>6 DEF Working, FromEmpty
  <2>12. EmptySlots
    BY <1>3, <2>11 DEF IInv, MainOK
  <2>13. Agenda'
    BY <1>1, <1>2, <1>6 DEF IInv, MainOK, Agenda
  <2>14. ServerOK'
    BY <1>1, <1>6, SameServer
  <2>15. Tidy(work'.prog, FromEmpty') /\ EmptyAt(work'.prog, Len(work'.prog) + 1, FromEmpty')
    <3>1. FromEmpty' = TRUE
      BY <2>11
    <3> QED BY <2>4, <2>9, <3>1 DEF Sound
  <2>16. \A k \in 1 .. Len(work'.prog) :
           /\ work'.prog[k].part = "twice" => Deliberate
           /\ work'.prog[k].op = "random" => "random" \in Range(Chosen)
           /\ work'.prog[k].checked =>
                (work'.prog[k].op = "pair" /\ work'.prog[k].pay = "chunk") \/ Misnumbered
    <3>1. name = "debug_safety" /\ cfg.adaptive => Deliberate
      BY <2>3, ChosenType DEF Deliberate
    <3> QED BY <2>3, <2>4, <2>9, <3>1 DEF Unchecked
  <2> QED BY <1>1, <1>3, <2>9, <2>10, <2>11, <2>12, <2>13, <2>14, <2>15, <2>16, StartStep
<1> QED BY <1>4, <1>5, <1>6 DEF NextBench, Goto

\* A program that leaves its slots empty is over: clearing the vector is no loss.
LEMMA ProgramDone ==
  ASSUME IInv, Working, main # "run_tick", ~ Running, ptrs' = [j \in Slots |-> Empty],
         UNCHANGED <<cfg, heap, refused, invalid, done, work, m, elapsed>>,
         ~ Working', main' # "tick", Agenda', ServerOK'
  PROVE IInv'
<1>1. ~ work.held /\ work.stage = Len(work.prog) + 1 /\ work.stage <= Len(work.prog) + 1
  BY AtRest DEF IInv, StageOK
<1>2. KnownEmpty(work.stage)
  BY <1>1 DEF IInv, MainOK
<1>3. EmptySlots
  BY <1>2 DEF IInv, StageOK
<1>4. \A j \in Slots : ptrs'[j].ptr = ptrs[j].ptr
  BY <1>3, EmptyType DEF EmptySlots
<1>5. ptrs' \in [Slots -> Records]
  BY EmptyType
<1>6. TypeOK'
  BY <1>5 DEF IInv, TypeOK, MetricsOK
<1>7. ~ Running' /\ work'.prog \in {work.prog, << >>} /\ ~ work'.held
      /\ work'.stage <= Len(work'.prog) + 1
  BY <1>1 DEF Running
<1> QED BY <1>3, <1>4, <1>6, <1>7, RestStep

\* A benchmark's program is over.
LEMMA BenchDoneKeeps ==
  ASSUME IInv, BenchDone
  PROVE IInv'
<1>1. /\ main = "work" /\ ~ Running /\ main' = "bench" /\ benches' = Tail(benches)
      /\ ptrs' = [j \in Slots |-> Empty]
      /\ UNCHANGED <<cfg, lib, fd, srv, phases, elapsed, heap, invalid, refused, m, work, done>>
  BY DEF BenchDone, Goto, sessionOnly, serverVars
<1>2. ServerOK'
  BY <1>1, SameServer
<1>3. Working /\ ~ Working' /\ main' # "tick" /\ main # "run_tick"
  BY <1>1 DEF Working
<1>4. Chosen' = Chosen /\ WorkloadPhases' = WorkloadPhases
  BY <1>1 DEF Chosen, WorkloadPhases
<1>5. benches' \in Seq(Range(Chosen))
  BY <1>1, <1>3, TailIn DEF IInv, MainOK, Agenda
<1>6. Agenda'
  BY <1>1, <1>3, <1>4, <1>5 DEF IInv, MainOK, Agenda
<1> QED BY <1>1, <1>2, <1>3, <1>6, ProgramDone

\* A generated phase, or a realtime phase's cleanup, is over.
LEMMA PhaseDoneKeeps ==
  ASSUME IInv, PhaseDone \/ CleanupDone
  PROVE IInv'
<1>1. /\ main \in {"run_phase", "cleanup"} /\ ~ Running /\ main' = "phase" /\ phases' = Tail(phases)
      /\ ptrs' = [j \in Slots |-> Empty]
      /\ UNCHANGED <<cfg, lib, fd, srv, benches, elapsed, heap, invalid, refused, m, work, done>>
  BY DEF PhaseDone, CleanupDone, Goto, sessionOnly, serverVars
<1>2. ServerOK'
  BY <1>1, SameServer
<1>3. Working /\ ~ Working' /\ main' # "tick" /\ main # "run_tick"
  BY <1>1 DEF Working
<1>4. Chosen' = Chosen /\ WorkloadPhases' = WorkloadPhases
  BY <1>1 DEF Chosen, WorkloadPhases
<1>5. phases' \in Seq(Range(WorkloadPhases))
  BY <1>1, <1>3, TailIn DEF IInv, MainOK, Agenda
<1>6. Agenda'
  BY <1>1, <1>3, <1>4, <1>5 DEF IInv, MainOK, Agenda
<1> QED BY <1>1, <1>2, <1>3, <1>6, ProgramDone

\* Figures start at zero.
LEMMA ZeroMetrics == MetricsOK(Zero) /\ Zero.errors = 0
<1>1. Zero.live_bytes = 0 /\ Zero.errors = 0
  BY DEF Zero
<1>2. Zero \in Metrics(0)
  BY SMT DEF Zero, Metrics
<1> QED BY <1>1, <1>2 DEF MetricsOK

\* The new run's identity, figures and phases.
LEMMA GeneratedIdentityKeeps ==
  ASSUME IInv, GeneratedIdentity
  PROVE IInv'
<1>1. /\ main = "identity" /\ main' = "starting" /\ m' = Zero
      /\ phases' = IF cfg.realtime THEN RepeatedPhases ELSE WorkloadPhases
      /\ UNCHANGED <<cfg, lib, fd, srv, benches, elapsed, heap, invalid, refused, ptrs, work, done>>
  BY DEF GeneratedIdentity, Goto, sessionOnly, serverVars
<1>2. ServerOK'
  BY <1>1, SameServer
<1>3. ~ Working /\ ~ Working'
  BY <1>1 DEF Working
<1>4. Chosen' = Chosen /\ WorkloadPhases' = WorkloadPhases
  BY <1>1 DEF Chosen, WorkloadPhases
<1>5. phases' \in Seq(Range(WorkloadPhases))
  BY <1>1, RepeatedPhasesType, WorkloadPhasesType
<1>6. Agenda'
  BY <1>1, <1>3, <1>4, <1>5 DEF IInv, MainOK, Agenda
<1>7. MetricsOK(m') /\ m'.errors = 0
  BY <1>1, ZeroMetrics
<1> QED BY <1>1, <1>2, <1>3, <1>6, <1>7, QuietStep

\* No program.
LEMMA IdleFields ==
  /\ Idle \in Works /\ Idle.prog = << >> /\ Idle.stage = 1 /\ ~ Idle.held /\ Idle.phase = "idle"
<1>1. << >> \in Seq(Stages) /\ 1 \in Nat \ {0} /\ 0 \in Nat /\ 0 \in Int /\ 1 \in Nat
  BY SMT
<1>2. "idle" \in PhaseKinds \cup {"idle"}
  OBVIOUS
<1>3. Idle \in Works
  BY <1>1, <1>2, EmptyType DEF Idle, Works
<1> QED BY <1>3 DEF Idle

\* A new Generated structure, with no program yet.
LEMMA GeneratedStartKeeps ==
  ASSUME IInv, GeneratedStart
  PROVE IInv'
<1>1. /\ main = "starting" /\ main' = "phase"
      /\ UNCHANGED <<cfg, lib, fd, srv, benches, phases, elapsed, heap, invalid, refused, ptrs, m, done>>
  BY DEF GeneratedStart, Goto, sessionOnly, serverVars
<1>2. PICK count : count = IF cfg.realtime THEN TotalPhases ELSE Len(WorkloadPhases)
  OBVIOUS
<1>3. count \in Nat /\ cfg.rate \in Nat /\ -1 \in Int
  BY <1>2, RepeatedPhasesType, WorkloadPhasesType, ConfigFields
<1>4. PICK rate : rate = cfg.rate
  OBVIOUS
<1>5. work' = [Idle EXCEPT !.rate = rate, !.index = -1, !.count = count]
  BY <1>2, <1>4 DEF GeneratedStart
<1>6. work' \in Works
  BY <1>3, <1>4, <1>5, IdleFields DEF Works
<1>7. work'.prog = << >> /\ work'.stage = 1 /\ ~ work'.held
  BY <1>5, IdleFields DEF Works
<1>8. ServerOK'
  BY <1>1, SameServer
<1>9. ~ Working /\ ~ Working' /\ FromEmpty /\ FromEmpty'
  BY <1>1 DEF Working, FromEmpty
<1>10. ~ Running /\ EmptySlots
  BY <1>9 DEF IInv, MainOK
<1>11. Chosen' = Chosen /\ WorkloadPhases' = WorkloadPhases
  BY <1>1 DEF Chosen, WorkloadPhases
<1>12. Agenda'
  BY <1>1, <1>9, <1>11 DEF IInv, MainOK, Agenda
<1>13. TypeOK'
  BY <1>1, <1>6 DEF IInv, TypeOK, MetricsOK
<1>14. ~ Running' /\ work'.stage <= Len(work'.prog) + 1
  <2>1. Len(<< >>) = 0 /\ ~ (1 <= 0) /\ 1 <= 0 + 1
    BY SMT
  <2> QED BY <1>7, <2>1 DEF Running
<1>15. \A j \in Slots : ptrs'[j].ptr = ptrs[j].ptr
  BY <1>1
<1> QED BY <1>1, <1>7, <1>8, <1>9, <1>10, <1>12, <1>13, <1>14, <1>15, RestStep

\* The phases are over, a realtime phase begins, or a phase is run to completion.
LEMMA GeneratedPhaseKeeps ==
  ASSUME IInv, GeneratedPhase
  PROVE IInv'
<1>1. /\ main = "phase" /\ UNCHANGED <<cfg, lib, fd, srv, phases>>
      /\ UNCHANGED <<heap, invalid, refused, ptrs, m, done>>
  BY DEF GeneratedPhase, sessionOnly, serverVars
<1>2. ~ Working /\ FromEmpty
  BY <1>1 DEF Working, FromEmpty
<1>3. ~ Running /\ EmptySlots /\ benches # << >>
  BY <1>1, <1>2 DEF IInv, MainOK, Agenda
<1>4. Chosen' = Chosen /\ WorkloadPhases' = WorkloadPhases
  BY <1>1 DEF Chosen, WorkloadPhases
<1>5. MetricsOK(m') /\ m'.errors = m.errors
  BY <1>1 DEF IInv, TypeOK, MetricsOK
<1>6. CASE phases = << >>
  <2>1. main' = "bench" /\ benches' = Tail(benches) /\ work' = work /\ elapsed' = elapsed
    BY <1>6 DEF GeneratedPhase, Goto
  <2>2. benches' \in Seq(Range(Chosen))
    BY <1>3, <2>1, TailIn DEF IInv, MainOK, Agenda
  <2>3. ~ Working' /\ main # "tick" /\ main' # "tick"
    BY <1>1, <2>1 DEF Working
  <2>4. Agenda'
    BY <1>1, <1>4, <2>1, <2>2, <2>3 DEF IInv, MainOK, Agenda
  <2>5. ServerOK'
    BY <1>1, <2>1, SameServer
  <2> QED BY <1>1, <1>2, <1>5, <2>1, <2>3, <2>4, <2>5, QuietStep
<1>7. CASE phases # << >>
  <2>1. PICK kind : kind = Head(phases)
    OBVIOUS
  <2>2. kind \in Range(WorkloadPhases) /\ kind \in PhaseKinds
    <3>1. kind \in Range(WorkloadPhases)
      BY <1>7, <2>1, TailIn DEF IInv, MainOK, Agenda
    <3> QED BY <3>1, WorkloadPhasesType
  <2>3. PICK index : index = work.index + 1
    OBVIOUS
  <2>4. PICK next : next = [work EXCEPT !.phase = kind, !.index = index, !.id = 1]
    OBVIOUS
  <2>5. work \in Works /\ index \in Int /\ 1 \in Nat
    <3>1. work \in Works
      BY DEF IInv, TypeOK
    <3>2. work.index \in Int
      BY <3>1 DEF Works
    <3> QED BY <2>3, <3>1, <3>2, SMT
  <2>6. next \in Works
    BY <2>2, <2>4, <2>5 DEF Works
  <2>7. /\ next.prog = work.prog /\ next.stage = work.stage /\ next.held = work.held
        /\ next.phase = kind
    BY <2>4, <2>5 DEF Works
  <2>8. ~ next.held
    BY <1>3, <2>7, AtRest
  <2>9. elapsed' = 0 /\ benches' = benches
    BY <1>7 DEF GeneratedPhase
  <2>10. CASE cfg.realtime
    <3>1. main' = "tick" /\ work' = next
      BY <1>7, <2>1, <2>3, <2>4, <2>10 DEF GeneratedPhase, Goto
    <3>2. ServerOK'
      BY <1>1, <3>1, SameServer
    <3>3. ~ Working' /\ FromEmpty'
      BY <2>9, <3>1 DEF Working, FromEmpty
    <3>4. Agenda'
      BY <1>1, <1>3, <1>4, <1>7, <2>9, <2>10, <3>1, <3>3 DEF IInv, MainOK, Agenda
    <3>5. TypeOK'
      <4>1. elapsed' \in Nat
        BY <2>9
      <4> QED BY <1>1, <1>5, <2>6, <3>1, <4>1 DEF IInv, TypeOK
    <3>6. ~ Running' /\ work'.prog = work.prog /\ work'.stage <= Len(work'.prog) + 1 /\ ~ work'.held
      BY <1>3, <2>7, <2>8, <3>1 DEF Running, IInv, StageOK
    <3>7. \A j \in Slots : ptrs'[j].ptr = ptrs[j].ptr
      BY <1>1
    <3> QED BY <1>1, <1>3, <1>5, <3>2, <3>3, <3>4, <3>5, <3>6, <3>7, RestStep
  <2>11. CASE ~ cfg.realtime
    <3>1. PICK prog : prog = GeneratedProgram(kind)
      OBVIOUS
    <3>2. main' = "run_phase" /\ work' = [next EXCEPT !.prog = prog, !.stage = 1, !.i = 0]
      BY <1>7, <2>1, <2>3, <2>4, <2>11, <3>1 DEF GeneratedPhase, Goto
    <3>3. /\ Sound(prog, TRUE, TRUE)
          /\ \A k \in 1 .. Len(prog) :
               /\ prog[k].part # "twice" /\ prog[k].op # "random"
               /\ prog[k].checked => kind \in {"TinyCacheChurn", "MediumFragStrong", "RssDecayHold"}
      BY <2>2, <3>1, GeneratedSound
    <3>4. prog \in Seq(Stages) /\ 1 \in Nat \ {0} /\ 0 \in Nat
      BY <3>3 DEF Sound
    <3>5. work' \in Works
      BY <2>6, <3>2, <3>4 DEF Works
    <3>6. work'.prog = prog /\ work'.stage = 1 /\ work'.i = 0 /\ ~ work'.held
      BY <2>6, <2>8, <3>2 DEF Works
    <3>7. TypeOK'
      <4>1. elapsed' \in Nat
        BY <2>9
      <4> QED BY <1>1, <1>5, <3>5, <4>1 DEF IInv, TypeOK
    <3>8. Working' /\ FromEmpty' = TRUE
      BY <3>2 DEF Working, FromEmpty
    <3>9. Agenda'
      BY <1>1, <1>3, <1>4, <1>7, <2>9, <3>2, <3>8 DEF IInv, MainOK, Agenda
    <3>10. ServerOK'
      BY <1>1, <3>2, SameServer
    <3>11. Tidy(work'.prog, FromEmpty') /\ EmptyAt(work'.prog, Len(work'.prog) + 1, FromEmpty')
      BY <3>3, <3>6, <3>8 DEF Sound
    <3>12. kind \in {"TinyCacheChurn", "MediumFragStrong", "RssDecayHold"} => Misnumbered
      BY <2>2, <2>11 DEF Misnumbered
    <3>13. \A k \in 1 .. Len(work'.prog) :
             /\ work'.prog[k].part = "twice" => Deliberate
             /\ work'.prog[k].op = "random" => "random" \in Range(Chosen)
             /\ work'.prog[k].checked =>
                  (work'.prog[k].op = "pair" /\ work'.prog[k].pay = "chunk") \/ Misnumbered
      BY <3>3, <3>6, <3>12
    <3> QED BY <1>1, <1>2, <1>3, <3>6, <3>7, <3>8, <3>9, <3>10, <3>11, <3>13, StartStep
  <2> QED BY <2>10, <2>11
<1> QED BY <1>6, <1>7

\* A tick, or the cleanup after the last one, begins.
LEMMA TickBeginKeeps ==
  ASSUME IInv, TickBegin
  PROVE IInv'
<1>1. /\ main = "tick" /\ UNCHANGED <<cfg, lib, fd, srv, benches, phases>>
      /\ UNCHANGED <<heap, invalid, refused, ptrs, m, done>>
  BY DEF TickBegin, sessionOnly, serverVars
<1>2. ~ Working
  BY <1>1 DEF Working
<1>3. PICK fe \in BOOLEAN : fe = (elapsed = 0 \/ work.phase = "RemoteFree")
  OBVIOUS
<1>4. FromEmpty = fe
  BY <1>1, <1>3 DEF FromEmpty
<1>5. fe => EmptySlots
  BY <1>2, <1>4 DEF IInv, MainOK
<1>6. Chosen' = Chosen /\ WorkloadPhases' = WorkloadPhases
  BY <1>1 DEF Chosen, WorkloadPhases
<1>7. cfg.realtime /\ phases # << >> /\ benches # << >>
  BY <1>1 DEF IInv, MainOK, Agenda
<1>8. ASSUME main' \in {"run_tick", "cleanup"}
      PROVE Working' /\ Agenda' /\ ServerOK'
  <2>1. Working'
    BY <1>8 DEF Working
  <2>2. Agenda'
    BY <1>1, <1>6, <1>7, <1>8 DEF IInv, MainOK, Agenda
  <2>3. ServerOK'
    BY <1>1, <1>8, SameServer
  <2> QED BY <2>1, <2>2, <2>3
<1>e. elapsed' \in Nat
  BY SessionConstants DEF TickBegin, IInv, TypeOK
<1>9. ASSUME NEW prog \in Seq(Stages), work' = Began(prog), AllCalm(prog)
      PROVE /\ TypeOK' /\ work'.prog = prog /\ work'.stage = 1 /\ work'.i = 0 /\ ~ work'.held
            /\ work'.phase = work.phase
            /\ \A k \in 1 .. Len(work'.prog) :
                 /\ work'.prog[k].part = "twice" => Deliberate
                 /\ work'.prog[k].op = "random" => "random" \in Range(Chosen)
                 /\ work'.prog[k].checked =>
                      (work'.prog[k].op = "pair" /\ work'.prog[k].pay = "chunk") \/ Misnumbered
  <2>1. /\ work' \in Works /\ work'.prog = prog /\ work'.stage = 1 /\ work'.i = 0 /\ ~ work'.held
        /\ work'.phase = work.phase
    BY <1>9, BeganFields
  <2>2. TypeOK'
    BY <1>1, <1>e, <2>1 DEF IInv, TypeOK, MetricsOK
  <2>3. \A k \in 1 .. Len(prog) :
          /\ prog[k].part # "twice" /\ prog[k].op # "random"
          /\ prog[k].checked => prog[k].op = "pair" /\ prog[k].pay = "chunk"
    BY <1>9 DEF AllCalm, Calm
  <2> QED BY <2>1, <2>2, <2>3
<1>10. ASSUME work' = Began(run_realtime_phase_chunk(work.phase, elapsed # 0)),
              main' = "run_tick", elapsed' = elapsed
       PROVE IInv'
  <2>1. PICK init \in BOOLEAN : init = (elapsed # 0)
    OBVIOUS
  <2>2. PICK kind : kind = work.phase
    OBVIOUS
  <2>3. PICK prog : prog = run_realtime_phase_chunk(kind, init)
    OBVIOUS
  <2>4. main' = "run_tick" /\ work' = Began(prog)
    BY <1>10, <2>1, <2>2, <2>3
  <2>5. Sound(prog, ~ init \/ kind = "RemoteFree", kind = "RemoteFree") /\ AllCalm(prog)
    BY <2>3, TickSound
  <2>6. (~ init \/ kind = "RemoteFree") = fe
    BY <1>3, <2>1, <2>2
  <2>7. prog \in Seq(Stages) /\ Tidy(prog, fe)
        /\ (kind = "RemoteFree" => EmptyAt(prog, Len(prog) + 1, fe))
    BY <2>5, <2>6 DEF Sound
  <2>8. /\ TypeOK' /\ work'.prog = prog /\ work'.stage = 1 /\ work'.i = 0 /\ ~ work'.held
        /\ work'.phase = work.phase
        /\ \A k \in 1 .. Len(work'.prog) :
             /\ work'.prog[k].part = "twice" => Deliberate
             /\ work'.prog[k].op = "random" => "random" \in Range(Chosen)
             /\ work'.prog[k].checked =>
                  (work'.prog[k].op = "pair" /\ work'.prog[k].pay = "chunk") \/ Misnumbered
    BY <1>9, <2>4, <2>5, <2>7
  <2>9. FromEmpty' = fe
    BY <1>1, <1>3, <1>10, <2>4, <2>8 DEF FromEmpty
  <2>10. Working' /\ Agenda' /\ ServerOK'
    BY <1>8, <2>4
  <2>11. Tidy(work'.prog, FromEmpty')
    BY <2>7, <2>8, <2>9
  <2>12. (main' = "run_tick" => work'.phase = "RemoteFree") =>
            EmptyAt(work'.prog, Len(work'.prog) + 1, FromEmpty')
    BY <2>2, <2>4, <2>7, <2>8, <2>9
  <2>13. FromEmpty' => EmptySlots
    BY <1>5, <2>9
  <2> QED BY <1>1, <1>2, <2>8, <2>10, <2>11, <2>12, <2>13, StartStep
<1>11. ASSUME work' = Began(cleanup_realtime_state), main' = "cleanup" PROVE IInv'
  <2>1. PICK prog : prog = cleanup_realtime_state
    OBVIOUS
  <2>2. main' = "cleanup" /\ work' = Began(prog)
    BY <1>11, <2>1
  <2>3. Sound(prog, FALSE, TRUE) /\ AllCalm(prog)
    BY <2>1, CleanupSound
  <2>4. prog \in Seq(Stages) /\ Tidy(prog, FALSE) /\ EmptyAt(prog, Len(prog) + 1, FALSE)
    BY <2>3 DEF Sound
  <2>5. /\ TypeOK' /\ work'.prog = prog /\ work'.stage = 1 /\ work'.i = 0 /\ ~ work'.held
        /\ \A k \in 1 .. Len(work'.prog) :
             /\ work'.prog[k].part = "twice" => Deliberate
             /\ work'.prog[k].op = "random" => "random" \in Range(Chosen)
             /\ work'.prog[k].checked =>
                  (work'.prog[k].op = "pair" /\ work'.prog[k].pay = "chunk") \/ Misnumbered
    BY <1>9, <2>2, <2>3, <2>4
  <2>6. FromEmpty' = FALSE
    BY <2>2 DEF FromEmpty
  <2>7. Working' /\ Agenda' /\ ServerOK'
    BY <1>8, <2>2
  <2>8. Tidy(work'.prog, FromEmpty') /\ EmptyAt(work'.prog, Len(work'.prog) + 1, FromEmpty')
    BY <2>4, <2>5, <2>6
  <2> QED BY <1>1, <1>2, <2>5, <2>6, <2>7, <2>8, StartStep
<1> QED BY <1>10, <1>11 DEF TickBegin, Goto

\* A tick ends: only the producers and consumers of RemoteFree leave no object
\* to the next one.
LEMMA TickEndKeeps ==
  ASSUME IInv, TickEnd
  PROVE IInv'
<1>1. /\ main = "run_tick" /\ ~ Running /\ main' = "tick"
      /\ UNCHANGED <<cfg, lib, fd, srv, benches, phases, heap, invalid, refused, ptrs, m, work, done>>
  BY DEF TickEnd, Goto, serverVars
<1>2. elapsed' \in Nat \ {0}
  <2>1. elapsed \in Nat /\ PhaseMs \in Nat
    BY SessionConstants DEF IInv, TypeOK
  <2>2. PICK at \in elapsed .. PhaseMs : elapsed' \in Max({at, elapsed + 1}) .. PhaseMs
    BY DEF TickEnd
  <2>3. PICK next : next = elapsed + 1
    OBVIOUS
  <2>4. at \in Nat /\ next \in Nat
    BY <2>1, <2>2, <2>3, SMT
  <2>5. Max({at, next}) \in {at, next} /\ Max({at, next}) >= next
    BY <2>4, MaxTwo
  <2>6. PICK low : low = Max({at, next})
    OBVIOUS
  <2>7. low \in Nat /\ low >= next /\ elapsed' \in low .. PhaseMs
    BY <2>2, <2>3, <2>4, <2>5, <2>6
  <2> QED BY <2>1, <2>3, <2>7, SMT
<1>3. Working /\ ~ Working'
  BY <1>1 DEF Working
<1>4. work.stage = Len(work.prog) + 1 /\ ~ work.held
  BY <1>1, AtRest
<1>5. work.phase = "RemoteFree" => EmptySlots
  <2> SUFFICES ASSUME work.phase = "RemoteFree" PROVE EmptySlots
    OBVIOUS
  <2>1. KnownEmpty(work.stage)
    BY <1>3, <1>4 DEF IInv, MainOK
  <2> QED BY <1>1, <2>1 DEF IInv, StageOK
<1>6. FromEmpty' => work.phase = "RemoteFree"
  BY <1>1, <1>2 DEF FromEmpty
<1>7. KnownEmpty(work.stage)' \/ FromEmpty' => EmptySlots
  <2>1. KnownEmpty(work.stage)' => KnownEmpty(work.stage) \/ FromEmpty'
    BY <1>1 DEF KnownEmpty, EmptyAt
  <2>2. KnownEmpty(work.stage) => EmptySlots
    BY <1>1 DEF IInv, StageOK
  <2> QED BY <1>5, <1>6, <2>1, <2>2
<1>8. Chosen' = Chosen /\ WorkloadPhases' = WorkloadPhases
  BY <1>1 DEF Chosen, WorkloadPhases
<1>9. Agenda'
  BY <1>1, <1>3, <1>8 DEF IInv, MainOK, Agenda
<1>10. ServerOK'
  BY <1>1, SameServer
<1>11. TypeOK'
  BY <1>1, <1>2 DEF IInv, TypeOK, MetricsOK
<1>12. /\ ~ Running' /\ work'.prog = work.prog /\ ~ work'.held
       /\ work'.stage <= Len(work'.prog) + 1
  BY <1>1, <1>4 DEF Running, IInv, StageOK
<1>13. (\A j \in Slots : ptrs'[j].ptr = ptrs[j].ptr) /\ m'.errors = m.errors
  BY <1>1
<1> QED BY <1>1, <1>3, <1>7, <1>9, <1>10, <1>11, <1>12, <1>13, RestStep

-----------------------------------------------------------------------------
(* The server thread and the client                                        *)

\* Steps of the server's thread and of the client touch no workload.
LEMMA Elsewhere ==
  ASSUME IInv, UNCHANGED <<workVars, mainVars>>, ServerOK'
  PROVE IInv'
<1>1. UNCHANGED <<heap, invalid, refused, ptrs, m, work, done, cfg, main, benches, phases, elapsed>>
  BY DEF workVars, mainVars
<1>2. Running' = Running /\ Stage' = Stage
  BY <1>1 DEF Running, Stage
<1>3. \A op : At(op)' <=> At(op)
  BY <1>2 DEF At
<1>4. Passes' = Passes /\ \A t : Share(t)' = Share(t)
  BY <1>2 DEF Passes, Share
<1>5. FromEmpty' = FromEmpty /\ EmptySlots' = EmptySlots /\ Working' = Working
  BY <1>1 DEF FromEmpty, EmptySlots, Working
<1>6. \A k : KnownEmpty(k)' = KnownEmpty(k)
  BY <1>1, <1>5 DEF KnownEmpty
<1>7. Chosen' = Chosen /\ WorkloadPhases' = WorkloadPhases /\ Deliberate' = Deliberate
  BY <1>1 DEF Chosen, WorkloadPhases, Deliberate
<1>8. Misnumbered' = Misnumbered
  BY <1>1, <1>7 DEF Misnumbered
<1>9. Refs' = Refs
  BY <1>1, <1>3 DEF Refs, Consumed
<1>10. TypeOK'
  BY <1>1 DEF IInv, TypeOK, MetricsOK
<1>11. StageOK'
  BY <1>1, <1>2, <1>3, <1>4, <1>5, <1>6 DEF IInv, StageOK
<1>12. MainOK'
  BY <1>1, <1>2, <1>5, <1>6, <1>7 DEF IInv, MainOK, Agenda
<1>13. ProgOK'
  BY <1>1, <1>5, <1>7, <1>8 DEF IInv, ProgOK
<1>14. HeapOK'
  BY <1>1, <1>2, <1>7, <1>9 DEF IInv, HeapOK
<1>15. Counts'
  BY <1>1, <1>7, <1>8 DEF IInv, Counts
<1> QED BY <1>10, <1>11, <1>12, <1>13, <1>14, <1>15 DEF IInv

\* A step of the server's thread, which runs only while the socket exists.
LEMMA ServerKeeps ==
  ASSUME IInv, Server
  PROVE IInv'
<1>1. /\ srv \notin {"none", "ended"}
      /\ UNCHANGED <<workVars, mainVars, fd>>
  BY DEF Server, ServerLoop, ServerTimeout, ServerReady, ServerAccept, ServerHandle, send_all, Serve
<1>2. UNCHANGED <<main, lib>>
  BY <1>1 DEF mainVars
<1>3. ServerOK'
  BY <1>1, <1>2 DEF IInv, ServerOK
<1> QED BY <1>1, <1>3, Elsewhere

\* A client connects or reads on.
LEMMA ClientKeeps ==
  ASSUME IInv, ClientConnects \/ ClientResumes
  PROVE IInv'
<1>1. UNCHANGED <<workVars, mainVars, fd, srv>>
  BY DEF ClientConnects, ClientResumes
<1>2. UNCHANGED <<main, lib>>
  BY <1>1 DEF mainVars
<1>3. ServerOK'
  BY <1>1, <1>2 DEF IInv, ServerOK
<1> QED BY <1>1, <1>3, Elsewhere

-----------------------------------------------------------------------------
(* The invariant, and what follows from it                                 *)

\* A run starts with nothing allocated, nothing loaded and no program.
LEMMA InitIInv == Init => IInv
<1> SUFFICES ASSUME Init PROVE IInv
  OBVIOUS
<1>1. /\ heap = [b \in Blocks |-> Null] /\ invalid = 0 /\ refused = 0
      /\ ptrs = [j \in Slots |-> Empty] /\ m = Zero /\ work = Idle /\ done = [t \in Threads |-> {}]
  BY DEF Init
<1>2. /\ cfg \in Configs /\ main = "load" /\ benches = << >> /\ phases = << >> /\ elapsed = 0
      /\ lib = "none" /\ fd = "closed" /\ srv = "none"
  BY DEF Init
<1>3. TypeOK
  <2>1. heap \in [Blocks -> Objects \cup {Null}]
    BY <1>1
  <2>2. ptrs \in [Slots -> Records]
    BY <1>1, EmptyType
  <2>3. done \in [Threads -> SUBSET Slots]
    BY <1>1
  <2>4. 0 \in Nat
    BY SMT
  <2>5. MetricsOK(m)
    BY <1>1, ZeroMetrics
  <2>6. work \in Works
    BY <1>1, IdleFields
  <2> QED BY <1>1, <1>2, <2>1, <2>2, <2>3, <2>4, <2>5, <2>6 DEF TypeOK
<1>4. work.prog = << >> /\ work.stage = 1 /\ ~ work.held
  BY <1>1, IdleFields
<1>5. ~ Running /\ work.stage <= Len(work.prog) + 1
  <2>1. Len(<< >>) = 0 /\ ~ (1 <= 0) /\ 1 <= 0 + 1
    BY SMT
  <2> QED BY <1>4, <2>1 DEF Running
<1>6. EmptySlots
  BY <1>1, EmptyType DEF EmptySlots
<1>7. \A t \in Threads : done[t] = {}
  BY <1>1
<1>8. StageOK
  BY <1>4, <1>5, <1>6, <1>7 DEF StageOK, At
<1>9. ~ Working
  BY <1>2 DEF Working
<1>10. Agenda
  <2>1. << >> \in Seq(Range(Chosen)) /\ << >> \in Seq(Range(WorkloadPhases))
    BY SMT
  <2> QED BY <1>2, <1>9, <2>1 DEF Agenda
<1>11. MainOK
  BY <1>5, <1>6, <1>9, <1>10 DEF MainOK
<1>12. ProgOK
  <2>1. \A k \in 1 .. Len(<< >>) : FALSE
    BY SMT
  <2> QED BY <1>4, <1>9, <2>1 DEF ProgOK
<1>13. \A n : ~ Consumed(n)
  BY <1>7 DEF Consumed
<1>14. \A n \in Places : Refs[n] = Null
  <2>1. ASSUME NEW n \in Places PROVE Refs[n] = Null
    <3>1. CASE n = Hand
      BY <1>4, <3>1 DEF Refs
    <3>2. CASE n # Hand
      BY <1>6, <1>13, <3>2 DEF Refs, EmptySlots, Places
    <3> QED BY <3>1, <3>2
  <2> QED BY <2>1
<1>15. Refs \in [Places -> Blocks \cup {Null}]
  <2>1. PICK r : r = Refs
    OBVIOUS
  <2>2. r = [n \in Places |-> r[n]]
    BY <2>1 DEF Refs
  <2> QED BY <1>14, <2>1, <2>2
<1>16. HeapOK
  <2>1. heap \in [Blocks -> Objects \cup {Null}]
    BY <1>3 DEF TypeOK
  <2>2. Owns(heap, Refs)
    BY <1>14, <1>15, <2>1 DEF Owns
  <2>3. \A b \in Blocks : heap[b] = Null
    BY <1>1
  <2>4. Lost(heap, Refs) = {}
    BY <2>3 DEF Lost
  <2>5. Cardinality({}) = 0
    BY FS_EmptySet
  <2>6. Cardinality(Lost(heap, Refs)) <= refused
    <3>1. 0 <= 0
      BY SMT
    <3> QED BY <1>1, <2>4, <2>5, <3>1
  <2> QED BY <1>4, <2>2, <2>4, <2>6 DEF HeapOK
<1>17. ServerOK
  BY <1>2 DEF ServerOK
<1>18. Counts
  <2>1. ~ (0 > 0)
    BY SMT
  <2> QED BY <1>1, <2>1, ZeroMetrics DEF Counts
<1> QED BY <1>3, <1>8, <1>11, <1>12, <1>16, <1>17, <1>18 DEF IInv

\* Every step of every thread keeps the invariant.
LEMMA NextIInv == IInv /\ [Next]_vars => IInv'
<1> SUFFICES ASSUME IInv, [Next]_vars PROVE IInv'
  OBVIOUS
<1>1. CASE Main
  <2>1. CASE load_strategy \/ ChooseBenches \/ start \/ unload_strategy \/ stop
    BY <2>1, LoadKeeps, ChooseKeeps, StartKeeps, UnloadKeeps, StopKeeps
  <2>2. CASE Compare \/ capture_fixed_mode_reference \/ collect_mode_comparison_traces
    BY <2>2, CompareKeeps
  <2>3. CASE NextBench \/ BenchDone
    BY <2>3, NextBenchKeeps, BenchDoneKeeps
  <2>4. CASE GeneratedIdentity \/ GeneratedStart \/ GeneratedPhase \/ PhaseDone \/ CleanupDone
    BY <2>4, GeneratedIdentityKeeps, GeneratedStartKeeps, GeneratedPhaseKeeps, PhaseDoneKeeps
  <2>5. CASE TickBegin \/ TickEnd
    BY <2>5, TickBeginKeeps, TickEndKeeps
  <2> QED BY <1>1, <2>1, <2>2, <2>3, <2>4, <2>5 DEF Main
<1>2. CASE Work
  <2>1. WorkStep /\ UNCHANGED <<mainVars, serverVars>>
    BY <1>2 DEF Work
  <2>2. CASE PairAlloc \/ PairFree \/ Fill \/ Sweep
    BY <2>1, <2>2, PairAllocKeeps, PairFreeKeeps, FillKeeps, SweepKeeps
  <2>3. CASE Random \/ Replace \/ Resize \/ Drift \/ Toggle
    BY <2>1, <2>3, RandomKeeps, ReplaceKeeps, ResizeKeeps, DriftKeeps, ToggleKeeps
  <2>4. CASE \E t \in Threads : WorkerAlloc(t) \/ WorkerFree(t)
    <3>1. PICK t \in Threads : WorkerAlloc(t) \/ WorkerFree(t)
      BY <2>4
    <3> QED BY <2>1, <3>1, WorkerAllocKeeps, WorkerFreeKeeps
  <2>5. CASE Join
    BY <2>1, <2>5, JoinKeeps
  <2> QED BY <2>1, <2>2, <2>3, <2>4, <2>5 DEF WorkStep
<1>3. CASE Server \/ ClientConnects \/ ClientResumes
  BY <1>3, ServerKeeps, ClientKeeps
<1>4. CASE UNCHANGED vars
  <2>1. UNCHANGED <<workVars, mainVars, serverVars>>
    BY <1>4 DEF vars
  <2>2. UNCHANGED <<main, lib, fd, srv>>
    BY <2>1 DEF mainVars, serverVars
  <2>3. ServerOK'
    BY <2>2 DEF IInv, ServerOK
  <2> QED BY <2>1, <2>3, Elsewhere
<1>5. Exited => UNCHANGED vars
  BY DEF Exited
<1> QED BY <1>1, <1>2, <1>3, <1>4, <1>5 DEF Next

\* The inductive invariant of the whole runner: main, the workers of the running
\* loop, the server's thread and its client.
THEOREM RunnerInvariant == Spec => []IInv
BY InitIInv, NextIInv, PTL DEF Spec

\* No deallocation is of a block that is not live, whatever slots, workers and
\* loops it went through, except debug_safety's second one under the adaptive
\* strategy.
THEOREM RunnerFreesOnlyWhatItOwns == Spec => []FreesAreDeliberate
<1>1. IInv => FreesAreDeliberate
  BY DEF IInv, Counts, Deliberate, FreesAreDeliberate
<1> QED BY <1>1, RunnerInvariant, PTL

\* Every way out of main closes the plugin and the socket, the socket never
\* before the thread that waits on it has ended; and between two benchmarks or
\* phases the only live blocks are those random_workload lost to a refused
\* reallocate, at most one for each refusal.
THEOREM RunnerLeavesNothingBehind == Spec => []NothingLeftBehind
<1>1. ASSUME IInv PROVE NothingLeftBehind
  <2>1. /\ main = "exit" => lib # "open" /\ fd = "closed"
        /\ fd = "closed" => srv \in {"none", "ended"}
    BY <1>1 DEF IInv, ServerOK
  <2>2. ASSUME AtBoundary
        PROVE Cardinality(Live) <= refused /\ (Live # {} => "random" \in Range(Chosen))
    <3>1. ~ Working /\ FromEmpty
      BY <2>2 DEF AtBoundary, Working, FromEmpty
    <3>2. ~ Running /\ EmptySlots
      BY <1>1, <3>1 DEF IInv, MainOK
    <3>3. Refs = [n \in Places |-> IF n = Hand THEN Null ELSE ptrs[n].ptr]
      BY <1>1, <3>2, AtRest
    <3>4. \A n \in Places : Refs[n] = Null
      BY <3>2, <3>3 DEF EmptySlots, Places
    <3>5. \A b \in Blocks : b # Null
      BY WorkloadConstants
    <3>6. Live = Lost(heap, Refs)
      BY <3>4, <3>5 DEF Live, Lost
    <3> QED BY <1>1, <3>6 DEF IInv, HeapOK
  <2> QED BY <2>1, <2>2 DEF NothingLeftBehind
<1> QED BY <1>1, RunnerInvariant, PTL

\* The payload checks of a generated workload fail in no phase but the three
\* diagnostic ones, run to completion, whose records are numbered one too high.
THEOREM RunnerAlarmsOnlyFromNumbering == Spec => []AlarmsOnlyFromNumbering
<1>1. IInv => AlarmsOnlyFromNumbering
  BY DEF IInv, Counts, Misnumbered, AlarmsOnlyFromNumbering
<1> QED BY <1>1, RunnerInvariant, PTL

=============================================================================
