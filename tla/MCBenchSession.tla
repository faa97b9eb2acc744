--------------------------- MODULE MCBenchSession ---------------------------
(* Small instances of BenchSession for TLC.                                 *)
EXTENDS BenchSession, TLC

CONSTANTS b1, b2, b3, b4

Base == [plugin |-> FALSE, adaptive |-> TRUE, profile |-> "smoke", benches |-> << >>,
         repeats |-> 1, compare |-> FALSE, port |-> FALSE, template |-> "adaptive_mix",
         file |-> << >>, realtime |-> FALSE, phase_repeat |-> 1, rate |-> 0, trace |-> FALSE]

Bench(name) == [Base EXCEPT !.benches = <<name>>]
Gen(kind) == [Bench("generated_workload") EXCEPT !.file = <<kind>>, !.rate = 1]
Rt(kind) == [Gen(kind) EXCEPT !.realtime = TRUE, !.trace = TRUE]

SessionConfigs ==
  {Bench(n) : n \in {"batch", "random", "fragmentation", "cross_thread_free", "phase_changing",
                     "debug_safety", "no_such_bench"}}
  \cup {[Base EXCEPT !.profile = "none"], [Base EXCEPT !.plugin = TRUE]}
  \cup {Gen(k) : k \in PhaseKinds} \cup {Rt(k) : k \in PhaseKinds}
  \cup {[Rt("SmallChurn") EXCEPT !.port = TRUE, !.compare = TRUE, !.trace = FALSE],
        [Gen("RemoteFree") EXCEPT !.port = TRUE, !.plugin = TRUE, !.repeats = 2],
        [Rt("SmallChurn") EXCEPT !.phase_repeat = 2], [Gen("PeakRelease") EXCEPT !.phase_repeat = 2]}
=============================================================================
