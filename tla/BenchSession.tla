---------------------------- MODULE BenchSession ----------------------------
(***************************************************************************)
(* bench_runner from main's first line to its last: the strategy loader    *)
(* (tools/strategy_loader.h), the optional comparison of the fixed modes,  *)
(* the telemetry server's thread (tools/telemetry_server.cpp) and the      *)
(* benchmarks, whose loops are the steps of BenchWorkloads.                *)
(*                                                                         *)
(* Four kinds of actor run here: the main thread, the workers it starts,   *)
(* the server thread, and a web client, which may stop reading.            *)
(***************************************************************************)
EXTENDS BenchWorkloads, Functions

CONSTANTS
  Configs,      \* command lines: the set of BenchConfig records explored
  ModeCount,    \* fixed modes of the comparison (kModeCount, 8 in the code)
  PhaseMs       \* length of a realtime phase; progress is counted in these units

\* What parse_args and the workload file's parser let through.
ASSUME SessionConstants ==
  /\ Configs \subseteq
       [plugin : BOOLEAN, adaptive : BOOLEAN, profile : STRING, benches : Seq(STRING),
        repeats : Nat \ {0}, compare : BOOLEAN, port : BOOLEAN, template : STRING,
        file : Seq(PhaseKinds), realtime : BOOLEAN, phase_repeat : Nat \ {0}, rate : Nat,
        trace : BOOLEAN]
  /\ ModeCount \in Nat /\ PhaseMs \in Nat \ {0}

VARIABLES
  cfg,          \* BenchConfig
  main,         \* where main is
  benches,      \* benchmarks still to run, with cfg.repeats copies of each
  phases,       \* phases of the running generated_workload still to run
  elapsed,      \* time since the realtime phase began
  before,       \* m.ops when the tick began
  trace,        \* g_local_trace: pairs of phase index and progress bucket
  lib,          \* LoadedStrategy::handle
  comparison,   \* g_comparison_*
  fd, running, srv, client   \* TelemetryServer, and the client's connection

mainVars   == <<cfg, main, benches, phases, elapsed, before, trace, lib, comparison>>
serverVars == <<fd, running, srv, client>>
vars == <<workVars, mainVars, serverVars>>

Idle == [prog |-> << >>, stage |-> 1, i |-> 0, held |-> FALSE, hand |-> Empty, id |-> 1,
         rate |-> 0, phase |-> "idle", index |-> 0, count |-> 0]

set_workload_identity ==
  [phase |-> "none", index |-> 0, count |-> 0, m |-> Zero, running |-> FALSE]

Init ==
  /\ heap = [b \in Blocks |-> Null] /\ invalid = 0 /\ refused = 0
  /\ ptrs = [j \in Slots |-> Empty] /\ m = Zero
  /\ snap = set_workload_identity
  /\ work = Idle /\ done = [t \in Threads |-> {}]
  /\ cfg \in Configs /\ main = "load" /\ benches = << >> /\ phases = << >>
  /\ elapsed = 0 /\ before = 0 /\ trace = << >> /\ lib = "none"
  /\ comparison = [status |-> "disabled", ready |-> FALSE, tried |-> 0, traces |-> 0]
  /\ fd = "closed" /\ running = FALSE /\ srv = "none" /\ client = "none"

Goto(label) == main' = label

----------------------------------------------------------------------------
(* main, up to the benchmarks                                               *)

\* A built-in strategy always loads.  For a plugin dlopen may fail; a library
\* without the entry point or with another API version is closed again.
load_strategy ==
  /\ main = "load"
  /\ \/ ~ cfg.plugin /\ lib' = "none" /\ Goto("profile")
     \/ cfg.plugin /\ lib' = "none" /\ Goto("exit")
     \/ cfg.plugin /\ lib' = "closed" /\ Goto("exit")
     \/ cfg.plugin /\ lib' = "open" /\ Goto("profile")
  /\ UNCHANGED <<workVars, serverVars, cfg, benches, phases, elapsed, before, trace, comparison>>

profile_benches(profile) ==
  CASE profile = "smoke"  -> <<"same_size_64", "random">>
    [] profile = "micro"  -> <<"same_size_64", "same_size_256", "batch", "random">>
    [] profile = "stress" -> <<"random", "fragmentation", "cross_thread_free">>
    [] profile = "all"    -> <<"same_size_64", "same_size_256", "same_size", "batch", "random",
                               "fragmentation", "cross_thread_free", "latency_sample",
                               "phase_changing">>
    [] OTHER -> << >>

\* Each benchmark cfg.repeats times in a row.
Repeated(s) == [n \in 1 .. Len(s) * cfg.repeats |-> s[((n - 1) \div cfg.repeats) + 1]]

Chosen == IF cfg.benches = << >> THEN profile_benches(cfg.profile) ELSE cfg.benches

ChooseBenches ==
  /\ main = "profile"
  /\ IF Chosen = << >> THEN Goto("unload") /\ UNCHANGED benches
                       ELSE Goto("compare") /\ benches' = Repeated(Chosen)
  /\ UNCHANGED <<workVars, serverVars, cfg, phases, elapsed, before, trace, lib, comparison>>

contains_generated_workload == "generated_workload" \in Range(benches)

\* --telemetry-compare-modes: collect the references, or say why not.
Compare ==
  /\ main = "compare"
  /\ IF cfg.compare /\ cfg.adaptive /\ contains_generated_workload
     THEN comparison' = [status |-> "collecting", ready |-> FALSE, tried |-> 0, traces |-> 0]
          /\ Goto("collect")
     ELSE comparison' = [comparison EXCEPT !.status = IF cfg.compare THEN "requires" ELSE @]
          /\ Goto("serve")
  /\ UNCHANGED <<workVars, serverVars, cfg, benches, phases, elapsed, before, trace, lib>>

\* One child process per fixed mode; it counts if it exits with status 0 and
\* printed at least one trace point.
capture_fixed_mode_reference ==
  /\ main = "collect" /\ comparison.tried < ModeCount
  /\ \E ok \in {0, 1} :
       comparison' = [comparison EXCEPT !.tried = @ + 1, !.traces = @ + ok]
  /\ UNCHANGED <<workVars, serverVars, cfg, main, benches, phases, elapsed, before, trace, lib>>

collect_mode_comparison_traces ==
  /\ main = "collect" /\ comparison.tried = ModeCount
  /\ LET ready == comparison.traces > 0
     IN comparison' = [comparison EXCEPT !.ready = ready,
                                         !.status = IF ready THEN "ready" ELSE "unavailable"]
  /\ Goto("serve")
  /\ UNCHANGED <<workVars, serverVars, cfg, benches, phases, elapsed, before, trace, lib>>

\* TelemetryServer::start: the socket may be refused, or the port taken.
start ==
  /\ main = "serve"
  /\ \/ ~ cfg.port /\ Goto("bench") /\ UNCHANGED <<snap, fd, running, srv>>
     \/ cfg.port /\ snap' = set_workload_identity /\ Goto("unload") /\ UNCHANGED <<fd, running, srv>>
     \/ /\ cfg.port /\ snap' = set_workload_identity /\ Goto("bench")
        /\ fd' = "open" /\ running' = TRUE /\ srv' = "loop"
  /\ UNCHANGED <<heap, invalid, refused, ptrs, m, work, done, client>>
  /\ UNCHANGED <<cfg, benches, phases, elapsed, before, trace, lib, comparison>>

----------------------------------------------------------------------------
(* The benchmarks                                                           *)

generated_template(name) ==
  CASE name = "tiny_cache_churn"    -> <<"TinyCacheChurn">>
    [] name = "remote_dominant"     -> <<"RemoteDominant">>
    [] name = "medium_frag_strong"  -> <<"MediumFragStrong">>
    [] name = "rss_decay_hold"      -> <<"RssDecayHold">>
    [] name = "throughput_churn"    -> <<"SmallChurn", "LatencyLoop">>
    [] name = "remote_queue"        -> <<"SmallChurn", "RemoteFree">>
    [] name = "large_burst"         -> <<"SmallChurn", "LargeBurst">>
    [] name = "rss_peak_release"    -> <<"PeakRelease", "SmallChurn">>
    [] name = "fragmentation_drift" -> <<"FragmentationDrift">>
    [] name = "latency_loop"        -> <<"LatencyLoop">>
    [] OTHER -> <<"SmallChurn", "FragmentationDrift", "RemoteFree", "LargeBurst",
                  "PeakRelease", "LatencyLoop">>

\* A configuration file lists kinds of its own; one that cannot be read, or
\* lists none, falls back to the template.
WorkloadPhases == IF cfg.file = << >> THEN generated_template(cfg.template) ELSE cfg.file

KnownBenches ==
  {"same_size", "same_size_64", "same_size_256", "batch", "random", "fragmentation",
   "cross_thread_free", "latency_sample", "phase_changing", "throughput_server",
   "realtime_latency", "memory_constrained", "producer_consumer", "large_streaming",
   "debug_safety", "generated_workload"}

sessionOnly == <<cfg, trace, lib, comparison, serverVars>>

\* An unknown name ends the run at once.
NextBench ==
  /\ main = "bench"
  /\ IF benches = << >> THEN Goto("unload") /\ UNCHANGED work
     ELSE IF Head(benches) \notin KnownBenches THEN Goto("unload") /\ UNCHANGED work
     ELSE IF Head(benches) = "generated_workload" THEN Goto("identity") /\ UNCHANGED work
     ELSE /\ Goto("work")
          /\ work' = [Began(run_one(Head(benches), cfg.adaptive)) EXCEPT !.phase = "idle"]
  /\ UNCHANGED <<sessionOnly, benches, phases, elapsed, before>>
  /\ UNCHANGED <<heap, invalid, refused, ptrs, m, snap, done>>

BenchDone ==
  /\ main = "work" /\ ~ Running
  /\ ptrs' = [j \in Slots |-> Empty]
  /\ benches' = Tail(benches)
  /\ Goto("bench")
  /\ UNCHANGED <<sessionOnly, phases, elapsed, before>>
  /\ UNCHANGED <<heap, invalid, refused, m, snap, work, done>>

\* Mutant: the repetitions are not counted.
TotalPhasesOnce == Len(WorkloadPhases)
TotalPhases == Len(WorkloadPhases) * Max({1, cfg.phase_repeat})

\* All the phases, once per repetition.
RepeatedPhases ==
  [n \in 1 .. Len(WorkloadPhases) * Max({1, cfg.phase_repeat}) |->
     WorkloadPhases[((n - 1) % Len(WorkloadPhases)) + 1]]

\* generated_workload: the identity and the first figures are published by two
\* separate critical sections.
GeneratedIdentity ==
  /\ main = "identity"
  /\ snap' = set_workload_identity
  /\ m' = Zero
  /\ phases' = IF cfg.realtime THEN RepeatedPhases ELSE WorkloadPhases
  /\ Goto("starting")
  /\ UNCHANGED <<sessionOnly, benches, elapsed, before>>
  /\ UNCHANGED <<heap, invalid, refused, ptrs, work, done>>

GeneratedStart ==
  /\ main = "starting"
  /\ update_workload_snapshot("starting", 0, TotalPhases, m, TRUE)
  /\ work' = [Idle EXCEPT !.rate = cfg.rate, !.index = -1,
                          !.count = IF cfg.realtime THEN TotalPhases ELSE Len(WorkloadPhases)]
  /\ Goto("phase")
  /\ UNCHANGED <<sessionOnly, benches, phases, elapsed, before>>
  /\ UNCHANGED <<heap, invalid, refused, ptrs, m, done>>

\* The next phase, or the final figures.  A benchmark phase is published
\* before it runs, a realtime phase after each tick.
GeneratedPhase ==
  /\ main = "phase"
  /\ IF phases = << >>
     THEN /\ update_workload_snapshot("finished", TotalPhases, TotalPhases, m, FALSE)
          /\ benches' = Tail(benches)
          /\ Goto("bench")
          /\ UNCHANGED <<work, phases, elapsed>>
     ELSE LET next == [work EXCEPT !.phase = Head(phases), !.index = @ + 1, !.id = 1]
              prog == GeneratedProgram(Head(phases))
          IN /\ IF cfg.realtime
                THEN work' = next /\ UNCHANGED snap /\ Goto("tick")
                ELSE /\ work' = [next EXCEPT !.prog = prog, !.stage = 1, !.i = 0]
                     /\ update_workload_snapshot(next.phase, next.index, next.count, m, TRUE)
                     /\ Goto("run_phase")
             /\ elapsed' = 0
             /\ UNCHANGED <<benches, phases>>
  /\ UNCHANGED <<sessionOnly, before>>
  /\ UNCHANGED <<heap, invalid, refused, ptrs, m, done>>

PhaseDone ==
  /\ main = "run_phase" /\ ~ Running
  /\ ptrs' = [j \in Slots |-> Empty]
  /\ phases' = Tail(phases)
  /\ Goto("phase")
  /\ UNCHANGED <<sessionOnly, benches, elapsed, before>>
  /\ UNCHANGED <<heap, invalid, refused, m, snap, work, done>>

\* run_generated_realtime: ticks until the phase's time is over, then cleanup.  The
\* thread may be held up before it reads the clock, so that the time is over even
\* before the first tick.
TickBegin ==
  /\ main = "tick"
  /\ \/ /\ elapsed < PhaseMs
        /\ work' = Began(run_realtime_phase_chunk(work.phase, elapsed # 0))
        /\ Goto("run_tick") /\ UNCHANGED elapsed
     \/ /\ work' = Began(cleanup_realtime_state)
        /\ Goto("cleanup") /\ elapsed' = PhaseMs
  /\ before' = Ops(m)
  /\ UNCHANGED <<sessionOnly, benches, phases>>
  /\ UNCHANGED <<heap, invalid, refused, ptrs, m, snap, done>>

\* maybe_record_trace_point: only while operations happen, and once per bucket.
maybe_record_trace_point(index, bucket) ==
  trace' = IF cfg.trace /\ Ops(m) > before /\ (trace = << >> \/ trace[Len(trace)] # <<index, bucket>>)
           THEN Append(trace, <<index, bucket>>) ELSE trace

\* The tick's figures are published with the time reached after its operations;
\* the sleep that follows lets at least one unit pass.
TickEnd ==
  /\ main = "run_tick" /\ ~ Running
  /\ \E at \in elapsed .. PhaseMs : \E wake \in Max({at, elapsed + 1}) .. PhaseMs :
       /\ maybe_record_trace_point(work.index, at)
       /\ elapsed' = wake
  /\ publish_generated(m)
  /\ Goto("tick")
  /\ UNCHANGED <<cfg, lib, comparison, serverVars, benches, phases, before>>
  /\ UNCHANGED <<heap, invalid, refused, ptrs, m, work, done>>

CleanupDone ==
  /\ main = "cleanup" /\ ~ Running
  /\ publish_generated(m)
  /\ ptrs' = [j \in Slots |-> Empty]
  /\ phases' = Tail(phases)
  /\ Goto("phase")
  /\ UNCHANGED <<sessionOnly, benches, elapsed, before>>
  /\ UNCHANGED <<heap, invalid, refused, m, work, done>>

Work == WorkStep /\ UNCHANGED <<mainVars, serverVars>>

----------------------------------------------------------------------------
(* The end of main, and TelemetryServer::stop (also its destructor)         *)

unload_strategy ==
  /\ main = "unload"
  /\ lib' = IF lib = "open" THEN "closed" ELSE lib
  /\ Goto("stop")
  /\ UNCHANGED <<workVars, serverVars, cfg, benches, phases, elapsed, before, trace, comparison>>

stop ==
  /\ \/ main = "stop" /\ running' = FALSE /\ Goto("shutdown") /\ UNCHANGED fd
     \/ /\ main = "shutdown" /\ Goto("join")
        /\ fd' = IF fd = "open" THEN "shutdown" ELSE fd
        /\ UNCHANGED running
     \/ main = "join" /\ srv \in {"none", "ended"} /\ Goto("close") /\ UNCHANGED <<fd, running>>
     \/ main = "close" /\ fd' = "closed" /\ Goto("exit") /\ UNCHANGED running
  /\ UNCHANGED <<workVars, cfg, benches, phases, elapsed, before, trace, lib, comparison, srv, client>>

Exited == main = "exit" /\ UNCHANGED vars

----------------------------------------------------------------------------
(* The server thread and its client                                         *)

Serve(label) == srv' = label /\ UNCHANGED <<workVars, mainVars, fd, running>>

\* run: the flag is tested between two waits of at most 200 ms.
\* Mutant: the flag is not tested again.
ServerLoopsOn == srv = "loop" /\ Serve("select") /\ UNCHANGED client
ServerLoop == srv = "loop" /\ Serve(IF running THEN "select" ELSE "ended") /\ UNCHANGED client
ServerTimeout == srv = "select" /\ Serve("loop") /\ UNCHANGED client
ServerReady == srv = "select" /\ (client = "queued" \/ fd # "open") /\ Serve("accept") /\ UNCHANGED client
ServerAccept ==
  /\ srv = "accept"
  /\ IF fd = "open" /\ client = "queued" THEN client' = "open" /\ Serve("handle")
                                         ELSE UNCHANGED client /\ Serve("loop")

\* handle_client: nothing to answer when no request arrives within the wait;
\* otherwise the answer is built at once and sent, however slowly it is read.
ServerHandle ==
  /\ srv = "handle"
  /\ \/ Serve("loop") /\ client' = "none"
     \/ Serve("send") /\ client' \in {"open", "stalled"}
send_all == srv = "send" /\ client = "open" /\ Serve("loop") /\ client' = "none"

ClientConnects == client = "none" /\ fd = "open" /\ client' = "queued"
                  /\ UNCHANGED <<workVars, mainVars, fd, running, srv>>
\* A client that had stopped reading reads on, or hangs up.
ClientResumes == client = "stalled" /\ client' = "open"
                 /\ UNCHANGED <<workVars, mainVars, fd, running, srv>>

Main ==
  \/ load_strategy \/ ChooseBenches \/ Compare
  \/ capture_fixed_mode_reference \/ collect_mode_comparison_traces \/ start
  \/ NextBench \/ BenchDone
  \/ GeneratedIdentity \/ GeneratedStart \/ GeneratedPhase \/ PhaseDone
  \/ TickBegin \/ TickEnd \/ CleanupDone
  \/ unload_strategy \/ stop

Server == ServerLoop \/ ServerTimeout \/ ServerReady \/ ServerAccept \/ ServerHandle \/ send_all

Next == Main \/ Work \/ Server \/ ClientConnects \/ ClientResumes \/ Exited

Spec == Init /\ [][Next]_vars

\* Threads that can run do run, and clients do not stall for ever.
FairSpec == Spec /\ WF_vars(Main) /\ WF_vars(Work) /\ WF_vars(Server) /\ WF_vars(ClientResumes)

----------------------------------------------------------------------------
(* Properties                                                               *)

Live == {b \in Blocks : heap[b] # Null}
AtBoundary == main \in {"bench", "phase", "unload", "exit"}

\* However a workload moves its pointers between slots and threads, it frees no
\* block twice and none it does not own: only debug_safety under the adaptive
\* strategy does, on purpose.
FreesAreDeliberate ==
  invalid > 0 => cfg.adaptive /\ "debug_safety" \in Range(cfg.benches)

\* Whatever way main leaves, by any of its early returns too, the plugin is
\* closed and the server's socket is, which never happens before its thread has
\* ended; and no block is left allocated between two benchmarks or phases unless
\* random_workload overwrote its pointer with the null result of a refused
\* reallocate.
NothingLeftBehind ==
  /\ main = "exit" => lib # "open" /\ fd = "closed"
  /\ fd = "closed" => srv \in {"none", "ended"}
  /\ AtBoundary => Cardinality(Live) <= refused
  /\ AtBoundary /\ Live # {} => "random" \in Range(Chosen)

\* As long as no request is refused, the live objects and bytes a generated
\* workload publishes are those of the heap at that moment, whichever phase
\* publishes them and whichever threads freed them.
PublishedIsLive ==
  [][snap' # snap /\ refused' = 0 =>
       /\ snap'.m.live_objects = Cardinality(Live')
       /\ snap'.m.live_bytes = MapThenSumSet(LAMBDA b : heap'[b].size, Live')]_vars

\* A client that polls /snapshot never sees the figures of a run go back or
\* disagree: until the next run resets them, the phase index and the counters
\* only grow, a running phase is one of those announced, and every object counted
\* as allocated is counted as live or freed.
SnapshotsAdvance ==
  [][snap' # snap =>
       \/ snap' = set_workload_identity
       \/ /\ snap'.index >= snap.index
          /\ snap'.running => snap'.index < snap'.count
          /\ snap'.m.allocs >= snap.m.allocs
          /\ snap'.m.frees >= snap.m.frees
          /\ snap'.m.allocs = snap'.m.frees + snap'.m.live_objects]_vars

\* The payload checks of a generated workload report an error only where the
\* code itself numbers a record one too high: in the diagnostic phases, run to
\* completion.  Every other check agrees with what was written, whichever blocks
\* the allocator reuses or moves in between.
AlarmsOnlyFromNumbering ==
  m.errors > 0 =>
    /\ ~ cfg.realtime
    /\ Range(WorkloadPhases) \cap {"TinyCacheChurn", "MediumFragStrong", "RssDecayHold"} # {}

\* main returns: no order of its steps, the server's and a client's leaves stop waiting
\* for ever for a server that waits for a request, provided that a client which stops
\* reading its answer reads on or hangs up in the end.
Exits == <>(main = "exit")
=============================================================================
