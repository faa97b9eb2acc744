--------------------------- MODULE MCPooledStorage ---------------------------
(* Small instances of PooledStorage for TLC.                                *)
EXTENDS PooledStorage, TLC

CONSTANTS t1, t2, p1, p2, c1, c2

Pol(tc, drain, pack, batch, limit, act, rq, keep) ==
  [use_thread_cache |-> tc, drain_remote_queue |-> drain,
   prefer_occupancy_packing |-> pack, batch_size |-> batch,
   tcache_limit |-> [c \in Classes |-> limit], action |-> act, use_remote_queue |-> rq,
   empty_keep_limit |-> keep]

\* The shapes of src/adaptive_modes.cpp with limits scaled to small pages.
MCPolicy ==
  [balanced   |-> Pol(FALSE, FALSE, FALSE, 2, 0, "ReturnToCentralPool", FALSE, 1),
   compact    |-> Pol(FALSE, FALSE, TRUE, 2, 0, "Purge", FALSE, 0),
   cross      |-> Pol(TRUE, TRUE, FALSE, 2, 2, "Cache", TRUE, 1)]
\* One block per bin: a second free of a bin goes to the pool, whose empty page
\* CrossThread keeps and Compact does not.
CrossCompact ==
  [compact |-> MCPolicy.compact,
   cross   |-> Pol(TRUE, TRUE, FALSE, 2, 1, "Cache", TRUE, 1)]

Symmetry == {f @@ g : f \in Permutations(Threads), g \in Permutations(Pages)}

SameHome == [t \in Threads |-> 0]
=============================================================================
