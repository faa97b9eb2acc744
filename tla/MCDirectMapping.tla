-------------------------- MODULE MCDirectMapping --------------------------
(* Regions, modes and sizes for model checking DirectMapping.                *)
EXTENDS DirectMapping, TLC

CONSTANTS t1, t2, r1, r2, r3

Symmetry == Permutations(Threads) \cup Permutations(Regions)

\* Balanced differs from the streaming mode only in not looking into the empty cache.
TwoModes == {"LargeObjectStreaming", "HardenedDebug"}
=============================================================================
