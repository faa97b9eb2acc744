--------------------------- MODULE MCPreloadHooks ---------------------------
(* A small instance of PreloadHooks for TLC.                                *)
EXTENDS PreloadHooks, TLC

CONSTANTS l1, l2, a1, a2

Symmetry == {f @@ g : f \in Permutations(Libc), g \in Permutations(Adaptive)}
=============================================================================
