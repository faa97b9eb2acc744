-------------------------- MODULE MCOwnershipTable --------------------------
(* Small instances of OwnershipTable for TLC: four slots, two probes.       *)
EXTENDS OwnershipTable, TLC

CONSTANTS t1, t2, t3

\* Pages 1, 5 and 9 share their home slot; <<5, 6>> is a region of two pages
\* whose second page competes for the overflow slot of the others.
MCPages == {1, 5, 6, 9}
MCRegions == {<<1, 1>>, <<5, 6>>, <<9, 9>>}

Symmetry == Permutations(Threads)
=============================================================================
