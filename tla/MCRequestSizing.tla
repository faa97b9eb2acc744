-------------------------- MODULE MCRequestSizing --------------------------
(* Boundary sizes, alignments and addresses for model checking             *)
(* RequestSizing and MemalignRounding with a word of 2^22.                 *)
EXTENDS MemalignRounding

W == 2^22
P2 == {2^i : i \in 0 .. 21}
Around(S, d) == {n + i : n \in S, i \in -d .. d} \cap (0 .. W - 1)

Edges == {0, 16, 1008, 1024, 1537, 2048, 4096, 16384, 64512, 65536, 98304, 262144}
BoundarySizes == Around(Edges, 1) \cup Around({W - 4096 - 112, W - 112, W - 16, W - 1}, 2)
SomeAlignments == Around({16, 64, 4096, 65536, 2^20, 2^21}, 1) \cup {5000}
SomeRegions == {4096, 12288, 2^20 + 4096}
=============================================================================
