----------------------------- MODULE HeapPromise -----------------------------
(***************************************************************************)
(* What the memory management layer promises to the program: a block is    *)
(* handed out only while nobody else owns it and only from mapped memory,  *)
(* it comes back only by an explicit free, and memory is unmapped only     *)
(* when no block of it is owned.                                           *)
(***************************************************************************)
EXTENDS Integers

CONSTANTS Pages, Capacity

VARIABLES allocated, mapped

Blocks == Pages \X (1 .. Capacity)

Init == allocated = {} /\ mapped = {}

Allocate(b) ==
  /\ b[1] \in mapped
  /\ b \notin allocated
  /\ allocated' = allocated \cup {b}
  /\ UNCHANGED mapped

Release(b) ==
  /\ b \in allocated
  /\ allocated' = allocated \ {b}
  /\ UNCHANGED mapped

Map(p) ==
  /\ p \notin mapped
  /\ mapped' = mapped \cup {p}
  /\ UNCHANGED allocated

Unmap(R) ==
  /\ R \subseteq mapped
  /\ \A b \in allocated : b[1] \notin R
  /\ mapped' = mapped \ R
  /\ UNCHANGED allocated

Next ==
  \/ \E b \in Blocks : Allocate(b) \/ Release(b)
  \/ \E p \in Pages : Map(p)
  \/ \E R \in SUBSET Pages : Unmap(R)

Spec == Init /\ [][Next]_<<allocated, mapped>>

=============================================================================
