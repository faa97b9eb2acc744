-------------------------- MODULE MemalignRounding --------------------------
(***************************************************************************)
(* The rounding of an alignment in adaptive_memalign                       *)
(* (src/adaptive_allocator.cpp), bit by bit, against the least power of    *)
(* two that RequestSizing uses for it.                                     *)
(***************************************************************************)
EXTENDS RequestSizing, Bitwise

\* alignment |= alignment >> n
Smear(a, n) == a | shiftR(a, n)

\* The two widest shifts left out.
SmearedThrough4(a) ==
  IF a & (a - 1) = 0 THEN a
  ELSE (Smear(Smear(Smear(a - 1, 1), 2), 4) + 1) % Word

\* A shift of 32 changes nothing below 2^32, so the last one is left out.
Smeared(a) ==
  IF a & (a - 1) = 0 THEN a
  ELSE (Smear(Smear(Smear(Smear(Smear(a - 1, 1), 2), 4), 8), 16) + 1) % Word

\* The shifts of adaptive_memalign find the least power of two not below the
\* alignment, and 0 exactly when no such power fits in the word.
SmearingRounds == req.align > 16 => Smeared(req.align) = RoundedAlignment(req.align)
=============================================================================
