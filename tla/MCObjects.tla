------------------------------ MODULE MCObjects ------------------------------
(***************************************************************************)
(* Objects and AllocateManager with two threads, three blocks, and powers  *)
(* of two up to 4 recycled through two rings each: 3 is rounded up to 4, 5 *)
(* is too large to be recycled.                                            *)
(***************************************************************************)
EXTENDS Objects, TLC

CONSTANTS t1, t2, b1, b2, b3

MCThreads == {t1, t2}
MCBlocks == {b1, b2, b3}
MCSymmetry == Permutations(MCThreads) \cup Permutations(MCBlocks)
=============================================================================
