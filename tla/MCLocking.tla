------------------------------ MODULE MCLocking -------------------------------
(***************************************************************************)
(* Locking with three threads, two rooms and one user.                     *)
(***************************************************************************)
EXTENDS Locking, TLC

CONSTANTS t1, t2, t3

MCThreads == {t1, t2, t3}
MCSymmetry == Permutations(MCThreads)
=============================================================================
