------------------------------ MODULE MCPresence ------------------------------
(***************************************************************************)
(* Presence, which extends UserManager, with two threads, two players and  *)
(* three user objects.                                                     *)
(***************************************************************************)
EXTENDS Presence, TLC

CONSTANTS t1, t2, o1, o2, o3

MCThreads == {t1, t2}
MCPlayers == 1..2
MCObjects == {o1, o2, o3}

\* Threads and objects are interchangeable.
MCSymmetry == Permutations(MCThreads) \cup Permutations(MCObjects)
=============================================================================
