----------------------------- MODULE MCUserWalks ----------------------------
(***************************************************************************)
(* UserWalks with two threads, two players and two servers.  Walks are     *)
(* for server 1; the other one only has users that are not meant.          *)
(***************************************************************************)
EXTENDS UserWalks, TLC

CONSTANTS t1, t2

MCThreads == {t1, t2}
MCPlayers == 1..2
MCServers == 1..2

Broadcasts == [kind : {"server", "global"}, server : {1}, from : {0}, to : {0}]

\* A first page, a later one, all users, and an empty page.
Pages == {[kind |-> "page", server |-> 1, from |-> w[1], to |-> w[2]] :
            w \in {<<0, 1>>, <<1, 2>>, <<0, -1>>, <<1, 1>>}}

MCJobs == Broadcasts \cup Pages

\* Threads are interchangeable.
MCSymmetry == Permutations(MCThreads)
=============================================================================
