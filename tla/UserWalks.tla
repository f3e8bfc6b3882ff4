----------------------------- MODULE UserWalks ------------------------------
(***************************************************************************)
(* The walks over the map of users (VChatLib/VUserManager.cpp):            *)
(* SendServerPacket, SendGlobalPacket and GetUserIDArray.                  *)
(*                                                                         *)
(* A walk holds m_Mutex shared, so that walks run side by side and keep    *)
(* logins and logouts out.  The users do not wait: when a connection ends, *)
(* a session thread clears the id, the server and the session of a user    *)
(* that a walk may be looking at, and the thread that logs a user in gives *)
(* it its server when it is in the map already.  UserManager has the       *)
(* writers in detail; here a login is one step.                            *)
(***************************************************************************)
EXTENDS Integers, FiniteSets, Sequences, SequencesExt

CONSTANTS Threads,      \* the threads that walk
          Players,      \* player ids, the keys of the map
          Servers,      \* ids of the game servers
          Jobs,         \* the walks: kind, server, nFrom and nTo
          NoUser, NoJob

ASSUME UserWalksAssumption ==
  /\ IsFiniteSet(Players) /\ Players \subseteq Nat \ {0}
  /\ Servers \subseteq Nat \ {0}
  /\ Jobs \subseteq [kind : {"server", "global", "page"}, server : Servers,
                     from : Nat, to : Int]
  /\ NoJob \notin Jobs
  /\ NoUser \notin [id : Players \cup {0}, server : Servers \cup {0}, live : BOOLEAN]

VARIABLES users,        \* m_pUsers: id, server and session of each user
          job,          \* what each thread is doing; nTo once normalised
          pc,           \* where it is: at the test of an entry, at its use, ...
          at,           \* the key its iterator has reached
          i,            \* the counter i of GetUserIDArray
          out,          \* the ids listed, or the keys the packet was sent to
          changed       \* history: the users that changed since the walk began

vars == <<users, job, pc, at, i, out, changed>>

Registered == {k \in Players : users[k] # NoUser}
Walking == {t \in Threads : pc[t] # "idle"}
Ahead(t) == {k \in Registered : k > at[t]}
MinKey(S) == CHOOSE k \in S : \A j \in S : k <= j

Init ==
  /\ users = [k \in Players |-> NoUser]
  /\ job = [t \in Threads |-> NoJob]
  /\ pc = [t \in Threads |-> "idle"]
  /\ at = [t \in Threads |-> 0]
  /\ i = [t \in Threads |-> 0]
  /\ out = [t \in Threads |-> <<>>]
  /\ changed = [t \in Threads |-> {}]

\* The lock is taken; a negative nTo is the size of the map, and a page
\* without places is not walked for.
Begin(t, j) ==
  /\ pc[t] = "idle"
  /\ LET to == IF j.to < 0 THEN Cardinality(Registered) ELSE j.to IN
       /\ job' = [job EXCEPT ![t] = [j EXCEPT !.to = to]]
       /\ pc' = [pc EXCEPT ![t] =
                   IF j.kind = "page" /\ j.from >= to THEN "done" ELSE "test"]
  /\ UNCHANGED <<users, at, i, out, changed>>

-----------------------------------------------------------------------------
\* Mutant of VisitPage: users of other servers are counted.
VisitPageCountsAll(t, k) ==
  /\ job[t].kind = "page"
  /\ i' = [i EXCEPT ![t] = @ + 1]
  /\ pc' = [pc EXCEPT ![t] =
              IF users[k].server # job[t].server THEN @
              ELSE IF i[t] >= job[t].to THEN "done"
              ELSE IF i[t] >= job[t].from THEN "use" ELSE @]

\* GetUserIDArray at an entry: users of the server are counted, those from
\* nFrom on are listed, and the walk ends at nTo.
VisitPage(t, k) ==
  /\ job[t].kind = "page"
  /\ \/ users[k].server # job[t].server /\ UNCHANGED <<pc, i>>
     \/ /\ users[k].server = job[t].server
        /\ i[t] >= job[t].to
        /\ pc' = [pc EXCEPT ![t] = "done"]
        /\ UNCHANGED i
     \/ /\ users[k].server = job[t].server
        /\ i[t] < job[t].to
        /\ i' = [i EXCEPT ![t] = @ + 1]
        /\ pc' = [pc EXCEPT ![t] = IF i[t] >= job[t].from THEN "use" ELSE @]

\* SendServerPacket at an entry.
VisitServer(t, k) ==
  /\ job[t].kind = "server"
  /\ pc' = [pc EXCEPT ![t] = IF users[k].server = job[t].server THEN "use" ELSE @]
  /\ UNCHANGED i

\* SendGlobalPacket at an entry.
VisitGlobal(t, k) ==
  /\ job[t].kind = "global"
  /\ pc' = [pc EXCEPT ![t] = "use"]
  /\ UNCHANGED i

Visit(t) ==
  /\ pc[t] = "test" /\ Ahead(t) # {}
  /\ LET k == MinKey(Ahead(t)) IN
       /\ at' = [at EXCEPT ![t] = k]
       /\ VisitPage(t, k) \/ VisitServer(t, k) \/ VisitGlobal(t, k)
  /\ UNCHANGED <<users, job, out, changed>>

\* push_back(pUser->GetPlayerID())
ListUser(t) ==
  /\ pc[t] = "use" /\ job[t].kind = "page"
  /\ out' = [out EXCEPT ![t] = Append(@, users[at[t]].id)]
  /\ pc' = [pc EXCEPT ![t] = "test"]
  /\ UNCHANGED <<users, job, at, i, changed>>

\* SendBufferPtr(buffer): a user without a session is passed over.
SendBufferPtr(t) ==
  /\ pc[t] = "use" /\ job[t].kind # "page"
  /\ out' = [out EXCEPT ![t] = IF users[at[t]].live THEN Append(@, at[t]) ELSE @]
  /\ pc' = [pc EXCEPT ![t] = "test"]
  /\ UNCHANGED <<users, job, at, i, changed>>

\* it == e
End(t) ==
  /\ pc[t] = "test" /\ Ahead(t) = {}
  /\ pc' = [pc EXCEPT ![t] = "done"]
  /\ UNCHANGED <<users, job, at, i, out, changed>>

\* The lock is released.
Return(t) ==
  /\ pc[t] = "done"
  /\ job' = [job EXCEPT ![t] = NoJob]
  /\ pc' = [pc EXCEPT ![t] = "idle"]
  /\ at' = [at EXCEPT ![t] = 0]
  /\ i' = [i EXCEPT ![t] = 0]
  /\ out' = [out EXCEPT ![t] = <<>>]
  /\ changed' = [changed EXCEPT ![t] = {}]
  /\ UNCHANGED users

-----------------------------------------------------------------------------
\* Mutant of AddUser: the map is changed without the lock.
AddUserUnlocked(k) ==
  /\ users' = [users EXCEPT ![k] = [id |-> k, server |-> 0, live |-> TRUE]]
  /\ UNCHANGED <<job, pc, at, i, out, changed>>

\* CreateUser and AddUser: a new user under its id, in the place of an older
\* one if there is one, while nobody walks.
AddUser(k) ==
  /\ Walking = {}
  /\ users' = [users EXCEPT ![k] = [id |-> k, server |-> 0, live |-> TRUE]]
  /\ UNCHANGED <<job, pc, at, i, out, changed>>

\* RemoveUser: the user is erased if its id still finds it.
RemoveUser(k) ==
  /\ Walking = {}
  /\ users[k] # NoUser /\ users[k].id = k
  /\ users' = [users EXCEPT ![k] = NoUser]
  /\ UNCHANGED <<job, pc, at, i, out, changed>>

\* A field of a user is set, without the lock.
Update(k, user) ==
  /\ users' = [users EXCEPT ![k] = user]
  /\ changed' = [t \in Threads |-> IF t \in Walking THEN changed[t] \cup {k} ELSE {}]
  /\ UNCHANGED <<job, pc, at, i, out>>

\* The login goes on after CreateUser: the user gets its server.
SetServerID(k, s) ==
  /\ users[k] # NoUser /\ users[k].id = k /\ users[k].server = 0
  /\ Update(k, [users[k] EXCEPT !.server = s])

\* VChatUser::CloseSession: m_nPlayerID = 0;
ClosePlayerID(k) ==
  /\ users[k] # NoUser /\ users[k].id = k
  /\ Update(k, [users[k] EXCEPT !.id = 0])

\* m_nServerID = 0;
CloseServerID(k) ==
  /\ users[k] # NoUser /\ users[k].id = 0 /\ users[k].server # 0
  /\ Update(k, [users[k] EXCEPT !.server = 0])

\* SetState(LOGOUT), which drops the session.
CloseState(k) ==
  /\ users[k] # NoUser /\ users[k].id = 0 /\ users[k].server = 0 /\ users[k].live
  /\ Update(k, [users[k] EXCEPT !.live = FALSE])

Next ==
  \/ \E t \in Threads :
       \/ \E j \in Jobs : Begin(t, j)
       \/ Visit(t) \/ ListUser(t) \/ SendBufferPtr(t) \/ End(t) \/ Return(t)
  \/ \E k \in Players :
       \/ AddUser(k) \/ RemoveUser(k)
       \/ \E s \in Servers : SetServerID(k, s)
       \/ ClosePlayerID(k) \/ CloseServerID(k) \/ CloseState(k)

Spec == Init /\ [][Next]_vars

-----------------------------------------------------------------------------
\* Type invariant.
TypeOK ==
  /\ users \in [Players -> {NoUser} \cup [id : Players \cup {0},
                                          server : Servers \cup {0}, live : BOOLEAN]]
  /\ job \in [Threads -> {NoJob} \cup [kind : {"server", "global", "page"},
                                       server : Servers, from : Nat, to : Nat]]
  /\ pc \in [Threads -> {"idle", "test", "use", "done"}]
  /\ at \in [Threads -> Players \cup {0}]
  /\ i \in [Threads -> 0..Cardinality(Players)]
  /\ out \in [Threads -> Seq(Players \cup {0})]
  /\ changed \in [Threads -> SUBSET Players]

\* A broadcast that returns has reached, once each, every user it was for that
\* is registered and has a session: none slipped in behind the walk, and none
\* was reached twice.  Of a server's broadcast this is said of the users whose
\* server did not change meanwhile, and it went to nobody else among those.
BroadcastReaches ==
  \A t \in Threads :
    pc[t] = "done" /\ job[t].kind # "page" =>
      /\ IsInjective(out[t])
      /\ \A k \in Registered :
           LET meant == job[t].kind = "global" \/ users[k].server = job[t].server
               known == job[t].kind = "global" \/ k \notin changed[t]
           IN known => (meant /\ users[k].live => Contains(out[t], k))
                       /\ (Contains(out[t], k) => meant)

\* The keys of a set in the order of the map.
InOrder(S) ==
  CHOOSE f \in [1..Cardinality(S) -> S] : \A a, b \in DOMAIN f : a < b => f[a] < f[b]

\* What a page is meant to be: places nFrom to nTo - 1 of the server's users.
PageOf(j) ==
  LET keys == InOrder({k \in Registered : users[k].server = j.server})
      last == IF j.to < Len(keys) THEN j.to ELSE Len(keys)
  IN [n \in 1..(IF last > j.from THEN last - j.from ELSE 0) |-> users[keys[j.from + n]].id]

\* A page is that part of the list if no user changed during the walk.  In any
\* case it never has more entries than were asked for, and is in order without
\* repetition, but for the zeros of users whose connection ended meanwhile; and
\* everything keeps its type.
PageSound ==
  /\ TypeOK
  /\ \A t \in Threads :
       pc[t] # "idle" /\ job[t].kind = "page" =>
         /\ pc[t] = "done" /\ changed[t] = {} => out[t] = PageOf(job[t])
         /\ Len(out[t]) = 0 \/ Len(out[t]) <= job[t].to - job[t].from
         /\ \A m, n \in DOMAIN out[t] :
              m < n /\ out[t][m] # 0 /\ out[t][n] # 0 => out[t][m] < out[t][n]
=============================================================================
