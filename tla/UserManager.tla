---------------------------- MODULE UserManager -----------------------------
(***************************************************************************)
(* vchat::VUserManager (VChatLib/VUserManager.cpp): the users that are     *)
(* logged in, by player id.                                                *)
(*                                                                         *)
(* The map is guarded by a shared mutex, but CreateUser and AddUser read   *)
(* the count under one acquisition and insert under another.  The users    *)
(* themselves change without it: when its connection ends, a session       *)
(* thread runs VChatUser::CloseSession, which clears the player id the map *)
(* is searched by.  User objects are Objects; Close, SetSessionEx and      *)
(* SetPlayerID are members the headers do not declare and are taken from   *)
(* how they are used.                                                      *)
(***************************************************************************)
EXTENDS Integers, FiniteSets

CONSTANTS Threads,      \* the io threads that log users in and out
          Players,      \* player ids; CloseSession sets the id to 0
          Objects,      \* the VChatUser objects that may be created
          MaxPlayer,    \* m_nMaxPlayer
          NoUser, NoThread

ASSUME UserManagerAssumption ==
  /\ IsFiniteSet(Threads) /\ Threads # {}
  /\ IsFiniteSet(Players) /\ Players \subseteq Nat \ {0}
  /\ MaxPlayer \in Nat
  /\ NoUser \notin Objects /\ NoThread \notin Threads

VARIABLES users,        \* m_pUsers: the object registered under each key
          writer,       \* the thread that holds m_Mutex exclusively
          player,       \* m_nPlayerID of each object
          state,        \* whether an object exists, is logged in, closed, ...
          added,        \* history: the objects that were put into the map
          pc,           \* where each thread is in CreateUser, AddUser and RemoveUser
          user          \* the object a thread is working on

vars == <<users, writer, player, state, added, pc, user>>

Keys == Players \cup {0}
Registered == {k \in Keys : users[k] # NoUser}

\* Mutant of Count: users whose connection has ended are left out.
CountConnected == Cardinality({k \in Registered : state[users[k]] = "login"})

Count == Cardinality(Registered)
Exists(o) == state[o] \notin {"none", "destroyed"}

Init ==
  /\ users = [k \in Keys |-> NoUser]
  /\ writer = NoThread
  /\ player = [o \in Objects |-> 0]
  /\ state = [o \in Objects |-> "none"]
  /\ added = {}
  /\ pc = [t \in Threads |-> "idle"]
  /\ user = [t \in Threads |-> NoUser]

\* CreateUser: below the limit, a user is made for the login's session.
CreateUser(t, o, id) ==
  /\ pc[t] = "idle" /\ writer = NoThread
  /\ Count < MaxPlayer
  /\ state[o] = "none"
  /\ state' = [state EXCEPT ![o] = "login"]
  /\ player' = [player EXCEPT ![o] = id]
  /\ user' = [user EXCEPT ![t] = o]
  /\ pc' = [pc EXCEPT ![t] = "add"]
  /\ UNCHANGED <<users, writer, added>>

\* Mutant of AddUser: a refused user is inserted all the same.
AddUserRefused(t) ==
  /\ pc[t] = "add" /\ writer = NoThread
  /\ pc' = [pc EXCEPT ![t] = "insert"]
  /\ state' = [state EXCEPT ![user[t]] = IF Count < MaxPlayer THEN @ ELSE "destroyed"]
  /\ UNCHANGED <<users, writer, player, added, user>>

\* AddUser counts again; refused, the only reference to the user goes with
\* the return from CreateUser, which still returns the pointer.
AddUser(t) ==
  /\ pc[t] = "add" /\ writer = NoThread
  /\ \/ /\ Count < MaxPlayer
        /\ pc' = [pc EXCEPT ![t] = "insert"]
        /\ UNCHANGED <<state, user>>
     \/ /\ Count >= MaxPlayer
        /\ pc' = [pc EXCEPT ![t] = "idle"]
        /\ state' = [state EXCEPT ![user[t]] = "destroyed"]
        /\ user' = [user EXCEPT ![t] = NoUser]
  /\ UNCHANGED <<users, writer, player, added>>

\* Mutant of Insert: the replaced user is forgotten.
InsertOverwrites(t) ==
  /\ pc[t] = "insert" /\ writer = NoThread
  /\ users' = [users EXCEPT ![player[user[t]]] = user[t]]
  /\ added' = added \cup {user[t]}
  /\ pc' = [pc EXCEPT ![t] = "idle"]
  /\ user' = [user EXCEPT ![t] = NoUser]
  /\ UNCHANGED <<writer, player, state>>

\* m_pUsers.insert, or the replacement of the user the key already has; the
\* replaced user is dealt with before the mutex is released.
Insert(t) ==
  /\ pc[t] = "insert" /\ writer = NoThread
  /\ LET key == player[user[t]]  old == users[key] IN
       /\ users' = [users EXCEPT ![key] = user[t]]
       /\ added' = added \cup {user[t]}
       /\ user' = [user EXCEPT ![t] = old]
       /\ IF old = NoUser
            THEN pc' = [pc EXCEPT ![t] = "idle"] /\ UNCHANGED writer
            ELSE pc' = [pc EXCEPT ![t] = "displace"] /\ writer' = t
  /\ UNCHANGED <<player, state>>

\* pOldPlayer->Close(); pOldPlayer->SetState(VUser::KICK);
Displace(t) ==
  /\ pc[t] = "displace"
  /\ state' = [state EXCEPT ![user[t]] = "kick"]
  /\ pc' = [pc EXCEPT ![t] = "idle"]
  /\ user' = [user EXCEPT ![t] = NoUser]
  /\ writer' = NoThread
  /\ UNCHANGED <<users, player, added>>

\* RemoveUser(pUser): nothing unless the user is registered under its id; the
\* mutex is held until it is erased.
RemoveUser(t, o) ==
  /\ pc[t] = "idle" /\ writer = NoThread
  /\ o \in added
  /\ users[player[o]] = o
  /\ writer' = t
  /\ pc' = [pc EXCEPT ![t] = "remove"]
  /\ user' = [user EXCEPT ![t] = o]
  /\ UNCHANGED <<users, player, state, added>>

\* pUser->Close(); m_pUsers.erase(it), whatever has become of the id meanwhile.
Erase(t) ==
  /\ pc[t] = "remove"
  /\ users' = [k \in Keys |-> IF users[k] = user[t] THEN NoUser ELSE users[k]]
  /\ state' = [state EXCEPT ![user[t]] = "closed"]
  /\ pc' = [pc EXCEPT ![t] = "idle"]
  /\ user' = [user EXCEPT ![t] = NoUser]
  /\ writer' = NoThread
  /\ UNCHANGED <<player, added>>

\* Mutants of CloseSession: the id is kept, or set to -1.
CloseSessionKeepsId(o) ==
  /\ Exists(o)
  /\ state' = [state EXCEPT ![o] = "logout"]
  /\ UNCHANGED <<users, writer, player, added, pc, user>>

CloseSessionNoId(o) ==
  /\ Exists(o)
  /\ player' = [player EXCEPT ![o] = -1]
  /\ state' = [state EXCEPT ![o] = "logout"]
  /\ UNCHANGED <<users, writer, added, pc, user>>

\* VChatUser::CloseSession, run by a session thread when the connection of the
\* user ends: the id is cleared and the state is LOGOUT.
CloseSession(o) ==
  /\ Exists(o)
  /\ player' = [player EXCEPT ![o] = 0]
  /\ state' = [state EXCEPT ![o] = "logout"]
  /\ UNCHANGED <<users, writer, added, pc, user>>

\* The last reference to a user that is not registered goes.
Forget(o) ==
  /\ state[o] \in {"logout", "closed", "kick", "destroyed"}
  /\ \A k \in Keys : users[k] # o
  /\ \A t \in Threads : user[t] # o
  /\ state' = [state EXCEPT ![o] = "none"]
  /\ player' = [player EXCEPT ![o] = 0]
  /\ added' = added \ {o}
  /\ UNCHANGED <<users, writer, pc, user>>

Next ==
  \/ \E t \in Threads :
       \/ \E o \in Objects, id \in Players : CreateUser(t, o, id)
       \/ AddUser(t) \/ Insert(t) \/ Displace(t)
       \/ (\E o \in Objects : RemoveUser(t, o)) \/ Erase(t)
  \/ \E o \in Objects : CloseSession(o) \/ Forget(o)

Spec == Init /\ [][Next]_vars

-----------------------------------------------------------------------------
\* Type invariant.
TypeOK ==
  /\ users \in [Keys -> Objects \cup {NoUser}]
  /\ writer \in Threads \cup {NoThread}
  /\ player \in [Objects -> Keys]
  /\ state \in [Objects -> {"none", "login", "logout", "closed", "kick", "destroyed"}]
  /\ added \subseteq Objects
  /\ pc \in [Threads -> {"idle", "add", "insert", "displace", "remove"}]
  /\ user \in [Threads -> Objects \cup {NoUser}]

\* The limit is read before the insertion it guards, so it can be passed by as
\* many users as there are other threads between the two, and by no more.
Overshoot == Cardinality(Registered) <= MaxPlayer + Cardinality(Threads) - 1

\* A player has one login: whoever was registered and is no longer has been
\* closed or kicked, or is about to be by the thread that replaced it.
DisplacedIsClosed ==
  \A o \in added :
    \/ \E k \in Keys : users[k] = o
    \/ \E t \in Threads : pc[t] = "displace" /\ user[t] = o
    \/ state[o] \in {"closed", "kick", "logout"}

\* No object is registered twice, nor one that has been destroyed.
RegisteredOnce ==
  /\ \A j, k \in Keys : users[j] = users[k] /\ users[j] # NoUser => j = k
  /\ \A k \in Keys : users[k] # NoUser => Exists(users[k])

BeingRemoved(o) == \E t \in Threads : pc[t] = "remove" /\ user[t] = o

\* A user whose connection ended keeps its slot: its id is cleared, so no
\* RemoveUser finds it, and only a new login with the same id takes the slot over.
DeadKeepSlot ==
  [][\A k \in Players, o \in Objects :
       users[k] = o /\ state[o] = "logout" /\ ~BeingRemoved(o) =>
         users'[k] # NoUser /\ ~BeingRemoved(o)']_vars
=============================================================================
