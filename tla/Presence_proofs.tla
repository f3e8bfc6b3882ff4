--------------------------- MODULE Presence_proofs ---------------------------
(***************************************************************************)
(* Proofs about UserManager, and about Presence, which extends it, for     *)
(* every number of threads, players and users, and every limit.            *)
(*                                                                         *)
(* UserManager: the limit is read before the insertion, so what is bounded *)
(* is the number of registered users together with the threads that have   *)
(* passed the check; ownership of a user that is not registered yet lies   *)
(* with one thread.                                                        *)
(*                                                                         *)
(* Presence: a user enters a room while a packet of it is handled, so what *)
(* has to be followed is who may have a packet: a user with an open        *)
(* connection is registered or about to be closed, and one that a thread   *)
(* has taken out of its room is in a room, or has a packet, only if it is  *)
(* late.                                                                   *)
(***************************************************************************)
EXTENDS Presence, FiniteSetTheorems, TLAPS

\* The threads that may still insert a user.
Inserting == {t \in Threads : pc[t] = "insert"}

OvershootInv == Cardinality(Registered) + Cardinality(Inserting)
                  <= MaxPlayer + Cardinality(Threads) - 1

\* Who works on what.
HoldInv ==
  /\ \A t \in Threads : pc[t] # "idle" => user[t] \in Objects
  /\ \A t \in Threads : pc[t] \in {"add", "insert"} =>
       /\ Exists(user[t]) /\ user[t] \notin added
       /\ \A u \in Threads : user[u] = user[t] => u = t
  /\ \A t \in Threads : pc[t] = "displace" => \A k \in Keys : users[k] # user[t]
  /\ \A t \in Threads : pc[t] \in {"displace", "remove"} => writer = t
  /\ \A k \in Keys : users[k] # NoUser => users[k] \in added
  /\ \A o \in added : state[o] \notin {"none", "destroyed"}
  /\ \A o \in Objects : state[o] = "none" => \A t \in Threads : user[t] # o

\* CloseSession changes the state and the id together.
LogoutInv == \A o \in Objects : state[o] = "logout" => player[o] = 0

IInv == TypeOK /\ OvershootInv /\ HoldInv /\ RegisteredOnce /\ DisplacedIsClosed /\ LogoutInv

-----------------------------------------------------------------------------
\* The sets that are counted are finite.
LEMMA Finite ==
  /\ IsFiniteSet(Registered) /\ Cardinality(Registered) \in Nat
  /\ IsFiniteSet(Inserting) /\ Cardinality(Inserting) \in Nat
  /\ Cardinality(Inserting) <= Cardinality(Threads)
  /\ Cardinality(Threads) \in Nat \ {0}
  <1> USE UserManagerAssumption
  <1>1. IsFiniteSet(Keys)
    BY FS_AddElement DEF Keys
  <1>2. Registered \subseteq Keys /\ Inserting \subseteq Threads
    BY DEF Registered, Inserting
  <1>3. Cardinality(Threads) \in Nat /\ Cardinality(Threads) # 0
    BY FS_CardinalityType, FS_EmptySet
  <1> QED
    BY <1>1, <1>2, <1>3, FS_Subset, FS_CardinalityType

LEMMA InitIInv == Init => IInv
  <1> SUFFICES ASSUME Init PROVE IInv
    OBVIOUS
  <1> USE UserManagerAssumption DEF Init
  <1>1. TypeOK
    BY DEF TypeOK, Keys
  <1>2. Registered = {} /\ Inserting = {}
    BY DEF Registered, Inserting, Keys
  <1>3. OvershootInv
    BY <1>2, Finite, FS_EmptySet DEF OvershootInv
  <1>4. HoldInv /\ RegisteredOnce /\ DisplacedIsClosed /\ LogoutInv
    BY DEF HoldInv, RegisteredOnce, DisplacedIsClosed, LogoutInv, Exists
  <1> QED
    BY <1>1, <1>3, <1>4 DEF IInv

\* The count.  A thread passes the check when there is room for one more; the
\* others that passed it are at most all other threads.
LEMMA OvershootStep ==
  ASSUME IInv, Next
  PROVE  OvershootInv'
  <1> USE UserManagerAssumption
  <1>0. TypeOK /\ OvershootInv
    BY DEF IInv
  <1>1. CASE Registered' \subseteq Registered /\ Inserting' \subseteq Inserting
    <2>1. Cardinality(Registered') <= Cardinality(Registered)
          /\ Cardinality(Inserting') <= Cardinality(Inserting)
      BY <1>1, Finite, FS_Subset
    <2>2. Cardinality(Registered') \in Nat /\ Cardinality(Inserting') \in Nat
      BY <1>1, Finite, FS_Subset, FS_CardinalityType
    <2> QED
      BY <1>0, <2>1, <2>2, Finite DEF OvershootInv
  <1>2. ASSUME NEW t \in Threads, AddUser(t), Count < MaxPlayer
        PROVE  OvershootInv'
    <2>1. Registered' = Registered
      BY <1>2 DEF AddUser, Registered
    <2>2. Inserting' \subseteq Threads
      BY DEF Inserting
    <2>3. Cardinality(Inserting') <= Cardinality(Threads) /\ Cardinality(Inserting') \in Nat
      BY <2>2, FS_Subset, FS_CardinalityType
    <2> QED
      BY <1>2, <2>1, <2>3, Finite DEF OvershootInv, Count
  <1>3. ASSUME NEW t \in Threads, Insert(t)
        PROVE  OvershootInv'
    <2>1. Inserting' = Inserting \ {t} /\ t \in Inserting
      BY <1>0, <1>3 DEF Insert, Inserting, TypeOK
    <2>2. Cardinality(Inserting') = Cardinality(Inserting) - 1
      BY <2>1, Finite, FS_RemoveElement
    <2>3. Registered' \subseteq Registered \cup {player[user[t]]}
      BY <1>0, <1>3 DEF Insert, Registered, TypeOK
    <2>4. /\ IsFiniteSet(Registered \cup {player[user[t]]})
          /\ Cardinality(Registered \cup {player[user[t]]}) <= Cardinality(Registered) + 1
      <3> DEFINE k == player[user[t]]
      <3>1. /\ IsFiniteSet(Registered \cup {k})
            /\ Cardinality(Registered \cup {k}) =
                 IF k \in Registered THEN Cardinality(Registered) ELSE Cardinality(Registered) + 1
        BY Finite, FS_AddElement
      <3> QED
        BY <3>1, Finite
    <2>5. /\ Cardinality(Registered') <= Cardinality(Registered) + 1
          /\ Cardinality(Registered') \in Nat
      <3>1. IsFiniteSet(Registered')
            /\ Cardinality(Registered') <= Cardinality(Registered \cup {player[user[t]]})
        BY <2>3, <2>4, FS_Subset
      <3>2. Cardinality(Registered \cup {player[user[t]]}) \in Nat
            /\ Cardinality(Registered') \in Nat
        BY <2>4, <3>1, FS_CardinalityType
      <3> QED
        BY <2>4, <3>1, <3>2, Finite
    <2> QED
      BY <1>0, <2>2, <2>5, Finite DEF OvershootInv
  <1>4. ASSUME NEW t \in Threads, NEW o \in Objects, NEW id \in Players, CreateUser(t, o, id)
        PROVE  Registered' \subseteq Registered /\ Inserting' \subseteq Inserting
    BY <1>0, <1>4 DEF CreateUser, Registered, Inserting, TypeOK
  <1>5. ASSUME NEW t \in Threads, AddUser(t), ~(Count < MaxPlayer)
        PROVE  Registered' \subseteq Registered /\ Inserting' \subseteq Inserting
    BY <1>0, <1>5 DEF AddUser, Registered, Inserting, TypeOK
  <1>6. ASSUME NEW t \in Threads, Displace(t)
        PROVE  Registered' \subseteq Registered /\ Inserting' \subseteq Inserting
    BY <1>0, <1>6 DEF Displace, Registered, Inserting, TypeOK
  <1>7. ASSUME NEW t \in Threads, NEW o \in Objects, RemoveUser(t, o)
        PROVE  Registered' \subseteq Registered /\ Inserting' \subseteq Inserting
    BY <1>0, <1>7 DEF RemoveUser, Registered, Inserting, TypeOK
  <1>8. ASSUME NEW t \in Threads, Erase(t)
        PROVE  Registered' \subseteq Registered /\ Inserting' \subseteq Inserting
    BY <1>0, <1>8 DEF Erase, Registered, Inserting, TypeOK
  <1>9. ASSUME NEW o \in Objects, CloseSession(o) \/ Forget(o)
        PROVE  Registered' \subseteq Registered /\ Inserting' \subseteq Inserting
    BY <1>9 DEF CloseSession, Forget, Registered, Inserting
  <1> QED
    BY <1>1, <1>2, <1>3, <1>4, <1>5, <1>6, <1>7, <1>8, <1>9 DEF Next

-----------------------------------------------------------------------------
\* Everything else, action by action.
Rest == TypeOK /\ HoldInv /\ RegisteredOnce /\ DisplacedIsClosed /\ LogoutInv

LEMMA RestStep ==
  ASSUME Rest, Next
  PROVE  Rest'
  <1> USE UserManagerAssumption
      DEF Rest, TypeOK, HoldInv, RegisteredOnce, DisplacedIsClosed, LogoutInv, Exists
  <1>0. 0 \in Keys /\ Players \subseteq Keys
    BY DEF Keys
  <1>1. ASSUME NEW t \in Threads, NEW o \in Objects, NEW id \in Players, CreateUser(t, o, id)
        PROVE  Rest'
    BY <1>0, <1>1 DEF CreateUser
  <1>2. ASSUME NEW t \in Threads, AddUser(t) PROVE Rest'
    BY <1>2 DEF AddUser
  <1>3. ASSUME NEW t \in Threads, Insert(t) PROVE Rest'
    BY <1>3 DEF Insert
  <1>4. ASSUME NEW t \in Threads, Displace(t) PROVE Rest'
    BY <1>4 DEF Displace
  <1>5. ASSUME NEW t \in Threads, NEW o \in Objects, RemoveUser(t, o) PROVE Rest'
    BY <1>5 DEF RemoveUser
  <1>6. ASSUME NEW t \in Threads, Erase(t) PROVE Rest'
    BY <1>6 DEF Erase
  <1>7. ASSUME NEW o \in Objects, CloseSession(o) PROVE Rest'
    BY <1>0, <1>7 DEF CloseSession
  <1>8. ASSUME NEW o \in Objects, Forget(o) PROVE Rest'
    BY <1>0, <1>8 DEF Forget
  <1> QED
    BY <1>1, <1>2, <1>3, <1>4, <1>5, <1>6, <1>7, <1>8 DEF Next

LEMMA NextIInv == IInv /\ [Next]_vars => IInv'
  <1> SUFFICES ASSUME IInv, [Next]_vars PROVE IInv'
    OBVIOUS
  <1>1. CASE Next
    BY <1>1, OvershootStep, RestStep DEF IInv, Rest
  <1>2. CASE UNCHANGED vars
    BY <1>2 DEF vars, IInv, TypeOK, OvershootInv, HoldInv, RegisteredOnce, DisplacedIsClosed,
       LogoutInv, Registered, Inserting, Exists
  <1> QED
    BY <1>1, <1>2

LEMMA Invariance == Spec => []IInv
  BY InitIInv, NextIInv, PTL DEF Spec

-----------------------------------------------------------------------------
\* Every variable of the user manager keeps its range.
THEOREM TypeCorrect == Spec => []TypeOK
  BY Invariance, PTL DEF IInv

\* The limit on players is passed by at most one user for every other thread.
THEOREM LimitOvershoot == Spec => []Overshoot
  <1>1. IInv => Overshoot
    BY Finite, UserManagerAssumption DEF IInv, OvershootInv, Overshoot
  <1> QED
    BY <1>1, Invariance, PTL

\* No user object is registered twice, and none that has been destroyed.
THEOREM NeverTwice == Spec => []RegisteredOnce
  BY Invariance, PTL DEF IInv

\* Of two logins of one player at most one is open.
THEOREM OneLogin == Spec => []DisplacedIsClosed
  BY Invariance, PTL DEF IInv

\* The slot of a user whose connection ended is never freed, only taken over.
THEOREM DeadUsersKeepTheirSlot == Spec => DeadKeepSlot
  <1>1. IInv /\ [Next]_vars =>
          [\A k \in Players, o \in Objects :
             users[k] = o /\ state[o] = "logout" /\ ~BeingRemoved(o) =>
               users'[k] # NoUser /\ ~BeingRemoved(o)']_vars
    <2> SUFFICES ASSUME IInv, Next, NEW k \in Players, NEW o \in Objects,
                        users[k] = o, state[o] = "logout", ~BeingRemoved(o)
                 PROVE  users'[k] # NoUser /\ ~BeingRemoved(o)'
      OBVIOUS
    <2> USE UserManagerAssumption DEF BeingRemoved
    <2>0. TypeOK /\ k \in Keys /\ 0 \in Keys /\ k # 0 /\ o # NoUser
      BY DEF IInv, TypeOK, Keys
    <2>1. player[o] = 0
      BY DEF IInv, LogoutInv
    <2>2. ASSUME NEW t \in Threads, NEW x \in Objects, RemoveUser(t, x)
          PROVE  users'[k] # NoUser /\ ~BeingRemoved(o)'
      <3>1. x # o
        BY <2>0, <2>1, <2>2 DEF RemoveUser, IInv, RegisteredOnce
      <3> QED
        BY <2>0, <2>2, <3>1 DEF RemoveUser, TypeOK
    <2>3. ASSUME NEW t \in Threads, Erase(t)
          PROVE  users'[k] # NoUser /\ ~BeingRemoved(o)'
      BY <2>0, <2>3 DEF Erase, TypeOK
    <2>4. ASSUME NEW t \in Threads, Insert(t)
          PROVE  users'[k] # NoUser /\ ~BeingRemoved(o)'
      <3>1. user[t] # NoUser
        BY <2>4 DEF Insert, IInv, HoldInv
      <3> QED
        BY <2>0, <2>4, <3>1 DEF Insert, TypeOK
    <2>5. ASSUME NEW t \in Threads, AddUser(t) \/ Displace(t)
                                    \/ \E x \in Objects, id \in Players : CreateUser(t, x, id)
          PROVE  users'[k] # NoUser /\ ~BeingRemoved(o)'
      BY <2>0, <2>5 DEF AddUser, Displace, CreateUser, TypeOK
    <2>6. ASSUME NEW x \in Objects, CloseSession(x) \/ Forget(x)
          PROVE  users'[k] # NoUser /\ ~BeingRemoved(o)'
      BY <2>6 DEF CloseSession, Forget
    <2> QED
      BY <2>2, <2>3, <2>4, <2>5, <2>6 DEF Next
  <1> QED
    BY <1>1, Invariance, PTL DEF Spec, DeadKeepSlot

-----------------------------------------------------------------------------
\* Presence.

PresenceType ==
  /\ TypeOK
  /\ inside \subseteq Objects /\ open \subseteq Objects /\ late \subseteq Objects
  /\ packet \in [Objects -> {"none", "test", "leave", "enter"}]
  /\ taken \in [Threads -> Objects \cup {NoUser}]
  /\ login \in [Threads -> Objects \cup {NoUser}]

IsRegistered(o) == \E k \in Keys : users[k] = o
IsDisplaced(o) == \E t \in Threads : pc[t] = "displace" /\ user[t] = o /\ taken[t] = NoUser
IsTaken(o) == \E t \in Threads : taken[t] = o
Known(o) == IsRegistered(o) \/ IsDisplaced(o) \/ o \in late

\* Who works on what: no object that a thread works on, or that was in the map,
\* can be made a second time.
WorkInv ==
  /\ \A t \in Threads : pc[t] # "idle" => user[t] \in Objects
  /\ \A t \in Threads : pc[t] \in {"add", "insert"} => state[user[t]] # "none"
  /\ \A o \in added : state[o] # "none"

\* Whom a thread has taken out it is removing or displacing; whoever is being
\* removed is registered until it is erased.
TakenInv ==
  /\ \A t \in Threads : taken[t] # NoUser =>
       pc[t] \in {"remove", "displace"} /\ user[t] = taken[t]
  /\ \A t \in Threads : pc[t] \in {"remove", "displace"} => writer = t
  /\ \A t \in Threads : pc[t] = "remove" => IsRegistered(user[t])

\* Who may be in a room, have a packet, or read another one.
KnownInv ==
  /\ \A o \in Objects : o \in inside \/ packet[o] # "none" => Known(o)
  /\ \A o \in Objects : IsTaken(o) /\ (o \in inside \/ packet[o] # "none") => o \in late
  /\ \A o \in open : o \in added => IsRegistered(o) \/ IsDisplaced(o) \/ IsTaken(o)

PresenceInv == PresenceType /\ WorkInv /\ TakenInv /\ KnownInv

-----------------------------------------------------------------------------
LEMMA InitPresence == PresenceInit => PresenceInv
  <1> SUFFICES ASSUME PresenceInit PROVE PresenceInv
    OBVIOUS
  <1> USE UserManagerAssumption DEF PresenceInit, Init
  <1>1. PresenceType
    BY DEF PresenceType, TypeOK, Keys
  <1>2. WorkInv /\ TakenInv
    BY DEF WorkInv, TakenInv
  <1>3. KnownInv
    BY DEF KnownInv, IsTaken
  <1> QED
    BY <1>1, <1>2, <1>3 DEF PresenceInv

\* Types.
LEMMA TypeStep ==
  ASSUME PresenceType, WorkInv, PresenceNext
  PROVE  PresenceType'
  <1> USE UserManagerAssumption DEF PresenceType, TypeOK
  <1>1. ASSUME NEW t \in Threads, NEW o \in Objects, NEW id \in Players, LogIn(t, o, id)
        PROVE  PresenceType'
    BY <1>1 DEF LogIn, CreateUser, Keys
  <1>2. ASSUME NEW t \in Threads, Enroll(t) PROVE PresenceType'
    <2>1. CASE AddUser(t)
      BY <1>2, <2>1 DEF Enroll, AddUser, roomVars
    <2>2. CASE Insert(t)
      BY <1>2, <2>2 DEF Enroll, Insert, roomVars, WorkInv
    <2> QED
      BY <1>2, <2>1, <2>2 DEF Enroll
  <1>3. ASSUME NEW t \in Threads, TakeOutOld(t) PROVE PresenceType'
    BY <1>3 DEF TakeOutOld, TakeOut, vars, WorkInv
  <1>4. ASSUME NEW t \in Threads, CloseOld(t) PROVE PresenceType'
    BY <1>4 DEF CloseOld, Displace, Close
  <1>5. ASSUME NEW t \in Threads, NEW o \in Objects, Find(t, o) PROVE PresenceType'
    BY <1>5 DEF Find, RemoveUser, roomVars
  <1>6. ASSUME NEW t \in Threads, TakeOutRemoved(t) \/ CloseRemoved(t) PROVE PresenceType'
    BY <1>6 DEF TakeOutRemoved, TakeOut, CloseRemoved, Erase, Close, vars, WorkInv
  <1>7. ASSUME NEW o \in Objects, EndSession(o) PROVE PresenceType'
    BY <1>7 DEF EndSession, CloseSession, Keys
  <1>8. ASSUME NEW o \in Objects, ReadPacket(o) \/ TestState(o) \/ LeaveRoom(o) \/ EnterRoom(o)
        PROVE  PresenceType'
    BY <1>8 DEF ReadPacket, TestState, LeaveRoom, EnterRoom, Goto, vars
  <1>9. ASSUME NEW o \in Objects, Destroy(o) PROVE PresenceType'
    BY <1>9 DEF Destroy, Forget, Keys
  <1> QED
    BY <1>1, <1>2, <1>3, <1>4, <1>5, <1>6, <1>7, <1>8, <1>9 DEF PresenceNext

-----------------------------------------------------------------------------
\* The login of a user.
LEMMA LogInStep ==
  ASSUME PresenceInv, NEW t \in Threads, NEW o \in Objects, NEW id \in Players, LogIn(t, o, id)
  PROVE  WorkInv' /\ TakenInv' /\ KnownInv'
  <1> USE UserManagerAssumption DEF PresenceInv, PresenceType, TypeOK
  <1>1. /\ pc[t] = "idle" /\ state[o] = "none"
        /\ pc' = [pc EXCEPT ![t] = "add"] /\ user' = [user EXCEPT ![t] = o]
        /\ state' = [state EXCEPT ![o] = "login"] /\ open' = open \cup {o}
        /\ UNCHANGED <<users, writer, added, inside, packet, late, taken>>
    BY DEF LogIn, CreateUser
  <1>2. WorkInv'
    BY <1>1 DEF WorkInv
  <1>3. TakenInv'
    BY <1>1 DEF TakenInv, IsRegistered
  <1>4. \A x \in Objects : (IsDisplaced(x) => IsDisplaced(x)') /\ (IsRegistered(x) => IsRegistered(x)')
    BY <1>1 DEF IsDisplaced, IsRegistered
  <1>5. o \notin added
    BY <1>1 DEF WorkInv
  <1>6. KnownInv'
    BY <1>1, <1>4, <1>5 DEF KnownInv, Known, IsTaken
  <1> QED
    BY <1>2, <1>3, <1>6

LEMMA AddUserStep ==
  ASSUME PresenceInv, NEW t \in Threads, Enroll(t), AddUser(t)
  PROVE  WorkInv' /\ TakenInv' /\ KnownInv'
  <1> USE UserManagerAssumption DEF PresenceInv, PresenceType, TypeOK
  <1>1. /\ pc[t] = "add" /\ pc' = [pc EXCEPT ![t] = pc'[t]] /\ pc'[t] \in {"insert", "idle"}
        /\ user' = [user EXCEPT ![t] = user'[t]]
        /\ pc'[t] = "insert" => user'[t] = user[t]
        /\ state' = state \/ state' = [state EXCEPT ![user[t]] = "destroyed"]
        /\ UNCHANGED <<users, writer, added, open, inside, packet, late, taken>>
    BY DEF AddUser, Enroll, roomVars
  <1>2. taken[t] = NoUser
    BY <1>1 DEF TakenInv
  <1>3. WorkInv'
    BY <1>1 DEF WorkInv
  <1>4. TakenInv'
    BY <1>1, <1>2 DEF TakenInv, IsRegistered
  <1>5. \A x \in Objects : (IsDisplaced(x) => IsDisplaced(x)') /\ (IsRegistered(x) => IsRegistered(x)')
    BY <1>1 DEF IsDisplaced, IsRegistered
  <1>6. KnownInv'
    BY <1>1, <1>5 DEF KnownInv, Known, IsTaken
  <1> QED
    BY <1>3, <1>4, <1>6

\* The insertion: a user that is replaced in the map is being displaced.
LEMMA InsertStep ==
  ASSUME PresenceInv, NEW t \in Threads, Enroll(t), Insert(t)
  PROVE  WorkInv' /\ TakenInv' /\ KnownInv'
  <1> USE UserManagerAssumption DEF PresenceInv, PresenceType, TypeOK
  <1> DEFINE key == player[user[t]]
             old == users[key]
  <1>1. /\ pc[t] = "insert" /\ user[t] \in Objects /\ state[user[t]] # "none"
        /\ key \in Keys /\ taken[t] = NoUser
        /\ \A u \in Threads : taken[u] = NoUser /\ pc[u] \notin {"displace", "remove"}
    BY DEF Enroll, Insert, WorkInv, TakenInv
  <1>2. /\ users' = [users EXCEPT ![key] = user[t]] /\ added' = added \cup {user[t]}
        /\ user' = [user EXCEPT ![t] = old]
        /\ pc' = [pc EXCEPT ![t] = IF old = NoUser THEN "idle" ELSE "displace"]
        /\ writer' = IF old = NoUser THEN writer ELSE t
        /\ UNCHANGED <<state, open, inside, packet, late, taken>>
    BY DEF Enroll, Insert, roomVars
  <1>3. WorkInv'
    BY <1>1, <1>2 DEF WorkInv
  <1>4. TakenInv'
    BY <1>1, <1>2 DEF TakenInv
  <1>5. \A x \in Objects : IsRegistered(x) \/ IsDisplaced(x) => IsRegistered(x)' \/ IsDisplaced(x)'
    <2> SUFFICES ASSUME NEW x \in Objects, IsRegistered(x) \/ IsDisplaced(x)
                 PROVE  IsRegistered(x)' \/ IsDisplaced(x)'
      OBVIOUS
    <2>1. CASE x = old
      BY <1>1, <1>2, <2>1 DEF IsDisplaced
    <2>2. CASE x # old /\ IsRegistered(x)
      BY <1>1, <1>2, <2>2 DEF IsRegistered
    <2>3. CASE IsDisplaced(x)
      BY <1>1, <1>2, <2>3 DEF IsDisplaced
    <2> QED
      BY <2>1, <2>2, <2>3
  <1>6. \A x \in Objects : x = user[t] => IsRegistered(x)'
    BY <1>1, <1>2 DEF IsRegistered
  <1>7. KnownInv'
    BY <1>1, <1>2, <1>5, <1>6 DEF KnownInv, Known, IsTaken
  <1> QED
    BY <1>3, <1>4, <1>7

-----------------------------------------------------------------------------
LEMMA FindStep ==
  ASSUME PresenceInv, NEW t \in Threads, NEW o \in Objects, Find(t, o)
  PROVE  WorkInv' /\ TakenInv' /\ KnownInv'
  <1> USE UserManagerAssumption DEF PresenceInv, PresenceType, TypeOK
  <1>1. /\ pc[t] = "idle" /\ IsRegistered(o) /\ writer = NoThread
        /\ pc' = [pc EXCEPT ![t] = "remove"] /\ user' = [user EXCEPT ![t] = o] /\ writer' = t
        /\ UNCHANGED <<users, added, state, open, inside, packet, late, taken>>
    BY DEF Find, RemoveUser, IsRegistered, roomVars
  <1>2. WorkInv'
    BY <1>1 DEF WorkInv
  <1>3. TakenInv'
    BY <1>1 DEF TakenInv, IsRegistered
  <1>4. \A x \in Objects : /\ IsDisplaced(x) => IsDisplaced(x)'
                           /\ IsRegistered(x)' = IsRegistered(x)
                           /\ IsTaken(x)' = IsTaken(x)
    BY <1>1 DEF IsDisplaced, IsRegistered, IsTaken
  <1>5. KnownInv'
    BY <1>1, <1>4 DEF KnownInv, Known
  <1> QED
    BY <1>2, <1>3, <1>5

\* The user is out of its room: only its packet, if it has one, may bring it back.
LEMMA TakeOutStep ==
  ASSUME PresenceInv, NEW t \in Threads, TakeOutOld(t) \/ TakeOutRemoved(t)
  PROVE  WorkInv' /\ TakenInv' /\ KnownInv'
  <1> USE UserManagerAssumption DEF PresenceInv, PresenceType, TypeOK
  <1>1. /\ pc[t] \in {"displace", "remove"} /\ taken[t] = NoUser /\ user[t] \in Objects
        /\ inside' = inside \ {user[t]}
        /\ late' = IF packet[user[t]] = "none" THEN late ELSE late \cup {user[t]}
        /\ taken' = [taken EXCEPT ![t] = user[t]]
        /\ UNCHANGED <<users, writer, added, state, pc, user, open, packet>>
    BY DEF TakeOutOld, TakeOutRemoved, TakeOut, WorkInv, vars
  <1>2. WorkInv'
    BY <1>1 DEF WorkInv
  <1>3. TakenInv'
    BY <1>1 DEF TakenInv, IsRegistered
  <1>4. \A x \in Objects : x # user[t] /\ IsDisplaced(x) => IsDisplaced(x)'
    BY <1>1 DEF IsDisplaced
  <1>5. \A x \in Objects : (IsRegistered(x) => IsRegistered(x)') /\ (IsTaken(x) => IsTaken(x)')
    BY <1>1 DEF IsRegistered, IsTaken
  <1>6. IsTaken(user[t])'
    BY <1>1 DEF IsTaken
  <1>7. \A x \in Objects : x # user[t] /\ IsTaken(x)' => IsTaken(x)
    BY <1>1 DEF IsTaken
  <1>8. KnownInv'
    BY <1>1, <1>4, <1>5, <1>6, <1>7 DEF KnownInv, Known
  <1> QED
    BY <1>2, <1>3, <1>8

LEMMA CloseOldStep ==
  ASSUME PresenceInv, NEW t \in Threads, CloseOld(t)
  PROVE  WorkInv' /\ TakenInv' /\ KnownInv'
  <1> USE UserManagerAssumption DEF PresenceInv, PresenceType, TypeOK
  <1>1. /\ pc[t] = "displace" /\ taken[t] = user[t] /\ user[t] \in Objects
        /\ \A u \in Threads : u # t => pc[u] \notin {"displace", "remove"} /\ taken[u] = NoUser
        /\ state' = [state EXCEPT ![user[t]] = "kick"] /\ pc' = [pc EXCEPT ![t] = "idle"]
        /\ user' = [user EXCEPT ![t] = NoUser] /\ taken' = [taken EXCEPT ![t] = NoUser]
        /\ open' = open \ {user[t]}
        /\ UNCHANGED <<users, added, inside, packet, late>>
    BY DEF CloseOld, Displace, Close, WorkInv, TakenInv
  <1>2. WorkInv'
    BY <1>1 DEF WorkInv
  <1>3. TakenInv'
    BY <1>1 DEF TakenInv
  <1>4. \A x \in Objects : (IsDisplaced(x) => IsDisplaced(x)') /\ (IsRegistered(x) => IsRegistered(x)')
    BY <1>1 DEF IsDisplaced, IsRegistered
  <1>5. \A x \in Objects : ~IsTaken(x)' /\ (x # user[t] => ~IsTaken(x))
    BY <1>1 DEF IsTaken
  <1>6. KnownInv'
    BY <1>1, <1>4, <1>5 DEF KnownInv, Known
  <1> QED
    BY <1>2, <1>3, <1>6

\* The removed user is in a room, or has a packet, only if it is late.
LEMMA CloseRemovedStep ==
  ASSUME PresenceInv, NEW t \in Threads, CloseRemoved(t)
  PROVE  WorkInv' /\ TakenInv' /\ KnownInv'
  <1> USE UserManagerAssumption DEF PresenceInv, PresenceType, TypeOK
  <1>1. /\ pc[t] = "remove" /\ taken[t] = user[t] /\ user[t] \in Objects
        /\ \A u \in Threads : u # t => pc[u] \notin {"displace", "remove"} /\ taken[u] = NoUser
        /\ users' = [k \in Keys |-> IF users[k] = user[t] THEN NoUser ELSE users[k]]
        /\ state' = [state EXCEPT ![user[t]] = "closed"] /\ pc' = [pc EXCEPT ![t] = "idle"]
        /\ user' = [user EXCEPT ![t] = NoUser] /\ taken' = [taken EXCEPT ![t] = NoUser]
        /\ open' = open \ {user[t]}
        /\ UNCHANGED <<added, inside, packet, late>>
    BY DEF CloseRemoved, Erase, Close, WorkInv, TakenInv
  <1>2. WorkInv'
    BY <1>1 DEF WorkInv
  <1>3. TakenInv'
    BY <1>1 DEF TakenInv
  <1>4. \A x \in Objects : ~IsDisplaced(x) /\ (x # user[t] /\ IsRegistered(x) => IsRegistered(x)')
    BY <1>1 DEF IsDisplaced, IsRegistered
  <1>5. \A x \in Objects : ~IsTaken(x)' /\ (IsTaken(x) <=> x = user[t])
    BY <1>1 DEF IsTaken
  <1>6. KnownInv'
    BY <1>1, <1>4, <1>5 DEF KnownInv, Known
  <1> QED
    BY <1>2, <1>3, <1>6

-----------------------------------------------------------------------------
\* The sessions: a packet that is read while its user is taken out makes it late.
LEMMA EndSessionStep ==
  ASSUME PresenceInv, NEW o \in Objects, EndSession(o)
  PROVE  WorkInv' /\ TakenInv' /\ KnownInv'
  <1> USE UserManagerAssumption DEF PresenceInv, PresenceType, TypeOK
  <1>1. /\ state' = [state EXCEPT ![o] = "logout"] /\ open' = open \ {o}
        /\ UNCHANGED <<users, writer, added, pc, user, inside, packet, late, taken>>
    BY DEF EndSession, CloseSession
  <1>2. WorkInv'
    BY <1>1 DEF WorkInv
  <1>3. TakenInv' /\ KnownInv'
    BY <1>1 DEF TakenInv, KnownInv, Known, IsRegistered, IsDisplaced, IsTaken
  <1> QED
    BY <1>2, <1>3

LEMMA PacketStep ==
  ASSUME PresenceInv, NEW o \in Objects,
         ReadPacket(o) \/ TestState(o) \/ LeaveRoom(o) \/ EnterRoom(o)
  PROVE  WorkInv' /\ TakenInv' /\ KnownInv'
  <1> USE UserManagerAssumption DEF PresenceInv, PresenceType, TypeOK
  <1>1. UNCHANGED <<users, writer, state, added, pc, user, open, taken>>
    BY DEF ReadPacket, TestState, LeaveRoom, EnterRoom, vars
  <1>2. WorkInv' /\ TakenInv'
    BY <1>1 DEF WorkInv, TakenInv, IsRegistered
  <1>3. \A x \in Objects : /\ IsRegistered(x)' = IsRegistered(x)
                           /\ IsDisplaced(x)' = IsDisplaced(x)
                           /\ IsTaken(x)' = IsTaken(x)
    BY <1>1 DEF IsRegistered, IsDisplaced, IsTaken
  <1>4. CASE ReadPacket(o)
    <2>1. /\ o \in open /\ o \in added
          /\ packet' = [packet EXCEPT ![o] = "test"]
          /\ late' = IF IsTaken(o) THEN late \cup {o} ELSE late
          /\ inside' = inside
      BY <1>4 DEF ReadPacket, Goto, IsTaken
    <2> QED
      BY <1>1, <1>2, <1>3, <2>1 DEF KnownInv, Known
  <1>5. CASE TestState(o) \/ LeaveRoom(o) \/ EnterRoom(o)
    <2>1. /\ packet[o] # "none"
          /\ packet' = [packet EXCEPT ![o] = packet'[o]]
          /\ inside' \subseteq inside \cup {o} /\ late' = late
      BY <1>5 DEF TestState, LeaveRoom, EnterRoom, Goto
    <2> QED
      BY <1>1, <1>2, <1>3, <2>1 DEF KnownInv, Known
  <1> QED
    BY <1>4, <1>5

LEMMA DestroyStep ==
  ASSUME PresenceInv, NEW o \in Objects, Destroy(o)
  PROVE  WorkInv' /\ TakenInv' /\ KnownInv'
  <1> USE UserManagerAssumption DEF PresenceInv, PresenceType, TypeOK
  <1>1. /\ o \notin inside /\ packet[o] = "none"
        /\ \A t \in Threads : taken[t] # o /\ user[t] # o
        /\ state' = [state EXCEPT ![o] = "none"] /\ added' = added \ {o}
        /\ open' = open \ {o} /\ late' = late \ {o}
        /\ UNCHANGED <<users, writer, pc, user, inside, packet, taken>>
    BY DEF Destroy, Forget
  <1>2. WorkInv'
    BY <1>1 DEF WorkInv
  <1>3. TakenInv'
    BY <1>1 DEF TakenInv, IsRegistered
  <1>4. KnownInv'
    BY <1>1 DEF KnownInv, Known, IsRegistered, IsDisplaced, IsTaken
  <1> QED
    BY <1>2, <1>3, <1>4

-----------------------------------------------------------------------------
LEMMA NextPresence == PresenceInv /\ [PresenceNext]_presenceVars => PresenceInv'
  <1> SUFFICES ASSUME PresenceInv, [PresenceNext]_presenceVars PROVE PresenceInv'
    OBVIOUS
  <1>1. CASE PresenceNext
    <2>1. PresenceType'
      BY <1>1, TypeStep DEF PresenceInv
    <2>2. WorkInv' /\ TakenInv' /\ KnownInv'
      BY <1>1, LogInStep, AddUserStep, InsertStep, FindStep, TakeOutStep,
         CloseOldStep, CloseRemovedStep, EndSessionStep, PacketStep, DestroyStep
         DEF PresenceNext, Enroll
    <2> QED
      BY <2>1, <2>2 DEF PresenceInv
  <1>2. CASE UNCHANGED presenceVars
    BY <1>2 DEF presenceVars, vars, roomVars, PresenceInv, PresenceType, TypeOK, WorkInv,
                TakenInv, KnownInv, Known, IsRegistered, IsDisplaced, IsTaken
  <1> QED
    BY <1>1, <1>2

\* Whoever is in a room is logged in, is about to be taken out of it, or had a
\* packet while it was taken out and closed: nobody else is left behind by
\* RemoveUser and AddUser, whatever the packets and connections do meanwhile.
THEOREM NobodyElseStays == PresenceSpec => []MembersKnown
  <1>1. PresenceInv => MembersKnown
    BY DEF PresenceInv, PresenceType, KnownInv, Known, IsRegistered, IsDisplaced, MembersKnown
  <1> QED
    BY <1>1, InitPresence, NextPresence, PTL DEF PresenceSpec

\* With its packets and rooms the user manager is the one of module UserManager
\* still, so what is proved of it holds here.
THEOREM ImplementsUserManager == PresenceSpec => Spec
  <1>1. PresenceInit => Init
    BY DEF PresenceInit
  <1>2. [PresenceNext]_presenceVars => [Next]_vars
    BY DEF PresenceNext, Next, presenceVars, vars, LogIn, Enroll, TakeOutOld, TakeOutRemoved,
           TakeOut, CloseOld, CloseRemoved, Find, EndSession, ReadPacket, TestState, LeaveRoom,
           EnterRoom, Destroy
  <1> QED
    BY <1>1, <1>2, PTL DEF PresenceSpec, Spec
=============================================================================
