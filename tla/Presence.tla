------------------------------ MODULE Presence -------------------------------
(***************************************************************************)
(* Who is online and who is in a room: VUserManager (module UserManager)   *)
(* together with the packets of its users and their rooms.                 *)
(*                                                                         *)
(* A user that is removed, or displaced by another login, is taken out of  *)
(* its room and then closed, while the session's thread may be handling a  *)
(* packet of it, which may be a join.  Of the packets only the test of the *)
(* state is kept (PacketGate has the others), and of the rooms whether the *)
(* user is in one (by Rooms!OneRoom it is in one at most).  A room holds a *)
(* reference to its members.                                               *)
(*                                                                         *)
(* Close, of VChatUser, is not in the repository: it is taken to close the *)
(* connection and leave the state to the end of the session.               *)
(***************************************************************************)
EXTENDS UserManager

VARIABLES inside,       \* the objects that are members of a room
          open,         \* those whose connection is open
          packet,       \* where the packet of each object is: the one that is handled
          taken,        \* whom a thread has taken out of the room, and not closed yet
          login,        \* whom a thread is logging in
          late          \* history: those that had a packet between these two

roomVars == <<inside, open, packet, late>>
presenceVars == <<vars, roomVars, taken, login>>

PresenceInit ==
  /\ Init
  /\ inside = {} /\ open = {} /\ late = {}
  /\ packet = [o \in Objects |-> "none"]
  /\ taken = [t \in Threads |-> NoUser]
  /\ login = [t \in Threads |-> NoUser]

-----------------------------------------------------------------------------
\* Logging in.

\* CreateUser links the user to its session.
LogIn(t, o, id) ==
  /\ CreateUser(t, o, id)
  /\ open' = open \cup {o}
  /\ login' = [login EXCEPT ![t] = o]
  /\ UNCHANGED <<inside, packet, late, taken>>

\* The login is over when the thread is idle again.
Enroll(t) ==
  /\ AddUser(t) \/ Insert(t)
  /\ login' = [login EXCEPT ![t] = IF pc'[t] = "idle" THEN NoUser ELSE @]
  /\ UNCHANGED <<roomVars, taken>>

-----------------------------------------------------------------------------
\* Displacing.

\* A thread takes the user it is working on out of its room; whatever packet of
\* that user is under way may yet bring it into one.
TakeOut(t) ==
  /\ taken[t] = NoUser
  /\ inside' = inside \ {user[t]}
  /\ late' = IF packet[user[t]] = "none" THEN late ELSE late \cup {user[t]}
  /\ taken' = [taken EXCEPT ![t] = user[t]]
  /\ UNCHANGED <<vars, open, packet, login>>

\* Close, of a user that is out of its room.
Close(t) ==
  /\ taken[t] # NoUser
  /\ open' = open \ {taken[t]}
  /\ taken' = [taken EXCEPT ![t] = NoUser]
  /\ UNCHANGED <<inside, packet, late>>

\* Mutant of TakeOutOld: the displaced user stays in its room.
TakeOutOldNot(t) ==
  /\ pc[t] = "displace" /\ taken[t] = NoUser
  /\ taken' = [taken EXCEPT ![t] = user[t]]
  /\ UNCHANGED <<vars, roomVars, login>>

\* pOldPlayer->JoinRoom(NullRoom)
TakeOutOld(t) == pc[t] = "displace" /\ TakeOut(t)

\* pOldPlayer->Close(); pOldPlayer->SetState(KICK): the login is over.
CloseOld(t) ==
  /\ Displace(t)
  /\ Close(t)
  /\ login' = [login EXCEPT ![t] = NoUser]

-----------------------------------------------------------------------------
\* RemoveUser.

Find(t, o) == RemoveUser(t, o) /\ UNCHANGED <<roomVars, taken, login>>

\* pUser->JoinRoom(NullRoom)
TakeOutRemoved(t) == pc[t] = "remove" /\ TakeOut(t)

\* pUser->Close(), and erase
CloseRemoved(t) == Erase(t) /\ Close(t) /\ UNCHANGED login

-----------------------------------------------------------------------------
\* The sessions.

\* The connection ends.
EndSession(o) ==
  /\ CloseSession(o)
  /\ open' = open \ {o}
  /\ UNCHANGED <<inside, packet, late, taken, login>>

Goto(o, step) == packet' = [packet EXCEPT ![o] = step]

\* The session has read a packet of a user that is logged in.
ReadPacket(o) ==
  /\ o \in open /\ packet[o] = "none"
  /\ o \in added /\ \A t \in Threads : login[t] # o
  /\ Goto(o, "test")
  /\ late' = IF \E t \in Threads : taken[t] = o THEN late \cup {o} ELSE late
  /\ UNCHANGED <<vars, inside, open, taken, login>>

\* CanReceivePacket: a user that was closed is in LOGIN until its session ends,
\* which clears the id too.  The packet may be a join or something else.
TestState(o) ==
  /\ packet[o] = "test"
  /\ \/ state[o] \in {"login", "closed"} /\ player[o] # 0 /\ Goto(o, "leave")
     \/ Goto(o, "none")
  /\ UNCHANGED <<vars, inside, open, late, taken, login>>

\* JoinRoom: out of the room the user is in; into another, unless it is NullRoom.
LeaveRoom(o) ==
  /\ packet[o] = "leave"
  /\ inside' = inside \ {o}
  /\ Goto(o, "enter") \/ Goto(o, "none")
  /\ UNCHANGED <<vars, open, late, taken, login>>

EnterRoom(o) ==
  /\ packet[o] = "enter"
  /\ inside' = inside \cup {o}
  /\ Goto(o, "none")
  /\ UNCHANGED <<vars, open, late, taken, login>>

\* The last reference goes: neither a room nor a thread has one.
Destroy(o) ==
  /\ Forget(o)
  /\ o \notin inside /\ packet[o] = "none" /\ \A t \in Threads : taken[t] # o
  /\ open' = open \ {o} /\ late' = late \ {o}
  /\ UNCHANGED <<inside, packet, taken, login>>

PresenceNext ==
  \/ \E t \in Threads :
       \/ \E o \in Objects, id \in Players : LogIn(t, o, id)
       \/ Enroll(t) \/ TakeOutOld(t) \/ CloseOld(t)
       \/ \E o \in Objects : Find(t, o)
       \/ TakeOutRemoved(t) \/ CloseRemoved(t)
  \/ \E o \in Objects :
       \/ EndSession(o) \/ ReadPacket(o) \/ TestState(o) \/ LeaveRoom(o) \/ EnterRoom(o)
       \/ Destroy(o)

PresenceSpec == PresenceInit /\ [][PresenceNext]_presenceVars

-----------------------------------------------------------------------------
\* Whoever is in a room is logged in, or is being displaced and yet to be taken
\* out of it; except a user of which a packet was handled while it was taken
\* out and closed, which may stay behind in a room for good.
MembersKnown ==
  \A o \in inside :
    \/ \E k \in Keys : users[k] = o
    \/ \E t \in Threads : pc[t] = "displace" /\ user[t] = o /\ taken[t] = NoUser
    \/ o \in late
=============================================================================
