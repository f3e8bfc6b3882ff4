------------------------------- MODULE Rooms --------------------------------
(***************************************************************************)
(* vchat::VChatRoom, VChatRoomManager and the packet handlers that use     *)
(* them (VChatLib): joining a room, queueing it for match making, chat.    *)
(*                                                                         *)
(* A user's packets are handled one at a time; beside them another thread  *)
(* may take the user out of its room (JoinRoom(NullRoom), when the user is *)
(* displaced or removed), and a match maker scans the rooms.  The manager  *)
(* has a mutex, held over a whole join and a whole scan; each room has its *)
(* own, held for one call.  A step is one such call.  The user's room      *)
(* pointer, JoinRoom, and the match maker beyond GetMMRooms are declared   *)
(* elsewhere and taken from how they are used.                             *)
(*                                                                         *)
(* The handlers of the match making use the room pointer without a test:   *)
(* a user without a room ends the process, and so does one that is taken   *)
(* out of its room between two uses.                                       *)
(***************************************************************************)
EXTENDS Integers, FiniteSets

CONSTANTS Users, RoomIds,
          LobbyIds,         \* the rooms with (id % SequenceRoom) == 0
          Modes,            \* the values of nRoomMode that clients send
          MMModes,          \* the game modes IsMatchMakingMode accepts
          Servers, ServerOf,\* GetServerID() of each user
          NoRoom, NoOne, MatchMaker

ASSUME RoomsAssumption ==
  /\ LobbyIds \subseteq RoomIds
  /\ Modes \subseteq Int /\ -1 \notin MMModes
  /\ ServerOf \in [Users -> Servers] /\ -1 \notin Servers
  /\ NoRoom \notin RoomIds /\ {NoOne, MatchMaker} \cap Users = {} /\ NoOne # MatchMaker

VARIABLES
  known,        \* the rooms in VChatRoomManager::m_Rooms
  members,      \* m_Users of each room: how often each user is in the list
  mode,         \* m_nGameMode
  server,       \* m_nServerId
  status,       \* m_nRoomStatus
  room,         \* the room pointer of each user
  mutex,        \* who holds VChatRoomManager::m_Mutex
  pc, arg,      \* where each user's packet handler is, and its locals
  taker,        \* the room a thread is about to take a user out of
  scan,         \* the match maker: where it is, the rooms left and the room at hand
  list,         \* what GetMMRooms has collected: a criteria for each room
  heard,        \* who receives the message that a step sends
  asked         \* history: the nRoomMode that each room in use was set up with

roomVars == <<members, mode, server, status, room, asked>>
vars == <<known, roomVars, mutex, pc, arg, taker, scan, list, heard>>

MembersOf(r) == {u \in Users : members[r][u] > 0}

NoArg == [room |-> NoRoom, mode |-> -1]

\* SetGameMode takes a VInt8, and is given the VInt32 of the packet.
AsInt8(m) == ((m + 128) % 256) - 128

GameModes == {AsInt8(m) : m \in Modes}

Init ==
  /\ known = {}
  /\ members = [r \in RoomIds |-> [u \in Users |-> 0]]
  /\ mode = [r \in RoomIds |-> -1]
  /\ server = [r \in RoomIds |-> -1]
  /\ status = [r \in RoomIds |-> "normal"]
  /\ room = [u \in Users |-> NoRoom]
  /\ mutex = NoOne
  /\ pc = [u \in Users |-> "idle"]
  /\ arg = [u \in Users |-> NoArg]
  /\ taker = [u \in Users |-> NoRoom]
  /\ scan = [at |-> "idle", left |-> {}, room |-> NoRoom]
  /\ list = {}
  /\ heard = {}
  /\ asked = [r \in RoomIds |-> {}]

Goto(u, l) == pc' = [pc EXCEPT ![u] = l]

\* The end of a join: the mutex is released.
Finish(u) ==
  /\ mutex' = NoOne
  /\ arg' = [arg EXCEPT ![u] = NoArg]
  /\ Goto(u, "idle")

-----------------------------------------------------------------------------
\* The calls on a room, each under the room's mutex.

\* AddUsr: the room leaves the match-making queue.
AddUsr(r, u) ==
  /\ status' = [status EXCEPT ![r] = "normal"]
  /\ members' = [members EXCEPT ![r][u] = @ + 1]
  /\ server' = [server EXCEPT ![r] = ServerOf[u]]
  /\ room' = [room EXCEPT ![u] = r]
  /\ UNCHANGED <<mode, asked>>

\* Mutants of RemoveUsr: the user's room pointer is reset though the user was
\* not found; the room is reset though others are left.
RemoveUsrResetsUser(r, u) ==
  IF members[r][u] > 0
    THEN LET left == [members[r] EXCEPT ![u] = @ - 1]
             empty == \A v \in Users : left[v] = 0 IN
         /\ members' = [members EXCEPT ![r] = left]
         /\ mode' = [mode EXCEPT ![r] = IF empty THEN -1 ELSE @]
         /\ server' = [server EXCEPT ![r] = IF empty THEN -1 ELSE @]
         /\ asked' = [asked EXCEPT ![r] = IF empty THEN {} ELSE @]
         /\ room' = [room EXCEPT ![u] = NoRoom]
         /\ status' = [status EXCEPT ![r] = "normal"]
    ELSE room' = [room EXCEPT ![u] = NoRoom] /\ UNCHANGED <<members, mode, server, status, asked>>

RemoveUsrResetsRoom(r, u) ==
  IF members[r][u] > 0
    THEN /\ members' = [members EXCEPT ![r][u] = @ - 1]
         /\ mode' = [mode EXCEPT ![r] = -1]
         /\ server' = [server EXCEPT ![r] = -1]
         /\ room' = [room EXCEPT ![u] = NoRoom]
         /\ status' = [status EXCEPT ![r] = "normal"]
         /\ UNCHANGED asked
    ELSE UNCHANGED roomVars

\* RemoveUsr: nothing for a user that is not in the list; the last one to
\* leave resets the room.
RemoveUsr(r, u) ==
  IF members[r][u] > 0
    THEN LET left == [members[r] EXCEPT ![u] = @ - 1]
             empty == \A v \in Users : left[v] = 0 IN
         /\ members' = [members EXCEPT ![r] = left]
         /\ mode' = [mode EXCEPT ![r] = IF empty THEN -1 ELSE @]
         /\ server' = [server EXCEPT ![r] = IF empty THEN -1 ELSE @]
         /\ asked' = [asked EXCEPT ![r] = IF empty THEN {} ELSE @]
         /\ room' = [room EXCEPT ![u] = NoRoom]
         /\ status' = [status EXCEPT ![r] = "normal"]
    ELSE UNCHANGED roomVars

-----------------------------------------------------------------------------
\* JoinRoom(id, mode) of a user, from ProcessJoinRoom: out of the room the
\* user is in, then UserJoinRoom, which does nothing for the room -1 (NoRoom).
ProcessJoinRoom(u, r, m) ==
  /\ pc[u] = "idle"
  /\ IF room[u] = NoRoom THEN UNCHANGED roomVars ELSE RemoveUsr(room[u], u)
  /\ IF r = NoRoom THEN UNCHANGED <<pc, arg>>
     ELSE arg' = [arg EXCEPT ![u] = [room |-> r, mode |-> m]] /\ Goto(u, "join")
  /\ UNCHANGED <<known, mutex, taker, scan, list>>

\* UserJoinRoom, with the manager's mutex: add the user to the room found, or
\* to a new one.
UserJoinRoom(u) ==
  /\ pc[u] = "join" /\ mutex = NoOne
  /\ mutex' = u
  /\ AddUsr(arg[u].room, u)
  /\ Goto(u, IF arg[u].room \in known THEN "check" ELSE "new")
  /\ UNCHANGED <<known, arg, taker, scan, list>>

\* The mode is cut to 8 bits.
SetMode(u) ==
  /\ mode' = [mode EXCEPT ![arg[u].room] = AsInt8(arg[u].mode)]
  /\ asked' = [asked EXCEPT ![arg[u].room] = {arg[u].mode}]

\* The new room gets its mode and is entered in m_Rooms.
NewRoom(u) ==
  /\ pc[u] = "new"
  /\ SetMode(u)
  /\ known' = known \cup {arg[u].room}
  /\ Finish(u)
  /\ UNCHANGED <<members, server, status, room, taker, scan, list>>

\* Mutant of CheckMode: every joiner sets the mode.
CheckModeNever(u) ==
  /\ pc[u] = "check"
  /\ Goto(u, "set_mode")
  /\ UNCHANGED <<known, roomVars, mutex, arg, taker, scan, list>>

\* A room that had been reset gets the mode and server of the user.
CheckMode(u) ==
  /\ pc[u] = "check"
  /\ IF mode[arg[u].room] = -1 \/ server[arg[u].room] = -1
       THEN Goto(u, "set_mode") /\ UNCHANGED <<mutex, arg>>
       ELSE Finish(u)
  /\ UNCHANGED <<known, roomVars, taker, scan, list>>

SetGameMode(u) ==
  /\ pc[u] = "set_mode"
  /\ SetMode(u)
  /\ Goto(u, "set_server")
  /\ UNCHANGED <<known, members, server, status, room, mutex, arg, taker, scan, list>>

SetServerId(u) ==
  /\ pc[u] = "set_server"
  /\ server' = [server EXCEPT ![arg[u].room] = ServerOf[u]]
  /\ Finish(u)
  /\ UNCHANGED <<known, members, mode, status, room, asked, taker, scan, list>>

\* JoinRoom(NullRoom), by a thread that displaces or removes the user: it
\* reads the room pointer, then takes the user out of that room.
TakeOut(u) ==
  /\ taker[u] = NoRoom /\ room[u] # NoRoom
  /\ taker' = [taker EXCEPT ![u] = room[u]]
  /\ UNCHANGED <<known, roomVars, mutex, pc, arg, scan, list>>

TakenOut(u) ==
  /\ taker[u] # NoRoom
  /\ RemoveUsr(taker[u], u)
  /\ taker' = [taker EXCEPT ![u] = NoRoom]
  /\ UNCHANGED <<known, mutex, pc, arg, scan, list>>

-----------------------------------------------------------------------------
\* Handlers that ask the user for its room, and then call the room.

Calls == {"start_mm", "stop_mm", "log", "log_type", "timer", "send_timer", "chat"}

GetRoom(u, at, next) ==
  /\ pc[u] = at /\ room[u] # NoRoom
  /\ arg' = [arg EXCEPT ![u].room = room[u]]
  /\ Goto(u, next)
  /\ UNCHANGED <<known, roomVars, mutex, taker, scan, list>>

\* A handler goes on, or the process ends in it.
Proceed(u, at, next) ==
  /\ pc[u] = at
  /\ Goto(u, next)
  /\ UNCHANGED <<known, roomVars, mutex, arg, taker, scan, list>>

\* GetRoom()-> without a test.
Dereference(u, at, next) ==
  \/ GetRoom(u, at, next)
  \/ room[u] = NoRoom /\ Proceed(u, at, "killed")

Handled(u) ==
  /\ arg' = [arg EXCEPT ![u] = NoArg]
  /\ Goto(u, "idle")
  /\ UNCHANGED <<known, mutex, taker, scan, list>>

-----------------------------------------------------------------------------
\* Match making.

\* RoomEnterMMQueue, RoomLeaveMMQueue: find the user's room, then queue it or
\* take it out of the queue, though the user may have been taken out of it, and
\* nobody may be left in it; then find the room again, and send the timer there.
RoomEnterMMQueue(u) == Dereference(u, "idle", "start_mm")
RoomLeaveMMQueue(u) == Dereference(u, "idle", "stop_mm")

StartMM(u) ==
  /\ pc[u] = "start_mm"
  /\ status' = [status EXCEPT ![arg[u].room] = "enqueue"]
  /\ Goto(u, "timer")
  /\ UNCHANGED <<known, members, mode, server, room, asked, mutex, arg, taker, scan, list>>

\* Only who took the room out of the queue goes on.
StopMM(u) ==
  \/ /\ pc[u] = "stop_mm" /\ status[arg[u].room] = "enqueue"
     /\ status' = [status EXCEPT ![arg[u].room] = "normal"]
     /\ Goto(u, "log")
     /\ UNCHANGED <<known, members, mode, server, room, asked, mutex, arg, taker, scan, list>>
  \/ pc[u] = "stop_mm" /\ status[arg[u].room] # "enqueue" /\ Handled(u) /\ UNCHANGED roomVars

\* WriteLogMatchMaking tests the room, and how many are in it, and counts them
\* again to pick the text of the match type.
Loggable(r) == Cardinality(MembersOf(r)) \in 1..5

WriteLogMatchMaking(u) ==
  \/ room[u] # NoRoom /\ Loggable(room[u]) /\ GetRoom(u, "log", "log_type")
  \/ (room[u] # NoRoom => ~Loggable(room[u])) /\ Proceed(u, "log", "timer")

\* The text at an index out of range may be anything.
MatchType(u) ==
  \/ Proceed(u, "log_type", "timer")
  \/ pc[u] = "log_type" /\ ~Loggable(arg[u].room) /\ Proceed(u, "log_type", "killed")

MMTimer(u) == Dereference(u, "timer", "send_timer")

\* GetMMRooms, with the manager's mutex: for each room, read the mode and then
\* the status, and the criteria last.
GetMMRooms ==
  /\ scan.at = "idle" /\ mutex = NoOne
  /\ mutex' = MatchMaker
  /\ list' = {}
  /\ scan' = [at |-> "next", left |-> known, room |-> NoRoom]
  /\ UNCHANGED <<known, roomVars, pc, arg, taker>>

ScanMode ==
  /\ scan.at = "next"
  /\ \E r \in scan.left :
       IF mode[r] \in MMModes
         THEN scan' = [at |-> "status", left |-> scan.left \ {r}, room |-> r]
         ELSE scan' = [scan EXCEPT !.left = @ \ {r}]
  /\ UNCHANGED <<known, roomVars, mutex, pc, arg, taker, list>>

NextRoom == scan' = [scan EXCEPT !.at = "next", !.room = NoRoom]

\* Mutant of ScanStatus: every room with a match-making mode is listed.
ScanStatusAny ==
  /\ scan.at = "status"
  /\ scan' = [scan EXCEPT !.at = "criteria"]
  /\ UNCHANGED <<known, roomVars, mutex, pc, arg, taker, list>>

ScanStatus ==
  /\ scan.at = "status"
  /\ IF status[scan.room] = "enqueue" THEN scan' = [scan EXCEPT !.at = "criteria"] ELSE NextRoom
  /\ UNCHANGED <<known, roomVars, mutex, pc, arg, taker, list>>

\* Mutant of GetCriteria: an empty room is not noticed.
GetCriteriaEmpty ==
  /\ scan.at = "criteria"
  /\ list' = list \cup {[room |-> scan.room, server |-> server[scan.room], mode |-> mode[scan.room]]}
  /\ NextRoom
  /\ UNCHANGED <<known, roomVars, mutex, pc, arg, taker>>

\* GetCriteria fails for an empty room.
GetCriteria ==
  /\ scan.at = "criteria"
  /\ list' = IF MembersOf(scan.room) = {} THEN list
             ELSE list \cup {[room |-> scan.room, server |-> server[scan.room],
                              mode |-> mode[scan.room]]}
  /\ NextRoom
  /\ UNCHANGED <<known, roomVars, mutex, pc, arg, taker>>

ScanDone ==
  /\ scan.at = "next" /\ scan.left = {}
  /\ scan' = [scan EXCEPT !.at = "match"]
  /\ mutex' = NoOne
  /\ UNCHANGED <<known, roomVars, pc, arg, taker, list>>

\* The match maker matches some of the rooms on its list: SetStatus(ROOM_FOUND_MM).
MatchFound ==
  /\ scan.at = "match"
  /\ \E c \in list :
       /\ status' = [status EXCEPT ![c.room] = "found"]
       /\ list' = list \ {c}
  /\ UNCHANGED <<known, members, mode, server, room, asked, mutex, pc, arg, taker, scan>>

MatchDone ==
  /\ scan.at = "match"
  /\ scan' = [scan EXCEPT !.at = "idle"]
  /\ list' = {}
  /\ UNCHANGED <<known, roomVars, mutex, pc, arg, taker>>

-----------------------------------------------------------------------------
\* ProcessChat: find the user's room, then send to its members, be it a lobby
\* or not.  It tests the room pointer, once.
ProcessChat(u) == GetRoom(u, "idle", "chat")

\* Who is about to send to the room found: a chat message, or a timer.
Sending == {"chat", "send_timer"}

\* Mutant of SendPacket: the message goes to the others only.
SendPacketToOthers(u) ==
  /\ pc[u] \in Sending
  /\ heard' = MembersOf(arg[u].room) \ {u}
  /\ Handled(u)
  /\ UNCHANGED roomVars

SendPacket(u) ==
  /\ pc[u] \in Sending
  /\ heard' = MembersOf(arg[u].room)
  /\ Handled(u)
  /\ UNCHANGED roomVars

-----------------------------------------------------------------------------
Running == \A u \in Users : pc[u] # "killed"

\* A process that has ended stays so.
Next ==
  \/ /\ Running /\ heard' = {}
     /\ \/ \E u \in Users :
             \/ \E r \in RoomIds \cup {NoRoom}, m \in Modes : ProcessJoinRoom(u, r, m)
             \/ UserJoinRoom(u) \/ NewRoom(u) \/ CheckMode(u) \/ SetGameMode(u) \/ SetServerId(u)
             \/ TakeOut(u) \/ TakenOut(u)
             \/ RoomEnterMMQueue(u) \/ StartMM(u) \/ RoomLeaveMMQueue(u) \/ StopMM(u)
             \/ WriteLogMatchMaking(u) \/ MatchType(u) \/ MMTimer(u)
             \/ ProcessChat(u)
        \/ GetMMRooms \/ ScanMode \/ ScanStatus \/ GetCriteria \/ ScanDone
        \/ MatchFound \/ MatchDone
  \/ Running /\ \E u \in Users : SendPacket(u)
  \/ ~Running /\ UNCHANGED vars

Spec == Init /\ [][Next]_vars

-----------------------------------------------------------------------------
\* Type invariant.
TypeOK ==
  /\ known \subseteq RoomIds
  /\ members \in [RoomIds -> [Users -> Nat]]
  /\ mode \in [RoomIds -> GameModes \cup {-1}]
  /\ server \in [RoomIds -> Servers \cup {-1}]
  /\ status \in [RoomIds -> {"normal", "enqueue", "found"}]
  /\ room \in [Users -> RoomIds \cup {NoRoom}]
  /\ mutex \in Users \cup {NoOne, MatchMaker}
  /\ pc \in [Users -> {"idle", "join", "new", "check", "set_mode", "set_server", "killed"} \cup Calls]
  /\ arg \in [Users -> [room : RoomIds \cup {NoRoom}, mode : Modes \cup {-1}]]
  /\ taker \in [Users -> RoomIds \cup {NoRoom}]
  /\ scan \in [at : {"idle", "next", "status", "criteria", "match"}, left : SUBSET RoomIds,
               room : RoomIds \cup {NoRoom}]
  /\ list \subseteq [room : RoomIds, server : Servers, mode : GameModes]
  /\ heard \subseteq Users
  /\ asked \in [RoomIds -> SUBSET Modes]

\* A user is in one room, once, and it is the room it points to, however its
\* joins and its removals by other threads interleave; and everything keeps its
\* type.
OneRoom ==
  /\ TypeOK
  /\ \A u \in Users, r \in RoomIds : members[r][u] = IF room[u] = r THEN 1 ELSE 0

\* A room with members has a server, and the mode that a client asked for when it
\* was set up last, cut to 8 bits (which may be the -1 of a room that was never
\* set up), except while the manager is still at it: nobody is left in a room
\* that another thread has reset, or that a join has found reset and passed by.
InUseIsConfigured ==
  \A r \in RoomIds :
    MembersOf(r) # {} =>
      \/ server[r] # -1 /\ \E m \in asked[r] : mode[r] = AsInt8(m)
      \/ mutex \in Users /\ arg[mutex].room = r

\* The match maker's list is sound: the mode, the status and the criteria of a
\* room are read one after the other, but a room on the list has a match-making
\* mode and a server in one and the same criteria, since a room can lose its
\* members during the scan but not get a new mode.
CriteriaSound ==
  \A c \in list : c.mode \in MMModes /\ c.server # -1

\* Who joins a room finds its mode settled: it never changes the mode of a
\* room others are in, though the mode is checked and set in separate steps,
\* outside the room's own mutex.  Only where the mode that was asked for is cut
\* to -1 does the next to join set it, though others are in the room.
ModeKept ==
  [][\A r \in RoomIds : mode'[r] # mode[r] => mode[r] = -1 \/ MembersOf(r)' = {}]_vars

\* Whoever chats in a room hears it, and whoever has queued its room or taken it
\* out of the queue gets the timer, unless taken out of the room meanwhile.
SenderHears ==
  [][\A u \in Users :
       pc[u] \in Sending /\ pc'[u] = "idle" => u \in heard' \/ room[u] # arg[u].room]_vars

\* The rooms behave as Occupancy has it: the steps of a join, of a removal and
\* of a scan, in any order with others, amount to a user that leaves or enters,
\* a mode that is settled, or a room that is offered.  A room is offered when
\* the scan reads its status, if anybody is in it then; the mode that was read
\* before is still the room's, and what is read after it no longer matters.
Purpose == [r \in RoomIds |-> IF MembersOf(r) = {} THEN -1 ELSE mode[r]]

Offered ==
  {c.room : c \in list}
    \cup {r \in RoomIds : scan.at = "criteria" /\ scan.room = r /\ MembersOf(r) # {}}

Occ == INSTANCE Occupancy WITH Modes <- GameModes \ {-1}, place <- room, purpose <- Purpose, offered <- Offered
OccupancySpec == Occ!Spec

\* Of this: while a room stays in the queue nobody enters or leaves it.
QueuedIsFrozen ==
  [][\A r \in RoomIds :
       status[r] = "enqueue" /\ status'[r] = "enqueue" => members'[r] = members[r]]_vars

\* What the comment in ProcessChat says: in the lobby one may chat with the
\* whole server.
LobbyChatReachesServer ==
  [][\A u \in Users :
       pc[u] = "chat" /\ pc'[u] = "idle" /\ arg[u].room \in LobbyIds =>
         {v \in Users : ServerOf[v] = ServerOf[u]} \subseteq heard']_vars
=============================================================================
