---------------------------- MODULE Rooms_proofs -----------------------------
(***************************************************************************)
(* Proofs about Rooms, for any users, rooms and modes.  A user is out of   *)
(* every room before a join puts it into one, and what a join and a scan   *)
(* have read of a room stays true while they hold the manager's mutex, or  *)
(* else the room has lost its last member.                                 *)
(***************************************************************************)
EXTENDS Rooms, TLAPS

Joining == {"new", "check", "set_mode", "set_server"}
Scanning == {"next", "status", "criteria"}

\* A user in a join has been taken out of its room, and joins are alone.
JoinInv ==
  /\ \A u \in Users : pc[u] = "join" => room[u] = NoRoom
  /\ \A u \in Users : pc[u] \in Joining => mutex = u
  /\ mutex \in Users => pc[mutex] \in Joining
  /\ \A u \in Users : pc[u] \in Joining \cup {"join"} => arg[u].room \in RoomIds /\ arg[u].mode \in Modes
  /\ \A u \in Users : pc[u] \in Calls => arg[u].room \in RoomIds
  /\ \A u \in Users : pc[u] \in Joining => (pc[u] = "new" <=> arg[u].room \notin known)

\* A room has the mode it was set up with last.
SetUp(r) == \E m \in asked[r] : mode[r] = AsInt8(m)

\* An occupied room has a server; it is set up too, unless a join is at it.
ModeInv ==
  /\ \A r \in RoomIds \ known : mode[r] = -1
  /\ \A r \in RoomIds : MembersOf(r) # {} => server[r] # -1
  /\ \A r \in RoomIds : mode[r] # -1 => SetUp(r)
  /\ \A r \in RoomIds : MembersOf(r) # {} /\ ~SetUp(r) =>
       mutex \in Users /\ arg[mutex].room = r /\ pc[mutex] # "set_server"
  /\ \A u \in Users : pc[u] = "set_mode" =>
       mode[arg[u].room] = -1 \/ MembersOf(arg[u].room) = {}

\* The room at hand has the mode that was read, unless it is empty by now.
ScanInv ==
  /\ scan.at \in Scanning <=> mutex = MatchMaker
  /\ scan.at \in {"status", "criteria"} =>
       scan.room \in RoomIds /\ (mode[scan.room] \in MMModes \/ MembersOf(scan.room) = {})
  /\ CriteriaSound

IInv == OneRoom /\ JoinInv /\ ModeInv /\ ScanInv

-----------------------------------------------------------------------------
LEMMA InitIInv == Init => IInv
  <1> SUFFICES ASSUME Init PROVE IInv
    OBVIOUS
  <1> USE RoomsAssumption DEF Init
  <1>1. OneRoom
    BY DEF OneRoom, TypeOK, NoArg
  <1>2. \A r \in RoomIds : MembersOf(r) = {} /\ mode[r] = -1
    BY DEF MembersOf
  <1>3. JoinInv /\ ModeInv /\ ScanInv
    BY <1>2 DEF JoinInv, ModeInv, ScanInv, CriteriaSound, Joining, Calls, Scanning
  <1> QED
    BY <1>1, <1>3 DEF IInv

\* The members of a room are those who point to it.
LEMMA MembersPoint ==
  ASSUME OneRoom
  PROVE  \A r \in RoomIds : MembersOf(r) = {u \in Users : room[u] = r}
  BY DEF OneRoom, MembersOf

\* AddUsr for a user that is in no room.
LEMMA AddUsrEffect ==
  ASSUME OneRoom, NEW r \in RoomIds, NEW u \in Users, room[u] = NoRoom, AddUsr(r, u)
  PROVE  /\ members' \in [RoomIds -> [Users -> Nat]]
         /\ \A q \in RoomIds, v \in Users : members'[q][v] = IF room'[v] = q THEN 1 ELSE 0
         /\ room' = [room EXCEPT ![u] = r] /\ mode' = mode /\ asked' = asked
         /\ server' = [server EXCEPT ![r] = ServerOf[u]]
         /\ status' = [status EXCEPT ![r] = "normal"]
         /\ \A q \in RoomIds : MembersOf(q)' = IF q = r THEN MembersOf(r) \cup {u} ELSE MembersOf(q)
  <1> USE RoomsAssumption DEF OneRoom, TypeOK, AddUsr
  <1>1. members' \in [RoomIds -> [Users -> Nat]]
    OBVIOUS
  <1>2. \A q \in RoomIds, v \in Users :
          members'[q][v] = IF q = r /\ v = u THEN members[q][v] + 1 ELSE members[q][v]
    OBVIOUS
  <1>3. \A q \in RoomIds, v \in Users : members'[q][v] = IF room'[v] = q THEN 1 ELSE 0
    BY <1>2
  <1>4. \A q \in RoomIds : MembersOf(q)' = IF q = r THEN MembersOf(r) \cup {u} ELSE MembersOf(q)
    BY <1>3 DEF MembersOf
  <1> QED
    BY <1>1, <1>3, <1>4

\* RemoveUsr: the fields of a room are kept, or reset because it is empty.
LEMMA RemoveUsrEffect ==
  ASSUME OneRoom, NEW r \in RoomIds, NEW u \in Users, RemoveUsr(r, u)
  PROVE  /\ members' \in [RoomIds -> [Users -> Nat]]
         /\ \A q \in RoomIds, v \in Users : members'[q][v] = IF room'[v] = q THEN 1 ELSE 0
         /\ room' = [room EXCEPT ![u] = IF room[u] = r THEN NoRoom ELSE room[u]]
         /\ mode' \in [RoomIds -> GameModes \cup {-1}] /\ server' \in [RoomIds -> Servers \cup {-1}]
         /\ status' \in [RoomIds -> {"normal", "enqueue", "found"}] /\ asked' \in [RoomIds -> SUBSET Modes]
         /\ \A q \in RoomIds : \/ mode'[q] = mode[q] /\ asked'[q] = asked[q]
                               \/ mode'[q] = -1 /\ MembersOf(q)' = {}
         /\ \A q \in RoomIds : server'[q] = server[q] \/ MembersOf(q)' = {}
         /\ \A q \in RoomIds : MembersOf(q)' \subseteq MembersOf(q)
         /\ \A q \in RoomIds : members'[q] = members[q] \/ status'[q] = "normal"
  <1> USE RoomsAssumption DEF OneRoom, TypeOK
  <1>1. CASE members[r][u] > 0
    <2> DEFINE left == [members[r] EXCEPT ![u] = @ - 1]
               empty == \A v \in Users : left[v] = 0
    <2>1. /\ members' = [members EXCEPT ![r] = left]
          /\ mode' = [mode EXCEPT ![r] = IF empty THEN -1 ELSE @]
          /\ server' = [server EXCEPT ![r] = IF empty THEN -1 ELSE @]
          /\ asked' = [asked EXCEPT ![r] = IF empty THEN {} ELSE @]
          /\ room' = [room EXCEPT ![u] = NoRoom]
          /\ status' = [status EXCEPT ![r] = "normal"]
      BY <1>1 DEF RemoveUsr
    <2>2. room[u] = r /\ members[r][u] = 1
      BY <1>1
    <2>3. left \in [Users -> Nat] /\ \A v \in Users : left[v] = IF v = u THEN 0 ELSE members[r][v]
      BY <2>2
    <2> HIDE DEF left
    <2>4. members' \in [RoomIds -> [Users -> Nat]]
      BY <2>1, <2>3
    <2>5. \A q \in RoomIds, v \in Users : members'[q][v] = IF room'[v] = q THEN 1 ELSE 0
      BY <2>1, <2>2, <2>3
    <2>6. empty => MembersOf(r)' = {}
      BY <2>1 DEF MembersOf
    <2>7. \A q \in RoomIds : MembersOf(q)' \subseteq MembersOf(q)
      BY <2>1, <2>2, <2>5 DEF MembersOf
    <2>8. \A q \in RoomIds : q # r =>
            members'[q] = members[q] /\ mode'[q] = mode[q] /\ server'[q] = server[q] /\ asked'[q] = asked[q]
      BY <2>1
    <2>9. mode'[r] = (IF empty THEN -1 ELSE mode[r]) /\ server'[r] = (IF empty THEN -1 ELSE server[r])
          /\ asked'[r] = (IF empty THEN {} ELSE asked[r]) /\ status'[r] = "normal"
      BY <2>1
    <2>10. /\ mode' \in [RoomIds -> GameModes \cup {-1}] /\ server' \in [RoomIds -> Servers \cup {-1}]
           /\ status' \in [RoomIds -> {"normal", "enqueue", "found"}] /\ asked' \in [RoomIds -> SUBSET Modes]
      BY <2>1
    <2> QED
      BY <2>1, <2>2, <2>4, <2>5, <2>6, <2>7, <2>8, <2>9, <2>10
  <1>2. CASE ~(members[r][u] > 0)
    <2>1. UNCHANGED roomVars /\ room[u] # r
      BY <1>2 DEF RemoveUsr
    <2> QED
      BY <2>1 DEF roomVars, MembersOf
  <1> QED
    BY <1>1, <1>2

\* When a user leaves a room, what the joins and the scan rely on stays.
LEMMA LeaveStep ==
  ASSUME JoinInv, ModeInv, ScanInv, UNCHANGED <<known, mutex, scan, list>>,
         mode \in [RoomIds -> GameModes \cup {-1}],
         \A v \in Users : pc[v] \in Joining \/ pc'[v] \in Joining => pc'[v] = pc[v] /\ arg'[v] = arg[v],
         \A q \in RoomIds : \/ mode'[q] = mode[q] /\ asked'[q] = asked[q]
                            \/ mode'[q] = -1 /\ MembersOf(q)' = {},
         \A q \in RoomIds : server'[q] = server[q] \/ MembersOf(q)' = {},
         \A q \in RoomIds : MembersOf(q)' \subseteq MembersOf(q)
  PROVE  ModeInv' /\ ScanInv'
  <1>1. (\A r \in RoomIds \ known : mode[r] = -1)'
    BY DEF ModeInv
  <1>2. (\A r \in RoomIds : MembersOf(r) # {} => server[r] # -1)'
    BY DEF ModeInv
  <1>3. /\ (\A r \in RoomIds : mode[r] # -1 => SetUp(r))'
        /\ (\A r \in RoomIds : MembersOf(r) # {} /\ ~SetUp(r) =>
              mutex \in Users /\ arg[mutex].room = r /\ pc[mutex] # "set_server")'
    <2>1. \A r \in RoomIds : mode'[r] # -1 \/ MembersOf(r)' # {} => (SetUp(r)' <=> SetUp(r)) /\ mode'[r] = mode[r]
      BY DEF SetUp
    <2>2. mutex \in Users => pc'[mutex] = pc[mutex] /\ arg'[mutex] = arg[mutex]
      BY DEF JoinInv
    <2> QED
      BY <2>1, <2>2 DEF ModeInv
  <1>4. (\A u \in Users : pc[u] = "set_mode" =>
           mode[arg[u].room] = -1 \/ MembersOf(arg[u].room) = {})'
    BY DEF ModeInv, JoinInv, Joining
  <1>5. ScanInv'
    BY DEF ScanInv, CriteriaSound
  <1> QED
    BY <1>1, <1>2, <1>3, <1>4, <1>5 DEF ModeInv

-----------------------------------------------------------------------------
\* A user leaves its room: the start of a join, and the end of a removal.
LEMMA ProcessJoinRoomStep ==
  ASSUME IInv, NEW u \in Users, NEW r \in RoomIds \cup {NoRoom}, NEW m \in Modes, ProcessJoinRoom(u, r, m),
         heard' = {}
  PROVE  IInv'
  <1> USE RoomsAssumption DEF IInv, OneRoom, TypeOK
  <1>1. /\ pc[u] = "idle" /\ UNCHANGED <<known, mutex, taker, scan, list>>
        /\ \/ r \in RoomIds /\ pc' = [pc EXCEPT ![u] = "join"]
                            /\ arg' = [arg EXCEPT ![u] = [room |-> r, mode |-> m]]
           \/ UNCHANGED <<pc, arg>>
    BY DEF ProcessJoinRoom, Goto
  <1>2. /\ members' \in [RoomIds -> [Users -> Nat]]
        /\ \A q \in RoomIds, v \in Users : members'[q][v] = IF room'[v] = q THEN 1 ELSE 0
        /\ room' = [room EXCEPT ![u] = NoRoom]
        /\ mode' \in [RoomIds -> GameModes \cup {-1}] /\ server' \in [RoomIds -> Servers \cup {-1}]
        /\ status' \in [RoomIds -> {"normal", "enqueue", "found"}] /\ asked' \in [RoomIds -> SUBSET Modes]
        /\ \A q \in RoomIds : \/ mode'[q] = mode[q] /\ asked'[q] = asked[q]
                              \/ mode'[q] = -1 /\ MembersOf(q)' = {}
        /\ \A q \in RoomIds : server'[q] = server[q] \/ MembersOf(q)' = {}
        /\ \A q \in RoomIds : MembersOf(q)' \subseteq MembersOf(q)
    <2>1. CASE room[u] = NoRoom
      BY <2>1 DEF ProcessJoinRoom, roomVars, MembersOf
    <2>2. CASE room[u] # NoRoom
      <3>1. room[u] \in RoomIds /\ RemoveUsr(room[u], u)
        BY <2>2 DEF ProcessJoinRoom
      <3> QED
        BY <3>1, RemoveUsrEffect
    <2> QED
      BY <2>1, <2>2
  <1>3. /\ pc' \in [Users -> {"idle", "join", "new", "check", "set_mode", "set_server", "killed"} \cup Calls]
        /\ arg' \in [Users -> [room : RoomIds \cup {NoRoom}, mode : Modes \cup {-1}]]
        /\ \A v \in Users : v # u => pc'[v] = pc[v] /\ arg'[v] = arg[v]
        /\ pc'[u] = "idle" \/ (pc'[u] = "join" /\ arg'[u].room \in RoomIds /\ arg'[u].mode \in Modes)
    <2>1. CASE UNCHANGED <<pc, arg>>
      BY <1>1, <2>1
    <2>2. CASE ~UNCHANGED <<pc, arg>>
      <3> DEFINE a == [room |-> r, mode |-> m]
      <3>1. r \in RoomIds /\ pc' = [pc EXCEPT ![u] = "join"] /\ arg' = [arg EXCEPT ![u] = a]
        BY <1>1, <2>2
      <3>2. a \in [room : RoomIds \cup {NoRoom}, mode : Modes \cup {-1}] /\ a.room = r /\ a.mode = m
        OBVIOUS
      <3> HIDE DEF a
      <3> QED
        BY <3>1, <3>2
    <2> QED
      BY <2>1, <2>2
  <1>4. OneRoom'
    BY <1>1, <1>2, <1>3
  <1>5. JoinInv'
    <2>1. \A v \in Users : pc'[v] \in Joining \cup Calls \/ pc[v] \in Joining => pc'[v] = pc[v] /\ arg'[v] = arg[v]
      BY <1>1, <1>3 DEF Joining, Calls
    <2>2. \A v \in Users : pc'[v] = "join" => room'[v] = NoRoom /\ arg'[v].room \in RoomIds /\ arg'[v].mode \in Modes
      BY <1>2, <1>3 DEF JoinInv
    <2> QED
      BY <1>1, <2>1, <2>2 DEF JoinInv
  <1>6. ModeInv' /\ ScanInv'
    <2>1. \A v \in Users : pc[v] \in Joining \/ pc'[v] \in Joining => pc'[v] = pc[v] /\ arg'[v] = arg[v]
      BY <1>1, <1>3 DEF Joining
    <2> QED
      BY <1>1, <1>2, <2>1, LeaveStep
  <1> QED
    BY <1>4, <1>5, <1>6

LEMMA TakeStep ==
  ASSUME IInv, NEW u \in Users, TakeOut(u) \/ TakenOut(u), heard' = {}
  PROVE  IInv'
  <1> USE RoomsAssumption DEF IInv, OneRoom, TypeOK
  <1>1. /\ taker' \in [Users -> RoomIds \cup {NoRoom}]
        /\ UNCHANGED <<known, mutex, pc, arg, scan, list>>
    BY DEF TakeOut, TakenOut
  <1>2. /\ members' \in [RoomIds -> [Users -> Nat]]
        /\ \A q \in RoomIds, v \in Users : members'[q][v] = IF room'[v] = q THEN 1 ELSE 0
        /\ room' \in [Users -> RoomIds \cup {NoRoom}]
        /\ \A v \in Users : room'[v] = room[v] \/ room'[v] = NoRoom
        /\ mode' \in [RoomIds -> GameModes \cup {-1}] /\ server' \in [RoomIds -> Servers \cup {-1}]
        /\ status' \in [RoomIds -> {"normal", "enqueue", "found"}] /\ asked' \in [RoomIds -> SUBSET Modes]
        /\ \A q \in RoomIds : \/ mode'[q] = mode[q] /\ asked'[q] = asked[q]
                              \/ mode'[q] = -1 /\ MembersOf(q)' = {}
        /\ \A q \in RoomIds : server'[q] = server[q] \/ MembersOf(q)' = {}
        /\ \A q \in RoomIds : MembersOf(q)' \subseteq MembersOf(q)
    <2>1. CASE TakeOut(u)
      BY <2>1 DEF TakeOut, roomVars, MembersOf
    <2>2. CASE TakenOut(u)
      <3>1. taker[u] \in RoomIds /\ RemoveUsr(taker[u], u)
        BY <2>2 DEF TakenOut
      <3>2. room' = [room EXCEPT ![u] = IF room[u] = taker[u] THEN NoRoom ELSE room[u]]
        BY <3>1, RemoveUsrEffect
      <3>3. room' \in [Users -> RoomIds \cup {NoRoom}]
            /\ \A v \in Users : room'[v] = room[v] \/ room'[v] = NoRoom
        BY <3>2
      <3> QED
        BY <3>1, <3>3, RemoveUsrEffect
    <2> QED
      BY <2>1, <2>2
  <1>3. OneRoom'
    BY <1>1, <1>2
  <1>4. JoinInv'
    BY <1>1, <1>2 DEF JoinInv, Joining, Calls
  <1>5. \A v \in Users : pc[v] \in Joining \/ pc'[v] \in Joining => pc'[v] = pc[v] /\ arg'[v] = arg[v]
    BY <1>1 DEF Joining
  <1>6. ModeInv' /\ ScanInv'
    BY <1>1, <1>2, <1>5, LeaveStep
  <1> QED
    BY <1>3, <1>4, <1>6

-----------------------------------------------------------------------------
\* The steps of a join.
LEMMA UserJoinRoomStep ==
  ASSUME IInv, NEW u \in Users, UserJoinRoom(u), heard' = {}
  PROVE  IInv'
  <1> USE RoomsAssumption DEF IInv, OneRoom, TypeOK
  <1> DEFINE r == arg[u].room
  <1>1. /\ pc[u] = "join" /\ mutex = NoOne /\ mutex' = u /\ r \in RoomIds /\ room[u] = NoRoom
        /\ pc' = [pc EXCEPT ![u] = IF r \in known THEN "check" ELSE "new"]
        /\ UNCHANGED <<known, arg, taker, scan, list>>
    BY DEF UserJoinRoom, Goto, JoinInv
  <1>2. /\ members' \in [RoomIds -> [Users -> Nat]]
        /\ \A q \in RoomIds, v \in Users : members'[q][v] = IF room'[v] = q THEN 1 ELSE 0
        /\ room' = [room EXCEPT ![u] = r] /\ mode' = mode /\ asked' = asked
        /\ server' = [server EXCEPT ![r] = ServerOf[u]]
        /\ status' = [status EXCEPT ![r] = "normal"]
        /\ \A q \in RoomIds : MembersOf(q)' = IF q = r THEN MembersOf(r) \cup {u} ELSE MembersOf(q)
    BY <1>1, AddUsrEffect DEF UserJoinRoom
  <1>3. OneRoom'
    BY <1>1, <1>2
  <1>4. JoinInv'
    BY <1>1, <1>2 DEF JoinInv, Joining, Calls
  <1>5. ModeInv'
    <2>1. \A q \in RoomIds : SetUp(q)' <=> SetUp(q)
      BY <1>2 DEF SetUp
    <2> QED
      BY <1>1, <1>2, <2>1 DEF ModeInv, JoinInv, Joining
  <1>6. ScanInv'
    BY <1>1, <1>2 DEF ScanInv, CriteriaSound, Scanning
  <1> QED
    BY <1>3, <1>4, <1>5, <1>6

\* What is asked for is set, within its type.
LEMMA SetsMode ==
  \A m \in Modes : AsInt8(m) \in GameModes
  BY DEF GameModes

\* A join that sets the mode finds none, or finds the room empty.
LEMMA SetStep ==
  ASSUME IInv, NEW u \in Users, NewRoom(u) \/ CheckMode(u) \/ SetGameMode(u) \/ SetServerId(u),
         heard' = {}
  PROVE  IInv'
  <1> USE RoomsAssumption DEF IInv, OneRoom, TypeOK
  <1> DEFINE r == arg[u].room
  <1>1. /\ mutex = u /\ r \in RoomIds /\ arg[u].mode \in Modes
        /\ UNCHANGED <<members, status, room, taker, scan, list>>
    BY DEF NewRoom, CheckMode, SetGameMode, SetServerId, roomVars, JoinInv, Joining
  <1>2. \A q \in RoomIds : MembersOf(q)' = MembersOf(q)
    BY <1>1 DEF MembersOf
  <1>3. CASE NewRoom(u)
    <2>1. /\ pc[u] = "new" /\ mode' = [mode EXCEPT ![r] = AsInt8(arg[u].mode)]
          /\ asked' = [asked EXCEPT ![r] = {arg[u].mode}] /\ known' = known \cup {r}
          /\ mutex' = NoOne /\ pc' = [pc EXCEPT ![u] = "idle"] /\ arg' = [arg EXCEPT ![u] = NoArg]
          /\ UNCHANGED server
      BY <1>3 DEF NewRoom, SetMode, Finish, Goto
    <2>2. OneRoom'
      <3>1. mode' \in [RoomIds -> GameModes \cup {-1}] /\ asked' \in [RoomIds -> SUBSET Modes]
        BY <1>1, <2>1, SetsMode
      <3>2. pc' \in [Users -> {"idle", "join", "new", "check", "set_mode", "set_server", "killed"} \cup Calls]
        BY <2>1
      <3>3. arg' \in [Users -> [room : RoomIds \cup {NoRoom}, mode : Modes \cup {-1}]]
        BY <2>1 DEF NoArg
      <3> QED
        BY <1>1, <2>1, <3>1, <3>2, <3>3
    <2>3. JoinInv'
      BY <1>1, <2>1 DEF JoinInv, Joining, Calls
    <2>4. ModeInv'
      <3>1. \A q \in RoomIds : q = r => SetUp(q)'
        <4>1. asked'[r] = {arg[u].mode} /\ mode'[r] = AsInt8(arg[u].mode)
          BY <1>1, <2>1
        <4> QED
          BY <4>1 DEF SetUp
      <3>2. \A q \in RoomIds : q # r => (SetUp(q)' <=> SetUp(q)) /\ mode'[q] = mode[q]
        BY <1>1, <2>1 DEF SetUp
      <3>3. \A v \in Users : pc[v] \in Joining => v = u
        BY <1>1 DEF JoinInv
      <3>4. \A v \in Users : pc'[v] # "set_mode"
        BY <2>1, <3>3 DEF Joining
      <3>5. \A q \in RoomIds : MembersOf(q)' # {} => server'[q] # -1 /\ SetUp(q)'
        <4>1. \A q \in RoomIds : MembersOf(q) # {} => server[q] # -1 /\ (SetUp(q) \/ q = r)
          BY <1>1 DEF ModeInv
        <4> QED
          BY ONLY <1>2, <2>1, <3>1, <3>2, <4>1
      <3>6. \A q \in RoomIds \ known' : mode'[q] = -1
        BY <2>1, <3>2 DEF ModeInv
      <3>7. \A q \in RoomIds : mode'[q] # -1 => SetUp(q)'
        BY <3>1, <3>2 DEF ModeInv
      <3> QED
        BY ONLY <3>4, <3>5, <3>6, <3>7 DEF ModeInv
    <2>5. ScanInv'
      BY <1>1, <1>2, <2>1 DEF ScanInv, CriteriaSound, Scanning
    <2> QED
      BY <2>2, <2>3, <2>4, <2>5
  <1>4. CASE CheckMode(u)
    <2>1. /\ pc[u] = "check"
          /\ \/ /\ mode[r] = -1 \/ server[r] = -1
                /\ pc' = [pc EXCEPT ![u] = "set_mode"] /\ UNCHANGED <<mutex, arg>>
             \/ /\ mode[r] # -1
                /\ mutex' = NoOne /\ pc' = [pc EXCEPT ![u] = "idle"] /\ arg' = [arg EXCEPT ![u] = NoArg]
          /\ UNCHANGED <<known, mode, server, asked>>
      BY <1>4 DEF CheckMode, Finish, Goto, roomVars
    <2>2. /\ pc' \in [Users -> {"idle", "join", "new", "check", "set_mode", "set_server", "killed"} \cup Calls]
          /\ arg' \in [Users -> [room : RoomIds \cup {NoRoom}, mode : Modes \cup {-1}]]
          /\ mutex' \in Users \cup {NoOne}
      <3>1. NoArg \in [room : RoomIds \cup {NoRoom}, mode : Modes \cup {-1}]
        BY DEF NoArg
      <3>2. CASE pc' = [pc EXCEPT ![u] = "set_mode"] /\ UNCHANGED <<mutex, arg>>
        BY <1>1, <3>2
      <3>3. CASE mutex' = NoOne /\ pc' = [pc EXCEPT ![u] = "idle"] /\ arg' = [arg EXCEPT ![u] = NoArg]
        BY <3>1, <3>3
      <3> QED
        BY <2>1, <3>2, <3>3
    <2>3. OneRoom'
      BY <1>1, <2>1, <2>2
    <2>4. JoinInv'
      <3>1. CASE pc' = [pc EXCEPT ![u] = "set_mode"] /\ UNCHANGED <<mutex, arg>>
        BY <1>1, <2>1, <3>1 DEF JoinInv, Joining, Calls
      <3>2. CASE mutex' = NoOne /\ pc' = [pc EXCEPT ![u] = "idle"] /\ arg' = [arg EXCEPT ![u] = NoArg]
        BY <1>1, <2>1, <3>2 DEF JoinInv, Joining, Calls
      <3> QED
        BY <2>1, <3>1, <3>2
    <2>5. ModeInv'
      <3>0. \A q \in RoomIds : SetUp(q)' <=> SetUp(q)
        BY <2>1 DEF SetUp
      <3>1. CASE pc' = [pc EXCEPT ![u] = "set_mode"] /\ UNCHANGED <<mutex, arg>>
        BY <1>1, <1>2, <2>1, <3>0, <3>1 DEF ModeInv, JoinInv, Joining
      <3>2. CASE /\ mode[r] # -1 /\ mutex' = NoOne
                 /\ pc' = [pc EXCEPT ![u] = "idle"] /\ arg' = [arg EXCEPT ![u] = NoArg]
        <4>1. UNCHANGED <<known, mode, server>>
          BY <2>1
        <4>2. \A q \in RoomIds : MembersOf(q)' # {} => SetUp(q)' /\ server'[q] # -1
          BY <1>1, <1>2, <3>0, <3>2, <4>1 DEF ModeInv
        <4>3. \A v \in Users : pc'[v] # "set_mode"
          BY <1>1, <3>2 DEF JoinInv, Joining
        <4> QED
          BY <1>2, <3>0, <4>1, <4>2, <4>3 DEF ModeInv
      <3> QED
        BY <2>1, <3>1, <3>2
    <2>6. ScanInv'
      BY <1>1, <1>2, <2>1 DEF ScanInv, CriteriaSound, Scanning
    <2> QED
      BY <2>3, <2>4, <2>5, <2>6
  <1>5. CASE SetGameMode(u)
    <2>1. /\ pc[u] = "set_mode" /\ mode' = [mode EXCEPT ![r] = AsInt8(arg[u].mode)]
          /\ asked' = [asked EXCEPT ![r] = {arg[u].mode}]
          /\ pc' = [pc EXCEPT ![u] = "set_server"] /\ UNCHANGED <<known, server, mutex, arg>>
      BY <1>5 DEF SetGameMode, SetMode, Goto
    <2>2. OneRoom'
      <3>1. mode' \in [RoomIds -> GameModes \cup {-1}] /\ asked' \in [RoomIds -> SUBSET Modes]
        BY <1>1, <2>1, SetsMode
      <3>2. pc' \in [Users -> {"idle", "join", "new", "check", "set_mode", "set_server", "killed"} \cup Calls]
        BY <2>1
      <3> QED
        BY <1>1, <2>1, <3>1, <3>2
    <2>3. JoinInv'
      BY <1>1, <2>1 DEF JoinInv, Joining, Calls
    <2>4. ModeInv'
      <3>1. \A q \in RoomIds : q = r => SetUp(q)'
        <4>1. asked'[r] = {arg[u].mode} /\ mode'[r] = AsInt8(arg[u].mode)
          BY <1>1, <2>1
        <4> QED
          BY <4>1 DEF SetUp
      <3>2. \A q \in RoomIds : q # r => (SetUp(q)' <=> SetUp(q)) /\ mode'[q] = mode[q]
        BY <1>1, <2>1 DEF SetUp
      <3>3. \A v \in Users : pc[v] \in Joining => v = u
        BY <1>1 DEF JoinInv
      <3>4. \A q \in RoomIds : MembersOf(q)' # {} => SetUp(q)' /\ server'[q] # -1
        <4>1. \A q \in RoomIds : MembersOf(q) # {} => server[q] # -1 /\ (SetUp(q) \/ q = r)
          BY <1>1 DEF ModeInv
        <4> QED
          BY ONLY <1>2, <2>1, <3>1, <3>2, <4>1
      <3>5. \A v \in Users : pc'[v] # "set_mode"
        BY <2>1, <3>3 DEF Joining
      <3>6. r \in known
        BY <1>1, <2>1 DEF JoinInv, Joining
      <3> QED
        BY <1>2, <2>1, <3>1, <3>2, <3>4, <3>5, <3>6 DEF ModeInv
    <2>5. ScanInv'
      BY <1>1, <1>2, <2>1 DEF ScanInv, CriteriaSound, Scanning
    <2> QED
      BY <2>2, <2>3, <2>4, <2>5
  <1>6. CASE SetServerId(u)
    <2>1. /\ pc[u] = "set_server" /\ server' = [server EXCEPT ![r] = ServerOf[u]]
          /\ mutex' = NoOne /\ pc' = [pc EXCEPT ![u] = "idle"] /\ arg' = [arg EXCEPT ![u] = NoArg]
          /\ UNCHANGED <<known, mode, asked>>
      BY <1>6 DEF SetServerId, Finish, Goto
    <2>2. OneRoom'
      BY <1>1, <2>1 DEF NoArg
    <2>3. JoinInv'
      BY <1>1, <2>1 DEF JoinInv, Joining, Calls
    <2>4. ModeInv'
      <3>1. \A q \in RoomIds : mode'[q] = mode[q] /\ (SetUp(q)' <=> SetUp(q))
        BY <2>1 DEF SetUp
      <3>2. \A v \in Users : pc[v] \in Joining => v = u
        BY <1>1 DEF JoinInv
      <3>3. \A q \in RoomIds : MembersOf(q)' # {} => SetUp(q)' /\ server'[q] # -1
        BY <1>1, <1>2, <2>1, <3>1 DEF ModeInv
      <3>4. \A v \in Users : pc'[v] # "set_mode"
        BY <2>1, <3>2 DEF Joining
      <3> QED
        BY <1>2, <2>1, <3>1, <3>3, <3>4 DEF ModeInv
    <2>5. ScanInv'
      BY <1>1, <1>2, <2>1 DEF ScanInv, CriteriaSound, Scanning
    <2> QED
      BY <2>2, <2>3, <2>4, <2>5
  <1> QED
    BY <1>3, <1>4, <1>5, <1>6

-----------------------------------------------------------------------------
\* A handler that calls its room, in one step: it finds the room, or goes on with
\* the room it has found, or ends, or the process ends in it.
CallStep(u) ==
  /\ pc[u] \in Calls \cup {"idle"}
  /\ \E l \in Calls \cup {"idle", "killed"} :
       /\ pc' = [pc EXCEPT ![u] = l]
       /\ \/ l \in Calls /\ room[u] \in RoomIds /\ arg' = [arg EXCEPT ![u] = [arg[u] EXCEPT !.room = room[u]]]
          \/ l \in Calls /\ pc[u] \in Calls /\ arg' = arg
          \/ l = "killed" /\ arg' = arg
          \/ l = "idle" /\ arg' = [arg EXCEPT ![u] = NoArg]

\* The handlers that call their room.
Calling(u) ==
  \/ RoomEnterMMQueue(u) \/ RoomLeaveMMQueue(u) \/ StartMM(u) \/ StopMM(u) \/ WriteLogMatchMaking(u)
  \/ MatchType(u) \/ MMTimer(u) \/ ProcessChat(u) \/ SendPacket(u)

LEMMA SetArgRoom ==
  ASSUME NEW a \in [room : RoomIds \cup {NoRoom}, mode : Modes \cup {-1}], NEW r
  PROVE  [a EXCEPT !.room = r] = [room |-> r, mode |-> a.mode]
  OBVIOUS

LEMMA Callings ==
  ASSUME IInv, NEW u \in Users, Calling(u)
  PROVE  /\ UNCHANGED <<known, members, mode, server, room, asked, mutex, taker, scan, list>>
         /\ CallStep(u)
  <1> USE RoomsAssumption DEF IInv, OneRoom, TypeOK
  <1>1. ASSUME NEW at \in Calls \cup {"idle"}, NEW next \in Calls, GetRoom(u, at, next)
        PROVE  UNCHANGED <<known, roomVars, mutex, taker, scan, list>> /\ CallStep(u)
    BY <1>1 DEF GetRoom, Goto, CallStep
  <1>2. ASSUME NEW at \in Calls \cup {"idle"}, NEW next \in Calls \cup {"killed"}, Proceed(u, at, next),
               next \in Calls => at \in Calls
        PROVE  UNCHANGED <<known, roomVars, mutex, taker, scan, list>> /\ CallStep(u)
    BY <1>2 DEF Proceed, Goto, CallStep
  <1>3. ASSUME NEW at \in Calls \cup {"idle"}, NEW next \in Calls, Dereference(u, at, next)
        PROVE  UNCHANGED <<known, roomVars, mutex, taker, scan, list>> /\ CallStep(u)
    BY <1>1, <1>2, <1>3 DEF Dereference, Calls
  <1>4. CASE RoomEnterMMQueue(u) \/ RoomLeaveMMQueue(u) \/ MMTimer(u)
    <2>1. "start_mm" \in Calls /\ "stop_mm" \in Calls /\ "timer" \in Calls /\ "send_timer" \in Calls
      BY DEF Calls
    <2> QED
      BY <1>3, <1>4, <2>1 DEF RoomEnterMMQueue, RoomLeaveMMQueue, MMTimer, roomVars
  <1>5. CASE WriteLogMatchMaking(u) \/ MatchType(u) \/ ProcessChat(u)
    <2>1. "log" \in Calls /\ "log_type" \in Calls /\ "timer" \in Calls /\ "chat" \in Calls
      BY DEF Calls
    <2>2. CASE WriteLogMatchMaking(u)
      BY <1>1, <1>2, <2>1, <2>2 DEF WriteLogMatchMaking, roomVars
    <2>3. CASE MatchType(u)
      BY <1>2, <2>1, <2>3 DEF MatchType, roomVars
    <2>4. CASE ProcessChat(u)
      BY <1>1, <2>1, <2>4 DEF ProcessChat, roomVars
    <2> QED
      BY <1>5, <2>2, <2>3, <2>4
  <1>6. CASE StartMM(u)
    BY <1>6 DEF StartMM, Goto, CallStep, Calls
  <1>7. CASE StopMM(u)
    BY <1>7 DEF StopMM, Handled, Goto, CallStep, Calls, roomVars
  <1>8. CASE SendPacket(u)
    BY <1>8 DEF SendPacket, Sending, Handled, Goto, CallStep, Calls, roomVars
  <1> QED
    BY <1>4, <1>5, <1>6, <1>7, <1>8 DEF Calling

\* Only who starts or stops the match making writes the status of a room.
LEMMA QueueKept ==
  ASSUME NEW u \in Users, Calling(u), ~(StartMM(u) \/ StopMM(u))
  PROVE  UNCHANGED status
  BY DEF Calling, RoomEnterMMQueue, RoomLeaveMMQueue, WriteLogMatchMaking, MatchType, MMTimer, ProcessChat,
         SendPacket, Dereference, GetRoom, Proceed, roomVars

\* The queue and the chat touch neither members nor modes.
LEMMA QueueChatStep ==
  ASSUME IInv, NEW u \in Users, heard' \subseteq Users, Calling(u)
  PROVE  IInv'
  <1> USE RoomsAssumption DEF IInv, OneRoom, TypeOK
  <1>1. /\ UNCHANGED <<known, members, mode, server, room, asked, mutex, taker, scan, list>>
        /\ status' \in [RoomIds -> {"normal", "enqueue", "found"}]
    <2>1. CASE StartMM(u) \/ StopMM(u)
      <3>1. \/ status' = status \/ status' = [status EXCEPT ![arg[u].room] = "normal"]
            \/ status' = [status EXCEPT ![arg[u].room] = "enqueue"]
        BY <2>1 DEF StartMM, StopMM, roomVars
      <3>2. status' \in [RoomIds -> {"normal", "enqueue", "found"}]
        BY <3>1
      <3> QED
        BY <3>2, Callings
    <2>2. CASE ~(StartMM(u) \/ StopMM(u))
      BY <2>2, Callings, QueueKept
    <2> QED
      BY <2>1, <2>2
  <1>2. pc[u] \in Calls \cup {"idle"} /\ CallStep(u)
    BY Callings DEF CallStep
  <1>3. /\ pc[u] \in Calls \cup {"idle"} /\ pc'[u] \in Calls \cup {"idle", "killed"}
        /\ pc' \in [Users -> {"idle", "join", "new", "check", "set_mode", "set_server", "killed"} \cup Calls]
        /\ arg' \in [Users -> [room : RoomIds \cup {NoRoom}, mode : Modes \cup {-1}]]
        /\ \A v \in Users : v # u => pc'[v] = pc[v] /\ arg'[v] = arg[v]
        /\ pc'[u] \in Calls => arg'[u].room \in RoomIds
    <2>1. PICK l \in Calls \cup {"idle", "killed"} :
            /\ pc' = [pc EXCEPT ![u] = l]
            /\ \/ l \in Calls /\ room[u] \in RoomIds /\ arg' = [arg EXCEPT ![u] = [arg[u] EXCEPT !.room = room[u]]]
               \/ l \in Calls /\ pc[u] \in Calls /\ arg' = arg
               \/ l = "killed" /\ arg' = arg
               \/ l = "idle" /\ arg' = [arg EXCEPT ![u] = NoArg]
      BY <1>2 DEF CallStep
    <2>2. "idle" \notin Calls /\ "killed" \notin Calls
      BY DEF Calls
    <2>3. CASE l \in Calls /\ room[u] \in RoomIds /\ arg' = [arg EXCEPT ![u] = [arg[u] EXCEPT !.room = room[u]]]
      <3>1. [arg[u] EXCEPT !.room = room[u]] = [room |-> room[u], mode |-> arg[u].mode]
        BY SetArgRoom
      <3> QED
        BY <1>2, <2>1, <2>3, <3>1
    <2>4. CASE l \in Calls /\ pc[u] \in Calls /\ arg' = arg
      BY <1>2, <2>1, <2>4 DEF JoinInv
    <2>5. CASE l = "killed" /\ arg' = arg
      BY <1>2, <2>1, <2>2, <2>5
    <2>6. CASE l = "idle" /\ arg' = [arg EXCEPT ![u] = NoArg]
      BY <1>2, <2>1, <2>2, <2>6 DEF NoArg
    <2> QED
      BY <2>1, <2>3, <2>4, <2>5, <2>6
  <1>4. OneRoom'
    BY <1>1, <1>3
  <1>5. JoinInv'
    <2>1. \A v \in Users : pc'[v] \in Joining \cup {"join"} => pc'[v] = pc[v] /\ arg'[v] = arg[v]
      BY <1>3 DEF Joining, Calls
    <2>2. \A v \in Users : pc[v] \in Joining => pc'[v] = pc[v]
      BY <1>3 DEF Joining, Calls
    <2>3. \A v \in Users : pc'[v] \in Calls => arg'[v].room \in RoomIds
      BY <1>3 DEF JoinInv
    <2> QED
      BY <1>1, <2>1, <2>2, <2>3 DEF JoinInv
  <1>6. ModeInv'
    <2>1. \A v \in Users : pc'[v] = "set_mode" => pc[v] = "set_mode" /\ arg'[v] = arg[v]
      BY <1>3 DEF Calls
    <2>2. mutex \in Users => pc'[mutex] = pc[mutex] /\ arg'[mutex] = arg[mutex]
      BY <1>3 DEF JoinInv, Joining, Calls
    <2>3. \A r \in RoomIds : MembersOf(r)' = MembersOf(r)
      BY <1>1 DEF MembersOf
    <2>4. \A r \in RoomIds : mode'[r] = mode[r] /\ server'[r] = server[r] /\ (SetUp(r)' <=> SetUp(r))
      BY <1>1 DEF SetUp
    <2>5. /\ \A r \in RoomIds \ known' : mode'[r] = -1
          /\ \A r \in RoomIds : MembersOf(r)' # {} => server'[r] # -1
          /\ \A r \in RoomIds : mode'[r] # -1 => SetUp(r)'
      BY <1>1, <2>3, <2>4 DEF ModeInv
    <2>6. \A r \in RoomIds : MembersOf(r)' # {} /\ ~SetUp(r)' =>
            mutex' \in Users /\ arg'[mutex'].room = r /\ pc'[mutex'] # "set_server"
      <3>1. mutex' = mutex
        BY <1>1
      <3> QED
        BY <2>2, <2>3, <2>4, <3>1 DEF ModeInv
    <2>7. (\A v \in Users : pc[v] = "set_mode" =>
             mode[arg[v].room] = -1 \/ MembersOf(arg[v].room) = {})'
      <3> SUFFICES ASSUME NEW v \in Users, pc'[v] = "set_mode"
                   PROVE  (mode[arg[v].room] = -1 \/ MembersOf(arg[v].room) = {})'
        OBVIOUS
      <3>1. PICK r \in RoomIds : r = arg[v].room /\ r = arg'[v].room
        <4>1. pc[v] = "set_mode" /\ arg'[v] = arg[v]
          BY <2>1
        <4>2. pc[v] \in Joining \cup {"join"} => arg[v].room \in RoomIds
          BY DEF JoinInv
        <4> QED
          BY <4>1, <4>2 DEF Joining
      <3>2. mode[r] = -1 \/ MembersOf(r) = {}
        <4>1. pc[v] = "set_mode"
          BY <2>1
        <4>2. mode[arg[v].room] = -1 \/ MembersOf(arg[v].room) = {}
          BY ONLY ModeInv, <4>1, v \in Users DEF ModeInv
        <4> QED
          BY <3>1, <4>2
      <3>3. mode'[r] = -1 \/ MembersOf(r)' = {}
        BY <2>3, <2>4, <3>2
      <3> QED
        BY <3>1, <3>3
    <2> QED
      BY <2>5, <2>6, <2>7 DEF ModeInv
  <1>7. ScanInv'
    BY <1>1 DEF ScanInv, CriteriaSound, MembersOf
  <1> QED
    BY <1>4, <1>5, <1>6, <1>7

\* The match maker, with the manager's mutex or on its own.
LEMMA ScanStep ==
  ASSUME IInv,
         GetMMRooms \/ ScanMode \/ ScanStatus \/ GetCriteria \/ ScanDone \/ MatchFound \/ MatchDone,
         heard' = {}
  PROVE  IInv'
  <1> USE RoomsAssumption DEF IInv, OneRoom, TypeOK
  <1>1. /\ UNCHANGED <<known, members, mode, server, room, asked, pc, arg, taker>>
        /\ status' \in [RoomIds -> {"normal", "enqueue", "found"}]
    BY DEF GetMMRooms, ScanMode, ScanStatus, GetCriteria, ScanDone, MatchFound, MatchDone, roomVars
  <1>2. mutex' = mutex \/ (mutex' = NoOne /\ mutex = MatchMaker) \/ (mutex' = MatchMaker /\ mutex = NoOne)
    BY DEF GetMMRooms, ScanMode, ScanStatus, GetCriteria, ScanDone, MatchFound, MatchDone,
           ScanInv, Scanning
  <1>3. JoinInv'
    BY <1>1, <1>2 DEF JoinInv, Joining, Calls
  <1>4. ModeInv'
    <2>1. \A r \in RoomIds : MembersOf(r)' = MembersOf(r) /\ (SetUp(r)' <=> SetUp(r))
      BY <1>1 DEF MembersOf, SetUp
    <2> QED
      <3>1. mutex \in Users \/ mutex' \in Users => mutex' = mutex
        BY <1>2
      <3>2. \A r \in RoomIds : mode'[r] = mode[r] /\ server'[r] = server[r]
        BY <1>1
      <3>3. \A r \in RoomIds : MembersOf(r)' # {} /\ ~SetUp(r)' =>
              mutex' \in Users /\ arg'[mutex'].room = r /\ pc'[mutex'] # "set_server"
        BY <1>1, <2>1, <3>1 DEF ModeInv
      <3>4. /\ \A r \in RoomIds \ known' : mode'[r] = -1
            /\ \A r \in RoomIds : MembersOf(r)' # {} => server'[r] # -1
            /\ \A r \in RoomIds : mode'[r] # -1 => SetUp(r)'
        BY <1>1, <2>1, <3>2 DEF ModeInv
      <3>5. (\A v \in Users : pc[v] = "set_mode" =>
               mode[arg[v].room] = -1 \/ MembersOf(arg[v].room) = {})'
        <4> SUFFICES ASSUME NEW v \in Users, pc'[v] = "set_mode"
                     PROVE  (mode[arg[v].room] = -1 \/ MembersOf(arg[v].room) = {})'
          OBVIOUS
        <4>1. pc[v] = "set_mode" /\ arg'[v] = arg[v]
          BY <1>1
        <4>2. PICK r \in RoomIds : r = arg[v].room /\ r = arg'[v].room
          BY <4>1 DEF JoinInv, Joining
        <4>3. mode[r] = -1 \/ MembersOf(r) = {}
          <5>1. mode[arg[v].room] = -1 \/ MembersOf(arg[v].room) = {}
            BY ONLY ModeInv, <4>1, v \in Users DEF ModeInv
          <5> QED
            BY <4>2, <5>1
        <4>4. mode'[r] = -1 \/ MembersOf(r)' = {}
          BY <2>1, <3>2, <4>3
        <4> QED
          BY <4>2, <4>4
      <3> QED
        BY <3>3, <3>4, <3>5 DEF ModeInv
  <1>5. /\ scan' \in [at : {"idle", "next", "status", "criteria", "match"}, left : SUBSET RoomIds,
                      room : RoomIds \cup {NoRoom}]
        /\ list' \subseteq [room : RoomIds, server : Servers, mode : GameModes]
        /\ ScanInv'
    <2>1. CASE GetMMRooms
      BY <1>1, <2>1 DEF GetMMRooms, ScanInv, Scanning, CriteriaSound
    <2>2. CASE ScanMode
      <3>1. PICK r \in scan.left :
              IF mode[r] \in MMModes
                THEN scan' = [at |-> "status", left |-> scan.left \ {r}, room |-> r]
                ELSE scan' = [scan EXCEPT !.left = @ \ {r}]
        BY <2>2 DEF ScanMode
      <3>2. scan.at = "next" /\ r \in RoomIds /\ UNCHANGED <<mutex, list>>
        BY <2>2 DEF ScanMode
      <3>3. CASE mode[r] \in MMModes
        BY <1>1, <3>1, <3>2, <3>3 DEF ScanInv, Scanning, CriteriaSound, MembersOf
      <3>4. CASE mode[r] \notin MMModes
        <4>1. scan' \in [at : {"idle", "next", "status", "criteria", "match"}, left : SUBSET RoomIds,
                         room : RoomIds \cup {NoRoom}] /\ scan'.at = "next"
          <5>1. scan' = [scan EXCEPT !.left = @ \ {r}]
            BY <3>1, <3>4
          <5>2. scan' = [at |-> scan.at, left |-> scan.left \ {r}, room |-> scan.room]
            BY ONLY <5>1, OneRoom DEF OneRoom, TypeOK
          <5> QED
            BY <3>2, <5>2
        <4> QED
          BY <1>1, <3>2, <4>1 DEF ScanInv, Scanning, CriteriaSound
      <3> QED
        BY <3>3, <3>4
    <2>3. CASE ScanStatus
      <3>1. scan.at = "status" /\ UNCHANGED <<mutex, list>>
        BY <2>3 DEF ScanStatus
      <3>2. CASE scan' = [scan EXCEPT !.at = "criteria"]
        BY <1>1, <3>1, <3>2 DEF ScanInv, Scanning, CriteriaSound, MembersOf
      <3>3. CASE NextRoom
        BY <1>1, <3>1, <3>3 DEF NextRoom, ScanInv, Scanning, CriteriaSound, MembersOf
      <3> QED
        BY <2>3, <3>2, <3>3 DEF ScanStatus
    <2>4. CASE GetCriteria
      <3>1. /\ scan.room \in RoomIds /\ scan.at = "criteria" /\ mutex' = mutex
            /\ scan' = [scan EXCEPT !.at = "next", !.room = NoRoom]
        BY <2>4 DEF GetCriteria, NextRoom, ScanInv
      <3>2. MembersOf(scan.room) # {} =>
              server[scan.room] \in Servers /\ mode[scan.room] \in GameModes \cap MMModes
        BY <3>1 DEF ScanInv, ModeInv
      <3>3. \A c \in list' : c \in list \/
              (MembersOf(scan.room) # {} /\ c = [room |-> scan.room, server |-> server[scan.room],
                                                 mode |-> mode[scan.room]])
        BY <2>4 DEF GetCriteria
      <3>4. list' \subseteq [room : RoomIds, server : Servers, mode : GameModes] /\ CriteriaSound'
        BY <3>1, <3>2, <3>3 DEF ScanInv, CriteriaSound
      <3> QED
        BY <3>1, <3>4 DEF ScanInv, Scanning
    <2>5. CASE ScanDone
      BY <1>1, <2>5 DEF ScanDone, ScanInv, Scanning, CriteriaSound, MembersOf
    <2>6. CASE MatchFound \/ MatchDone
      BY <1>1, <2>6, ZenonT(30) DEF MatchFound, MatchDone, ScanInv, Scanning, CriteriaSound, MembersOf
    <2> QED
      BY <2>1, <2>2, <2>3, <2>4, <2>5, <2>6
  <1>6. OneRoom'
    BY <1>1, <1>2, <1>5
  <1> QED
    BY <1>3, <1>4, <1>5, <1>6

-----------------------------------------------------------------------------
LEMMA NextIInv == IInv /\ [Next]_vars => IInv'
  <1> SUFFICES ASSUME IInv, [Next]_vars PROVE IInv'
    OBVIOUS
  <1>4. CASE UNCHANGED vars
    <2>1. OneRoom' /\ JoinInv'
      BY <1>4 DEF vars, roomVars, IInv, OneRoom, TypeOK, JoinInv
    <2>2. ModeInv' /\ ScanInv'
      <3>1. \A r \in RoomIds : MembersOf(r)' = MembersOf(r) /\ (SetUp(r)' <=> SetUp(r))
        BY <1>4 DEF vars, roomVars, MembersOf, SetUp
      <3>2. \A v \in Users : pc[v] \in Joining \/ pc'[v] \in Joining => pc'[v] = pc[v] /\ arg'[v] = arg[v]
        BY <1>4 DEF vars
      <3> QED
        BY <1>4, <3>1, <3>2, LeaveStep DEF vars, roomVars, IInv, OneRoom, TypeOK
    <2> QED
      BY <2>1, <2>2 DEF IInv
  <1>2. ASSUME NEW u \in Users, SendPacket(u)
        PROVE  heard' \subseteq Users
    BY <1>2 DEF SendPacket, MembersOf
  <1>3. CASE Next
    <2>1. ASSUME Running, heard' = {}, NEW u \in Users,
                 \/ \E r \in RoomIds \cup {NoRoom}, m \in Modes : ProcessJoinRoom(u, r, m)
                 \/ UserJoinRoom(u) \/ NewRoom(u) \/ CheckMode(u) \/ SetGameMode(u) \/ SetServerId(u)
                 \/ TakeOut(u) \/ TakenOut(u)
          PROVE  IInv'
      BY <2>1, ProcessJoinRoomStep, TakeStep, UserJoinRoomStep, SetStep
    <2>2. ASSUME heard' \subseteq Users, NEW u \in Users, Calling(u)
          PROVE  IInv'
      BY <2>2, QueueChatStep
    <2>3. CASE UNCHANGED vars
      BY <1>4, <2>3
    <2> QED
      BY <1>2, <1>3, <2>1, <2>2, <2>3, ScanStep DEF Next, Calling
  <1> QED
    BY <1>3, <1>4

LEMMA Invariance == Spec => []IInv
  BY InitIInv, NextIInv, PTL DEF Spec

\* A user is in the room it points to, once, and in no other, whatever joins
\* of its own and removals by other threads meet.
THEOREM OneRoomPerUser == Spec => []OneRoom
  BY Invariance, PTL DEF IInv

\* An occupied room has a server and the mode, cut to 8 bits, that a client asked
\* for when it was set up last, unless they are being set by the join that holds
\* the manager's mutex: so for any values of nRoomMode.
THEOREM OccupiedIsConfigured == Spec => []InUseIsConfigured
  <1>1. IInv => InUseIsConfigured
    BY DEF IInv, ModeInv, SetUp, InUseIsConfigured
  <1> QED
    BY <1>1, Invariance, PTL

\* The criteria that the match maker gets, put together from separate reads,
\* have a match-making mode and a server.
THEOREM ListIsSound == Spec => []CriteriaSound
  BY Invariance, PTL DEF IInv, ScanInv

-----------------------------------------------------------------------------
\* What a step changes in a room: its members only if it is not in the queue
\* afterwards, its mode only if it had none or is empty.
LEMMA RoomStep ==
  ASSUME IInv, Next, NEW r \in RoomIds
  PROVE  /\ status[r] = "enqueue" /\ status'[r] = "enqueue" => members'[r] = members[r]
         /\ mode'[r] # mode[r] => mode[r] = -1 \/ MembersOf(r)' = {}
  <1>1. ASSUME NEW u \in Users, NEW q \in RoomIds, RemoveUsr(q, u)
        PROVE  (members'[r] = members[r] \/ status'[r] = "normal")
               /\ (mode'[r] = mode[r] \/ MembersOf(r)' = {})
    BY <1>1, RemoveUsrEffect DEF IInv
  <1>2. ASSUME NEW u \in Users, NEW q, NEW m \in Modes, ProcessJoinRoom(u, q, m)
        PROVE  UNCHANGED roomVars \/ \E p \in RoomIds : RemoveUsr(p, u)
    BY <1>2 DEF ProcessJoinRoom, IInv, OneRoom, TypeOK
  <1>3. ASSUME NEW u \in Users, TakenOut(u)
        PROVE  \E p \in RoomIds : RemoveUsr(p, u)
    BY <1>3 DEF TakenOut, IInv, OneRoom, TypeOK
  <1>4. ASSUME NEW u \in Users, UserJoinRoom(u)
        PROVE  mode' = mode /\ (members'[r] = members[r] \/ status'[r] = "normal")
    BY <1>4 DEF UserJoinRoom, AddUsr, IInv, OneRoom, TypeOK
  <1>5. ASSUME NEW u \in Users, NewRoom(u) \/ SetGameMode(u)
        PROVE  members' = members /\ (mode'[r] = mode[r] \/ mode[r] = -1 \/ MembersOf(r)' = {})
    BY <1>5 DEF NewRoom, SetGameMode, SetMode, IInv, OneRoom, TypeOK, JoinInv, ModeInv, Joining, MembersOf
  <1>6. ASSUME NEW u \in Users,
               CheckMode(u) \/ SetServerId(u) \/ TakeOut(u) \/ Calling(u)
        PROVE  UNCHANGED <<members, mode>>
    BY <1>6, Callings DEF CheckMode, SetServerId, TakeOut, roomVars
  <1>7. ASSUME GetMMRooms \/ ScanMode \/ ScanStatus \/ GetCriteria \/ ScanDone \/ MatchFound \/ MatchDone
        PROVE  UNCHANGED <<members, mode>>
    BY <1>7 DEF GetMMRooms, ScanMode, ScanStatus, GetCriteria, ScanDone, MatchFound, MatchDone, roomVars
  <1> QED
    BY <1>1, <1>2, <1>3, <1>4, <1>5, <1>6, <1>7 DEF Next, Calling, roomVars, vars

\* The members of a room that the match maker may have on its list do not
\* change while it stays in the queue.
THEOREM QueueFreezesMembers == Spec => QueuedIsFrozen
  <1>1. IInv /\ [Next]_vars =>
          [\A r \in RoomIds :
             status[r] = "enqueue" /\ status'[r] = "enqueue" => members'[r] = members[r]]_vars
    BY RoomStep
  <1> QED
    BY <1>1, Invariance, PTL DEF Spec, QueuedIsFrozen

\* A join never changes the mode of a room that others are in, but where the mode
\* asked for was cut to -1.
THEOREM ModeIsKept == Spec => ModeKept
  <1>1. IInv /\ [Next]_vars =>
          [\A r \in RoomIds : mode'[r] # mode[r] => mode[r] = -1 \/ MembersOf(r)' = {}]_vars
    BY RoomStep
  <1> QED
    BY <1>1, Invariance, PTL DEF Spec, ModeKept

\* A chat comes back to its sender, and the timer of a queue to who has asked for
\* it, unless taken out of the room between the lookup of it and the sending.
THEOREM ChatReachesSender == Spec => SenderHears
  <1>1. IInv /\ [Next]_vars =>
          [\A u \in Users :
             pc[u] \in Sending /\ pc'[u] = "idle" => u \in heard' \/ room[u] # arg[u].room]_vars
    <2> SUFFICES ASSUME IInv, Next, vars' # vars, NEW u \in Users, pc[u] \in Sending, pc'[u] = "idle",
                        room[u] = arg[u].room
                 PROVE  u \in heard'
      OBVIOUS
    <2> USE DEF IInv, OneRoom, TypeOK
    <2>1. u \in MembersOf(arg[u].room) /\ pc'[u] # pc[u]
      BY DEF JoinInv, Calls, MembersOf, Sending
    <2>2. ASSUME NEW v \in Users, NEW r \in RoomIds \cup {NoRoom}, NEW m \in Modes, ProcessJoinRoom(v, r, m)
          PROVE  FALSE
      BY <2>1, <2>2 DEF ProcessJoinRoom, Goto, Sending
    <2>3. ASSUME NEW v \in Users,
                 \/ UserJoinRoom(v) \/ NewRoom(v) \/ CheckMode(v) \/ SetGameMode(v) \/ SetServerId(v)
                 \/ TakeOut(v) \/ TakenOut(v)
          PROVE  FALSE
      BY <2>1, <2>3 DEF UserJoinRoom, NewRoom, CheckMode, SetGameMode, SetServerId, TakeOut, TakenOut,
                        Finish, Goto, Sending
    <2>4. ASSUME NEW v \in Users,
                 \/ RoomEnterMMQueue(v) \/ StartMM(v) \/ RoomLeaveMMQueue(v) \/ StopMM(v)
                 \/ WriteLogMatchMaking(v) \/ MatchType(v) \/ MMTimer(v) \/ ProcessChat(v)
          PROVE  FALSE
      <3>1. v = u
        BY <2>1, <2>4, Callings DEF Calling, CallStep
      <3>2. ASSUME NEW at, NEW next, next # "idle", GetRoom(v, at, next) \/ Proceed(v, at, next)
            PROVE  FALSE
        BY <3>1, <3>2 DEF GetRoom, Proceed, Goto
      <3>3. CASE RoomEnterMMQueue(v) \/ RoomLeaveMMQueue(v) \/ MMTimer(v) \/ ProcessChat(v)
        BY <3>2, <3>3 DEF RoomEnterMMQueue, RoomLeaveMMQueue, MMTimer, ProcessChat, Dereference
      <3>4. CASE WriteLogMatchMaking(v) \/ MatchType(v)
        BY <3>2, <3>4 DEF WriteLogMatchMaking, MatchType
      <3>5. CASE StartMM(v) \/ StopMM(v)
        BY <3>1, <3>5 DEF StartMM, StopMM, Sending
      <3> QED
        BY <2>4, <3>3, <3>4, <3>5
    <2>5. ASSUME GetMMRooms \/ ScanMode \/ ScanStatus \/ GetCriteria \/ ScanDone \/ MatchFound \/ MatchDone
          PROVE  FALSE
      BY <2>1, <2>5 DEF GetMMRooms, ScanMode, ScanStatus, GetCriteria, ScanDone, MatchFound, MatchDone
    <2>6. ASSUME NEW v \in Users, SendPacket(v)
          PROVE  u \in heard'
      <3>1. v = u
        BY <2>1, <2>6 DEF SendPacket, Handled, Goto
      <3> QED
        BY <2>1, <2>6, <3>1 DEF SendPacket
    <2> QED
      BY <2>2, <2>3, <2>4, <2>5, <2>6 DEF Next
  <1> QED
    BY <1>1, Invariance, PTL DEF Spec, SenderHears

-----------------------------------------------------------------------------
\* The match maker has each room on its list once, and looks at it once.
OfferInv ==
  /\ scan.at = "idle" => list = {}
  /\ \A c, d \in list : c.room = d.room => c = d
  /\ scan.at \in Scanning => \A c \in list : c.room \notin scan.left
  /\ scan.at \in {"status", "criteria"} =>
       scan.room \notin scan.left /\ \A c \in list : c.room # scan.room

LEMMA OfferStep == IInv /\ OfferInv /\ [Next]_vars => OfferInv'
  <1> SUFFICES ASSUME IInv, OfferInv, [Next]_vars PROVE OfferInv'
    OBVIOUS
  <1> USE DEF OfferInv, Scanning
  <1>1. CASE UNCHANGED <<scan, list>>
    BY <1>1
  <1>2. CASE GetMMRooms
    BY <1>2 DEF GetMMRooms
  <1>3. CASE ScanMode
    <2>1. PICK r \in scan.left :
            IF mode[r] \in MMModes
              THEN scan' = [at |-> "status", left |-> scan.left \ {r}, room |-> r]
              ELSE scan' = [scan EXCEPT !.left = @ \ {r}]
      BY <1>3 DEF ScanMode
    <2>2. scan.at = "next" /\ list' = list
      BY <1>3 DEF ScanMode
    <2>3. CASE scan' = [at |-> "status", left |-> scan.left \ {r}, room |-> r]
      BY <2>2, <2>3
    <2>4. CASE scan' = [scan EXCEPT !.left = @ \ {r}]
      BY <2>2, <2>4 DEF IInv, OneRoom, TypeOK
    <2> QED
      BY <2>1, <2>3, <2>4
  <1>4. CASE ScanStatus
    <2>1. /\ scan.at = "status" /\ list' = list
          /\ scan' = [scan EXCEPT !.at = "criteria"] \/ scan' = [scan EXCEPT !.at = "next", !.room = NoRoom]
      BY <1>4 DEF ScanStatus, NextRoom
    <2>2. \/ scan'.at = "criteria" /\ scan'.left = scan.left /\ scan'.room = scan.room
          \/ scan'.at = "next" /\ scan'.left = scan.left
      BY <2>1 DEF IInv, OneRoom, TypeOK
    <2> QED
      BY <2>1, <2>2
  <1>5. CASE GetCriteria
    <2>1. scan.at = "criteria" /\ scan' = [scan EXCEPT !.at = "next", !.room = NoRoom]
      BY <1>5 DEF GetCriteria, NextRoom
    <2>2. PICK e : list' \subseteq list \cup {e} /\ e.room = scan.room
      BY <1>5 DEF GetCriteria
    <2>3. scan'.at = "next" /\ scan'.left = scan.left
      BY <2>1 DEF IInv, OneRoom, TypeOK
    <2>4. \A c, d \in list \cup {e} : c.room = d.room => c = d
      BY <2>1, <2>2
    <2>5. \A c \in list \cup {e} : c.room \notin scan.left
      BY <2>1, <2>2
    <2> QED
      BY <2>2, <2>3, <2>4, <2>5
  <1>6. CASE ScanDone
    BY <1>6 DEF ScanDone, IInv, OneRoom, TypeOK
  <1>7. CASE MatchFound \/ MatchDone
    BY <1>7 DEF MatchFound, MatchDone, IInv, OneRoom, TypeOK
  <1>8. ASSUME NEW u \in Users,
               \/ \E r \in RoomIds \cup {NoRoom}, m \in Modes : ProcessJoinRoom(u, r, m)
               \/ UserJoinRoom(u) \/ NewRoom(u) \/ CheckMode(u) \/ SetGameMode(u) \/ SetServerId(u)
               \/ TakeOut(u) \/ TakenOut(u) \/ Calling(u)
        PROVE  UNCHANGED <<scan, list>>
    BY <1>8, Callings DEF ProcessJoinRoom, UserJoinRoom, NewRoom, CheckMode, SetGameMode, SetServerId,
                          TakeOut, TakenOut
  <1>9. CASE UNCHANGED vars
    BY <1>1, <1>9 DEF vars
  <1> QED
    BY <1>1, <1>2, <1>3, <1>4, <1>5, <1>6, <1>7, <1>8, <1>9 DEF Next, Calling

-----------------------------------------------------------------------------
\* Who is in a room as Occupancy has it are its members.
LEMMA InMembers == OneRoom => \A r \in RoomIds : Occ!In(r) = MembersOf(r)
  BY MembersPoint DEF Occ!In

\* A room's purpose and the offers stay, unless what they rest on changes.
LEMMA PurposeKept ==
  ASSUME UNCHANGED <<members, mode>>
  PROVE  UNCHANGED Purpose
  BY DEF Purpose, MembersOf

LEMMA PurposeFunction ==
  ASSUME NEW r \in RoomIds, NEW m, Purpose'[r] = m, \A q \in RoomIds : q # r => Purpose'[q] = Purpose[q]
  PROVE  Purpose' = [Purpose EXCEPT ![r] = m]
  <1>1. Purpose = [q \in RoomIds |-> Purpose[q]] /\ Purpose' = [q \in RoomIds |-> Purpose'[q]]
    BY DEF Purpose
  <1> HIDE DEF Purpose
  <1> QED
    BY <1>1

LEMMA OfferedKept ==
  ASSUME UNCHANGED <<members, scan, list>>
  PROVE  UNCHANGED Offered
  BY DEF Offered, MembersOf

\* RemoveUsr is that the user leaves, or that it has left before.
LEMMA RemoveUsrLeaves ==
  ASSUME IInv, NEW u \in Users, NEW r \in RoomIds, RemoveUsr(r, u), UNCHANGED <<scan, list>>
  PROVE  Occ!Leave(u) \/ UNCHANGED Occ!vars
  <1> USE RoomsAssumption DEF IInv, OneRoom, TypeOK
  <1>1. CASE members[r][u] > 0
    <2> DEFINE left == [members[r] EXCEPT ![u] = @ - 1]
               empty == \A v \in Users : left[v] = 0
    <2>1. /\ mode' = [mode EXCEPT ![r] = IF empty THEN -1 ELSE @]
          /\ room' = [room EXCEPT ![u] = NoRoom]
          /\ status' = [status EXCEPT ![r] = "normal"]
      BY <1>1 DEF RemoveUsr
    <2>2. room[u] = r /\ members[r][u] = 1
      BY <1>1
    <2>3. left \in [Users -> Nat] /\ \A v \in Users : left[v] = IF v = u THEN 0 ELSE members[r][v]
      BY <2>2
    <2> HIDE DEF left
    <2>4. empty <=> MembersOf(r) \subseteq {u}
      BY <2>3 DEF MembersOf
    <2>5. u \in MembersOf(r)
      BY <2>2 DEF MembersOf
    <2>6. \A q \in RoomIds : MembersOf(q)' = {v \in Users : room'[v] = q}
      BY RemoveUsrEffect DEF MembersOf
    <2>7. \A q \in RoomIds : MembersOf(q)' = MembersOf(q) \ {u}
      BY <2>1, <2>2, <2>6, MembersPoint
    <2>8. \A q \in RoomIds : q # r => MembersOf(q)' = MembersOf(q)
      <3> SUFFICES ASSUME NEW q \in RoomIds, q # r PROVE MembersOf(q)' = MembersOf(q)
        OBVIOUS
      <3>1. u \notin MembersOf(q)
        BY <2>2, MembersPoint
      <3>2. MembersOf(q) \ {u} = MembersOf(q)
        BY <3>1
      <3> QED
        BY <2>7, <3>2
    <2>9. CASE MembersOf(r) = {u}
      <3>1. MembersOf(r)' = {} /\ \A q \in RoomIds : q # r => mode'[q] = mode[q]
        BY <2>1, <2>7, <2>9
      <3>2. Purpose' = [Purpose EXCEPT ![r] = -1]
        <4>1. Purpose'[r] = -1
          BY <3>1 DEF Purpose
        <4>2. \A q \in RoomIds : q # r => Purpose'[q] = Purpose[q]
          BY <2>8, <3>1 DEF Purpose
        <4> QED
          BY <4>1, <4>2, PurposeFunction
      <3>3. Offered' \in {Offered, Offered \ {r}}
        BY <2>8, <3>1 DEF Offered
      <3> QED
        BY <2>1, <2>2, <2>9, <3>2, <3>3, InMembers DEF Occ!Leave
    <2>10. CASE MembersOf(r) # {u}
      <3>1. \A q \in RoomIds : (MembersOf(q)' = {} <=> MembersOf(q) = {}) /\ mode'[q] = mode[q]
        BY <2>1, <2>4, <2>5, <2>7, <2>8, <2>10
      <3>2. Purpose' = Purpose
        BY <3>1 DEF Purpose
      <3>3. Offered' = Offered
        BY <3>1 DEF Offered
      <3> QED
        BY <2>1, <2>2, <2>10, <3>2, <3>3, InMembers DEF Occ!Leave
    <2> QED
      BY <2>9, <2>10
  <1>2. CASE ~(members[r][u] > 0)
    <2>1. UNCHANGED roomVars
      BY <1>2 DEF RemoveUsr
    <2> QED
      BY <2>1, PurposeKept, OfferedKept DEF roomVars, Occ!vars
  <1> QED
    BY <1>1, <1>2

\* A join puts its user into a room, as it finds it.
LEMMA JoinEnters ==
  ASSUME IInv, NEW u \in Users, UserJoinRoom(u)
  PROVE  \E r \in RoomIds : Occ!Enter(u, r)
  <1> DEFINE r == arg[u].room
  <1>1. r \in RoomIds /\ room[u] = NoRoom /\ UNCHANGED <<scan, list>> /\ OneRoom /\ mutex = NoOne
    BY DEF UserJoinRoom, IInv, JoinInv
  <1>2. /\ room' = [room EXCEPT ![u] = r] /\ mode' = mode /\ status' = [status EXCEPT ![r] = "normal"]
        /\ \A q \in RoomIds : MembersOf(q)' = IF q = r THEN MembersOf(r) \cup {u} ELSE MembersOf(q)
    BY <1>1, AddUsrEffect DEF UserJoinRoom
  <1>3. Offered' = Offered
    <2>1. scan.at # "criteria"
      BY <1>1, RoomsAssumption DEF IInv, ScanInv, Scanning
    <2> QED
      BY <1>1, <2>1 DEF Offered
  <1>4. \A q \in RoomIds \ {r} : Purpose'[q] = Purpose[q]
    BY <1>2 DEF Purpose
  <1>5. Purpose'[r] = mode[r]
    <2>1. \A q \in RoomIds : q = r => MembersOf(q)' # {}
      BY <1>2
    <2> QED
      BY <1>1, <1>2, <2>1 DEF Purpose
  <1>6. MembersOf(r) # {} \/ mode[r] = -1 => Purpose' = Purpose
    <2>1. MembersOf(r) # {} \/ mode[r] = -1 => Purpose'[r] = Purpose[r]
      BY <1>1, <1>5 DEF Purpose
    <2> QED
      BY <1>4, <2>1 DEF Purpose
  <1>7. Purpose' = [Purpose EXCEPT ![r] = mode[r]]
    BY <1>1, <1>4, <1>5, PurposeFunction
  <1>8. mode[r] \in GameModes \cup {-1}
    BY <1>1 DEF OneRoom, TypeOK
  <1> QED
    BY <1>1, <1>2, <1>3, <1>6, <1>7, <1>8, InMembers DEF Occ!Enter

\* Setting the mode settles the purpose of a room that is occupied, unless it is
\* cut to -1; if it is not occupied, whoever comes next will find the mode.
LEMMA SetModeSettles ==
  ASSUME IInv, NEW u \in Users, NewRoom(u) \/ SetGameMode(u)
  PROVE  (\E r \in RoomIds, m \in GameModes \ {-1} : Occ!Settle(r, m)) \/ UNCHANGED Occ!vars
  <1> USE DEF IInv, OneRoom, TypeOK
  <1> DEFINE r == arg[u].room
             m == AsInt8(arg[u].mode)
  <1>1. /\ r \in RoomIds /\ m \in GameModes /\ mode' = [mode EXCEPT ![r] = m]
        /\ UNCHANGED <<members, status, room, scan, list>>
    BY SetsMode DEF NewRoom, SetGameMode, SetMode, JoinInv, Joining
  <1>2. mode[r] = -1 \/ MembersOf(r) = {}
    BY DEF NewRoom, SetGameMode, JoinInv, ModeInv, Joining
  <1>3. UNCHANGED <<Offered, room, status>> /\ \A q \in RoomIds : MembersOf(q)' = MembersOf(q)
    BY <1>1, OfferedKept DEF MembersOf
  <1> HIDE DEF r, m
  <1>4. CASE MembersOf(r) = {} \/ m = -1
    <2>1. \A q \in RoomIds : MembersOf(q) = {} \/ mode'[q] = mode[q]
      BY <1>1, <1>2, <1>4
    <2>2. Purpose' = Purpose
      BY <1>3, <2>1 DEF Purpose
    <2> QED
      BY <1>3, <2>2 DEF Occ!vars
  <1>5. CASE MembersOf(r) # {} /\ m # -1
    <2>1. Purpose[r] = -1 /\ Purpose'[r] = m /\ \A q \in RoomIds \ {r} : Purpose'[q] = Purpose[q]
      BY <1>1, <1>2, <1>3, <1>5 DEF Purpose
    <2>2. Purpose' = [Purpose EXCEPT ![r] = m]
      BY <1>1, <2>1, PurposeFunction
    <2> QED
      BY <1>1, <1>3, <1>5, <2>1, <2>2, InMembers DEF Occ!Settle
  <1> QED
    BY <1>4, <1>5

LEMMA CallsQueue ==
  ASSUME IInv, NEW u \in Users, StartMM(u) \/ StopMM(u)
  PROVE  (\E r \in RoomIds : Occ!Enqueue(r) \/ Occ!Dequeue(r)) \/ UNCHANGED Occ!vars
  <1> USE DEF IInv, OneRoom, TypeOK
  <1> DEFINE r == arg[u].room
  <1>1. UNCHANGED <<members, mode, room, scan, list>>
    BY Callings DEF Calling
  <1>2. UNCHANGED <<room, Purpose, Offered>>
    BY <1>1, PurposeKept, OfferedKept
  <1>3. r \in RoomIds
    BY DEF StartMM, StopMM, JoinInv, Calls
  <1>4. \/ status' = [status EXCEPT ![r] = "enqueue"]
        \/ status[r] = "enqueue" /\ status' = [status EXCEPT ![r] = "normal"]
        \/ status' = status
    BY DEF StartMM, StopMM, roomVars
  <1> QED
    BY <1>2, <1>3, <1>4 DEF Occ!Enqueue, Occ!Dequeue, Occ!vars

\* What the scan finds: a room is offered when its status is read, if it is
\* occupied; and then it is still when its criteria are read, or the offer has
\* lapsed.
LEMMA ScanOffers ==
  ASSUME IInv, OfferInv,
         GetMMRooms \/ ScanMode \/ ScanStatus \/ GetCriteria \/ ScanDone \/ MatchFound \/ MatchDone
  PROVE  (\E r \in RoomIds : Occ!Offer(r) \/ Occ!Found(r)) \/ Occ!Withdraw \/ UNCHANGED Occ!vars
  <1> USE DEF IInv, OneRoom, TypeOK
  <1>1. UNCHANGED <<members, mode, room>>
    BY DEF GetMMRooms, ScanMode, ScanStatus, GetCriteria, ScanDone, MatchFound, MatchDone, roomVars
  <1>2. Purpose' = Purpose /\ \A r \in RoomIds : MembersOf(r)' = MembersOf(r)
    BY <1>1, PurposeKept DEF MembersOf
  <1>3. CASE GetMMRooms \/ ScanMode \/ ScanDone
    <2>1. status' = status /\ list' = list /\ scan.at # "criteria" /\ scan'.at # "criteria"
      <3>1. CASE GetMMRooms
        BY <3>1 DEF GetMMRooms, OfferInv, roomVars
      <3>2. CASE ScanMode
        <4>1. PICK q \in scan.left :
                \/ scan' = [at |-> "status", left |-> scan.left \ {q}, room |-> q]
                \/ scan' = [scan EXCEPT !.left = @ \ {q}]
          BY <3>2 DEF ScanMode
        <4>2. scan.at = "next" /\ scan'.at \in {"status", "next"}
          BY <3>2, <4>1 DEF ScanMode
        <4> QED
          BY <3>2, <4>2 DEF ScanMode, roomVars
      <3>3. CASE ScanDone
        BY <3>3 DEF ScanDone, roomVars
      <3> QED
        BY <1>3, <3>1, <3>2, <3>3
    <2>2. Offered' = Offered
      BY <2>1 DEF Offered
    <2> QED
      BY <1>1, <1>2, <2>1, <2>2 DEF Occ!vars
  <1>4. CASE ScanStatus
    <2> DEFINE r == scan.room
    <2>1. /\ scan.at = "status" /\ r \in RoomIds /\ UNCHANGED <<status, list>>
          /\ mode[r] \in MMModes \/ MembersOf(r) = {}
      BY <1>4 DEF ScanStatus, roomVars, ScanInv
    <2>2. CASE status[r] = "enqueue" /\ MembersOf(r) # {}
      <3>1. scan' = [scan EXCEPT !.at = "criteria"]
        BY <1>4, <2>2 DEF ScanStatus
      <3>2. Purpose[r] \in MMModes
        BY <2>1, <2>2 DEF Purpose
      <3>3. r \notin Offered
        BY <2>1 DEF Offered, OfferInv
      <3>4. Offered' = Offered \cup {r}
        BY <1>2, <2>1, <2>2, <3>1 DEF Offered
      <3> QED
        BY <1>1, <1>2, <2>1, <2>2, <3>2, <3>3, <3>4 DEF Occ!Offer
    <2>3. CASE ~(status[r] = "enqueue" /\ MembersOf(r) # {})
      <3>1. scan'.at = "criteria" => scan'.room = r /\ MembersOf(r) = {}
        BY <1>4, <2>3 DEF ScanStatus, NextRoom
      <3>2. Offered' = Offered
        BY <1>2, <2>1, <3>1 DEF Offered
      <3> QED
        BY <1>1, <1>2, <2>1, <3>2 DEF Occ!vars
    <2> QED
      BY <2>2, <2>3
  <1>5. CASE GetCriteria
    <2> DEFINE r == scan.room
    <2>1. /\ scan.at = "criteria" /\ r \in RoomIds /\ status' = status /\ scan'.at # "criteria"
          /\ list' = IF MembersOf(r) = {} THEN list
                     ELSE list \cup {[room |-> r, server |-> server[r], mode |-> mode[r]]}
      BY <1>5 DEF GetCriteria, NextRoom, roomVars, ScanInv
    <2>2. Offered' = {c.room : c \in list'}
      BY <2>1 DEF Offered
    <2>3. Offered = {c.room : c \in list} \cup (IF MembersOf(r) = {} THEN {} ELSE {r})
      BY <2>1 DEF Offered
    <2>4. Offered' = Offered
      <3>1. CASE MembersOf(r) = {}
        BY <2>1, <2>2, <2>3, <3>1
      <3>2. CASE MembersOf(r) # {}
        <4> DEFINE e == [room |-> r, server |-> server[r], mode |-> mode[r]]
        <4>1. e.room = r /\ list' = list \cup {e}
          BY <2>1, <3>2
        <4> HIDE DEF e
        <4>2. {c.room : c \in list'} = {c.room : c \in list} \cup {r}
          BY <4>1
        <4> QED
          BY <2>2, <2>3, <3>2, <4>2
      <3> QED
        BY <3>1, <3>2
    <2> QED
      BY <1>1, <1>2, <2>1, <2>4 DEF Occ!vars
  <1>6. CASE MatchFound
    <2>1. PICK c \in list : status' = [status EXCEPT ![c.room] = "found"] /\ list' = list \ {c}
      BY <1>6 DEF MatchFound
    <2>2. scan.at = "match" /\ scan' = scan /\ c.room \in RoomIds
      BY <1>6 DEF MatchFound
    <2>3. c.room \in Offered /\ Offered' = Offered \ {c.room}
      BY <2>1, <2>2 DEF Offered, OfferInv
    <2> QED
      BY <1>1, <1>2, <2>1, <2>2, <2>3 DEF Occ!Found
  <1>7. CASE MatchDone
    <2>1. list' = {} /\ scan'.at # "criteria" /\ status' = status
      BY <1>7 DEF MatchDone, roomVars
    <2>2. Offered' = {}
      BY <2>1 DEF Offered
    <2> QED
      BY <1>1, <1>2, <2>1, <2>2 DEF Occ!Withdraw
  <1> QED
    BY <1>3, <1>4, <1>5, <1>6, <1>7

LEMMA OccupancyStep == IInv /\ OfferInv /\ [Next]_vars => [Occ!Next]_Occ!vars
  <1> SUFFICES ASSUME IInv, OfferInv, [Next]_vars PROVE Occ!Next \/ UNCHANGED Occ!vars
    OBVIOUS
  <1>1. ASSUME NEW u \in Users, NEW q \in RoomIds \cup {NoRoom}, NEW m \in Modes, ProcessJoinRoom(u, q, m)
        PROVE  Occ!Leave(u) \/ UNCHANGED Occ!vars
    <2>1. UNCHANGED <<scan, list>>
      BY <1>1 DEF ProcessJoinRoom
    <2>2. CASE room[u] = NoRoom
      BY <1>1, <2>1, <2>2, PurposeKept, OfferedKept DEF ProcessJoinRoom, roomVars, Occ!vars
    <2>3. CASE room[u] # NoRoom
      BY <1>1, <2>1, <2>3, RemoveUsrLeaves DEF ProcessJoinRoom, IInv, OneRoom, TypeOK
    <2> QED
      BY <2>2, <2>3
  <1>2. ASSUME NEW u \in Users, TakenOut(u)
        PROVE  Occ!Leave(u) \/ UNCHANGED Occ!vars
    BY <1>2, RemoveUsrLeaves DEF TakenOut, IInv, OneRoom, TypeOK
  <1>3. ASSUME NEW u \in Users,
               \/ CheckMode(u) \/ SetServerId(u) \/ TakeOut(u)
               \/ Calling(u) /\ ~(StartMM(u) \/ StopMM(u))
        PROVE  UNCHANGED Occ!vars
    <2>1. UNCHANGED <<members, mode, status, room, scan, list>>
      <3>1. CASE CheckMode(u) \/ SetServerId(u) \/ TakeOut(u)
        BY <3>1 DEF CheckMode, SetServerId, TakeOut, roomVars
      <3>2. CASE Calling(u) /\ ~(StartMM(u) \/ StopMM(u))
        BY <3>2, Callings, QueueKept
      <3> QED
        BY <1>3, <3>1, <3>2
    <2> QED
      BY <2>1, PurposeKept, OfferedKept DEF Occ!vars
  <1>4. CASE UNCHANGED vars
    BY <1>4, PurposeKept, OfferedKept DEF vars, roomVars, Occ!vars
  <1> QED
    BY <1>1, <1>2, <1>3, <1>4, JoinEnters, SetModeSettles, CallsQueue, ScanOffers DEF Next, Calling, Occ!Next

\* The rooms implement Occupancy: what the handlers, the removals by other
\* threads and the match maker do in many calls, each with a lock of its own,
\* amounts to moves of single users and to offers of queued rooms.
THEOREM RoomsImplementOccupancy == Spec => OccupancySpec
  <1>1. Init => OfferInv /\ Occ!Init
    BY DEF Init, OfferInv, Occ!Init, Purpose, Offered, MembersOf, Scanning
  <1>2. Spec => []OfferInv
    BY <1>1, Invariance, OfferStep, PTL DEF Spec
  <1> QED
    BY <1>1, <1>2, Invariance, OccupancyStep, PTL DEF Spec, OccupancySpec, Occ!Spec
=============================================================================
