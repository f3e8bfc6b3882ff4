-------------------------------- MODULE Locking --------------------------------
(***************************************************************************)
(* The locks of the chat library: the shared mutex of VUserManager         *)
(* ("users"), the mutex of VChatRoomManager ("rooms"), the shared mutex of *)
(* each VChatRoom and the mutex of each VUser.  Each operation is given by *)
(* the sequences of locks it may take and release, calls it makes while it *)
(* holds a lock included; the threads run operations, and a thread waits   *)
(* as boost's mutexes make it wait.  What the operations do otherwise is   *)
(* in UserManager, UserWalks, Rooms and PacketGate.                        *)
(*                                                                         *)
(* boost::shared_mutex prefers writers: a writer that has to wait bars new *)
(* readers until the lock is free again (exclusive_waiting_blocked).  So a *)
(* thread that takes a lock for reading twice may wait for a writer that   *)
(* waits for it.  Of the members of VChatUser that are not in the          *)
(* repository, JoinRoom is taken to leave one room and enter another,      *)
(* Close to close the session, and those called under a room's lock        *)
(* (SetRoom, ResetRoom, GetMatchMakingPoint) to take no lock.              *)
(***************************************************************************)
EXTENDS Integers, Sequences, FiniteSets

CONSTANTS Threads, Users, Rooms

ASSUME LockingAssumption == IsFiniteSet(Users) /\ IsFiniteSet(Rooms)

VARIABLES ahead,     \* the locks each thread has yet to take and release
          held,     \* <<lock, mode>> of each thread
          barred    \* the shared mutexes for which exclusive_waiting_blocked is set

lockVars == <<ahead, held, barred>>

RoomLock(r) == <<"room", r>>
UserLock(u) == <<"user", u>>
UsersLock == <<"users">>
RoomsLock == <<"rooms">>

-----------------------------------------------------------------------------
\* An operation is a set of programs, those it may run.

Nothing == {<<>>}
Maybe(op) == op \cup Nothing
p ++ q == {a \o b : a \in p, b \in q}

\* A loop: op has the programs of each element.
Each(op) ==
  LET done[set \in SUBSET DOMAIN op] ==
        IF set = {} THEN Nothing
        ELSE LET x == CHOOSE x \in set : TRUE IN done[set \ {x}] ++ op[x]
  IN done[DOMAIN op]

Guarded(lock, mode, op) ==
  {<<[lock |-> lock, mode |-> mode]>>} ++ op ++ {<<[lock |-> lock, mode |-> "unlock"]>>}

\* VReadLock, VWriteLock and ScopedLock.
ReadLock(lock, op) == Guarded(lock, "shared", op)
WriteLock(lock, op) == Guarded(lock, "exclusive", op)

-----------------------------------------------------------------------------
\* VUser, VChatUser.

SetState(u) == WriteLock(UserLock(u), Nothing)
GetState(u) == WriteLock(UserLock(u), Nothing)
CloseSession(u) == SetState(u)

\* SendBuffer, SendData: the reference locked may be the session's last, and
\* then close_session closes the session of its user.
SendBuffer(u) == Maybe(CloseSession(u))
SendAll(set) == Each([u \in set |-> SendBuffer(u)])

-----------------------------------------------------------------------------
\* VChatRoom.

SetId(r) == WriteLock(RoomLock(r), Nothing)
GetId(r) == ReadLock(RoomLock(r), Nothing)
SetGameMode(r) == WriteLock(RoomLock(r), Nothing)
GetGameMode(r) == ReadLock(RoomLock(r), Nothing)
SetServerId(r) == WriteLock(RoomLock(r), Nothing)
GetServerId(r) == ReadLock(RoomLock(r), Nothing)
GetStatus(r) == ReadLock(RoomLock(r), Nothing)

SendPacket(r) == ReadLock(RoomLock(r), SendAll(Users))
ForEachUser(r) == ReadLock(RoomLock(r), SendAll(Users))
GetUsers(r) == WriteLock(RoomLock(r), Nothing)

\* Mutant of SetStatus: the lock is not released before SendPacket.
SetStatusLocked(r) == WriteLock(RoomLock(r), Maybe(SendPacket(r)))

SetStatus(r) == WriteLock(RoomLock(r), Nothing) ++ Maybe(SendPacket(r))

FindUserByID(r) == ReadLock(RoomLock(r), Nothing)
AddUsr(r) == WriteLock(RoomLock(r), Nothing)
RemoveUsr(r) == WriteLock(RoomLock(r), Maybe(SendAll(Users)))
GetCriteria(r) == ReadLock(RoomLock(r), Nothing)
StartMM(r) == WriteLock(RoomLock(r), Nothing)
StopMM(r) == WriteLock(RoomLock(r), Nothing)
GetMMPoint(r) == ReadLock(RoomLock(r), Nothing)
GetUserCount(r) == ReadLock(RoomLock(r), Nothing)

\* WriteLogMatchMaking of one room or of two: a lock for each argument, in an
\* order that is the compiler's.
LogRoom(r) == GetServerId(r) ++ GetId(r) ++ GetMMPoint(r)
WriteLogMatchMaking(r) ==
  GetUserCount(r) ++ Maybe(GetUserCount(r)
    ++ Maybe(LogRoom(r) ++ Maybe(Each([q \in Rooms \ {r} |-> LogRoom(q)])) ++ GetUserCount(r)))

-----------------------------------------------------------------------------
\* VChatRoomManager.

UserJoinRoom(r) ==
  WriteLock(RoomsLock,
    AddUsr(r) ++ (SetId(r) ++ SetGameMode(r) \cup
                  GetGameMode(r) ++ Maybe(GetServerId(r)) ++ Maybe(SetGameMode(r) ++ SetServerId(r))))

RemoveRoom == WriteLock(RoomsLock, Nothing)
GetRoomByID == WriteLock(RoomsLock, Nothing)

ScanRoom(r) == GetGameMode(r) ++ Maybe(GetStatus(r) ++ Maybe(GetCriteria(r)))
GetMMRooms == WriteLock(RoomsLock, Each([r \in Rooms |-> ScanRoom(r)]))

\* JoinRoom: out of the old room, if there is one, and into the new one, if
\* there is one.
LeaveRoom == Nothing \cup (UNION {RemoveUsr(r) : r \in Rooms})
JoinRoom == LeaveRoom ++ (UNION {UserJoinRoom(r) : r \in Rooms})

-----------------------------------------------------------------------------
\* VUserManager.

GetUser == ReadLock(UsersLock, Nothing)
CountUsers == ReadLock(UsersLock, Nothing)          \* GetUserCount
GetUserIDArray == ReadLock(UsersLock, Nothing)

\* AddUser; CreateUser counts the users once more before it.
AddUser(old) ==
  CountUsers ++ Maybe(WriteLock(UsersLock, Maybe(LeaveRoom ++ CloseSession(old) ++ SetState(old))))
CreateUser(old) == CountUsers ++ Maybe(AddUser(old))

RemoveUser(u) == WriteLock(UsersLock, Maybe(LeaveRoom ++ CloseSession(u)))

\* SendServerPacket to the users of a server, SendGlobalPacket to all.
SendServerPacket(set) == ReadLock(UsersLock, SendAll(set))
SendGlobalPacket == ReadLock(UsersLock, SendAll(Users))

-----------------------------------------------------------------------------
\* VChatProcessPacketManager and VNetworkProcessPacketManager.

\* CanReceivePacket tests the user's state before the handler runs.
ReceivePacket(u, handler) == GetState(u) ++ Maybe(handler)

\* WriteLogChat asks the session for its address, by a reference that may be the last.
WriteLogChat(u) == Maybe(CloseSession(u))
ProcessChat(u, r) == WriteLogChat(u) ++ Maybe(GetId(r) ++ SendPacket(r))
ProcessNotifyGlobal == SendGlobalPacket
ProcessBanNick(u) == GetUser ++ Maybe(SetState(u))
RoomEnterMMQueue(r) == StartMM(r) ++ SendPacket(r)
RoomLeaveMMQueue(r) == StopMM(r) ++ Maybe(WriteLogMatchMaking(r) ++ SendPacket(r))
RequestZMEFriends(u) == GetUser ++ SendBuffer(u)
SendBillingURL(u) == GetUser ++ Maybe(SendBuffer(u))

Handlers(u) ==
  JoinRoom \cup ProcessBanNick(u) \cup ProcessNotifyGlobal \cup RequestZMEFriends(u)
    \cup (UNION {ProcessChat(u, r) \cup RoomEnterMMQueue(r) \cup RoomLeaveMMQueue(r) : r \in Rooms})

\* What the io threads, the match maker and the other managers run.
Operations ==
  (UNION {ReceivePacket(u, Handlers(u)) : u \in Users})
    \cup (UNION {CreateUser(u) \cup RemoveUser(u) \cup CloseSession(u) \cup SendBillingURL(u) : u \in Users})
    \cup (UNION {SendServerPacket(set) : set \in SUBSET Users})
    \cup GetUserIDArray \cup GetMMRooms \cup RemoveRoom \cup GetRoomByID
    \cup (UNION {SetStatus(r) \cup ForEachUser(r) \cup GetUsers(r) \cup FindUserByID(r) : r \in Rooms})

-----------------------------------------------------------------------------
\* The steps of p that took a lock which is not released by its n-th.
Unreleased(p, n) ==
  {i \in 1..n :
     p[i].mode # "unlock" /\ \A j \in (i + 1)..n : p[j].mode = "unlock" => p[j].lock # p[i].lock}

\* A thread holds nothing between the sections of a program, each of which
\* starts without a lock and ends without one; so a thread is taken to run the
\* sections of all operations one at a time, in any order.
Free(p) == {n \in 0..Len(p) : Unreleased(p, n) = {}}
SectionsOf(p) ==
  UNION {{SubSeq(p, i + 1, j) : j \in {j \in Free(p) : i < j /\ \A k \in Free(p) : k <= i \/ j <= k}}
           : i \in Free(p)}
Sections == UNION {SectionsOf(p) : p \in Operations}

LockingInit ==
  /\ ahead = [t \in Threads |-> <<>>]
  /\ held = [t \in Threads |-> {}]
  /\ barred = {}

Begin(t) ==
  /\ ahead[t] = <<>>
  /\ \E p \in Sections : ahead' = [ahead EXCEPT ![t] = p]
  /\ UNCHANGED <<held, barred>>

Holders(lock, modes) == {t \in Threads : \E mode \in modes : <<lock, mode>> \in held[t]}

\* Those who keep t from the lock it wants, t itself included: the writer, or
\* for a writer everybody; readers too, while a writer bars the lock.
Blockers(t) ==
  IF ahead[t] = <<>> \/ Head(ahead[t]).mode = "unlock" THEN {}
  ELSE LET lock == Head(ahead[t]).lock
       IN Holders(lock, IF Head(ahead[t]).mode = "shared" /\ lock \notin barred
                          THEN {"exclusive"} ELSE {"shared", "exclusive"})

Step(t) == ahead' = [ahead EXCEPT ![t] = Tail(@)]

\* lock() and lock_shared() return.
Acquire(t) ==
  /\ ahead[t] # <<>> /\ Head(ahead[t]).mode # "unlock"
  /\ Blockers(t) = {}
  /\ held' = [held EXCEPT ![t] = @ \cup {<<Head(ahead[t]).lock, Head(ahead[t]).mode>>}]
  /\ Step(t)
  /\ UNCHANGED barred

\* lock() of a shared mutex has to wait, and bars new readers.
Bar(t) ==
  /\ Blockers(t) # {} /\ Head(ahead[t]).mode = "exclusive"
  /\ barred' = barred \cup {Head(ahead[t]).lock}
  /\ UNCHANGED <<ahead, held>>

\* unlock() and unlock_shared(): when the lock is free again, whoever waits for
\* it tries again.
Unlock(t) ==
  /\ ahead[t] # <<>> /\ Head(ahead[t]).mode = "unlock"
  /\ LET lock == Head(ahead[t]).lock IN
       /\ held' = [held EXCEPT ![t] = {h \in @ : h[1] # lock}]
       /\ barred' = IF Holders(lock, {"shared", "exclusive"}) = {t} THEN barred \ {lock} ELSE barred
  /\ Step(t)

LockingNext == \E t \in Threads : Begin(t) \/ Acquire(t) \/ Bar(t) \/ Unlock(t)

LockingSpec == LockingInit /\ [][LockingNext]_lockVars

-----------------------------------------------------------------------------
\* No threads wait for one another, and no thread for itself: whoever waits
\* for a lock waits, in the end, for a thread that can go on.
NoDeadlock ==
  ~ \E set \in (SUBSET Threads) \ {{}} : \A t \in set : Blockers(t) \cap set # {}
=============================================================================
