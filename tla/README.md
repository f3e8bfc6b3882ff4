# TLA+ models of the chat server

This directory holds the formal models of the chat server in `src/`: its memory
recycling, its network layer, its users and its rooms, as TLA+ modules that TLC
checks on small instances, and, for all but one of the detailed ones, proofs
that TLAPS checks for every value of the constants.

The server is C++ on boost::asio, about 3,200 lines. The repository has no
tests and no design document; the code and its few comments are the reference.
The chat library (`VChatLib`) is in the middle of a refactoring: its `.cpp`
files use members (`JoinRoom`, `Close`, `CanReceivePacket`, the state `KICK`,
...) that the headers no longer declare, and managers (`VDatabaseManager`,
`VMMProcessManager`, ...) that are not in the repository. Those are modelled
from how the code uses them.

## Inventory

| Component | State | Operations | Interacts with |
|---|---|---|---|
| `SafeRingBuffer` (VCommon/VAllocatorHandler.h) | `data_`, `cur_`, `size_`, the atomic `signal_` | `push`, `pop`, `size`, `clear` | every thread, through the allocator and the session pool |
| `AllocateManager` (same file) | 16 x 4 or 8 rings | `Allocate`, `DeAllocate`, `Start`, `Stop` | its rings, `malloc`; used by all containers and buffers |
| `handler_allocator` (VNetWork/VAsyncServer.hpp) | one block, `in_use_` | `allocate`, `deallocate` | one per direction of a session |
| `VCircularStack`, `VSafeCircularStack` (VCommonDefines.h) | `datas`, `index` | `push_back`, `get`, `clear` | none in this repository |
| `session` (VNetWork/VAsyncServer.hpp) | socket, `m_datas`, `header_`, `data_`, `user_` | `start`, the read handlers, `send_buffer`, `do_write`, `handle_write`, ... | io threads, its strand, its user |
| `session_manager`, `async_server`, `VNetWorkManager` | the pool of sessions, the acceptor, the io threads | `create_session`, `close_session`, `start_accept`, `handle_accept`, `stop` | sessions, `VSystemManager` |
| `VUser`, `VChatUser` | `m_State`, `m_Session`, `m_nSeq`, `m_nKey`, ids | `SetState`, `CloseSession`, `CheckSecurity`, `SendBuffer`, ... | its session, rooms, the manager |
| `VNetworkProcessPacketManager` | none | `ReceivePacket`, `OnReceive` | session (caller), user, handlers |
| `VUserManager` | `m_pUsers` | `CreateUser`, `AddUser`, `RemoveUser`, lookups, broadcasts | users, rooms |
| `VChatRoom`, `VChatRoomManager` | members, mode, server, status; `m_Rooms` | `AddUsr`, `RemoveUsr`, `StartMM`, `StopMM`, `UserJoinRoom`, `GetMMRooms`, ... | users, the match maker |
| `VChatProcessPacketManager` | handler table | one handler per packet type | users, rooms, external managers |
| `VConfigureManager`, `VSystemManager`, `VChatApp` | configuration, the list of managers | read the file, start and stop the rest | all |
| `ObjectAllocator`, `ObjectRefAllocator`, `VSimpleBuffer`, `ContainerAlloc` | objects and data in blocks, their references | `Create`, `Destroy`, constructors | `AllocateManager`; used by all |
| `crc32` | the table of a user's key | `GetCRC` | `VUser::CheckSecurity` |
| locks, singletons | mutexes | `VReadLock`, `VWriteLock`, `ScopedLock` | all |
| databases, guilds, lobby link, HTTP, ZME, logging, match maker | not in the repository | | |

What makes the system hard:

* `SafeRingBuffer` is a hand-written try-lock on one atomic counter.
* The handlers of a session run on a pool of threads. Its writes go through a
  strand; its reads do not; any thread sends.
* Session objects live by reference counting, through shutdown too.
* The fields of a user are read and written by its session's threads, by the
  threads that log other users in, and by whoever sends to it, often unlocked.
* `VUserManager` and `VChatRoomManager` check under one lock acquisition and
  act under another; the rooms have a lock of their own, and these locks nest.
* A user is removed or displaced by one thread while another handles its packets.
* Memory may run out, the port be taken, and SIGTERM come at any moment.

What makes each correct is stated by the properties below; `PROJECT.json` lists
every hazard at its line with the properties that would catch it.

## Modules

| Module | Models | Kind |
|---|---|---|
| `LifoPool` | what a recycling container promises: a bounded stack that may refuse | abstract |
| `SafeRingBuffer` | the ring buffer, one step per access to shared data | detailed, implements `LifoPool` |
| `SafeRingBuffer_proofs` | | proofs, of `CircularStack` too |
| `AllocateManager` | the allocator over rings taken by their contract | detailed |
| `Objects`, `MCObjects` | what is kept in its blocks: objects, buffers, containers | composed with `AllocateManager` |
| `Objects_proofs` | | proofs, of `AllocateManager` too |
| `RecentLog` | what the circular stack promises | abstract |
| `CircularStack` | `VCircularStack` | detailed, implements `RecentLog` |
| `Outbox` | what a session promises to those who send: FIFO, no loss | abstract |
| `Session` | one connection, from accept to release and reuse | detailed, implements `Outbox` |
| `HandlerMemory` | the memory of a session's asynchronous operations | composed with `Session` |
| `Session_proofs` | | proofs, of `HandlerMemory` too |
| `Server` | the references to sessions, the accept loop, the shutdown | detailed |
| `System` | the process: start and stop of all managers, SIGTERM | composed with `Server` |
| `System_proofs` | | proofs, of `Server` and `Locking` too |
| `Checksum` | the keyed CRC, its table, and its definition bit by bit | operators |
| `PacketGate`, `MCPacketGate` | from a packet that was read to its handler | detailed, uses `Checksum` |
| `PacketGate_proofs` | | proofs, of `Checksum` too |
| `UserManager` | the map of users | detailed |
| `Presence`, `MCPresence` | users that are removed while their packets are handled, and their rooms | composed with `UserManager` |
| `Presence_proofs` | | proofs, of `UserManager` too |
| `UserWalks`, `MCUserWalks` | broadcasts to the users and pages of their list | detailed |
| `UserWalks_proofs` | | proofs |
| `Occupancy` | what the rooms promise: who is where, a room's purpose, matches | abstract |
| `Rooms`, `MCRooms` | rooms, joining, match making, chat | detailed, implements `Occupancy` |
| `Rooms_proofs` | | proofs |
| `Locking`, `MCLocking` | the locks of the chat library and the order they are taken in | detailed |

An operator whose comment begins with "Mutant of" is a plausible mistake in the
operator it names. It is used by no specification; putting it in the place of
that operator makes the property listed with it in `PROJECT.json` fail, which
shows that the property depends on that line of the code.

### SafeRingBuffer

State: `signal`, `size`, `cur`, `data` are the members of the class; `pc` and
`arg` are where each thread is and what it carries. Each of `push` and `pop` is
the decrement and its test (`Enter`), the access to `cur_` and `data_`
(`PushTest`, `PushStore`, `PushAdvance`, `PopTake`), and the last update of
`signal_` (`PushDone`, `Leave`). `Init` covers the three ways a buffer is made:
default (`signal_` 1, unsized) and sized (`signal_` 0), with size 0 or not.
`SetSize` is `size(n)`. Elements pushed are ones nobody else holds, as the
callers do.

* `Exclusive`, `OneOwner`: one accessor at a time; a pointer has one owner.
* `CachedForGood`: the price of line 64, where a successful push decrements the
  counter again. What the buffer has cached it never gives back. It follows that
  it caches one element at most, and none if sized by its constructor, as the
  session pool is (theorem `AtMostOneCached`, of `CacheLimit`).
* `PoolSpec`: every step is a step of `LifoPool` or a stutter, with
  `stack <- data_[0 .. cur_-1]`.
* `IdleUnlocked`, which the enumeration of line 22-26 suggests, fails: run
  `ring_idle`. Fixing line 64 to `++signal_` makes it hold and keeps `Exclusive`,
  `OneOwner` and `PoolSpec`.

Instance: 3 threads, 3 elements, capacity 2. Two threads contend and a third
gives back in between. After one successful push the buffer is locked, so a full
buffer is met only with size 0; at capacity 2 it would be if line 64 were repaired.

### AllocateManager and Objects

A request is rounded by `FindSlot`; the rings of its size are tried in order,
one step per ring, each of which may hand out its last block or not
(`PopRing`), then `malloc`, which may fail (`MallocFails`). `DeAllocate` is the
same the other way. Rings are taken by `LifoPool`, not by `SafeRingBuffer`'s
behaviour, so the results hold whether or not line 64 is repaired. `Stop` frees
the blocks and leaves them in the rings; nothing in the repository calls it,
and the model assumes that no request is under way and none follows. `Start`,
which nothing calls either, may happen at any time before `Stop`.

`Objects` adds who asks: a thread makes an object, a buffer or the elements of a
container (`Create`, `GetBlock`, `Construct`), references to it are passed on
and dropped (`Share`, `Drop`), and the last one gives the block back. Without
memory `Create` returns null. `CreateUser` and `start_accept` test it, so a user or
a session is just not made; `UserJoinRoom` (VChatRoomManager.h:39-40) adds a user to
the null room, a buffer copies its data through the null pointer, and a container
writes its elements through it (`GetNull`, `killed`). A session is made as a user
is, so `Kinds` does not have it.

* `BigEnough`: every block is as large as its request; a ring holds blocks of
  its own size only.
* `OneOwner`: heap, caller, thread or one place of one ring, never two, never none.
* `ObjectsHeld`: a block in use holds one thing, that is referred to or being
  made by one thread; so no block is recycled under a reference or lost, also
  when there is no memory. Memory that is wanting for a user does no harm; for a
  room, data or elements it can end the process, and nothing else does.

Instance: 2 threads, 3 blocks, sizes 1, 2, 3 (rounded up to 4) and 5 (too large
for the three slots), two rings of one place, at most 2 references (`MaxRefs`).
A second ring is reached after a refusal. Deadlock is not checked: after `Stop`,
and when the process is killed, nothing need happen.

### CircularStack

`push_back`, `clear`, `get(reset)`; `index` is modulo `Wrap`. `RecentSpec` says
that a read returns the most recent elements in order. A read without reset
reduces `index` modulo N: the next one returns only the newest part. When
`index` wraps, the stack starts again. No slot is read before it is written.
Instance: N = 3, index modulo 8, which is
not a multiple of 3.

### Session and HandlerMemory

State: `life` of the object, `peer` (the connection), `rd`/`got` (the one read
chain: the handler that is due and its result), `link` (the user and its
`m_Session`), the write path from `sending` (threads that have locked
`m_Session`) over `posted` (the strand) and `datas` (`m_datas`) to `ops`
(outstanding `async_write`s), and the histories `sent` and `wire`. An operation
completes in one step and its handler runs in a later one, so that anything can
happen in between. `Release` is the deleter of the last reference and
`StartAccept` the reuse of the object; the pool is taken by its contract, it may
take the session or not.

`HandlerMemory` adds to each step the memory that asio asks the handlers for:
`read_allocator_` and `write_allocator_` are the block's flag and who holds
what. The memory of an operation is returned before its handler runs; that of a
write by an io thread, before the handler reaches the strand (`ReturnWrite`).
`Large` are the operations that do not fit into the block; which do is asio's
affair, so one buffer is large and the others are not.

* `OneWrite`: composed writes never overlap.
* `LinkedIsRead`: a user that can be sent to has a reader that will notice the
  end of the connection.
* `QueueAdvances`: unless the connection is broken, the front of `m_datas` is
  being written. After a failed write nothing is written any more: the queue is
  stuck by design of `handle_write`.
* `OutboxSpec`: refinement of `Outbox`, the identity on `sent` and `wire`.
* `SentIsWritten`, `GoneIsReleased`: liveness.
* `OneBlock`: the block of a direction holds at most one operation, its flag says
  so, and only what does not fit goes to the heap.
* `WrittenIsHeld`: the buffer that is being written, to which asio has only a
  pointer, stays in `m_datas`, on a broken connection too.

Fairness: an io thread runs each handler that is ready, one weak fairness per
handler because each is posted on its own; reads on a gone connection fail and
writes complete or fail (asio reports them), which for a live peer assumes that
it reads; a thread that has locked a session sends its buffer; a released
session is closed. Nothing is assumed of the peer's packets, of users or of
accepts. Instance: 3 buffers, so that one is written, one queued and one
posted. A connection may follow another on the same object any number of times.

### Server and System

`alive` are the sessions that exist; `accepting`, `pending` and `holds` are the
references: the pending accept, the pending handlers, and the threads. A thread
that drops the last reference destroys the session (`Release`). `start_accept` may
find no memory for the next session, in the constructor too: then it issues no
accept (`starved`), and when the last handler has returned the io_service runs out
of work and stops by itself (`Drain`, phase `drained`). `Stop`, `Join` and
`Destroy` are `async_server::stop` and its destruction, in which the io_service
drops its pending handlers. `Lock` and `Post` are the threads of the managers that
send. A thread may hold its session while the server is destroyed (`orphans` are
the sessions that are left then); its `Post` goes to an io_service that is gone, and
its reference to a session_manager that is gone, which may crash the process.

`System` is the process around it, as built for unix. The main thread starts
the managers in the order of `VSystemManager::Start`, registers the signal
handler, waits, and stops them in the order of `Stop`, where the network is one
of them; the port may be taken (`BindFails`), and `Sigterm` comes at any time
and kills the process unless the handler is registered. A manager that sends
does so while it is up; that its `Stop` waits for its thread is assumed, since
it is not in the repository.

* `Alive`: a session exists exactly while it is referenced.
* `OneAccept`: the accept loop is not doubled, and only want of memory ends it; only
  then do the io threads run out of work before the server is stopped.
* `UpWhileUsed`: no handler runs when a manager it calls is not started yet or
  stopped already, and no manager sends when those it needs are gone, with the one
  exception that the order of `VSystemManager::Stop` leaves: the network, which is
  stopped before the managers that send, may be gone for a session that such a
  thread had locked before. Only such a session can make it crash.
* `Terminates`: a process that is told to stop does, whatever goes on, unless it
  crashes so.

The recycling pool does not appear, since it never takes a session (theorem
`AtMostOneCached`, with the sized constructor). Fairness: the main thread goes on, io threads that run a handler do and leave when the
io_service is stopped, and a thread that has locked a session sends. Nothing is
assumed of connections, packets or SIGTERM. Instance: 4 sessions, 2 io threads,
2 senders; where all objects exist, `StartAccept` finds no memory. Deadlock is not
checked: the process ends.

### PacketGate and Checksum

The tests of `ReceivePacket` and `CheckSecurity`, one step each, with
`++m_nSeq` a load and a store; `CloseSession` in three steps and `Kick` beside
it. `Checksum` is `GetCRC` as the code has it, a byte at a time from the table
that `InitSecretKey` makes, on sets of bits; `BitwiseCRC` is the definition that
a client has to agree with.

* `InOrder`: packets are handled in sequence until the session begins to be closed.
* `LateOnce`: at most one packet is handled after the user is logged out.
* `CrcAgrees`: a packet with a body passes exactly if the word that arrived as its
  checksum is the CRC of the body, as defined bit by bit, from the key that `m_nKey`
  holds by then, in the table of the key agreed. After `CloseSession` has reset
  `m_nKey` but not the table, that is a CRC without the key as its start.

Any sequence number arrives, with any of the words `Crcs`: the instance has the
right ones for the key agreed and for the key that was reset, and a wrong one.
Instance: counter modulo 4, 5 packets (`MaxPackets`), so the counter wraps; the
empty body and one of three bytes. Longer bodies are left to the theorem.

### UserManager and Presence

`users` is `m_pUsers`, `player` and `state` the fields of each object that
others change, `added` the objects that have been in the map. `CreateUser` and
`AddUser` read the count in steps of their own; `Insert` and `Displace`,
`RemoveUser` and `Erase`, hold the write lock from one to the other.
`CloseSession` runs on the session's threads at any time between.

`Presence` conjoins each of these steps with what it does to the user's
connection and rooms, and adds the packets: `packet` is how far the handling of
a user's packet has come, from the test of its state (`TestState`) to the two
halves of a join (`LeaveRoom`, `EnterRoom`). A user that is displaced or removed
is taken out of its room in one step and closed in a later one. Of the rooms
only membership is kept (`inside`); that a user is in one at most is
`Rooms!OneRoom`. `Close` is not in the repository; it is taken to close the
connection, so that a packet that has been read may still be handled, and no
other.

* `Overshoot`: at most (threads - 1) above the limit, and the run reaches it.
* `DisplacedIsClosed`: one login per player.
* `RegisteredOnce`: a refused user is destroyed and never entered.
* `DeadKeepSlot`: the slot of a dead user is not freed by `RemoveUser`.
* `MembersKnown`: whoever is in a room is logged in, or about to be taken out of
  it, or had a packet between being taken out and closed. The last is what the
  order `JoinRoom(NullRoom)`, `Close` costs: without that disjunct TLC shows a user
  that joins a room after it was taken out of its own, and stays there.

Instance: 2 threads, 2 players, 3 objects, limit 1, so that both threads pass
the limit together, one user is displaced, and a third object is left over from
an earlier login. Threads and objects are symmetric; no property is a liveness
property.

### UserWalks

The readers of the map: `SendServerPacket`, `SendGlobalPacket` and
`GetUserIDArray`, one step per entry and one more for its use, under the shared
lock that keeps `AddUser` and `RemoveUser` (one step each here) out. Beside
them, without the lock, `CloseSession` clears id, server and session of a user
in three steps, and a login sets the server of a user that is registered
already, since `CreateUser` does not.

* `BroadcastReaches`: every connected user it is for, once; a server broadcast
  may miss those whose server is set or cleared during the walk.
* `PageSound`: if no user changes meanwhile, the page is the part of the
  server's list it is meant to be (`PageOf`); whatever happens, it is not too
  long, is in order and repeats no id, though a user that disconnects may leave
  a 0 in it (with the type invariant).

Instance: 2 threads, 2 players, 2 servers, pages `[0,1)`, `[1,2)`, all and
empty: a page that skips users, one that ends before the list, and one that
skips users of the other server. `nFrom` is not negative. Buffers are valid.

### Rooms

`members` counts how often each user is in each room; `mode`, `server` and
`status` are the room's fields, `room` the pointer of each user. A user's
packets are handled one at a time (`pc`, `arg`); `TakeOut` and `TakenOut` are
`JoinRoom(NullRoom)` by the thread that displaces or removes the user. The
manager's mutex is held over a join and over a scan, a room's over one call.
`nRoomMode` is any number that a client sends; `SetGameMode` takes a `VInt8` and so
cuts it to 8 bits (`AsInt8`). The history `asked` is what was asked for when the
room was set up last. `nRoomID` may be -1, which only leaves the old room.

The handlers of chat and of the queue ask for the user's room in one step
(`GetRoom`) and call the room in the next, so a room may be queued after its user
has left it, and with nobody in it. Chat tests the pointer. The handlers of the
queue do not, and read it again for each use (`Dereference`): a user that has no
room, or is taken out of it in between, ends the process (`killed`). So may
`WriteLogMatchMaking`, which tests the number of users and counts them again for
its table of match types.

* `OneRoom`: a user is in the room it points to, once, and in no other (with the
  type invariant).
* `InUseIsConfigured`: an occupied room has a server, and the mode asked for when it
  was set up last, as it was cut, unless a join is at it.
* `ModeKept`: an occupied room keeps its mode. Where the mode was cut to -1 the room
  looks as if it had not been set up, and each user that joins sets the mode again.
* `CriteriaSound`: what three separate reads return fits together.
* `SenderHears`: a chat and the timer of a queue reach their sender, unless taken out
  of the room.
* `OccupancySpec`: refinement of `Occupancy`, where a user leaves or enters in one
  step and a room is offered for a match in one step. A join is the first half
  of its removal and the second of its entry; its check and its two setters are
  one `Settle`, or nothing if the room is empty by then or the mode is cut to -1. A
  scan reads mode, status and criteria in three steps; the offer is made when the
  status is read, if anybody is in the room then, and lapses if the room is empty
  when its criteria are read. It follows that no membership change leaves a room in
  the queue (`QueuedIsFrozen`, a theorem).
* `LobbyChatReachesServer`, which a comment promises, fails: run `rooms_lobby`.

Instance: two users of one server, the lobby and one room, and the modes 255 and
257, which are cut to -1 and to 1, a match-making mode. A mode that is neither
would add nothing that -1 does not show: both are no match-making modes, and -1
is the one that is set again. Two users suffice for a join to race with a removal
and with the scan; two rooms for a move. Users are symmetric, and so are rooms where
nothing is said of the lobby; no property is a liveness property. A process that
has ended stutters.

### Locking

The mutexes of `VUserManager`, `VChatRoomManager`, the rooms and the users. An
operation is the set of sequences of locks it may take and release, written in
the shape of the code: `WriteLock(lock, ...)` around the calls made under it,
`++` for one after the other, `Maybe` for a condition, `Each` for a loop.
Threads take and release the locks of any operations, beside one another,
as boost's mutexes do: `boost::shared_mutex` lets a waiting writer bar new
readers (`barred`), so a lock that is taken twice for reading is a deadlock once
a writer comes in between. Every operation holds nothing at its start and end,
so a thread may run the sections of all of them in any order.

* `NoDeadlock`: no set of threads each of which waits for another of them, a
  thread that waits for itself included.

Instance: 3 threads, two rooms and one user: two rooms for locks of the same
kind in two orders, three threads for a reader, a writer in between and the
reader's second try, and a holder of something else. Members of `VChatUser` that
are not in the repository are taken to lock nothing, except those named in the
module's head.

## Runs

| Run | Module | Distinct states | Shows |
|---|---|---|---|
| `ring` | SafeRingBuffer | 1,238 | mutual exclusion, ownership, what is cached, refinement of LifoPool |
| `ring_idle` | SafeRingBuffer | - | the buffer stays locked after a push (violation) |
| `allocator` | MCObjects | 917,611 | sizes and ownership of blocks, what is kept in them, want of memory |
| `circular` | CircularStack | 9,016 | refinement of RecentLog |
| `session` | HandlerMemory | 57,068 | write path, read chain, refinement of Outbox, operation memory, liveness |
| `system` | System | 257,370 | lifetime of sessions, accept loop, start and stop of the process |
| `gate` | MCPacketGate | 37,434 | order, lateness and checksums of packets |
| `users` | MCPresence | 323,816 | limit, displacement, dead users, who is left in a room |
| `walks` | MCUserWalks | 399,229 | broadcasts, pages of the user list |
| `rooms` | MCRooms | 1,168,679 | membership, modes, match making, chat, refinement of Occupancy |
| `rooms_lobby` | MCRooms | - | lobby chat stays in the lobby (violation) |
| `locking` | MCLocking | 417,753 | no deadlock between users, rooms and their managers |

## Proofs

TLAPS proves, for every value of the constants allowed by the named
assumptions:

* `SafeRingBuffer_proofs`, of `SafeRingBuffer` (assuming `RingAssumption`:
  finitely many threads, a capacity of at least 1): `TypeCorrect`,
  `MutualExclusion`, `Ownership`, `AtMostOneCached`, `NeverHandedOut`,
  `Refinement`. None of the invariants is inductive by itself, since the counter
  says nothing unless one knows who has contributed to it. The inductive
  invariant equates `signal_` with its start value minus the threads that are
  between their decrement and their give-back, minus one for a successful push
  that never gave back; mutual exclusion, the limit and the refinement follow
  from it.

  Of `CircularStack` (assuming `StackAssumption`: the modulus of `index` is above
  the capacity, which is at least 1): `StackImplementsLog`, the refinement of
  `RecentLog`. `KeptPush` is its core: writing slot `index % N` appends to the
  contents, and drops their head once there are N; `KeptPart` is the same for
  `index %= N` in `get`. The modulus need not be a multiple of the capacity: when
  `index` wraps the log starts again.
* `Session_proofs`, of `Session` (assuming `SessionAssumption`): `TypeCorrect`,
  `WritesNeverOverlap`, `LinkedUsersAreRead`, `QueueNeverStalls`, `Refinement`.
  The inductive invariant ties `m_datas` to the outstanding operation (its
  front is what is written, and nothing else), says that a policy answer is
  only written while no user was ever linked, and that `sent` is `wire`, then
  what is queued, then what is posted. That last equation is what makes each
  completed write a `Deliver` of the outbox.

  Of `HandlerMemory`: `MemoryKeepsSession` (every step of it is one of `Session`
  or leaves it alone, so the above holds of it), `OneOperationPerBlock`,
  `WrittenBuffersAreHeld`. The invariant added is which operations hold memory.
* `Objects_proofs`, of `AllocateManager` (assuming `AllocateAssumption`: finitely
  many threads and blocks, sizes from 1 to 2^30 as the slots allow):
  `BlocksBigEnough`, `BlocksHaveOneOwner`. `BigEnough` rests on the size of a
  block in use being what `FindSlot` makes of the size it was requested with, so
  that it returns to the ring it would have come from; `OneOwner` on the places
  of the rings being pairwise different.

  Of `Objects` (assuming `ObjectsAssumption` too): `ObjectsUseAllocator`,
  `BlocksHeld`. The invariant added is that a thread which makes something has
  a block that nothing refers to, and that a process which has used a null pointer
  was making something other than a user or a session.
* `System_proofs`, of `Server` and `System` (assuming `ServerAssumption`: there
  is an io thread; and `SystemAssumption`: the threads that send belong to five of
  the managers): `ProcessRunsServer`, `SessionsAlive`, `OneAcceptLoop`,
  `ManagersOutliveUse`. `Alive` needs `OneAccept`, since a reference would be
  overwritten if two accepts could be pending. `UpWhileUsed` needs to know how far
  the main thread has come in the orders of start and stop, that the network stops
  before every manager its handlers call, that no io thread is left by then, and
  that after the destruction of the server the sessions that exist are those that
  outlived it (`OrphanInv`).

  Of `Locking` (assuming `LockingAssumption`: finitely many users and rooms):
  `ThreadsNeverDeadlock`. The locks have a rank: that of the users, that of the
  rooms, a room's, a user's. A program is `Ordered` if it takes each lock while
  it holds only locks of a lower rank, and releases what it takes. Sequence,
  condition, section and loop keep that (`EachOrdered`, by the least number of
  iterations for which it would fail; `LoopExists` shows that the recursion over
  the elements defines a function), so every operation has it
  (`OperationsOrdered`), and so have its sections. The inductive invariant says
  of each thread that it is somewhere in a section and holds what the section
  has taken by then; hence whoever a thread waits for waits, if at all, for a
  lock of a higher rank, of which there are four.
* `PacketGate_proofs`, of `PacketGate` (assuming `GateAssumption`: the counter has
  at least two values, and no key is 0): `PacketsInOrder`, `AtMostOneLate`. Until
  the closing begins, `m_nSeq` is the number of packets admitted modulo its
  width, and what was loaded from it is still what it holds.

  Of `Checksum`: `ChecksumIsCRC`, that `GetCRC` computes the CRC as it is defined
  bit by bit, for every key and polynomial and every sequence of bytes. A round
  of the shift register leaves alone what lies above its lowest bit, hence eight
  rounds of a word are what the table has for its low byte and a shift of the
  rest; and adding the bits of a byte one by one is the same as adding the byte
  first. `ChecksumDecides` then is `CrcAgrees`, for every set of bodies and of words
  that arrive as checksums.
* `Presence_proofs`, of `UserManager` (assuming `UserManagerAssumption`):
  `TypeCorrect`, `LimitOvershoot`, `OneLogin`, `NeverTwice`,
  `DeadUsersKeepTheirSlot`. The bound on the count is inductive only together
  with the threads that have passed the test and not yet inserted: registered
  plus inserting stays below limit plus threads.

  Of `Presence`: `NobodyElseStays` and `ImplementsUserManager`. A user enters a
  room through a packet, so the inductive invariant follows who may have one: an
  open connection belongs to a user that is registered or about to be closed, and
  one that a thread has taken out is in a room, or has a packet, only if it is
  `late`.
* `UserWalks_proofs` (assuming `UserWalksAssumption`: finitely many players, whose
  ids are above 0): `BroadcastsReach`, `PagesAreSound`. Of a broadcast the
  invariant says for the users passed so far what `BroadcastReaches` says of all
  at the end. Of a page it says that nothing is ahead of the users listed, and,
  while no user has changed, that `i` is the number of users of the server that
  were passed and the page the part of their list up to `i`.
* `Rooms_proofs` (assuming `RoomsAssumption`): `OneRoomPerUser`,
  `OccupiedIsConfigured`, `ListIsSound`, and the action properties
  `QueueFreezesMembers`, `ModeIsKept`, `ChatReachesSender`. A join begins with its
  user in no room and holds the manager's mutex from the lookup of the room on;
  the invariant says what it has read of the room's fields by then, and that a
  room can lose that only together with its last member. The same holds of the
  room that the match maker's scan is at. `OccupiedIsConfigured` is for every
  `nRoomMode`: a room whose mode is not -1 was set up with it, and one that a join
  finds at -1 with members gets the mode again from that join.

  `RoomsImplementOccupancy` is the refinement of `Occupancy`. It adds that a room
  is on the match maker's list once (`OfferInv`), so that its report uses up its
  offer; a room's mode counts as its purpose only while it has members, since a
  join whose user has been taken out goes on to set it.

The assumptions are of three kinds: sets that are finite because threads, players
and memory are; values for "none" that differ from everything else; and bounds
that the types give (a capacity is not 0, a modulus is the power of two of its
width; a server is not -1, since a login packet has it in an unsigned byte; -1 is no
match-making mode). None of them limits what the code can do. The lemma `Least`, that a set
of numbers has a least element, stands in for induction: what holds of 0 and of
n + 1 if of n fails at no least n.

Only model-checked:

* the liveness properties (`SentIsWritten`, `GoneIsReleased`, `Terminates`), which
  are out of the prover's reach. Every other property of a passing run is also a
  theorem.

## Not modelled

* `VConfigureManager`: reads its file once, in the constructor of the singleton;
  nothing in it changes afterwards.
* The console loop of the Windows build (sequential, before the stop).
* The contents of buffers, except as far as a checksum is about them; addresses
  and names of users; the paging of a room's users, whose locks are in `Locking`.
* Code that nothing calls: the two-buffer `ReceivePacket`, the copy of
  `handler_allocator` in VCommon, the other `GetCRC` of crc32.h.
* Singletons, made on first use.
* Everything that is not in the repository: databases, guilds, the lobby link,
  HTTP, ZME, logging and the match maker's own decisions. `System` has when these
  start and stop, `Locking` which locks they take through the code that is here.

## Plan

In this order; 1 to 16 are done.

1. `SafeRingBuffer` with `LifoPool`, and its proofs: everything allocates through it.
2. `Session` with `Outbox`, and its proofs: the core of the server.
3. `UserManager` and its proofs.
4. `Rooms`.
5. `AllocateManager` over `LifoPool`.
6. `Server`: lifetime of sessions and shutdown.
7. `PacketGate`.
8. `CircularStack` with `RecentLog`.
9. `UserWalks`.
10. `HandlerMemory`, composed with `Session`.
11. `Checksum`, used by `PacketGate`; `Objects`, composed with `AllocateManager`.
12. `System`, composed with `Server`.
13. `Locking`.
14. `Presence`, composed with `UserManager`, and its proofs.
15. Proofs for `Server` and `System`, `Rooms`, `AllocateManager` and `Objects`,
    `PacketGate`, `HandlerMemory`, `UserWalks`, `CircularStack`, `Checksum` and
    `Locking`.
16. `Occupancy`, that `Rooms` implements.
17. An abstract specification "who is online, and where" for `Presence` to
    implement, as far as the code does.
