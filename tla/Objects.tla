------------------------------- MODULE Objects --------------------------------
(***************************************************************************)
(* What the server keeps in the blocks of AllocateManager: objects, by     *)
(* ObjectAllocator and ObjectRefAllocator (VCommon/VObjectAllocator.h),    *)
(* the data of VSimpleBuffer (VCommonDefines.h), and the elements of       *)
(* containers, by ContainerAlloc (VAllocatorHandler.h).                    *)
(*                                                                         *)
(* A thread asks for a block, constructs the object or copies the data     *)
(* into it, and shares it; the last reference destroys it and returns the  *)
(* block.  When there is no memory a Create returns null.  CreateUser and  *)
(* start_accept test that; JoinRoom (VChatRoomManager.h) does not, and it  *)
(* adds a user to a null room.  Data of a buffer and elements are written  *)
(* through the null pointer too.                                           *)
(***************************************************************************)
EXTENDS AllocateManager

CONSTANT MaxRefs        \* bound: how many references an object has

ASSUME ObjectsAssumption == MaxRefs \in Nat \ {0}

VARIABLES making,       \* what each thread is making
          mine,         \* the block it has got for it
          refs,         \* how many references there are to what is in each block
          killed        \* the process has used a null pointer

objectVars == <<making, mine, refs, killed>>

\* A session is made as a user is: whoever asks for it tests what he gets.
Kinds == {"user", "room", "buffer", "elements"}

ObjectsInit ==
  /\ Init
  /\ making = [t \in Threads |-> "none"] /\ mine = [t \in Threads |-> NoBlock]
  /\ refs = [b \in Blocks |-> 0] /\ killed = FALSE

\* Create, VSimpleBuffer and ContainerAlloc::allocate ask for a block.
Create(t, kind, n) ==
  /\ making[t] = "none" /\ Allocate(t, n)
  /\ making' = [making EXCEPT ![t] = kind]
  /\ UNCHANGED <<mine, refs, killed>>

\* The allocation goes on; it may come to an end, with a block.
GetBlock(t) ==
  /\ PopRing(t) \/ Malloc(t)
  /\ LET new == {b \in Blocks : given[b] = 0 /\ given'[b] # 0} IN
       mine' = [mine EXCEPT ![t] = IF new = {} THEN NoBlock ELSE CHOOSE b \in new : TRUE]
  /\ UNCHANGED <<making, refs, killed>>

\* Mutant of GetNull: Create does not test obj, and constructs all the same.
GetNullUntested(t) ==
  /\ MallocFails(t)
  /\ killed' = TRUE
  /\ UNCHANGED <<making, mine, refs>>

\* There is no block.  Who makes a user or a session gives up; the others use
\* the pointer all the same, unless the second constructor of VSimpleBuffer has
\* no data to copy, whose buffer is not valid then.
GetNull(t) ==
  /\ MallocFails(t)
  /\ \/ making[t] \in {"user", "buffer"} /\ making' = [making EXCEPT ![t] = "none"] /\ UNCHANGED killed
     \/ making[t] # "user" /\ killed' = TRUE /\ UNCHANGED making
  /\ UNCHANGED <<mine, refs>>

\* The object is constructed, the data copied: there is one reference to it.
Construct(t) ==
  /\ mine[t] # NoBlock
  /\ refs' = [refs EXCEPT ![mine[t]] = 1]
  /\ making' = [making EXCEPT ![t] = "none"] /\ mine' = [mine EXCEPT ![t] = NoBlock]
  /\ UNCHANGED <<vars, killed>>

\* A reference is passed on, as often as the program likes.
Share(b) ==
  /\ refs[b] \in 1..(MaxRefs - 1)
  /\ refs' = [refs EXCEPT ![b] = @ + 1]
  /\ UNCHANGED <<vars, making, mine, killed>>

\* A thread drops a reference; with the last one, Destroy and the destructor
\* of VSimpleBuffer give the block back.
Drop(t, b) ==
  /\ refs[b] > 0 /\ making[t] = "none" /\ pc[t] = "idle"
  /\ refs' = [refs EXCEPT ![b] = @ - 1]
  /\ IF refs[b] = 1 THEN DeAllocate(t, b) ELSE UNCHANGED vars
  /\ UNCHANGED <<making, mine, killed>>

GiveBack(t) == (PushRing(t) \/ Free(t)) /\ UNCHANGED objectVars

\* Start and Stop of the allocator.
StartStop == (Start \/ (Stop /\ \A t \in Threads : making[t] = "none")) /\ UNCHANGED objectVars

ObjectsNext ==
  /\ ~killed
  /\ \/ \E t \in Threads :
          \/ \E kind \in Kinds, n \in Sizes : Create(t, kind, n)
          \/ GetBlock(t) \/ GetNull(t) \/ Construct(t) \/ GiveBack(t)
          \/ \E b \in Blocks : Drop(t, b)
     \/ \E b \in Blocks : Share(b)
     \/ StartStop

ObjectsSpec == ObjectsInit /\ [][ObjectsNext]_<<vars, objectVars>>

-----------------------------------------------------------------------------
\* A block in use holds something that is referred to, or is with the one
\* thread that makes something in it; no other block is either.  So a block is
\* recycled neither under a reference nor under a constructor, and none is
\* lost, when memory runs out either.  The want of memory for a user or a
\* session does no harm; for a room, for the data of a buffer or for elements
\* it may kill the process, and nothing else does.
ObjectsHeld ==
  /\ \A b \in Blocks :
       LET makers == {t \in Threads : mine[t] = b} IN
         /\ given[b] # 0 <=> refs[b] > 0 \/ makers # {}
         /\ refs[b] > 0 => makers = {}
         /\ \A t, u \in makers : t = u
  /\ killed => \E t \in Threads : making[t] \in {"room", "buffer", "elements"} /\ mine[t] = NoBlock
=============================================================================
