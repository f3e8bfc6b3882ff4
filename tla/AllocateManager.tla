-------------------------- MODULE AllocateManager ---------------------------
(***************************************************************************)
(* vcommon::AllocateManager (VCommon/VAllocatorHandler.h): the allocator   *)
(* of every container and object of the server.  A request is rounded up   *)
(* to a power of two; blocks of each such size are recycled through        *)
(* max_thread ring buffers, tried one after the other.                     *)
(*                                                                         *)
(* A ring is taken by its contract, the bounded stack LifoPool that may    *)
(* refuse, which SafeRingBuffer implements; so a call on a ring is one     *)
(* step, and an operation of a thread visits the rings in a step each.     *)
(* malloc and free work on Blocks.                                         *)
(***************************************************************************)
EXTENDS Integers, Sequences, FiniteSets

CONSTANTS Threads,
          Blocks,       \* what malloc can return
          Sizes,        \* the sizes requested
          max_slot,     \* how many powers of two are recycled
          max_thread,   \* rings for each of them
          RingSize,     \* the room of a ring, once Start has sized it
          NoBlock

ASSUME AllocateAssumption ==
  /\ IsFiniteSet(Threads) /\ IsFiniteSet(Blocks) /\ NoBlock \notin Blocks
  /\ Sizes \subseteq 1..(2^30)
  /\ max_slot \in 1..31 /\ max_thread \in Nat \ {0} /\ RingSize \in Nat

VARIABLES heap,     \* the size malloc gave each block, 0 for one that is free
          ring,     \* the contents of m_Container
          room,     \* the size_ of the rings
          stopped,  \* Stop has run
          given,    \* the size each block in use was requested with, 0 for the others
          pc,       \* what each thread is doing
          size,     \* the size it allocates or deallocates
          block,    \* the block it deallocates
          i         \* the ring it has come to; max_thread beyond the last one

vars == <<heap, ring, room, stopped, given, pc, size, block, i>>

Slots == 0..(max_slot - 1)
Rings == 0..(max_thread - 1)

-----------------------------------------------------------------------------
Init ==
  /\ heap = [b \in Blocks |-> 0]
  /\ ring = [s \in Slots |-> [r \in Rings |-> <<>>]]
  /\ room = 0 /\ stopped = FALSE
  /\ given = [b \in Blocks |-> 0]
  /\ pc = [t \in Threads |-> "idle"]
  /\ size = [t \in Threads |-> 0]
  /\ block = [t \in Threads |-> NoBlock]
  /\ i = [t \in Threads |-> 0]

\* Mutant of FindSlot: VUInt32(1 << (slot + 1)) < nSize.
FindSlotBelow(n) == CHOOSE s \in 0..31 : n <= 2^(s + 1) /\ \A r \in 0..(s - 1) : 2^(r + 1) < n

\* FindSlot: the smallest power of two that is large enough.
FindSlot(n) == CHOOSE s \in 0..31 : n <= 2^s /\ \A r \in 0..(s - 1) : 2^r < n

\* What malloc is asked for: the power of two, or the size itself when blocks
\* of that size are not recycled.
Rounded(n) == IF FindSlot(n) < max_slot THEN 2^FindSlot(n) ELSE n

Finish(t) ==
  /\ pc' = [pc EXCEPT ![t] = "idle"]
  /\ size' = [size EXCEPT ![t] = 0]
  /\ block' = [block EXCEPT ![t] = NoBlock]
  /\ i' = [i EXCEPT ![t] = 0]

Begin(t, what, n, b) ==
  /\ pc[t] = "idle"
  /\ pc' = [pc EXCEPT ![t] = what]
  /\ size' = [size EXCEPT ![t] = n]
  /\ block' = [block EXCEPT ![t] = b]
  /\ i' = [i EXCEPT ![t] = IF FindSlot(n) < max_slot THEN 0 ELSE max_thread]

NextRing(t) == i' = [i EXCEPT ![t] = @ + 1] /\ UNCHANGED <<pc, size, block>>

-----------------------------------------------------------------------------
\* Allocate.

Allocate(t, n) ==
  /\ ~stopped
  /\ Begin(t, "pop", n, NoBlock)
  /\ UNCHANGED <<heap, ring, room, stopped, given>>

\* A ring hands out its last block, or is empty or contended.
PopRing(t) ==
  /\ pc[t] = "pop" /\ i[t] < max_thread
  /\ LET s == FindSlot(size[t])  c == ring[s][i[t]] IN
       \/ /\ c # <<>>
          /\ ring' = [ring EXCEPT ![s][i[t]] = SubSeq(c, 1, Len(c) - 1)]
          /\ given' = [given EXCEPT ![c[Len(c)]] = size[t]]
          /\ Finish(t)
       \/ NextRing(t) /\ UNCHANGED <<ring, given>>
  /\ UNCHANGED <<heap, room, stopped>>

Malloc(t) ==
  /\ pc[t] = "pop" /\ i[t] = max_thread
  /\ \E b \in Blocks :
       /\ heap[b] = 0
       /\ heap' = [heap EXCEPT ![b] = Rounded(size[t])]
       /\ given' = [given EXCEPT ![b] = size[t]]
  /\ Finish(t)
  /\ UNCHANGED <<ring, room, stopped>>

\* malloc returns null, and so does Allocate.
MallocFails(t) ==
  /\ pc[t] = "pop" /\ i[t] = max_thread
  /\ \A b \in Blocks : heap[b] # 0
  /\ Finish(t)
  /\ UNCHANGED <<heap, ring, room, stopped, given>>

\* DeAllocate, with the size the block was allocated with.
DeAllocate(t, b) ==
  /\ given[b] # 0
  /\ Begin(t, "push", given[b], b)
  /\ given' = [given EXCEPT ![b] = 0]
  /\ UNCHANGED <<heap, ring, room, stopped>>

\* Mutant of PushRing: the block is offered to the next ring as well.
PushRingGoesOn(t) ==
  /\ pc[t] = "push" /\ i[t] < max_thread
  /\ LET s == FindSlot(size[t])  c == ring[s][i[t]] IN
       \/ /\ Len(c) < room
          /\ ring' = [ring EXCEPT ![s][i[t]] = Append(c, block[t])]
       \/ UNCHANGED ring
  /\ NextRing(t)
  /\ UNCHANGED <<heap, room, stopped, given>>

\* A ring takes the block, or is full or contended.
PushRing(t) ==
  /\ pc[t] = "push" /\ i[t] < max_thread
  /\ LET s == FindSlot(size[t])  c == ring[s][i[t]] IN
       \/ /\ Len(c) < room
          /\ ring' = [ring EXCEPT ![s][i[t]] = Append(c, block[t])]
          /\ Finish(t)
       \/ NextRing(t) /\ UNCHANGED ring
  /\ UNCHANGED <<heap, room, stopped, given>>

\* No ring took it.
Free(t) ==
  /\ pc[t] = "push" /\ i[t] = max_thread
  /\ heap' = [heap EXCEPT ![block[t]] = 0]
  /\ Finish(t)
  /\ UNCHANGED <<ring, room, stopped, given>>

-----------------------------------------------------------------------------
\* Start sizes the rings, before they hold anything.
Start ==
  /\ room = 0
  /\ room' = RingSize
  /\ UNCHANGED <<heap, ring, stopped, given, pc, size, block, i>>

Cached(s, r) == {ring[s][r][k] : k \in 1..Len(ring[s][r])}
AllCached == UNION {Cached(s, r) : s \in Slots, r \in Rings}

\* Stop frees what the rings hold and leaves it in them.  Nothing in the
\* repository calls it; that no request is under way, and that nothing is
\* allocated afterwards, is assumed of its caller.
Stop ==
  /\ ~stopped /\ \A t \in Threads : pc[t] = "idle"
  /\ stopped' = TRUE
  /\ heap' = [b \in Blocks |-> IF b \in AllCached THEN 0 ELSE heap[b]]
  /\ UNCHANGED <<ring, room, given, pc, size, block, i>>

Next ==
  \/ \E t \in Threads :
       \/ \E n \in Sizes : Allocate(t, n)
       \/ PopRing(t) \/ Malloc(t) \/ MallocFails(t)
       \/ \E b \in Blocks : DeAllocate(t, b)
       \/ PushRing(t) \/ Free(t)
  \/ Start \/ Stop

Spec == Init /\ [][Next]_vars

-----------------------------------------------------------------------------
\* Type invariant.
TypeOK ==
  /\ heap \in [Blocks -> Nat]
  /\ ring \in [Slots -> [Rings -> Seq(Blocks)]]
  /\ room \in {0, RingSize} /\ stopped \in BOOLEAN
  /\ given \in [Blocks -> Sizes \cup {0}]
  /\ pc \in [Threads -> {"idle", "pop", "push"}]
  /\ size \in [Threads -> Sizes \cup {0}]
  /\ block \in [Threads -> Blocks \cup {NoBlock}]
  /\ i \in [Threads -> 0..max_thread]

\* All is in its range, and a block has one owner: the heap, a caller, a thread giving it back, or one
\* place in one ring; so no request gets a block that is in use, nothing is
\* freed twice, and nothing is lost.
Holders(b) ==
  {t \in Threads : block[t] = b} \cup
  {p \in Slots \X Rings \X (1..RingSize) :
     p[3] <= Len(ring[p[1]][p[2]]) /\ ring[p[1]][p[2]][p[3]] = b}

OneOwner ==
  /\ TypeOK
  /\ ~stopped =>
       \A b \in Blocks :
         Cardinality(Holders(b)) = IF heap[b] = 0 \/ given[b] # 0 THEN 0 ELSE 1

\* A block in use is at least as large as what was asked for, although it was
\* handed in for a request of another size: a block that a ring recycles is
\* exactly as large as every request of that ring, so FindSlot agrees with itself
\* on the size given to malloc, the size the block was used with, and the size
\* it is returned with.
BigEnough ==
  /\ \A b \in Blocks : given[b] <= heap[b]
  /\ ~stopped => \A s \in Slots, r \in Rings : \A b \in Cached(s, r) : heap[b] = 2^s
=============================================================================
