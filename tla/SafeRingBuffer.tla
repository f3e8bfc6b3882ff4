--------------------------- MODULE SafeRingBuffer ---------------------------
(***************************************************************************)
(* vcommon::SafeRingBuffer<T> (VCommon/VAllocatorHandler.h): the container *)
(* the allocator keeps freed blocks in and the server keeps finished       *)
(* sessions in.  It is shared by every thread and guarded by nothing but   *)
(* the atomic counter signal_: an operation decrements it, owns the buffer *)
(* if the result is exchange_value, and gives up otherwise.                *)
(*                                                                         *)
(* Each access to signal_, cur_ or data_ that another thread could         *)
(* interleave with is a step of its own.  A pointer is an Element; the     *)
(* callers are the threads, which push an element nobody else holds.       *)
(***************************************************************************)
EXTENDS Integers, FiniteSets

CONSTANTS Threads,      \* threads that push and pop
          Elements,     \* the pointers they recycle
          Capacity,     \* the argument of size(n) and of the sized constructor
          NoElement     \* the null pointer

ASSUME RingAssumption ==
  /\ IsFiniteSet(Threads)
  /\ Capacity \in Nat \ {0}
  /\ NoElement \notin Elements

init_value == 1
exchange_value == 0

VARIABLES signal,       \* signal_
          size,         \* size_
          cur,          \* cur_
          data,         \* data_[0 .. Capacity-1]
          pc,           \* where each thread is in push or pop
          arg,          \* the element a thread brings to push or carries out of pop
          start         \* the value the constructor gave signal_

vars == <<signal, size, cur, data, pc, arg, start>>

Slots == 0..(Capacity - 1)
Cached == {data[i] : i \in 0..(cur - 1)}
Outside == Elements \ (Cached \cup {arg[t] : t \in Threads})

InLock(t) == pc[t] \in {"push_locked", "push_store", "push_advance", "push_done", "pop_locked"}

-----------------------------------------------------------------------------
\* The default constructor leaves the buffer unsized, with signal_ at
\* init_value; the sized one starts signal_ at 0.
Init ==
  /\ \/ signal = init_value /\ size = 0
     \/ signal = 0 /\ size \in {0, Capacity}
  /\ start = signal
  /\ cur = 0
  /\ data = [i \in Slots |-> NoElement]
  /\ pc = [t \in Threads |-> "idle"]
  /\ arg = [t \in Threads |-> NoElement]

\* size(n): AllocateManager::Start calls it on default-constructed buffers,
\* before any thread uses them.
SetSize ==
  /\ start = init_value /\ size = 0
  /\ \A t \in Threads : pc[t] = "idle"
  /\ size' = Capacity
  /\ data' = [i \in Slots |-> NoElement]
  /\ UNCHANGED <<signal, cur, pc, arg, start>>

\* Mutant of Enter: the test is --signal_ <= exchange_value.
EnterBelow(t, locked, refused) ==
  /\ pc[t] = "idle"
  /\ signal' = signal - 1
  /\ pc' = [pc EXCEPT ![t] = IF signal' <= exchange_value THEN locked ELSE refused]

\* if( (--signal_) == exchange_value )
Enter(t, locked, refused) ==
  /\ pc[t] = "idle"
  /\ signal' = signal - 1
  /\ pc' = [pc EXCEPT ![t] = IF signal' = exchange_value THEN locked ELSE refused]

PushEnter(t, e) ==
  /\ e \in Outside
  /\ Enter(t, "push_locked", "leave")
  /\ arg' = [arg EXCEPT ![t] = e]
  /\ UNCHANGED <<size, cur, data, start>>

\* Mutant of PushTest: cur_ <= size_.
PushTestFull(t) ==
  /\ pc[t] = "push_locked"
  /\ pc' = [pc EXCEPT ![t] = IF cur <= size THEN "push_store" ELSE "leave"]
  /\ UNCHANGED <<signal, size, cur, data, arg, start>>

\* if( cur_ < size_)
PushTest(t) ==
  /\ pc[t] = "push_locked"
  /\ pc' = [pc EXCEPT ![t] = IF cur < size THEN "push_store" ELSE "leave"]
  /\ UNCHANGED <<signal, size, cur, data, arg, start>>

\* data_[cur_++] = t: a store and an increment
PushStore(t) ==
  /\ pc[t] = "push_store"
  /\ data' = [data EXCEPT ![cur] = arg[t]]
  /\ pc' = [pc EXCEPT ![t] = "push_advance"]
  /\ UNCHANGED <<signal, size, cur, arg, start>>

PushAdvance(t) ==
  /\ pc[t] = "push_advance"
  /\ cur' = cur + 1
  /\ arg' = [arg EXCEPT ![t] = NoElement]
  /\ pc' = [pc EXCEPT ![t] = "push_done"]
  /\ UNCHANGED <<signal, size, data, start>>

\* Mutant of PushDone: ++signal_.
PushDoneReleases(t) ==
  /\ pc[t] = "push_done"
  /\ signal' = signal + 1
  /\ pc' = [pc EXCEPT ![t] = "idle"]
  /\ UNCHANGED <<size, cur, data, arg, start>>

\* --signal_; return true;
PushDone(t) ==
  /\ pc[t] = "push_done"
  /\ signal' = signal - 1
  /\ pc' = [pc EXCEPT ![t] = "idle"]
  /\ UNCHANGED <<size, cur, data, arg, start>>

PopEnter(t) ==
  /\ Enter(t, "pop_locked", "leave")
  /\ UNCHANGED <<size, cur, data, arg, start>>

\* Mutant of PopTake: --cur_ before the test.
PopTakeEmpty(t) ==
  /\ pc[t] = "pop_locked"
  /\ cur' = cur - 1
  /\ arg' = [arg EXCEPT ![t] = IF cur > 0 THEN data[cur - 1] ELSE NoElement]
  /\ pc' = [pc EXCEPT ![t] = "leave"]
  /\ UNCHANGED <<signal, size, data, start>>

\* if( cur_ > 0 ) t = data_[--cur_];
PopTake(t) ==
  /\ pc[t] = "pop_locked"
  /\ cur' = IF cur > 0 THEN cur - 1 ELSE cur
  /\ arg' = [arg EXCEPT ![t] = IF cur > 0 THEN data[cur - 1] ELSE NoElement]
  /\ pc' = [pc EXCEPT ![t] = "leave"]
  /\ UNCHANGED <<signal, size, data, start>>

\* ++signal_; return false (push) or the element found, if any (pop)
Leave(t) ==
  /\ pc[t] = "leave"
  /\ signal' = signal + 1
  /\ arg' = [arg EXCEPT ![t] = NoElement]
  /\ pc' = [pc EXCEPT ![t] = "idle"]
  /\ UNCHANGED <<size, cur, data, start>>

Next ==
  \/ SetSize
  \/ \E t \in Threads :
       \/ \E e \in Elements : PushEnter(t, e)
       \/ PushTest(t) \/ PushStore(t) \/ PushAdvance(t) \/ PushDone(t)
       \/ PopEnter(t) \/ PopTake(t)
       \/ Leave(t)

Spec == Init /\ [][Next]_vars

-----------------------------------------------------------------------------
\* Type invariant: every variable keeps its range.
TypeOK ==
  /\ signal \in Int
  /\ start \in {0, init_value}
  /\ size \in {0, Capacity}
  /\ cur \in 0..Capacity
  /\ data \in [Slots -> Elements \cup {NoElement}]
  /\ pc \in [Threads -> {"idle", "push_locked", "push_store", "push_advance",
                         "push_done", "pop_locked", "leave"}]
  /\ arg \in [Threads -> Elements \cup {NoElement}]

\* Two threads are never both between the decrement that won and the update
\* of signal_ that follows: cur_ and data_ have one accessor at a time.
Exclusive == \A s, t \in Threads : InLock(s) /\ InLock(t) => s = t

\* A recycled pointer has one owner: the slots below cur_ hold distinct
\* pointers, none of which a thread still carries, and no two threads carry
\* the same one.
OneOwner ==
  /\ \A i \in 0..(cur - 1) : data[i] \in Elements
  /\ \A i, j \in 0..(cur - 1) : data[i] = data[j] => i = j
  /\ \A t \in Threads : arg[t] \notin Cached
  /\ \A s, t \in Threads : arg[s] = arg[t] /\ arg[s] # NoElement => s = t

\* A successful push decrements signal_ a second time instead of giving it
\* back, so a buffer caches at most one element, and a buffer made by the
\* sized constructor (signal_ starts at 0) caches none.
CacheLimit == cur <= start

\* For the same reason a cached element is never handed out again: pop finds
\* the buffer busy for ever.
CachedForGood == [][Cached \subseteq Cached']_vars

\* What the enumeration says of signal_: in a buffer constructed with
\* init_value, that is its value whenever no operation is running.
IdleUnlocked ==
  start = init_value /\ (\A t \in Threads : pc[t] = "idle") => signal = init_value

\* The buffer is a bounded stack that may refuse.
Pool == INSTANCE LifoPool WITH stack <- [i \in 1..cur |-> data[i - 1]], room <- size
PoolSpec == Pool!Spec
=============================================================================
