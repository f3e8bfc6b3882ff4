------------------------ MODULE SafeRingBuffer_proofs -----------------------
(***************************************************************************)
(* Proofs about SafeRingBuffer, for every set of threads, every set of     *)
(* elements and every capacity.  The inductive invariant accounts for      *)
(* signal_: it is the value the constructor gave it, less one for every    *)
(* operation in progress, less two once an element has been cached (the    *)
(* decrement that won and the one PushDone adds).  A thread therefore wins *)
(* only when it is alone and nothing has ever been cached.                 *)
(*                                                                         *)
(* After them, that CircularStack implements RecentLog: what is in the     *)
(* array, as a sequence, is what the log keeps.                            *)
(***************************************************************************)
EXTENDS SafeRingBuffer, CircularStack, FiniteSetTheorems, SequenceTheorems, TLAPS

InFlight == {t \in Threads : pc[t] # "idle"}
Settled == \A t \in Threads : pc[t] # "push_done"
Leaked == IF cur = 1 /\ Settled THEN 2 ELSE 0

\* What signal_ counts.
SignalInv == signal = start - Cardinality(InFlight) - Leaked

\* What a thread inside the buffer may rely on.
LockInv ==
  /\ \A t \in Threads : InLock(t) => start = 1
  /\ \A t \in Threads : InLock(t) => cur = IF pc[t] = "push_done" THEN 1 ELSE 0
  /\ \A t \in Threads : pc[t] \in {"push_store", "push_advance"} => size = Capacity
  /\ cur = 1 => size = Capacity

\* Which thread carries what.
CarryInv ==
  /\ \A t \in Threads : pc[t] \in {"push_locked", "push_store", "push_advance"}
                          => arg[t] \in Elements
  /\ \A t \in Threads : pc[t] = "push_advance" => data[0] = arg[t]
  /\ \A t \in Threads : pc[t] \in {"idle", "push_done", "pop_locked"} => arg[t] = NoElement

IInv == TypeOK /\ Exclusive /\ CacheLimit /\ SignalInv /\ LockInv /\ CarryInv /\ OneOwner

-----------------------------------------------------------------------------
\* The operations in progress are finitely many, so they can be counted.
LEMMA InFlightFinite == IsFiniteSet(InFlight) /\ Cardinality(InFlight) \in Nat
  <1>1. InFlight \subseteq Threads
    BY DEF InFlight
  <1> QED
    BY <1>1, RingAssumption, FS_Subset, FS_CardinalityType

\* A thread that wins finds nobody inside and nothing cached.
LEMMA WinnerIsAlone ==
  ASSUME TypeOK, CacheLimit, SignalInv, signal - 1 = exchange_value
  PROVE  start = 1 /\ cur = 0 /\ \A t \in Threads : pc[t] = "idle"
  <1>1. Cardinality(InFlight) \in Nat
    BY InFlightFinite
  <1>2. Leaked \in {0, 2}
    BY DEF Leaked
  <1>3. start = 1 /\ Cardinality(InFlight) = 0 /\ Leaked = 0
    BY <1>1, <1>2 DEF TypeOK, SignalInv, exchange_value, init_value
  <1>4. InFlight = {}
    BY <1>3, InFlightFinite, FS_EmptySet
  <1>5. \A t \in Threads : pc[t] = "idle"
    BY <1>4 DEF InFlight
  <1>6. cur # 1
    BY <1>3, <1>5 DEF Leaked, Settled
  <1> QED
    BY <1>3, <1>5, <1>6, RingAssumption DEF CacheLimit, TypeOK

\* Starting an operation adds one to the count, ending one removes it.
LEMMA CountEnter ==
  ASSUME TypeOK, NEW t \in Threads, pc[t] = "idle", InFlight' = InFlight \cup {t}
  PROVE  Cardinality(InFlight') = Cardinality(InFlight) + 1
  <1>1. t \notin InFlight
    BY DEF InFlight
  <1> QED
    BY <1>1, InFlightFinite, FS_AddElement

LEMMA CountLeave ==
  ASSUME TypeOK, NEW t \in Threads, pc[t] # "idle", InFlight' = InFlight \ {t}
  PROVE  Cardinality(InFlight') = Cardinality(InFlight) - 1
  <1>1. t \in InFlight
    BY DEF InFlight
  <1> QED
    BY <1>1, InFlightFinite, FS_RemoveElement

LEMMA InitIInv == Init => IInv
  <1> SUFFICES ASSUME Init PROVE IInv
    OBVIOUS
  <1> USE RingAssumption DEF Init, init_value
  <1>1. TypeOK
    BY DEF TypeOK, Slots
  <1>2. InFlight = {}
    BY DEF InFlight
  <1>3. SignalInv
    BY <1>2, FS_EmptySet DEF SignalInv, Leaked
  <1>4. Exclusive /\ CacheLimit /\ LockInv /\ CarryInv
    BY DEF Exclusive, CacheLimit, LockInv, CarryInv, InLock
  <1>5. OneOwner
    BY DEF OneOwner, Cached
  <1> QED
    BY <1>1, <1>3, <1>4, <1>5 DEF IInv

-----------------------------------------------------------------------------
\* The steps, one lemma for each action that touches signal_, cur_ or data_.

LEMMA EnterIInv ==
  ASSUME IInv, NEW t \in Threads, NEW locked, NEW e \in Elements \cup {NoElement},
         Enter(t, locked, "leave"), UNCHANGED <<size, cur, data, start>>,
         \/ locked = "push_locked" /\ e \in Outside /\ arg' = [arg EXCEPT ![t] = e]
         \/ locked = "pop_locked" /\ arg' = arg
  PROVE  IInv'
  <1> USE RingAssumption DEF Enter
  <1>1. TypeOK'
    BY DEF IInv, TypeOK
  <1>2. SignalInv'
    <2>1. InFlight' = InFlight \cup {t}
      BY DEF IInv, TypeOK, InFlight
    <2>2. Leaked' = Leaked
      BY DEF IInv, TypeOK, Leaked, Settled
    <2>3. Cardinality(InFlight') = Cardinality(InFlight) + 1
      BY <2>1, CountEnter DEF IInv
    <2> QED
      BY <2>2, <2>3, InFlightFinite DEF IInv, SignalInv, TypeOK, Leaked, init_value
  <1>3. Exclusive' /\ LockInv' /\ CarryInv'
    <2>1. CASE signal - 1 = exchange_value
      BY <2>1, WinnerIsAlone DEF IInv, TypeOK, Exclusive, LockInv, CarryInv, InLock, Outside
    <2>2. CASE signal - 1 # exchange_value
      BY <2>2 DEF IInv, TypeOK, Exclusive, LockInv, CarryInv, InLock
    <2> QED
      BY <2>1, <2>2
  <1>4. CacheLimit'
    BY DEF IInv, CacheLimit
  <1>5. OneOwner'
    <2>1. Cached' = Cached
      BY DEF Cached
    <2>2. CASE arg' = arg
      BY <2>1, <2>2 DEF IInv, OneOwner
    <2>3. CASE e \in Outside /\ arg' = [arg EXCEPT ![t] = e]
      BY <2>1, <2>3 DEF IInv, OneOwner, Outside, TypeOK
    <2> QED
      BY <2>2, <2>3
  <1> QED
    BY <1>1, <1>2, <1>3, <1>4, <1>5 DEF IInv

LEMMA PushAdvanceIInv ==
  ASSUME IInv, NEW t \in Threads, PushAdvance(t)
  PROVE  IInv'
  <1> USE RingAssumption DEF PushAdvance
  <1>1. cur = 0 /\ start = 1 /\ size = Capacity /\ data[0] = arg[t] /\ arg[t] \in Elements
    BY DEF IInv, LockInv, CarryInv, InLock
  <1>2. TypeOK' /\ CacheLimit'
    BY <1>1 DEF IInv, TypeOK, CacheLimit
  <1>3. SignalInv'
    <2>1. InFlight' = InFlight
      BY DEF IInv, TypeOK, InFlight
    <2>2. Leaked = 0 /\ Leaked' = 0
      BY <1>1 DEF IInv, TypeOK, Leaked, Settled
    <2> QED
      BY <2>1, <2>2 DEF IInv, SignalInv
  <1>4. Exclusive' /\ LockInv' /\ CarryInv'
    BY <1>1 DEF IInv, TypeOK, Exclusive, LockInv, CarryInv, InLock
  <1>5. OneOwner'
    <2>1. Cached' = {arg[t]}
      BY <1>1 DEF Cached
    <2> QED
      BY <1>1, <2>1 DEF IInv, OneOwner, TypeOK
  <1> QED
    BY <1>2, <1>3, <1>4, <1>5 DEF IInv

LEMMA PushDoneIInv ==
  ASSUME IInv, NEW t \in Threads, PushDone(t)
  PROVE  IInv'
  <1> USE DEF PushDone
  <1>1. cur = 1 /\ start = 1
    BY DEF IInv, LockInv, InLock
  <1>2. TypeOK' /\ CacheLimit'
    BY DEF IInv, TypeOK, CacheLimit
  <1>3. SignalInv'
    <2>1. InFlight' = InFlight \ {t}
      BY DEF IInv, TypeOK, InFlight
    <2>2. Cardinality(InFlight') = Cardinality(InFlight) - 1
      BY <2>1, CountLeave DEF IInv
    <2>3. Leaked = 0
      BY DEF Leaked, Settled
    <2>4. Leaked' = 2
      BY <1>1 DEF IInv, TypeOK, Exclusive, InLock, Leaked, Settled
    <2> QED
      BY <1>1, <2>2, <2>3, <2>4, InFlightFinite DEF IInv, SignalInv
  <1>4. Exclusive' /\ LockInv' /\ CarryInv'
    BY <1>1 DEF IInv, TypeOK, Exclusive, LockInv, CarryInv, InLock
  <1>5. OneOwner'
    BY DEF IInv, OneOwner, Cached
  <1> QED
    BY <1>2, <1>3, <1>4, <1>5 DEF IInv

LEMMA LeaveIInv ==
  ASSUME IInv, NEW t \in Threads, Leave(t)
  PROVE  IInv'
  <1> USE RingAssumption DEF Leave
  <1>1. TypeOK' /\ CacheLimit'
    BY DEF IInv, TypeOK, CacheLimit
  <1>2. SignalInv'
    <2>1. InFlight' = InFlight \ {t}
      BY DEF IInv, TypeOK, InFlight
    <2>2. Cardinality(InFlight') = Cardinality(InFlight) - 1
      BY <2>1, CountLeave DEF IInv
    <2>3. Leaked' = Leaked
      BY DEF IInv, TypeOK, Leaked, Settled
    <2> QED
      BY <2>2, <2>3, InFlightFinite DEF IInv, SignalInv, TypeOK, Leaked, init_value
  <1>3. Exclusive' /\ LockInv' /\ CarryInv'
    BY DEF IInv, TypeOK, Exclusive, LockInv, CarryInv, InLock
  <1>4. OneOwner'
    <2>1. Cached' = Cached /\ NoElement \notin Cached
      BY DEF Cached, IInv, OneOwner
    <2> QED
      BY <2>1 DEF IInv, OneOwner, TypeOK
  <1> QED
    BY <1>1, <1>2, <1>3, <1>4 DEF IInv

\* The steps that move a thread along without ending its operation.
LEMMA InsideIInv ==
  ASSUME IInv, NEW t \in Threads, PushTest(t) \/ PushStore(t) \/ PopTake(t)
  PROVE  IInv'
  <1> USE RingAssumption DEF PushTest, PushStore, PopTake
  <1>1. cur = 0 /\ cur' = 0 /\ start = 1 /\ signal' = signal /\ start' = start /\ size' = size
    BY DEF IInv, LockInv, InLock
  <1>2. TypeOK' /\ CacheLimit'
    BY <1>1 DEF IInv, TypeOK, CacheLimit, Slots
  <1>3. SignalInv'
    <2>1. InFlight' = InFlight
      BY DEF IInv, TypeOK, InFlight
    <2>2. Leaked = 0 /\ Leaked' = 0
      BY <1>1 DEF Leaked
    <2> QED
      BY <1>1, <2>1, <2>2 DEF IInv, SignalInv
  <1>4. Exclusive' /\ LockInv' /\ CarryInv'
    BY <1>1 DEF IInv, TypeOK, Exclusive, LockInv, CarryInv, InLock, Slots
  <1>5. OneOwner'
    BY <1>1 DEF IInv, OneOwner, Cached, TypeOK
  <1> QED
    BY <1>2, <1>3, <1>4, <1>5 DEF IInv

LEMMA SetSizeIInv ==
  ASSUME IInv, SetSize
  PROVE  IInv'
  <1> USE RingAssumption DEF SetSize
  <1>1. cur = 0 /\ cur' = 0
    BY DEF IInv, LockInv, TypeOK, CacheLimit, init_value
  <1>2. TypeOK' /\ CacheLimit'
    BY <1>1 DEF IInv, TypeOK, CacheLimit, Slots
  <1>3. InFlight' = InFlight /\ Leaked' = Leaked
    BY DEF InFlight, Leaked, Settled
  <1>4. SignalInv'
    BY <1>3 DEF IInv, SignalInv
  <1>5. Exclusive' /\ LockInv' /\ CarryInv'
    BY <1>1 DEF IInv, TypeOK, Exclusive, LockInv, CarryInv, InLock, Slots
  <1>6. OneOwner'
    BY <1>1 DEF IInv, OneOwner, Cached
  <1> QED
    BY <1>2, <1>4, <1>5, <1>6 DEF IInv

LEMMA NextIInv == IInv /\ [Next]_vars => IInv'
  <1> SUFFICES ASSUME IInv, [Next]_vars PROVE IInv'
    OBVIOUS
  <1>1. CASE UNCHANGED vars
    BY <1>1 DEF vars, IInv, TypeOK, Exclusive, CacheLimit, SignalInv, LockInv, CarryInv,
                OneOwner, InLock, InFlight, Leaked, Settled, Cached
  <1>2. CASE SetSize
    BY <1>2, SetSizeIInv
  <1>3. ASSUME NEW t \in Threads, NEW e \in Elements, PushEnter(t, e) PROVE IInv'
    BY <1>3, EnterIInv DEF PushEnter
  <1>4. ASSUME NEW t \in Threads, PopEnter(t) PROVE IInv'
    BY <1>4, EnterIInv DEF PopEnter
  <1>5. ASSUME NEW t \in Threads, PushTest(t) \/ PushStore(t) \/ PopTake(t) PROVE IInv'
    BY <1>5, InsideIInv
  <1>6. ASSUME NEW t \in Threads, PushAdvance(t) PROVE IInv'
    BY <1>6, PushAdvanceIInv
  <1>7. ASSUME NEW t \in Threads, PushDone(t) PROVE IInv'
    BY <1>7, PushDoneIInv
  <1>8. ASSUME NEW t \in Threads, Leave(t) PROVE IInv'
    BY <1>8, LeaveIInv
  <1> QED
    BY <1>1, <1>2, <1>3, <1>4, <1>5, <1>6, <1>7, <1>8 DEF Next

LEMMA Invariance == Spec => []IInv
  BY InitIInv, NextIInv, PTL DEF Spec

-----------------------------------------------------------------------------
\* Every variable of the buffer keeps its range, cur_ that of data_ included:
\* push never writes past the array.
THEOREM TypeCorrect == Spec => []TypeOK
  BY Invariance, PTL DEF IInv

\* The counter signal_ is a correct lock: at most one thread at a time is
\* between the decrement that won and the update that follows it.
THEOREM MutualExclusion == Spec => []Exclusive
  BY Invariance, PTL DEF IInv

\* A recycled pointer is never owned twice, by two slots, by a slot and a
\* thread, or by two threads.
THEOREM Ownership == Spec => []OneOwner
  BY Invariance, PTL DEF IInv

\* Whatever the capacity, a buffer caches at most one element, and one made
\* by the sized constructor none.
THEOREM AtMostOneCached == Spec => []CacheLimit
  BY Invariance, PTL DEF IInv

-----------------------------------------------------------------------------
\* pop finds nothing to take: the thread that is inside found cur_ at 0.
LEMMA StepMapsToStep == IInv /\ [Next]_vars => [Pool!Next]_Pool!vars
  <1> DEFINE stack == [i \in 1..cur |-> data[i - 1]]
  <1> SUFFICES ASSUME IInv, [Next]_vars
               PROVE  Pool!Next \/ (stack' = stack /\ size' = size)
    BY DEF Pool!vars
  <1> USE RingAssumption
  <1>1. CASE UNCHANGED vars
    BY <1>1 DEF vars
  <1>2. CASE SetSize
    <2>1. cur = 0 /\ cur' = 0
      BY <1>2 DEF SetSize, IInv, LockInv, TypeOK, CacheLimit, init_value
    <2>2. stack' = stack
      BY <2>1
    <2>3. Pool!Resize
      BY <1>2, <2>2 DEF SetSize, Pool!Resize
    <2> QED
      BY <2>3 DEF Pool!Next
  <1>3. ASSUME NEW t \in Threads, NEW e \in Elements, PushEnter(t, e)
        PROVE  stack' = stack /\ size' = size
    BY <1>3 DEF PushEnter
  <1>4. ASSUME NEW t \in Threads, PopEnter(t) \/ PushTest(t) \/ PushDone(t) \/ Leave(t)
        PROVE  stack' = stack /\ size' = size
    BY <1>4 DEF PopEnter, PushTest, PushDone, Leave
  <1>5. ASSUME NEW t \in Threads, PushStore(t) \/ PopTake(t)
        PROVE  stack' = stack /\ size' = size
    <2>1. cur = 0 /\ cur' = 0 /\ size' = size
      BY <1>5 DEF PushStore, PopTake, IInv, LockInv, InLock
    <2> QED
      BY <2>1
  <1>6. ASSUME NEW t \in Threads, PushAdvance(t)
        PROVE  Pool!Next
    <2>1. /\ cur = 0 /\ cur' = 1 /\ size = Capacity /\ size' = size
          /\ data[0] = arg[t] /\ data' = data /\ arg[t] \in Elements
      BY <1>6 DEF PushAdvance, IInv, LockInv, CarryInv, InLock
    <2>2. stack = <<>>
      BY <2>1
    <2>3. stack' = <<arg[t]>>
      BY <2>1
    <2>4. \E e \in Elements : Pool!Put(e)
      BY <2>1, <2>2, <2>3 DEF Pool!Put
    <2> QED
      BY <2>4 DEF Pool!Next
  <1> QED
    BY <1>1, <1>2, <1>3, <1>4, <1>5, <1>6 DEF Next

\* Step by step, the buffer is the bounded stack that may refuse.
THEOREM Refinement == Spec => PoolSpec
  <1>1. Init => Pool!Init
    <2> SUFFICES ASSUME Init PROVE Pool!Init
      OBVIOUS
    <2>1. cur = 0 /\ size \in {0, Capacity}
      BY DEF Init
    <2>2. [i \in 1..cur |-> data[i - 1]] = <<>>
      BY <2>1
    <2> QED
      BY <2>1, <2>2 DEF Pool!Init
  <1> QED
    BY <1>1, StepMapsToStep, Invariance, PTL DEF Spec, PoolSpec, Pool!Spec

\* A cached element stays cached: no step takes one out.
THEOREM NeverHandedOut == Spec => CachedForGood
  <1>1. IInv /\ [Next]_vars => [Cached \subseteq Cached']_vars
    <2> SUFFICES ASSUME IInv, Next PROVE Cached \subseteq Cached'
      OBVIOUS
    <2> USE RingAssumption
    <2>1. CASE SetSize
      BY <2>1 DEF SetSize, IInv, LockInv, TypeOK, CacheLimit, init_value, Cached
    <2>2. ASSUME NEW t \in Threads, NEW e \in Elements, PushEnter(t, e)
          PROVE  Cached' = Cached
      BY <2>2 DEF PushEnter, Cached
    <2>3. ASSUME NEW t \in Threads, PopEnter(t) \/ PushTest(t) \/ PushDone(t) \/ Leave(t)
          PROVE  Cached' = Cached
      BY <2>3 DEF PopEnter, PushTest, PushDone, Leave, Cached
    <2>4. ASSUME NEW t \in Threads, PushStore(t) \/ PopTake(t) \/ PushAdvance(t)
          PROVE  Cached = {}
      BY <2>4 DEF PushStore, PopTake, PushAdvance, IInv, LockInv, InLock, Cached
    <2> QED
      BY <2>1, <2>2, <2>3, <2>4 DEF Next
  <1> QED
    BY <1>1, Invariance, PTL DEF Spec, CachedForGood
-----------------------------------------------------------------------------
\* The circular stack (module CircularStack), an array that is written round
\* and round like the buffer above but never refuses.

Values == Items \cup {NoItem}

\* The slot that is written next, and Contents, for any index and any array.
Slot(n) == n % N
Cut(d, from, l) == [k \in 1..l |-> d[from + k - 1]]
Kept(n, d) ==
  IF n >= N THEN Cut(d, Slot(n), N - Slot(n)) \o Cut(d, 0, Slot(n)) ELSE Cut(d, 0, n)

StackInv == index \in 0..(Wrap - 1) /\ datas \in [0..(N - 1) -> Values]

\* How a slot number goes round.
LEMMA Modulo ==
  ASSUME NEW n \in Nat, NEW m \in Nat \ {0}, NEW q \in Nat, NEW r \in 0..(m - 1), n = m * q + r
  PROVE  n % m = r
  OBVIOUS

LEMMA NextSlot ==
  ASSUME NEW n \in Nat, N \in Nat \ {0}
  PROVE  /\ Slot(n) \in 0..(N - 1) /\ (n < N => Slot(n) = n)
         /\ Slot(n + 1) = IF Slot(n) = N - 1 THEN 0 ELSE Slot(n) + 1
  <1>1. PICK q \in Nat, r \in 0..(N - 1) : n = N * q + r /\ Slot(n) = r
    <2>1. n = N * (n \div N) + (Slot(n)) /\ n \div N \in Nat /\ Slot(n) \in 0..(N - 1)
      BY DEF Slot
    <2> QED
      BY <2>1
  <1>2. n < N => Slot(n) = n
    <2>1. n < N => n \in 0..(N - 1) /\ n = N * 0 + n /\ 0 \in Nat
      OBVIOUS
    <2> QED
      BY <2>1, Modulo, Zenon DEF Slot
  <1>3. CASE r = N - 1
    <2>1. n + 1 = N * (q + 1) + 0 /\ 0 \in 0..(N - 1) /\ n + 1 \in Nat /\ q + 1 \in Nat
      BY <1>1, <1>3
    <2>2. Slot(n + 1) = 0
      BY <2>1, Modulo, Zenon DEF Slot
    <2> QED
      BY <1>1, <1>2, <1>3, <2>2
  <1>4. CASE r # N - 1
    <2>1. n + 1 = N * q + (r + 1) /\ r + 1 \in 0..(N - 1) /\ n + 1 \in Nat
      BY <1>1, <1>4
    <2>2. Slot(n + 1) = r + 1
      BY <2>1, Modulo, Zenon DEF Slot
    <2> QED
      BY <1>1, <1>2, <1>4, <2>2
  <1> QED
    BY <1>3, <1>4

LEMMA CutIs ==
  ASSUME N \in Nat \ {0}, NEW d \in [0..(N - 1) -> Values],
         NEW from \in Nat, NEW l \in Nat, from + l <= N
  PROVE  /\ Cut(d, from, l) \in Seq(Values) /\ Len(Cut(d, from, l)) = l
         /\ \A k \in 1..l : Cut(d, from, l)[k] = d[from + k - 1]
  <1>1. \A k \in 1..l : from + k - 1 \in 0..(N - 1)
    OBVIOUS
  <1>2. PICK s : s = [k \in 1..l |-> d[from + k - 1]]
    OBVIOUS
  <1>3. s \in [1..l -> Values]
    BY <1>1, <1>2
  <1>4. s \in Seq(Values) /\ Len(s) = l
    BY <1>3
  <1> QED
    BY <1>2, <1>4 DEF Cut

\* The elements kept are the last ones written, the oldest first.
LEMMA KeptIs ==
  ASSUME N \in Nat \ {0}, NEW d \in [0..(N - 1) -> Values], NEW n \in Nat, NEW r \in 0..(N - 1), r = Slot(n)
  PROVE  /\ Kept(n, d) \in Seq(Values)
         /\ Len(Kept(n, d)) = IF n >= N THEN N ELSE n
         /\ n < N => \A k \in 1..n : Kept(n, d)[k] = d[k - 1]
         /\ n >= N => \A k \in 1..N :
              Kept(n, d)[k] = IF k <= N - r THEN d[r + k - 1] ELSE d[r + k - 1 - N]
  <1>1. PICK z : z = 0
    OBVIOUS
  <1>2. CASE n < N
    <2>1. Kept(n, d) = Cut(d, z, n)
      BY <1>1, <1>2 DEF Kept
    <2>2. z \in Nat /\ z + n <= N
      BY <1>1, <1>2
    <2>3. /\ Cut(d, z, n) \in Seq(Values) /\ Len(Cut(d, z, n)) = n
          /\ \A k \in 1..n : Cut(d, z, n)[k] = d[z + k - 1]
      BY <2>2, CutIs
    <2>4. \A k \in 1..n : z + k - 1 = k - 1
      BY <1>1
    <2> QED
      BY <1>2, <2>1, <2>3, <2>4
  <1>3. CASE n >= N
    <2>1. r \in 0..(N - 1)
      OBVIOUS
    <2>2. PICK l \in Nat : l = N - r
      OBVIOUS
    <2>12. PICK a, b : a = Cut(d, r, l) /\ b = Cut(d, z, r)
      OBVIOUS
    <2>3. r \in Nat /\ z \in Nat /\ r + l <= N /\ z + r <= N
      BY <1>1, <2>1, <2>2
    <2>4. a \in Seq(Values) /\ Len(a) = l /\ \A k \in 1..l : a[k] = d[r + k - 1]
      <3>1. /\ Cut(d, r, l) \in Seq(Values) /\ Len(Cut(d, r, l)) = l
            /\ \A k \in 1..l : Cut(d, r, l)[k] = d[r + k - 1]
        BY <2>3, CutIs, ZenonT(30)
      <3> QED
        BY <2>12, <3>1
    <2>5. b \in Seq(Values) /\ Len(b) = r /\ \A k \in 1..r : b[k] = d[z + k - 1]
      <3>1. /\ Cut(d, z, r) \in Seq(Values) /\ Len(Cut(d, z, r)) = r
            /\ \A k \in 1..r : Cut(d, z, r)[k] = d[z + k - 1]
        BY <2>3, CutIs, ZenonT(30)
      <3> QED
        BY <2>12, <3>1
    <2>6. PICK s : s = a \o b
      OBVIOUS
    <2>7. /\ s \in Seq(Values) /\ Len(s) = l + r
          /\ \A k \in 1..(l + r) : s[k] = IF k <= l THEN a[k] ELSE b[k - l]
      <3>1. /\ a \o b \in Seq(Values) /\ Len(a \o b) = Len(a) + Len(b)
            /\ \A k \in 1..(Len(a) + Len(b)) :
                 (a \o b)[k] = IF k <= Len(a) THEN a[k] ELSE b[k - Len(a)]
        BY <2>4, <2>5, ConcatProperties
      <3> QED
        BY <2>4, <2>5, <2>6, <3>1
    <2>8. l + r = N
      BY <2>1, <2>2
    <2>9. ASSUME NEW k \in 1..N
          PROVE  s[k] = IF k <= l THEN d[r + k - 1] ELSE d[r + k - 1 - N]
      <3>1. s[k] = IF k <= l THEN a[k] ELSE b[k - l]
        BY <2>7, <2>8
      <3>2. CASE k <= l
        <4>1. k \in 1..l
          BY <2>3, <3>2
        <4> QED
          BY <2>4, <3>1, <3>2, <4>1
      <3>3. CASE ~(k <= l)
        <4>1. k - l \in 1..r /\ z + (k - l) - 1 = r + k - 1 - N
          BY <1>1, <2>1, <2>2, <3>3
        <4>2. b[k - l] = d[z + (k - l) - 1]
          BY <2>5, <4>1
        <4> QED
          BY <3>1, <3>3, <4>1, <4>2
      <3> QED
        BY <3>2, <3>3
    <2>10. Kept(n, d) = s
      BY <1>1, <1>3, <2>2, <2>12, <2>6 DEF Kept
    <2>11. s \in Seq(Values) /\ Len(s) = N
      BY <2>7, <2>8
    <2> QED
      BY <1>3, <2>2, <2>9, <2>10, <2>11
  <1> QED
    BY <1>2, <1>3

LEMMA KeptPush ==
  ASSUME N \in Nat \ {0}, NEW d \in [0..(N - 1) -> Values], NEW n \in Nat, NEW e \in Values
  PROVE  Kept(n + 1, [d EXCEPT ![Slot(n)] = e]) =
           IF n < N THEN Append(Kept(n, d), e) ELSE Append(Tail(Kept(n, d)), e)
  <1>0. /\ Slot(n) \in 0..(N - 1) /\ (n < N => Slot(n) = n) /\ Slot(n + 1) \in 0..(N - 1)
        /\ Slot(n + 1) = IF Slot(n) = N - 1 THEN 0 ELSE Slot(n) + 1
    <2>1. /\ Slot(n) \in 0..(N - 1) /\ (n < N => Slot(n) = n)
          /\ Slot(n + 1) = IF Slot(n) = N - 1 THEN 0 ELSE Slot(n) + 1
      BY NextSlot
    <2> QED
      BY <2>1
  <1>a. PICK r \in 0..(N - 1), q \in 0..(N - 1) : r = Slot(n) /\ q = Slot(n + 1)
    BY <1>0
  <1>b. PICK f : f = [d EXCEPT ![r] = e]
    OBVIOUS
  <1>1. r = Slot(n) /\ q = Slot(n + 1) /\ f = [d EXCEPT ![r] = e]
    BY <1>a, <1>b
  <1>2. (n < N => r = n) /\ q = IF r = N - 1 THEN 0 ELSE r + 1
    BY <1>0, <1>1
  <1>3. f \in [0..(N - 1) -> Values] /\ f[r] = e /\ \A k \in 0..(N - 1) : k # r => f[k] = d[k]
    BY <1>1, <1>2
  <1>4. PICK s, u : s = Kept(n, d) /\ u = Kept(n + 1, f)
    OBVIOUS
  <1>5. /\ s \in Seq(Values) /\ Len(s) = IF n >= N THEN N ELSE n
        /\ n < N => \A k \in 1..n : s[k] = d[k - 1]
        /\ n >= N => \A k \in 1..N : s[k] = IF k <= N - r THEN d[r + k - 1] ELSE d[r + k - 1 - N]
    BY <1>1, <1>4, KeptIs
  <1>6. /\ u \in Seq(Values) /\ Len(u) = IF n + 1 >= N THEN N ELSE n + 1
        /\ n + 1 < N => \A k \in 1..(n + 1) : u[k] = f[k - 1]
        /\ n + 1 >= N => \A k \in 1..N : u[k] = IF k <= N - q THEN f[q + k - 1] ELSE f[q + k - 1 - N]
    <2>1. PICK m : m = n + 1
      OBVIOUS
    <2>2. m \in Nat /\ q = Slot(m)
      BY <1>1, <2>1
    <2>3. /\ Kept(m, f) \in Seq(Values) /\ Len(Kept(m, f)) = IF m >= N THEN N ELSE m
          /\ m < N => \A k \in 1..m : Kept(m, f)[k] = f[k - 1]
          /\ m >= N => \A k \in 1..N :
               Kept(m, f)[k] = IF k <= N - q THEN f[q + k - 1] ELSE f[q + k - 1 - N]
      BY <1>3, <2>1, <2>2, KeptIs, ZenonT(30)
    <2> QED
      BY <1>4, <2>1, <2>3
  <1>7. CASE n < N
    <2>1. /\ Append(s, e) \in Seq(Values) /\ Len(Append(s, e)) = n + 1
          /\ \A k \in 1..n : Append(s, e)[k] = s[k]
          /\ Append(s, e)[n + 1] = e
      BY <1>5, <1>7, AppendProperties
    <2>2. Len(u) = n + 1 /\ \A k \in 1..(n + 1) : u[k] = f[k - 1]
      <3>1. CASE n + 1 < N
        BY <1>6, <3>1
      <3>2. CASE n + 1 = N
        BY <1>2, <1>6, <1>7, <3>2
      <3> QED
        BY <1>7, <3>1, <3>2
    <2>3. \A k \in 1..(n + 1) : u[k] = Append(s, e)[k]
      BY <1>2, <1>3, <1>5, <1>7, <2>1, <2>2
    <2>4. u = Append(s, e)
      BY <1>6, <2>1, <2>2, <2>3, SeqEqual
    <2> QED
      BY <1>1, <1>4, <1>7, <2>4
  <1>8. CASE n >= N
    <2>1. PICK v : v = Tail(s)
      OBVIOUS
    <2>2. v \in Seq(Values) /\ Len(v) = N - 1 /\ \A k \in 1..(N - 1) : v[k] = s[k + 1]
      BY <1>5, <1>8, <2>1, HeadTailProperties, EmptySeq
    <2>3. /\ Append(v, e) \in Seq(Values) /\ Len(Append(v, e)) = N - 1 + 1
          /\ \A k \in 1..(N - 1) : Append(v, e)[k] = v[k]
          /\ Append(v, e)[N - 1 + 1] = e
      BY <2>2, AppendProperties
    <2>4. Len(u) = N /\ \A k \in 1..N : u[k] = IF k <= N - q THEN f[q + k - 1] ELSE f[q + k - 1 - N]
      BY <1>6, <1>8
    <2>5. ASSUME NEW k \in 1..(N - 1) PROVE u[k] = s[k + 1]
      <3>1. s[k + 1] = IF k + 1 <= N - r THEN d[r + k] ELSE d[r + k - N]
        BY <1>2, <1>5, <1>8
      <3>2. CASE r = N - 1
        <4>1. u[k] = f[k - 1] /\ k - 1 \in 0..(N - 1) /\ k - 1 # r
          BY <1>2, <2>4, <3>2
        <4>2. s[k + 1] = d[k - 1]
          <5>1. ~(k + 1 <= N - r) /\ r + k - N = k - 1
            BY <3>2
          <5> QED
            BY <3>1, <5>1
        <4> QED
          BY <1>3, <4>1, <4>2
      <3>3. CASE r # N - 1 /\ k + 1 <= N - r
        <4>1. u[k] = f[r + k] /\ r + k \in 0..(N - 1) /\ r + k # r
          <5>1. k <= N - q /\ q + k - 1 = r + k
            BY <1>2, <3>3
          <5> QED
            BY <1>2, <2>4, <3>3, <5>1
        <4> QED
          BY <1>3, <3>1, <3>3, <4>1
      <3>4. CASE r # N - 1 /\ ~(k + 1 <= N - r)
        <4>1. u[k] = f[r + k - N] /\ r + k - N \in 0..(N - 1) /\ r + k - N # r
          <5>1. ~(k <= N - q) /\ q + k - 1 - N = r + k - N
            BY <1>2, <3>4
          <5> QED
            BY <1>2, <2>4, <3>4, <5>1
        <4> QED
          BY <1>3, <3>1, <3>4, <4>1
      <3> QED
        BY <3>2, <3>3, <3>4
    <2>6. u[N] = e
      <3>1. CASE r = N - 1
        BY <1>2, <1>3, <2>4, <3>1
      <3>2. CASE r # N - 1
        <4>1. ~(N <= N - q) /\ q + N - 1 - N = r
          BY <1>2, <3>2
        <4> QED
          BY <1>3, <2>4, <4>1
      <3> QED
        BY <3>1, <3>2
    <2>7. \A k \in 1..N : u[k] = Append(v, e)[k]
      BY <2>2, <2>3, <2>5, <2>6
    <2>8. u = Append(v, e)
      BY <1>6, <2>3, <2>4, <2>7, SeqEqual
    <2>9. u = Append(Tail(s), e) /\ ~(n < N)
      BY <1>8, <2>1, <2>8
    <2> QED
      BY <1>1, <1>4, <2>9, Zenon
  <1> QED
    BY <1>7, <1>8

LEMMA KeptPart ==
  ASSUME N \in Nat \ {0}, NEW d \in [0..(N - 1) -> Values], NEW n \in Nat, n >= N
  PROVE  Slot(n) \in 0..(N - 1)
         /\ Kept(Slot(n), d) = SubSeq(Kept(n, d), N - Slot(n) + 1, N)
  <1>0. Slot(n) \in 0..(N - 1)
    BY NextSlot
  <1>1. PICK r \in 0..(N - 1) : r = Slot(n)
    BY <1>0
  <1>2. PICK s : s = Kept(n, d)
    OBVIOUS
  <1>3. /\ s \in Seq(Values) /\ Len(s) = N
        /\ \A k \in 1..N : s[k] = IF k <= N - r THEN d[r + k - 1] ELSE d[r + k - 1 - N]
    BY <1>1, <1>2, KeptIs
  <1>4. PICK u : u = [k \in 1..r |-> d[k - 1]]
    OBVIOUS
  <1>5. Kept(r, d) = u
    BY <1>4 DEF Kept, Cut
  <1>6. \A k \in 1..r : s[k + (N - r + 1) - 1] = d[k - 1]
    <2> SUFFICES ASSUME NEW k \in 1..r PROVE s[k + (N - r + 1) - 1] = d[k - 1]
      OBVIOUS
    <2>1. k + (N - r + 1) - 1 \in 1..N /\ ~(k + (N - r + 1) - 1 <= N - r)
          /\ r + (k + (N - r + 1) - 1) - 1 - N = k - 1
      OBVIOUS
    <2> QED
      BY <1>3, <2>1
  <1>7. SubSeq(s, N - r + 1, N) = u
    <2>1. SubSeq(s, N - r + 1, N) = [k \in 1..(N - (N - r + 1) + 1) |-> s[k + (N - r + 1) - 1]]
      BY <1>3, SubSeqProperties
    <2>2. N - (N - r + 1) + 1 = r
      OBVIOUS
    <2> QED
      BY <1>4, <1>6, <2>1, <2>2
  <1> QED
    BY <1>0, <1>1, <1>2, <1>5, <1>7

LEMMA ContentsAre ==
  ASSUME N \in Nat \ {0}, index \in Nat
  PROVE  Contents = Kept(index, datas)
  <1>1. PICK r \in 0..(N - 1) : r = Slot(index)
    BY NextSlot
  <1>2. r - 0 = r /\ index - 0 = index /\ r = index % N
    BY <1>1 DEF Slot
  <1> QED
    BY <1>1, <1>2, Zenon DEF Contents, Copy, Kept, Cut

\* The same after a step, index and datas being what they became.
LEMMA ContentsNext ==
  ASSUME N \in Nat \ {0}, index' \in Nat
  PROVE  Contents' = Kept(index', datas')
  <1>1. PICK i \in Nat : i = index'
    OBVIOUS
  <1>2. PICK r \in 0..(N - 1) : r = Slot(i)
    BY NextSlot
  <1>3. r - 0 = r /\ i - 0 = i /\ r = i % N
    BY <1>2 DEF Slot
  <1> QED
    BY <1>1, <1>2, <1>3, Zenon DEF Contents, Copy, Kept, Cut

LEMMA StackStarts ==
  ASSUME StackInit
  PROVE  StackInv /\ Recent!Init
  <1>1. N \in Nat \ {0} /\ Wrap \in Nat /\ Wrap > N /\ index = 0 /\ index \in Nat
    BY StackAssumption DEF StackInit
  <1>2. datas \in [0..(N - 1) -> Values]
    BY DEF StackInit, Values
  <1>3. Contents = Kept(index, datas)
    BY <1>1, ContentsAre
  <1>4. Kept(index, datas) \in Seq(Values) /\ Len(Kept(index, datas)) = 0
    <2>1. PICK r \in 0..(N - 1) : r = Slot(index)
      BY <1>1, NextSlot
    <2> QED
      BY <1>1, <1>2, <2>1, KeptIs
  <1>5. Contents = <<>>
    BY <1>3, <1>4, EmptySeq
  <1> QED
    BY <1>1, <1>2, <1>5 DEF StackInv, Recent!Init, StackInit

LEMMA StackStep ==
  ASSUME StackInv, [StackNext]_stackVars
  PROVE  StackInv' /\ [Recent!Next]_(Recent!vars)
  <1>1. /\ N \in Nat \ {0} /\ Wrap \in Nat /\ Wrap > N
        /\ index \in Nat /\ index < Wrap /\ datas \in [0..(N - 1) -> Values]
    BY StackAssumption DEF StackInv
  <1>2. PICK r \in 0..(N - 1) : r = Slot(index)
    BY <1>1, NextSlot
  <1>3. PICK s : s = Kept(index, datas)
    OBVIOUS
  <1>4. s \in Seq(Values) /\ Len(s) = IF index >= N THEN N ELSE index
    BY <1>1, <1>2, <1>3, KeptIs
  <1>5. Contents = s
    BY <1>1, <1>3, ContentsAre
  <1>6. ASSUME NEW d \in [0..(N - 1) -> Values] PROVE Kept(0, d) = <<>>
    <2>1. PICK z \in Nat, q \in 0..(N - 1) : z = 0 /\ q = Slot(z)
      BY <1>1, NextSlot
    <2>2. Kept(z, d) \in Seq(Values) /\ Len(Kept(z, d)) = 0
      BY <1>1, <2>1, KeptIs
    <2> QED
      BY <2>1, <2>2, EmptySeq
  <1>7. ASSUME NEW t \in Items, push_back(t)
        PROVE  StackInv' /\ [Recent!Next]_(Recent!vars)
    <2>1. /\ datas' = [datas EXCEPT ![Slot(index)] = t]
          /\ index' = (index + 1) % Wrap /\ UNCHANGED result
      BY <1>7 DEF push_back, Slot
    <2>2. t \in Values
      BY DEF Values
    <2>3. datas' \in [0..(N - 1) -> Values]
      BY <1>1, <2>1, <2>2
    <2>4. CASE index + 1 < Wrap
      <3>1. index' = index + 1
        <4>1. /\ index + 1 \in Nat /\ Wrap \in Nat \ {0} /\ 0 \in Nat
              /\ index + 1 \in 0..(Wrap - 1) /\ index + 1 = Wrap * 0 + (index + 1)
          BY <1>1, <2>4
        <4> QED
          BY <2>1, <4>1, Modulo, Zenon
      <3>2. index' \in Nat /\ index' \in 0..(Wrap - 1)
        BY <1>1, <2>4, <3>1
      <3>3. Contents' = Kept(index', datas')
        BY <1>1, <3>2, ContentsNext
      <3>4. Kept(index', datas') =
              IF index < N THEN Append(s, t) ELSE Append(Tail(s), t)
        BY <1>1, <1>3, <2>1, <2>2, <3>1, KeptPush, ZenonT(30)
      <3>5. Len(s) < N <=> index < N
        BY <1>1, <1>4
      <3>6. Recent!Push(t)
        BY <1>5, <2>1, <3>3, <3>4, <3>5 DEF Recent!Push
      <3> QED
        BY <2>3, <3>2, <3>6 DEF StackInv, Recent!Next
    <2>5. CASE index + 1 = Wrap
      <3>1. index' = 0
        <4>1. /\ index + 1 \in Nat /\ Wrap \in Nat \ {0} /\ 1 \in Nat
              /\ 0 \in 0..(Wrap - 1) /\ index + 1 = Wrap * 1 + 0
          BY <1>1, <2>5
        <4> QED
          BY <2>1, <4>1, Modulo, Zenon
      <3>2. index' \in Nat /\ index' \in 0..(Wrap - 1)
        BY <1>1, <3>1
      <3>3. Contents' = <<>>
        BY <1>1, <1>6, <2>3, <3>1, <3>2, ContentsNext
      <3>4. Len(s) = N
        BY <1>1, <1>4, <2>5
      <3>5. Recent!Restart
        BY <1>5, <2>1, <3>3, <3>4 DEF Recent!Restart
      <3> QED
        BY <2>3, <3>2, <3>5 DEF StackInv, Recent!Next
    <2> QED
      BY <1>1, <2>4, <2>5
  <1>8. CASE clear
    <2>1. index' = 0 /\ UNCHANGED <<datas, result>>
      BY <1>8 DEF clear
    <2>2. index' \in Nat /\ index' \in 0..(Wrap - 1)
      BY <1>1, <2>1
    <2>3. Contents' = <<>>
      BY <1>1, <1>6, <2>1, <2>2, ContentsNext
    <2>4. Recent!Clear
      BY <2>1, <2>3 DEF Recent!Clear
    <2> QED
      BY <1>1, <2>1, <2>2, <2>4 DEF StackInv, Recent!Next
  <1>9. CASE get(TRUE)
    <2>1. index' = 0 /\ datas' = datas /\ result' = s
      BY <1>5, <1>9 DEF get
    <2>2. index' \in Nat /\ index' \in 0..(Wrap - 1)
      BY <1>1, <2>1
    <2>3. Contents' = <<>>
      BY <1>1, <1>6, <2>1, <2>2, ContentsNext
    <2>4. Recent!Read(TRUE)
      BY <1>5, <2>1, <2>3 DEF Recent!Read
    <2> QED
      BY <1>1, <2>1, <2>2, <2>4 DEF StackInv, Recent!Next
  <1>10. CASE get(FALSE)
    <2>1. index' = (IF index >= N THEN Slot(index) ELSE index) /\ datas' = datas /\ result' = s
      BY <1>5, <1>10 DEF get, Slot
    <2>2. index' \in Nat /\ index' \in 0..(Wrap - 1)
      BY <1>1, <1>2, <2>1
    <2>3. Contents' = Kept(index', datas)
      BY <1>1, <2>1, <2>2, ContentsNext
    <2>4. Recent!Read(FALSE)
      <3>1. CASE index >= N
        <4>1. Contents' = SubSeq(s, N - r + 1, N)
          BY <1>1, <1>2, <1>3, <2>1, <2>3, <3>1, KeptPart
        <4>2. Len(s) = N
          BY <1>4, <3>1
        <4> QED
          BY <1>1, <1>2, <1>5, <2>1, <4>1, <4>2 DEF Recent!Read, Recent!LastOf
      <3>2. CASE ~(index >= N)
        <4>1. Contents' = s
          BY <1>3, <2>1, <2>3, <3>2
        <4> QED
          BY <1>5, <2>1, <4>1 DEF Recent!Read
      <3> QED
        BY <3>1, <3>2
    <2> QED
      BY <1>1, <2>1, <2>2, <2>4 DEF StackInv, Recent!Next
  <1>11. CASE UNCHANGED stackVars
    <2>1. index' = index /\ datas' = datas /\ result' = result
      BY <1>11 DEF stackVars
    <2>2. Contents' = s
      BY <1>1, <1>3, <2>1, ContentsNext
    <2> QED
      BY <1>1, <1>5, <2>1, <2>2 DEF StackInv, Recent!vars
  <1> QED
    BY <1>7, <1>8, <1>9, <1>10, <1>11 DEF StackNext

\* The circular stack implements the log of the most recent elements, for
\* every capacity, every set of elements and every modulus of its index that
\* is above the capacity: what get returns is what a plain list would.
THEOREM StackImplementsLog == StackSpec => RecentSpec
  <1>1. StackInit => StackInv /\ Recent!Init
    BY StackStarts
  <1>2. StackInv /\ [StackNext]_stackVars => StackInv' /\ [Recent!Next]_(Recent!vars)
    BY StackStep
  <1> QED
    BY <1>1, <1>2, PTL DEF StackSpec, RecentSpec, Recent!Spec
=============================================================================
