--------------------------- MODULE Objects_proofs ---------------------------
(***************************************************************************)
(* Proofs about AllocateManager and Objects, for any number of threads,    *)
(* blocks, rings and references, and any sizes.  The allocator comes       *)
(* first: a block has one owner, and its size is what FindSlot makes of    *)
(* the size it is used with.                                               *)
(***************************************************************************)
EXTENDS Objects, FiniteSetTheorems, SequenceTheorems, WellFoundedInduction, TLAPS

\* A set of numbers has a least.
LEMMA Least ==
  ASSUME NEW T, T \subseteq Nat, T # {}
  PROVE  \E m \in T : \A k \in T : m <= k
  <1>1. PICK m \in T : \A k \in T : ~(<<k, m>> \in OpToRel(<, Nat))
    BY NatLessThanWellFounded, WFMin
  <1>2. \A k \in T : k < m => <<k, m>> \in OpToRel(<, Nat)
    BY DEF OpToRel
  <1>3. \A k \in T : ~(k < m)
    BY <1>1, <1>2, Zenon
  <1> QED
    BY <1>3

LEMMA Powers ==
  ASSUME NEW s \in 0..31
  PROVE  2^s \in Nat \ {0}
  <1>1. 2^0 \in Nat \ {0} /\ 2^1 \in Nat \ {0} /\ 2^2 \in Nat \ {0} /\ 2^3 \in Nat \ {0} /\
        2^4 \in Nat \ {0} /\ 2^5 \in Nat \ {0} /\ 2^6 \in Nat \ {0} /\ 2^7 \in Nat \ {0} /\
        2^8 \in Nat \ {0} /\ 2^9 \in Nat \ {0} /\ 2^10 \in Nat \ {0} /\ 2^11 \in Nat \ {0} /\
        2^12 \in Nat \ {0} /\ 2^13 \in Nat \ {0} /\ 2^14 \in Nat \ {0} /\ 2^15 \in Nat \ {0} /\
        2^16 \in Nat \ {0} /\ 2^17 \in Nat \ {0} /\ 2^18 \in Nat \ {0} /\ 2^19 \in Nat \ {0} /\
        2^20 \in Nat \ {0} /\ 2^21 \in Nat \ {0} /\ 2^22 \in Nat \ {0} /\ 2^23 \in Nat \ {0} /\
        2^24 \in Nat \ {0} /\ 2^25 \in Nat \ {0} /\ 2^26 \in Nat \ {0} /\ 2^27 \in Nat \ {0} /\
        2^28 \in Nat \ {0} /\ 2^29 \in Nat \ {0} /\ 2^30 \in Nat \ {0} /\ 2^31 \in Nat \ {0}
    OBVIOUS
  <1>2. s = 0 \/ s = 1 \/ s = 2 \/ s = 3 \/ s = 4 \/ s = 5 \/ s = 6 \/ s = 7 \/ s = 8 \/ s = 9 \/
        s = 10 \/ s = 11 \/ s = 12 \/ s = 13 \/ s = 14 \/ s = 15 \/ s = 16 \/ s = 17 \/ s = 18 \/
        s = 19 \/ s = 20 \/ s = 21 \/ s = 22 \/ s = 23 \/ s = 24 \/ s = 25 \/ s = 26 \/ s = 27 \/
        s = 28 \/ s = 29 \/ s = 30 \/ s = 31
    OBVIOUS
  <1> QED
    BY <1>1, <1>2, Zenon

\* FindSlot finds a power of two that is large enough.
LEMMA FindSlotIs ==
  ASSUME NEW n \in Sizes
  PROVE  FindSlot(n) \in 0..31 /\ n <= 2^FindSlot(n)
  <1> DEFINE Large == {s \in 0..31 : n <= 2^s}
  <1>1. n \in 1..(2^30)
    BY AllocateAssumption
  <1>2. 30 \in Large
    BY <1>1
  <1>3. PICK m \in Large : \A k \in Large : m <= k
    <2>1. Large \subseteq 0..31
      OBVIOUS
    <2> HIDE DEF Large
    <2>2. Large \subseteq Nat /\ Large # {}
      BY <1>2, <2>1
    <2> QED
      BY <2>2, Least
  <1>4. ASSUME NEW r \in 0..(m - 1) PROVE 2^r < n
    <2>1. r \in 0..31 /\ r \notin Large
      BY <1>3
    <2> QED
      BY <1>1, <2>1, Powers
  <1>5. \E s \in 0..31 : n <= 2^s /\ \A r \in 0..(s - 1) : 2^r < n
    BY <1>3, <1>4
  <1> QED
    BY <1>5 DEF FindSlot

LEMMA RoundedIs ==
  ASSUME NEW n \in Sizes
  PROVE  /\ Rounded(n) \in Nat \ {0} /\ n <= Rounded(n) /\ n \in Nat \ {0}
         /\ FindSlot(n) < max_slot => FindSlot(n) \in Slots /\ Rounded(n) = 2^FindSlot(n)
  <1>1. n \in Nat \ {0}
    <2>1. n \in 1..(2^30)
      BY AllocateAssumption
    <2> QED
      BY <2>1
  <1>2. FindSlot(n) \in 0..31 /\ n <= 2^FindSlot(n) /\ 2^FindSlot(n) \in Nat \ {0}
    BY FindSlotIs, Powers
  <1>3. FindSlot(n) < max_slot => FindSlot(n) \in Slots
    <2>1. max_slot \in 1..31
      BY AllocateAssumption
    <2> QED
      BY <1>2, <2>1 DEF Slots
  <1> QED
    BY <1>1, <1>2, <1>3 DEF Rounded
-----------------------------------------------------------------------------
\* The place k of a ring, and how many places hold a block.
At(s, r, k) == ring[s][r][k]
Held(s, r) == Len(ring[s][r])

\* What a thread is doing agrees with what it has.
ThreadInv ==
  /\ \A t \in Threads :
       /\ pc[t] = "push" <=> block[t] # NoBlock
       /\ pc[t] # "idle" => size[t] \in Sizes
       /\ pc[t] # "idle" /\ i[t] < max_thread => FindSlot(size[t]) < max_slot
       /\ stopped => pc[t] # "pop"
  /\ \A s \in Slots, r \in Rings : Held(s, r) <= room

\* A block outside the rings is as large as its size is rounded up to.
SizeInv ==
  /\ \A b \in Blocks : given[b] # 0 => heap[b] = Rounded(given[b])
  /\ \A t \in Threads : pc[t] = "push" => heap[block[t]] = Rounded(size[t])
  /\ ~stopped => \A s \in Slots, r \in Rings : \A k \in 1..Held(s, r) : heap[At(s, r, k)] = 2^s

\* No two of the users, the threads and the places have the same block.
ApartInv ==
  /\ \A t, u \in Threads : block[t] # NoBlock /\ block[t] = block[u] => t = u
  /\ \A t \in Threads : pc[t] = "push" => given[block[t]] = 0
  /\ \A s \in Slots, r \in Rings : \A k \in 1..Held(s, r) :
       /\ given[At(s, r, k)] = 0 /\ \A t \in Threads : block[t] # At(s, r, k)
       /\ \A q \in Slots, p \in Rings : \A j \in 1..Held(q, p) :
            At(s, r, k) = At(q, p, j) => s = q /\ r = p /\ k = j

InRing(b) == \E s \in Slots, r \in Rings : \E k \in 1..Held(s, r) : At(s, r, k) = b

\* Until Stop a block that is free is nowhere, and no other is lost.
KeptInv ==
  ~stopped =>
    \A b \in Blocks :
      /\ heap[b] = 0 => ~InRing(b) /\ \A t \in Threads : block[t] # b
      /\ heap[b] # 0 /\ given[b] = 0 => InRing(b) \/ \E t \in Threads : block[t] = b

AllocateInv == TypeOK /\ ThreadInv /\ SizeInv /\ ApartInv /\ KeptInv

-----------------------------------------------------------------------------
LEMMA Ranges ==
  /\ NoBlock \notin Blocks /\ 0 \notin Sizes /\ max_thread \in Nat \ {0} /\ RingSize \in Nat
  /\ \A s \in Slots : s \in 0..31
  <1>1. \A n \in Sizes : n \in 1..(2^30)
    BY AllocateAssumption
  <1>2. 0 \notin Sizes
    BY <1>1
  <1>3. \A s \in Slots : s \in 0..31
    <2>1. max_slot \in 1..31
      BY AllocateAssumption
    <2> QED
      BY <2>1 DEF Slots
  <1> QED
    BY <1>2, <1>3, AllocateAssumption

LEMMA RingTypes ==
  ASSUME ring \in [Slots -> [Rings -> Seq(Blocks)]], NEW s \in Slots, NEW r \in Rings
  PROVE  Held(s, r) \in Nat /\ \A k \in 1..Held(s, r) : At(s, r, k) \in Blocks
  <1>1. ring[s][r] \in Seq(Blocks)
    OBVIOUS
  <1> QED
    BY <1>1, LenProperties, ElementOfSeq DEF At, Held

\* A ring without its last block, and with one more.
LEMMA RingPop ==
  ASSUME ring \in [Slots -> [Rings -> Seq(Blocks)]], NEW s \in Slots, NEW r \in Rings, ring[s][r] # <<>>,
         ring' = [ring EXCEPT ![s][r] = SubSeq(ring[s][r], 1, Len(ring[s][r]) - 1)]
  PROVE  /\ ring' \in [Slots -> [Rings -> Seq(Blocks)]] /\ Held(s, r) \in Nat \ {0}
         /\ Held(s, r)' = Held(s, r) - 1 /\ \A k \in 1..(Held(s, r) - 1) : At(s, r, k)' = At(s, r, k)
         /\ \A q \in Slots, p \in Rings :
              q # s \/ p # r => Held(q, p)' = Held(q, p) /\ \A k \in 1..Held(q, p) : At(q, p, k)' = At(q, p, k)
  <1> DEFINE c == ring[s][r]
  <1>1. c \in Seq(Blocks) /\ Len(c) \in Nat \ {0}
    BY EmptySeq
  <1>2. PICK n \in Nat \ {0} : Len(c) = n
    BY <1>1
  <1>3. \A k \in 1..(n - 1) : c[k] \in Blocks
    BY <1>1, <1>2, ElementOfSeq
  <1>4. /\ SubSeq(c, 1, n - 1) \in Seq(Blocks) /\ Len(SubSeq(c, 1, n - 1)) = n - 1
        /\ \A k \in 1..(n - 1) : SubSeq(c, 1, n - 1)[k] = c[k]
    BY <1>2, <1>3, SubSeqProperties
  <1>5. /\ ring' \in [Slots -> [Rings -> Seq(Blocks)]] /\ ring'[s][r] = SubSeq(c, 1, n - 1)
        /\ \A q \in Slots, p \in Rings : q # s \/ p # r => ring'[q][p] = ring[q][p]
    BY <1>2, <1>4
  <1> QED
    BY <1>2, <1>4, <1>5 DEF At, Held

LEMMA RingPush ==
  ASSUME ring \in [Slots -> [Rings -> Seq(Blocks)]], NEW s \in Slots, NEW r \in Rings, NEW b \in Blocks,
         ring' = [ring EXCEPT ![s][r] = Append(ring[s][r], b)]
  PROVE  /\ ring' \in [Slots -> [Rings -> Seq(Blocks)]]
         /\ Held(s, r)' = Held(s, r) + 1
         /\ \A k \in 1..(Held(s, r) + 1) : At(s, r, k)' = IF k <= Held(s, r) THEN At(s, r, k) ELSE b
         /\ \A q \in Slots, p \in Rings :
              q # s \/ p # r => Held(q, p)' = Held(q, p) /\ \A k \in 1..Held(q, p) : At(q, p, k)' = At(q, p, k)
  <1> DEFINE c == ring[s][r]
  <1>1. c \in Seq(Blocks)
    OBVIOUS
  <1>2. PICK n \in Nat : Len(c) = n
    BY <1>1, LenProperties
  <1>3. /\ Append(c, b) \in Seq(Blocks) /\ Len(Append(c, b)) = n + 1 /\ Append(c, b)[n + 1] = b
        /\ \A k \in 1..n : Append(c, b)[k] = c[k]
    BY <1>1, <1>2, AppendProperties
  <1>4. /\ ring' \in [Slots -> [Rings -> Seq(Blocks)]] /\ ring'[s][r] = Append(c, b)
        /\ \A q \in Slots, p \in Rings : q # s \/ p # r => ring'[q][p] = ring[q][p]
    BY <1>3
  <1>5. /\ Held(s, r) = n /\ Held(s, r)' = n + 1
        /\ \A k \in 1..(n + 1) : At(s, r, k)' = IF k <= n THEN At(s, r, k) ELSE b
    BY <1>2, <1>3, <1>4 DEF At, Held
  <1>6. \A q \in Slots, p \in Rings :
          q # s \/ p # r => Held(q, p)' = Held(q, p) /\ \A k \in 1..Held(q, p) : At(q, p, k)' = At(q, p, k)
    BY <1>4 DEF At, Held
  <1> QED
    BY <1>4, <1>5, <1>6
-----------------------------------------------------------------------------
LEMMA InitAllocate == Init => AllocateInv
  <1> SUFFICES ASSUME Init PROVE AllocateInv
    OBVIOUS
  <1>1. \A s \in Slots, r \in Rings : Held(s, r) = 0
    BY EmptySeq DEF Init, Held
  <1>2. TypeOK
    <2>1. <<>> \in Seq(Blocks) /\ 0 \in 0..max_thread
      BY Ranges, EmptySeq
    <2>2. ring \in [Slots -> [Rings -> Seq(Blocks)]]
      BY <2>1 DEF Init
    <2> QED
      BY <2>1, <2>2 DEF Init, TypeOK
  <1>3. ThreadInv
    BY <1>1 DEF Init, ThreadInv
  <1>4. SizeInv /\ ApartInv
    BY <1>1 DEF Init, SizeInv, ApartInv
  <1>5. KeptInv
    BY <1>1, Ranges DEF Init, KeptInv, InRing
  <1> QED
    BY <1>2, <1>3, <1>4, <1>5 DEF AllocateInv

\* What a request changes when it is done.
LEMMA FinishIs ==
  ASSUME TypeOK, NEW t \in Threads, Finish(t)
  PROVE  /\ pc'[t] = "idle" /\ block'[t] = NoBlock
         /\ \A u \in Threads : u # t => pc'[u] = pc[u] /\ block'[u] = block[u] /\ size'[u] = size[u] /\ i'[u] = i[u]
         /\ pc' \in [Threads -> {"idle", "pop", "push"}] /\ size' \in [Threads -> Sizes \cup {0}]
         /\ block' \in [Threads -> Blocks \cup {NoBlock}] /\ i' \in [Threads -> 0..max_thread]
  BY Ranges DEF Finish, TypeOK

\* A request begins at the first ring of its size.
LEMMA BeginIs ==
  ASSUME TypeOK, NEW t \in Threads, NEW what \in {"pop", "push"}, NEW n \in Sizes,
         NEW b \in Blocks \cup {NoBlock}, Begin(t, what, n, b)
  PROVE  /\ pc[t] = "idle" /\ pc'[t] = what /\ block'[t] = b /\ size'[t] = n
         /\ i'[t] < max_thread => FindSlot(n) < max_slot
         /\ \A u \in Threads : u # t => pc'[u] = pc[u] /\ block'[u] = block[u] /\ size'[u] = size[u] /\ i'[u] = i[u]
         /\ pc' \in [Threads -> {"idle", "pop", "push"}] /\ size' \in [Threads -> Sizes \cup {0}]
         /\ block' \in [Threads -> Blocks \cup {NoBlock}] /\ i' \in [Threads -> 0..max_thread]
  BY Ranges DEF Begin, TypeOK

LEMMA NextRingIs ==
  ASSUME TypeOK, NEW t \in Threads, i[t] < max_thread, NextRing(t)
  PROVE  /\ i' \in [Threads -> 0..max_thread] /\ UNCHANGED <<pc, size, block>>
         /\ \A u \in Threads : u # t => i'[u] = i[u]
  BY Ranges DEF NextRing, TypeOK

\* What does not depend on the rings.
LEMMA SameRings ==
  ASSUME ring' = ring
  PROVE  /\ \A s \in Slots, r \in Rings : Held(s, r)' = Held(s, r)
         /\ \A s \in Slots, r \in Rings : \A k \in 1..Held(s, r) : At(s, r, k)' = At(s, r, k)
         /\ \A b \in Blocks : InRing(b)' <=> InRing(b)
  BY DEF Held, At, InRing

LEMMA AllocateStep ==
  ASSUME AllocateInv, NEW t \in Threads, NEW n \in Sizes, Allocate(t, n)
  PROVE  AllocateInv'
  <1> USE DEF AllocateInv
  <1>1. ~stopped /\ Begin(t, "pop", n, NoBlock) /\ UNCHANGED <<heap, ring, room, stopped, given>>
    BY DEF Allocate
  <1>2. /\ pc[t] = "idle" /\ pc'[t] = "pop" /\ block'[t] = NoBlock /\ size'[t] = n
        /\ i'[t] < max_thread => FindSlot(n) < max_slot
        /\ \A u \in Threads : u # t => pc'[u] = pc[u] /\ block'[u] = block[u] /\ size'[u] = size[u] /\ i'[u] = i[u]
    BY <1>1, BeginIs
  <1>3. TypeOK'
    BY <1>1, BeginIs DEF TypeOK
  <1>4. block' = block
    BY <1>2, <1>3 DEF TypeOK, ThreadInv
  <1>5. ThreadInv'
    BY <1>1, <1>2, SameRings DEF ThreadInv
  <1>6. SizeInv'
    BY <1>1, <1>2, <1>4, SameRings DEF SizeInv
  <1>7. ApartInv' /\ KeptInv'
    BY <1>1, <1>2, <1>4, SameRings DEF ApartInv, KeptInv
  <1> QED
    BY <1>3, <1>5, <1>6, <1>7
LEMMA PopRingStep ==
  ASSUME AllocateInv, NEW t \in Threads, PopRing(t)
  PROVE  AllocateInv'
  <1> USE DEF AllocateInv
  <1>1. pc[t] = "pop" /\ i[t] < max_thread /\ ~stopped /\ UNCHANGED <<heap, room, stopped>>
    BY DEF PopRing, ThreadInv
  <1>2. PICK s \in Slots, r \in Rings :
          s = FindSlot(size[t]) /\ r = i[t] /\ size[t] \in Sizes /\ Rounded(size[t]) = 2^s
    <2>1. size[t] \in Sizes /\ FindSlot(size[t]) < max_slot
      BY <1>1 DEF ThreadInv
    <2>2. FindSlot(size[t]) \in Slots /\ Rounded(size[t]) = 2^FindSlot(size[t])
      BY <2>1, RoundedIs
    <2>3. i[t] \in Rings
      BY <1>1, Ranges DEF TypeOK, Rings
    <2> QED
      BY <2>1, <2>2, <2>3
  <1>3. CASE NextRing(t) /\ UNCHANGED <<ring, given>>
    <2>1. TypeOK' /\ UNCHANGED <<pc, size, block>> /\ \A u \in Threads : u # t => i'[u] = i[u]
      BY <1>1, <1>3, NextRingIs DEF TypeOK
    <2>2. ThreadInv'
      BY <1>1, <1>2, <1>3, <2>1, SameRings DEF ThreadInv, Slots
    <2>3. SizeInv' /\ ApartInv' /\ KeptInv'
      BY <1>1, <1>3, <2>1, SameRings DEF SizeInv, ApartInv, KeptInv
    <2> QED
      BY <2>1, <2>2, <2>3
  <1>4. ASSUME ring[s][r] # <<>>, ring' = [ring EXCEPT ![s][r] = SubSeq(ring[s][r], 1, Len(ring[s][r]) - 1)],
               given' = [given EXCEPT ![ring[s][r][Len(ring[s][r])]] = size[t]], Finish(t)
        PROVE  AllocateInv'
    <2>1. /\ ring' \in [Slots -> [Rings -> Seq(Blocks)]] /\ Held(s, r) \in Nat \ {0}
          /\ Held(s, r)' = Held(s, r) - 1 /\ \A k \in 1..(Held(s, r) - 1) : At(s, r, k)' = At(s, r, k)
          /\ \A q \in Slots, p \in Rings :
               q # s \/ p # r => Held(q, p)' = Held(q, p) /\ \A k \in 1..Held(q, p) : At(q, p, k)' = At(q, p, k)
      <3>1. ring \in [Slots -> [Rings -> Seq(Blocks)]]
        BY DEF TypeOK
      <3> QED
        BY <1>4, <3>1, RingPop
    <2>2. \A q \in Slots, p \in Rings : Held(q, p) \in Nat /\ \A k \in 1..Held(q, p) : At(q, p, k) \in Blocks
      BY RingTypes DEF TypeOK
    <2>3. PICK b \in Blocks : b = At(s, r, Held(s, r)) /\ Held(s, r) \in 1..Held(s, r)
      BY <2>1, <2>2
    <2>4. given' \in [Blocks -> Sizes \cup {0}] /\ given'[b] = size[t] /\ \A a \in Blocks : a # b => given'[a] = given[a]
      BY <1>2, <1>4, <2>3 DEF TypeOK, At, Held
    <2>5. block' = block /\ pc'[t] = "idle"
      BY <1>1, <1>4, FinishIs DEF TypeOK, ThreadInv
    <2>6. /\ TypeOK'
          /\ \A u \in Threads : u # t => pc'[u] = pc[u] /\ size'[u] = size[u] /\ i'[u] = i[u]
      BY <1>1, <1>4, <2>1, <2>4, FinishIs, SMTT(20) DEF TypeOK
    <2>7. ThreadInv'
      <3>1. \A q \in Slots, p \in Rings : Held(q, p)' <= room'
        <4>1. ASSUME NEW q \in Slots, NEW p \in Rings PROVE Held(q, p)' <= Held(q, p) /\ Held(q, p)' \in Int
          <5>1. CASE q = s /\ p = r
            BY <2>1, <5>1
          <5>2. CASE q # s \/ p # r
            BY <2>1, <2>2, <5>2
          <5> QED
            BY <5>1, <5>2
        <4>2. room \in Int /\ room' = room
          BY <1>1, Ranges DEF TypeOK
        <4> QED
          BY <2>2, <4>1, <4>2 DEF ThreadInv
      <3> QED
        BY <1>1, <2>5, <2>6, <3>1 DEF ThreadInv
    <2>8. \A q \in Slots, p \in Rings : \A k \in 1..Held(q, p)' :
            /\ k \in 1..Held(q, p) /\ At(q, p, k)' = At(q, p, k) /\ ~(q = s /\ p = r /\ k = Held(s, r))
      <3> SUFFICES ASSUME NEW q \in Slots, NEW p \in Rings, NEW k \in 1..Held(q, p)'
                   PROVE  /\ k \in 1..Held(q, p) /\ At(q, p, k)' = At(q, p, k)
                          /\ ~(q = s /\ p = r /\ k = Held(s, r))
        OBVIOUS
      <3>1. CASE q = s /\ p = r
        <4>1. Held(s, r)' = Held(s, r) - 1 /\ Held(s, r) \in Nat
          BY <2>1
        <4>2. k \in 1..(Held(s, r) - 1)
          BY <3>1, <4>1
        <4> QED
          BY <2>1, <3>1, <4>1, <4>2
      <3>2. CASE q # s \/ p # r
        BY <2>1, <3>2
      <3> QED
        BY <3>1, <3>2
    <2>9. heap[b] = 2^s /\ given[b] = 0 /\ \A u \in Threads : block[u] # b
      BY <1>1, <1>2, <2>3 DEF SizeInv, ApartInv
    <2>10. \A q \in Slots, p \in Rings : \A k \in 1..Held(q, p)' : At(q, p, k)' # b
      BY <1>2, <2>3, <2>8 DEF ApartInv
    <2>11. SizeInv'
      <3>1. \A a \in Blocks : given'[a] # 0 => heap'[a] = Rounded(given'[a])
        BY <1>1, <1>2, <2>4, <2>9 DEF SizeInv
      <3>2. \A u \in Threads : pc'[u] = "push" => heap'[block'[u]] = Rounded(size'[u])
        BY <1>1, <2>5, <2>6 DEF SizeInv
      <3>3. \A q \in Slots, p \in Rings : \A k \in 1..Held(q, p)' : heap'[At(q, p, k)'] = 2^q
        BY <1>1, <2>8 DEF SizeInv
      <3> QED
        BY <3>1, <3>2, <3>3 DEF SizeInv
    <2>12. ApartInv'
      <3>1. \A u \in Threads : pc'[u] = "push" => given'[block'[u]] = 0
        BY <2>4, <2>5, <2>6, <2>9 DEF ApartInv, ThreadInv, TypeOK
      <3>2. \A q \in Slots, p \in Rings : \A k \in 1..Held(q, p)' :
              given'[At(q, p, k)'] = 0 /\ \A u \in Threads : block'[u] # At(q, p, k)'
        BY <2>2, <2>4, <2>5, <2>8, <2>10 DEF ApartInv
      <3>3. \A q, q2 \in Slots, p, p2 \in Rings : \A k \in 1..Held(q, p)', k2 \in 1..Held(q2, p2)' :
              At(q, p, k)' = At(q2, p2, k2)' => q = q2 /\ p = p2 /\ k = k2
        BY <2>8 DEF ApartInv
      <3> QED
        BY <2>5, <3>1, <3>2, <3>3 DEF ApartInv
    <2>13. \A a \in Blocks : (InRing(a)' => InRing(a)) /\ (a # b /\ InRing(a) => InRing(a)')
      <3>1. ASSUME NEW a \in Blocks, InRing(a)' PROVE InRing(a)
        BY <2>8, <3>1 DEF InRing
      <3>2. ASSUME NEW a \in Blocks, a # b, InRing(a) PROVE InRing(a)'
        <4>1. PICK q \in Slots, p \in Rings : \E k \in 1..Held(q, p) : At(q, p, k) = a
          BY <3>2 DEF InRing
        <4>2. PICK k \in 1..Held(q, p) : At(q, p, k) = a
          BY <4>1
        <4>3. k \in 1..Held(q, p)' /\ At(q, p, k)' = a
          <5>1. CASE q = s /\ p = r
            <6>1. k # Held(s, r) /\ k \in 1..(Held(s, r) - 1)
              BY <2>1, <2>3, <3>2, <4>2, <5>1
            <6> QED
              BY <2>1, <4>2, <5>1, <6>1
          <5>2. CASE q # s \/ p # r
            BY <2>1, <4>2, <5>2
          <5> QED
            BY <5>1, <5>2
        <4> QED
          BY <4>3 DEF InRing
      <3> QED
        BY <3>1, <3>2
    <2>14. KeptInv'
      <3> SUFFICES ASSUME NEW a \in Blocks
                   PROVE  /\ heap[a] = 0 => ~InRing(a)' /\ \A u \in Threads : block[u] # a
                          /\ heap[a] # 0 /\ given'[a] = 0 => InRing(a)' \/ \E u \in Threads : block[u] = a
        BY <1>1, <2>5 DEF KeptInv
      <3>1. heap[a] = 0 => ~InRing(a)' /\ \A u \in Threads : block[u] # a
        BY <1>1, <2>13 DEF KeptInv
      <3>2. given'[a] = 0 => a # b /\ given[a] = 0
        BY <1>2, <2>4, Ranges
      <3> QED
        BY <1>1, <2>13, <3>1, <3>2 DEF KeptInv
    <2> QED
      BY <2>6, <2>7, <2>11, <2>12, <2>14
  <1> QED
    BY <1>2, <1>3, <1>4 DEF PopRing
LEMMA MallocStep ==
  ASSUME AllocateInv, NEW t \in Threads, Malloc(t) \/ MallocFails(t)
  PROVE  AllocateInv'
  <1> USE DEF AllocateInv
  <1>1. pc[t] = "pop" /\ ~stopped /\ Finish(t) /\ UNCHANGED <<ring, room, stopped>>
    BY DEF Malloc, MallocFails, ThreadInv
  <1>2. /\ block' = block /\ pc'[t] = "idle"
        /\ \A u \in Threads : u # t => pc'[u] = pc[u] /\ size'[u] = size[u] /\ i'[u] = i[u]
    BY <1>1, FinishIs DEF TypeOK, ThreadInv
  <1>3. ThreadInv'
    BY <1>1, <1>2, SameRings DEF ThreadInv
  <1>4. CASE UNCHANGED <<heap, given>>
    <2>1. TypeOK'
      BY <1>1, <1>4, FinishIs DEF TypeOK
    <2>2. SizeInv' /\ ApartInv' /\ KeptInv'
      BY <1>1, <1>2, <1>4, SameRings DEF SizeInv, ApartInv, KeptInv
    <2> QED
      BY <1>3, <2>1, <2>2
  <1>5. ASSUME NEW b \in Blocks, heap[b] = 0, heap' = [heap EXCEPT ![b] = Rounded(size[t])],
               given' = [given EXCEPT ![b] = size[t]]
        PROVE  AllocateInv'
    <2>1. size[t] \in Sizes /\ Rounded(size[t]) \in Nat \ {0}
      BY <1>1, RoundedIs DEF ThreadInv
    <2>2. TypeOK'
      BY <1>1, <1>5, <2>1, FinishIs DEF TypeOK
    <2>3. /\ heap'[b] = Rounded(size[t]) /\ given'[b] = size[t]
          /\ \A a \in Blocks : a # b => heap'[a] = heap[a] /\ given'[a] = given[a]
      BY <1>5 DEF TypeOK
    <2>4. ~InRing(b) /\ \A u \in Threads : block[u] # b
      BY <1>1, <1>5 DEF KeptInv
    <2>5. \A s \in Slots, r \in Rings : \A k \in 1..Held(s, r) :
            At(s, r, k) \in Blocks /\ At(s, r, k) # b /\ Held(s, r)' = Held(s, r) /\ At(s, r, k)' = At(s, r, k)
      BY <1>1, <2>4, RingTypes, SameRings DEF InRing, TypeOK
    <2>6. \A s \in Slots, r \in Rings : Held(s, r)' = Held(s, r)
      BY <1>1, SameRings
    <2>7. \A u \in Threads : pc[u] = "push" => block[u] \in Blocks /\ block[u] # b
      BY <2>4 DEF ThreadInv, TypeOK
    <2>8. SizeInv'
      BY <1>1, <1>2, <2>3, <2>5, <2>6, <2>7 DEF SizeInv
    <2>9. ApartInv'
      BY <1>1, <1>2, <2>3, <2>5, <2>6, <2>7 DEF ApartInv
    <2>10. KeptInv'
      BY <1>1, <1>2, <2>1, <2>3, <2>4, SameRings, Ranges DEF KeptInv
    <2> QED
      BY <1>3, <2>2, <2>8, <2>9, <2>10
  <1> QED
    BY <1>4, <1>5 DEF Malloc, MallocFails

LEMMA DeAllocateStep ==
  ASSUME AllocateInv, NEW t \in Threads, NEW b \in Blocks, DeAllocate(t, b)
  PROVE  AllocateInv'
  <1> USE DEF AllocateInv
  <1>1. /\ given[b] # 0 /\ Begin(t, "push", given[b], b) /\ given' = [given EXCEPT ![b] = 0]
        /\ UNCHANGED <<heap, ring, room, stopped>>
    BY DEF DeAllocate
  <1>2. given[b] \in Sizes
    BY <1>1 DEF TypeOK
  <1>3. /\ pc[t] = "idle" /\ pc'[t] = "push" /\ block'[t] = b /\ size'[t] = given[b]
        /\ i'[t] < max_thread => FindSlot(given[b]) < max_slot
        /\ \A u \in Threads : u # t => pc'[u] = pc[u] /\ block'[u] = block[u] /\ size'[u] = size[u] /\ i'[u] = i[u]
    BY <1>1, <1>2, BeginIs
  <1>4. TypeOK'
    BY <1>1, <1>2, BeginIs DEF TypeOK
  <1>5. given'[b] = 0 /\ \A a \in Blocks : a # b => given'[a] = given[a]
    BY <1>1 DEF TypeOK
  <1>6. ThreadInv'
    BY <1>1, <1>2, <1>3, SameRings, Ranges DEF ThreadInv
  <1>7. /\ \A u \in Threads : block[u] # b
        /\ \A s \in Slots, r \in Rings : \A k \in 1..Held(s, r) : At(s, r, k) # b /\ At(s, r, k) \in Blocks
    BY <1>1, Ranges, RingTypes DEF ApartInv, ThreadInv, TypeOK
  <1>8. \A u \in Threads : pc[u] = "push" => block[u] \in Blocks
    BY DEF ThreadInv, TypeOK
  <1>9. SizeInv'
    BY <1>1, <1>3, <1>5, SameRings DEF SizeInv
  <1>10. ApartInv'
    BY <1>1, <1>3, <1>5, <1>7, <1>8, SameRings, Ranges DEF ApartInv
  <1>11. KeptInv'
    <2>1. ~InRing(b)
      BY <1>7 DEF InRing
    <2>2. heap[b] # 0
      BY <1>1, <1>2, RoundedIs DEF SizeInv
    <2>3. block[t] = NoBlock
      BY <1>3 DEF ThreadInv
    <2> SUFFICES ASSUME NEW a \in Blocks, ~stopped
                 PROVE  /\ heap[a] = 0 => ~InRing(a) /\ \A u \in Threads : block'[u] # a
                        /\ heap[a] # 0 /\ given'[a] = 0 => InRing(a) \/ \E u \in Threads : block'[u] = a
      BY <1>1, SameRings DEF KeptInv
    <2>4. CASE a = b
      BY <1>3, <2>2, <2>4
    <2>5. CASE a # b
      BY <1>3, <1>5, <2>3, <2>5, Ranges DEF KeptInv
    <2> QED
      BY <2>4, <2>5
  <1> QED
    BY <1>4, <1>6, <1>9, <1>10, <1>11
LEMMA PushRingStep ==
  ASSUME AllocateInv, NEW t \in Threads, PushRing(t)
  PROVE  AllocateInv'
  <1> USE DEF AllocateInv
  <1>1. pc[t] = "push" /\ i[t] < max_thread /\ UNCHANGED <<heap, room, stopped, given>>
    BY DEF PushRing
  <1>2. PICK s \in Slots, r \in Rings :
          s = FindSlot(size[t]) /\ r = i[t] /\ size[t] \in Sizes /\ Rounded(size[t]) = 2^s
    <2>1. size[t] \in Sizes /\ FindSlot(size[t]) < max_slot
      BY <1>1 DEF ThreadInv
    <2>2. FindSlot(size[t]) \in Slots /\ Rounded(size[t]) = 2^FindSlot(size[t])
      BY <2>1, RoundedIs
    <2>3. i[t] \in Rings
      BY <1>1, Ranges DEF TypeOK, Rings
    <2> QED
      BY <2>1, <2>2, <2>3
  <1>3. CASE NextRing(t) /\ UNCHANGED ring
    <2>1. TypeOK' /\ UNCHANGED <<pc, size, block>> /\ \A u \in Threads : u # t => i'[u] = i[u]
      BY <1>1, <1>3, NextRingIs DEF TypeOK
    <2>2. ThreadInv'
      BY <1>1, <1>2, <1>3, <2>1, SameRings DEF ThreadInv, Slots
    <2>3. SizeInv' /\ ApartInv' /\ KeptInv'
      BY <1>1, <1>3, <2>1, SameRings DEF SizeInv, ApartInv, KeptInv
    <2> QED
      BY <2>1, <2>2, <2>3
  <1>4. ASSUME Len(ring[s][r]) < room, ring' = [ring EXCEPT ![s][r] = Append(ring[s][r], block[t])], Finish(t)
        PROVE  AllocateInv'
    <2>1. PICK b \in Blocks : b = block[t]
      BY <1>1 DEF ThreadInv, TypeOK
    <2>2. /\ ring' \in [Slots -> [Rings -> Seq(Blocks)]]
          /\ Held(s, r)' = Held(s, r) + 1
          /\ \A k \in 1..(Held(s, r) + 1) : At(s, r, k)' = IF k <= Held(s, r) THEN At(s, r, k) ELSE b
          /\ \A q \in Slots, p \in Rings :
               q # s \/ p # r => Held(q, p)' = Held(q, p) /\ \A k \in 1..Held(q, p) : At(q, p, k)' = At(q, p, k)
      <3>1. ring \in [Slots -> [Rings -> Seq(Blocks)]]
        BY DEF TypeOK
      <3> QED
        BY <1>4, <2>1, <3>1, RingPush
    <2>3. \A q \in Slots, p \in Rings : Held(q, p) \in Nat /\ \A k \in 1..Held(q, p) : At(q, p, k) \in Blocks
      BY RingTypes DEF TypeOK
    <2>4. /\ pc'[t] = "idle" /\ block'[t] = NoBlock
          /\ \A u \in Threads : u # t => pc'[u] = pc[u] /\ block'[u] = block[u] /\ size'[u] = size[u] /\ i'[u] = i[u]
      BY <1>4, FinishIs DEF TypeOK
    <2>5. TypeOK'
      BY <1>1, <1>4, <2>2, FinishIs DEF TypeOK
    <2>6. given[b] = 0 /\ heap[b] = 2^s /\ \A u \in Threads : u # t => block[u] # b
      BY <1>1, <1>2, <2>1, Ranges DEF ApartInv, SizeInv
    <2>7. \A q \in Slots, p \in Rings : \A k \in 1..Held(q, p) : At(q, p, k) # b
      BY <2>1, <2>3 DEF ApartInv
    <2>8. \A q \in Slots, p \in Rings : \A k \in 1..Held(q, p)' :
            \/ k \in 1..Held(q, p) /\ At(q, p, k)' = At(q, p, k)
            \/ q = s /\ p = r /\ k = Held(s, r) + 1 /\ At(q, p, k)' = b
      <3> SUFFICES ASSUME NEW q \in Slots, NEW p \in Rings, NEW k \in 1..Held(q, p)'
                   PROVE  \/ k \in 1..Held(q, p) /\ At(q, p, k)' = At(q, p, k)
                          \/ q = s /\ p = r /\ k = Held(s, r) + 1 /\ At(q, p, k)' = b
        OBVIOUS
      <3>1. CASE q = s /\ p = r
        BY <2>2, <2>3, <3>1
      <3>2. CASE q # s \/ p # r
        BY <2>2, <3>2
      <3> QED
        BY <3>1, <3>2
    <2>9. ThreadInv'
      <3>1. \A q \in Slots, p \in Rings : Held(q, p)' <= room'
        <4> SUFFICES ASSUME NEW q \in Slots, NEW p \in Rings PROVE Held(q, p)' <= room'
          OBVIOUS
        <4>1. room \in Int /\ room' = room /\ Held(s, r) < room
          BY <1>1, <1>4, Ranges DEF TypeOK, Held
        <4>2. CASE q = s /\ p = r
          BY <2>2, <2>3, <4>1, <4>2
        <4>3. CASE q # s \/ p # r
          BY <2>2, <4>1, <4>3 DEF ThreadInv
        <4> QED
          BY <4>2, <4>3
      <3> QED
        BY <1>1, <2>4, <3>1 DEF ThreadInv
    <2>10. SizeInv'
      <3>1. \A a \in Blocks : given'[a] # 0 => heap'[a] = Rounded(given'[a])
        BY <1>1 DEF SizeInv
      <3>2. \A u \in Threads : pc'[u] = "push" => heap'[block'[u]] = Rounded(size'[u])
        BY <1>1, <2>4 DEF SizeInv
      <3>3. ~stopped' => \A q \in Slots, p \in Rings : \A k \in 1..Held(q, p)' : heap'[At(q, p, k)'] = 2^q
        BY <1>1, <2>6, <2>8 DEF SizeInv
      <3> QED
        BY <3>1, <3>2, <3>3 DEF SizeInv
    <2>11. ApartInv'
      <3>1. \A u \in Threads : pc'[u] = "push" => given'[block'[u]] = 0
        BY <1>1, <2>4 DEF ApartInv
      <3>2. \A q \in Slots, p \in Rings : \A k \in 1..Held(q, p)' :
              given'[At(q, p, k)'] = 0 /\ \A u \in Threads : block'[u] # At(q, p, k)'
        BY <1>1, <2>3, <2>4, <2>6, <2>8, Ranges DEF ApartInv
      <3>3. \A q, q2 \in Slots, p, p2 \in Rings : \A k \in 1..Held(q, p)', k2 \in 1..Held(q2, p2)' :
              At(q, p, k)' = At(q2, p2, k2)' => q = q2 /\ p = p2 /\ k = k2
        BY <2>7, <2>8 DEF ApartInv
      <3>4. \A u, v \in Threads : block'[u] # NoBlock /\ block'[u] = block'[v] => u = v
        BY <2>4 DEF ApartInv
      <3> QED
        BY <3>1, <3>2, <3>3, <3>4 DEF ApartInv
    <2>12. \A a \in Blocks : InRing(a)' <=> InRing(a) \/ a = b
      <3>1. ASSUME NEW a \in Blocks, InRing(a)' PROVE InRing(a) \/ a = b
        BY <2>8, <3>1 DEF InRing
      <3>2. ASSUME NEW a \in Blocks, InRing(a) PROVE InRing(a)'
        <4>1. PICK q \in Slots, p \in Rings : \E k \in 1..Held(q, p) : At(q, p, k) = a
          BY <3>2 DEF InRing
        <4>2. PICK k \in 1..Held(q, p) : At(q, p, k) = a
          BY <4>1
        <4>3. k \in 1..Held(q, p)' /\ At(q, p, k)' = a
          <5>1. CASE q = s /\ p = r
            BY <2>2, <2>3, <4>2, <5>1
          <5>2. CASE q # s \/ p # r
            BY <2>2, <4>2, <5>2
          <5> QED
            BY <5>1, <5>2
        <4> QED
          BY <4>3 DEF InRing
      <3>3. InRing(b)'
        <4>1. Held(s, r) + 1 \in 1..(Held(s, r) + 1) /\ ~(Held(s, r) + 1 <= Held(s, r))
          BY <2>3
        <4>2. PICK k \in 1..Held(s, r)' : At(s, r, k)' = b
          BY <2>2, <4>1
        <4> QED
          BY <4>2 DEF InRing
      <3> QED
        BY <3>1, <3>2, <3>3
    <2>13. KeptInv'
      <3> SUFFICES ASSUME NEW a \in Blocks, ~stopped
                   PROVE  /\ heap[a] = 0 => ~InRing(a)' /\ \A u \in Threads : block'[u] # a
                          /\ heap[a] # 0 /\ given[a] = 0 => InRing(a)' \/ \E u \in Threads : block'[u] = a
        BY <1>1 DEF KeptInv
      <3>1. heap[b] # 0
        BY <1>2, <2>6, RoundedIs
      <3> QED
        BY <2>1, <2>4, <2>12, <3>1, Ranges DEF KeptInv
    <2> QED
      BY <2>5, <2>9, <2>10, <2>11, <2>13
  <1> QED
    BY <1>2, <1>3, <1>4 DEF PushRing
LEMMA FreeStep ==
  ASSUME AllocateInv, NEW t \in Threads, Free(t)
  PROVE  AllocateInv'
  <1> USE DEF AllocateInv
  <1>1. /\ pc[t] = "push" /\ heap' = [heap EXCEPT ![block[t]] = 0] /\ Finish(t)
        /\ UNCHANGED <<ring, room, stopped, given>>
    BY DEF Free
  <1>2. PICK b \in Blocks : b = block[t]
    BY <1>1 DEF ThreadInv, TypeOK
  <1>3. /\ pc'[t] = "idle" /\ block'[t] = NoBlock
        /\ \A u \in Threads : u # t => pc'[u] = pc[u] /\ block'[u] = block[u] /\ size'[u] = size[u] /\ i'[u] = i[u]
    BY <1>1, FinishIs DEF TypeOK
  <1>4. heap'[b] = 0 /\ \A a \in Blocks : a # b => heap'[a] = heap[a]
    BY <1>1, <1>2 DEF TypeOK
  <1>5. TypeOK'
    BY <1>1, <1>2, FinishIs DEF TypeOK
  <1>6. ThreadInv'
    BY <1>1, <1>3, SameRings DEF ThreadInv
  <1>7. /\ given[b] = 0 /\ \A u \in Threads : u # t => block[u] # b
        /\ \A s \in Slots, r \in Rings : \A k \in 1..Held(s, r) : At(s, r, k) # b /\ At(s, r, k) \in Blocks
    BY <1>1, <1>2, Ranges, RingTypes DEF ApartInv, TypeOK
  <1>8. \A u \in Threads : pc[u] = "push" => block[u] \in Blocks
    BY DEF ThreadInv, TypeOK
  <1>9. SizeInv'
    BY <1>1, <1>3, <1>4, <1>7, <1>8, SameRings DEF SizeInv
  <1>10. ApartInv'
    BY <1>1, <1>3, <1>8, SameRings, <1>7, Ranges DEF ApartInv
  <1>11. KeptInv'
    <2>1. ~InRing(b)
      BY <1>7 DEF InRing
    <2> SUFFICES ASSUME NEW a \in Blocks, ~stopped
                 PROVE  /\ heap'[a] = 0 => ~InRing(a) /\ \A u \in Threads : block'[u] # a
                        /\ heap'[a] # 0 /\ given[a] = 0 => InRing(a) \/ \E u \in Threads : block'[u] = a
      BY <1>1, SameRings DEF KeptInv
    <2> QED
      BY <1>2, <1>3, <1>4, <1>7, <2>1, Ranges DEF KeptInv
  <1> QED
    BY <1>5, <1>6, <1>9, <1>10, <1>11

LEMMA StartStopStep ==
  ASSUME AllocateInv, Start \/ Stop
  PROVE  AllocateInv'
  <1> USE DEF AllocateInv
  <1>1. UNCHANGED <<ring, given, pc, size, block, i>>
    BY DEF Start, Stop
  <1>2. CASE Start
    <2>1. room = 0 /\ room' = RingSize /\ UNCHANGED <<heap, stopped>>
      BY <1>2 DEF Start
    <2>2. TypeOK'
      BY <1>1, <2>1 DEF TypeOK
    <2>3. \A s \in Slots, r \in Rings : Held(s, r)' <= room'
      BY <1>1, <2>1, Ranges, RingTypes, SameRings DEF ThreadInv, TypeOK
    <2>4. ThreadInv'
      BY <1>1, <2>1, <2>3 DEF ThreadInv
    <2>5. SizeInv' /\ ApartInv' /\ KeptInv'
      BY <1>1, <2>1, SameRings DEF SizeInv, ApartInv, KeptInv
    <2> QED
      BY <2>2, <2>4, <2>5
  <1>3. CASE Stop
    <2>1. /\ stopped' = TRUE /\ room' = room /\ \A t \in Threads : pc[t] = "idle"
          /\ heap' = [b \in Blocks |-> IF b \in AllCached THEN 0 ELSE heap[b]]
      BY <1>3 DEF Stop
    <2>2. \A b \in Blocks : b \in AllCached => InRing(b)
      BY DEF AllCached, Cached, InRing, At, Held
    <2>3. TypeOK'
      BY <1>1, <2>1 DEF TypeOK
    <2>4. ThreadInv'
      BY <1>1, <2>1, SameRings DEF ThreadInv
    <2>5. \A b \in Blocks : given[b] # 0 => heap'[b] = heap[b]
      BY <2>1, <2>2 DEF ApartInv, InRing
    <2>6. SizeInv'
      BY <1>1, <2>1, <2>5 DEF SizeInv
    <2>7. ApartInv' /\ KeptInv'
      BY <1>1, <2>1, SameRings DEF ApartInv, KeptInv
    <2> QED
      BY <2>3, <2>4, <2>6, <2>7
  <1> QED
    BY <1>2, <1>3

LEMMA NextAllocate == AllocateInv /\ [Next]_vars => AllocateInv'
  <1> SUFFICES ASSUME AllocateInv, [Next]_vars PROVE AllocateInv'
    OBVIOUS
  <1>1. CASE Next
    BY <1>1, AllocateStep, PopRingStep, MallocStep, DeAllocateStep, PushRingStep, FreeStep, StartStopStep DEF Next
  <1>2. CASE UNCHANGED vars
    <2>1. UNCHANGED <<heap, ring, room, stopped, given, pc, size, block, i>>
      BY <1>2 DEF vars
    <2> QED
      BY <2>1, SameRings DEF AllocateInv, TypeOK, ThreadInv, SizeInv, ApartInv, KeptInv
  <1> QED
    BY <1>1, <1>2

LEMMA AllocateInvariance == Spec => []AllocateInv
  BY InitAllocate, NextAllocate, PTL DEF Spec

\* A block in use is as large as what was asked for, and one that a ring
\* recycles is as large as every request of that ring: FindSlot agrees with
\* itself whatever sizes a block is used with.
THEOREM BlocksBigEnough == Spec => []BigEnough
  <1>1. ASSUME AllocateInv PROVE BigEnough
    <2> USE <1>1 DEF AllocateInv
    <2>1. ASSUME NEW b \in Blocks PROVE given[b] <= heap[b]
      <3>1. given[b] \in Sizes \cup {0} /\ heap[b] \in Nat
        BY DEF TypeOK
      <3>2. CASE given[b] \in Sizes
        BY <3>2, Ranges, RoundedIs DEF SizeInv
      <3>3. CASE given[b] = 0
        BY <3>1, <3>3
      <3> QED
        BY <3>1, <3>2, <3>3
    <2>2. ~stopped => \A s \in Slots, r \in Rings : \A b \in Cached(s, r) : heap[b] = 2^s
      BY DEF SizeInv, Cached, At, Held
    <2> QED
      BY <2>1, <2>2 DEF BigEnough
  <1> QED
    BY <1>1, AllocateInvariance, PTL

\* Every block has one owner: a user, a thread that gives it back, or one place
\* of one ring; a free one has none, and none is lost.
THEOREM BlocksHaveOneOwner == Spec => []OneOwner
  <1>1. ASSUME AllocateInv PROVE OneOwner
    <2> USE <1>1 DEF AllocateInv
    <2> SUFFICES ASSUME ~stopped, NEW b \in Blocks
                 PROVE  Cardinality(Holders(b)) = IF heap[b] = 0 \/ given[b] # 0 THEN 0 ELSE 1
      BY DEF OneOwner
    <2> DEFINE T == {t \in Threads : block[t] = b}
               P == {p \in Slots \X Rings \X (1..RingSize) :
                       p[3] <= Len(ring[p[1]][p[2]]) /\ ring[p[1]][p[2]][p[3]] = b}
    <2>1. Holders(b) = T \cup P
      BY DEF Holders
    <2>2. \A s \in Slots, r \in Rings : Held(s, r) \in Nat /\ Held(s, r) <= RingSize
      <3>1. \A s \in Slots, r \in Rings : Held(s, r) \in Nat
        BY RingTypes DEF TypeOK
      <3>2. room \in Nat /\ room <= RingSize
        BY Ranges DEF TypeOK
      <3> QED
        BY <3>1, <3>2, Ranges DEF ThreadInv
    <2>3. ASSUME NEW p \in P PROVE \E s \in Slots, r \in Rings : \E k \in 1..Held(s, r) : p = <<s, r, k>> /\ At(s, r, k) = b
      <3>1. PICK s \in Slots, r \in Rings, k \in 1..RingSize : p = <<s, r, k>>
        BY <2>3
      <3>2. k <= Held(s, r) /\ At(s, r, k) = b
        BY <2>3, <3>1 DEF Held, At
      <3> QED
        BY <2>2, <3>1, <3>2
    <2>4. ASSUME NEW s \in Slots, NEW r \in Rings, NEW k \in 1..Held(s, r), At(s, r, k) = b PROVE <<s, r, k>> \in P
      <3>1. k \in 1..RingSize /\ k <= Held(s, r)
        BY <2>2, Ranges
      <3> QED
        BY <2>4, <3>1 DEF Held, At
    <2> HIDE DEF T, P
    <2>5. CASE heap[b] = 0 \/ given[b] # 0
      <3>1. T = {}
        BY <2>5, Ranges DEF KeptInv, ApartInv, ThreadInv, T
      <3>2. P = {}
        BY <2>3, <2>5 DEF KeptInv, ApartInv, InRing
      <3> QED
        BY <2>1, <2>5, <3>1, <3>2, FS_EmptySet
    <2>6. CASE heap[b] # 0 /\ given[b] = 0
      <3>1. CASE \E t \in Threads : block[t] = b
        <4>1. PICK t \in Threads : T = {t}
          BY <3>1, Ranges DEF ApartInv, T
        <4>2. P = {}
          BY <2>3, <3>1 DEF ApartInv
        <4> QED
          BY <2>1, <2>6, <4>1, <4>2, FS_Singleton
      <3>2. CASE InRing(b)
        <4>1. PICK s \in Slots, r \in Rings : \E k \in 1..Held(s, r) : At(s, r, k) = b
          BY <3>2 DEF InRing
        <4>2. PICK k \in 1..Held(s, r) : At(s, r, k) = b
          BY <4>1
        <4>3. P = {<<s, r, k>>}
          BY <2>3, <2>4, <4>2 DEF ApartInv
        <4>4. T = {}
          BY <4>2 DEF ApartInv, T
        <4> QED
          BY <2>1, <2>6, <4>3, <4>4, FS_Singleton
      <3> QED
        BY <2>6, <3>1, <3>2 DEF KeptInv
    <2> QED
      BY <2>5, <2>6
  <1> QED
    BY <1>1, AllocateInvariance, PTL
-----------------------------------------------------------------------------
\* Objects.  A thread that has a block to make something in is past its request.
MakeInv ==
  /\ refs \in [Blocks -> Nat] /\ making \in [Threads -> Kinds \cup {"none"}]
  /\ mine \in [Threads -> Blocks \cup {NoBlock}] /\ killed \in BOOLEAN
  /\ \A t \in Threads :
       /\ pc[t] = "pop" => making[t] # "none" /\ mine[t] = NoBlock
       /\ mine[t] # NoBlock => making[t] # "none" /\ pc[t] = "idle"

\* ObjectsHeld, without the set of makers.
HeldInv ==
  /\ \A b \in Blocks : given[b] # 0 <=> refs[b] > 0 \/ \E t \in Threads : mine[t] = b
  /\ \A t \in Threads : mine[t] # NoBlock => refs[mine[t]] = 0 /\ \A u \in Threads : mine[u] = mine[t] => t = u
  /\ killed => \E t \in Threads : making[t] \in {"room", "buffer", "elements"} /\ mine[t] = NoBlock

ObjectsInv == AllocateInv /\ MakeInv /\ HeldInv

\* Every step of Objects is one of the allocator, or leaves it alone.
LEMMA ObjectsSteps == [ObjectsNext]_<<vars, objectVars>> => [Next]_vars
  <1> SUFFICES ASSUME [ObjectsNext]_<<vars, objectVars>> PROVE [Next]_vars
    OBVIOUS
  <1>1. ASSUME NEW t \in Threads, NEW kind \in Kinds, NEW n \in Sizes, Create(t, kind, n) PROVE Next
    BY <1>1 DEF Create, Next
  <1>2. ASSUME NEW t \in Threads, GetBlock(t) \/ GetNull(t) \/ GiveBack(t) PROVE Next
    BY <1>2 DEF GetBlock, GetNull, GiveBack, Next
  <1>3. ASSUME NEW t \in Threads, NEW b \in Blocks, Drop(t, b) PROVE [Next]_vars
    BY <1>3 DEF Drop, Next
  <1>4. CASE (\E t \in Threads : Construct(t)) \/ (\E b \in Blocks : Share(b)) \/ UNCHANGED <<vars, objectVars>>
    BY <1>4 DEF Construct, Share
  <1>5. CASE StartStop
    BY <1>5 DEF StartStop, Next
  <1> QED
    BY <1>1, <1>2, <1>3, <1>4, <1>5 DEF ObjectsNext

\* Objects uses the allocator as AllocateManager has it: what holds of the
\* allocator whatever its callers do holds of it here.
THEOREM ObjectsUseAllocator == ObjectsSpec => Spec
  BY ObjectsSteps, PTL DEF ObjectsSpec, ObjectsInit, Spec

\* A step of an allocation gets nothing, or the one block that was not in use.
LEMMA RequestEnds ==
  ASSUME AllocateInv, NEW t \in Threads, PopRing(t) \/ Malloc(t)
  PROVE  \/ given' = given /\ pc' = pc
         \/ /\ \E b \in Blocks : given[b] = 0 /\ given'[b] # 0 /\ \A a \in Blocks : a # b => given'[a] = given[a]
            /\ pc'[t] = "idle" /\ \A u \in Threads : u # t => pc'[u] = pc[u]
  <1> USE DEF AllocateInv
  <1>1. size[t] \in Sizes /\ pc[t] = "pop"
    BY DEF ThreadInv, PopRing, Malloc
  <1>2. CASE NextRing(t) /\ UNCHANGED <<ring, given>>
    BY <1>2 DEF NextRing
  <1>3. ASSUME NEW b \in Blocks, given[b] = 0, given' = [given EXCEPT ![b] = size[t]], Finish(t)
        PROVE  /\ \E c \in Blocks : given[c] = 0 /\ given'[c] # 0 /\ \A a \in Blocks : a # c => given'[a] = given[a]
               /\ pc'[t] = "idle" /\ \A u \in Threads : u # t => pc'[u] = pc[u]
    <2>1. pc'[t] = "idle" /\ \A u \in Threads : u # t => pc'[u] = pc[u]
      BY <1>3, FinishIs
    <2>2. given'[b] # 0 /\ \A a \in Blocks : a # b => given'[a] = given[a]
      BY <1>1, <1>3, Ranges DEF TypeOK
    <2> QED
      BY <1>3, <2>1, <2>2
  <1>4. CASE Malloc(t)
    <2>1. PICK b \in Blocks : heap[b] = 0 /\ given' = [given EXCEPT ![b] = size[t]]
      BY <1>4 DEF Malloc
    <2>2. given[b] = 0
      BY <2>1, RoundedIs, Ranges DEF SizeInv, TypeOK
    <2> QED
      BY <1>3, <1>4, <2>1, <2>2 DEF Malloc
  <1>5. CASE PopRing(t) /\ ~(NextRing(t) /\ UNCHANGED <<ring, given>>)
    <2>1. PICK s \in Slots, r \in Rings : s = FindSlot(size[t]) /\ r = i[t]
      <3>1. i[t] < max_thread
        BY <1>5 DEF PopRing
      <3>2. FindSlot(size[t]) \in Slots
        BY <1>1, <3>1, RoundedIs DEF ThreadInv
      <3> QED
        BY <3>1, <3>2, Ranges DEF TypeOK, Rings
    <2>2. /\ ring[s][r] # <<>> /\ given' = [given EXCEPT ![ring[s][r][Len(ring[s][r])]] = size[t]] /\ Finish(t)
      BY <1>5, <2>1 DEF PopRing
    <2>3. ring[s][r] \in Seq(Blocks)
      BY DEF TypeOK
    <2>4. Held(s, r) \in Nat \ {0}
      BY <2>2, <2>3, EmptySeq DEF Held
    <2>5. PICK b \in Blocks : b = At(s, r, Held(s, r)) /\ given[b] = 0
      BY <2>4, RingTypes DEF ApartInv, TypeOK
    <2> QED
      BY <1>3, <2>2, <2>5 DEF At, Held
  <1> QED
    BY <1>2, <1>4, <1>5

LEMMA InitObjects == ObjectsInit => ObjectsInv
  <1> SUFFICES ASSUME ObjectsInit PROVE ObjectsInv
    OBVIOUS
  <1>1. AllocateInv
    BY InitAllocate DEF ObjectsInit
  <1>2. MakeInv
    BY DEF ObjectsInit, Init, MakeInv
  <1>3. HeldInv
    <2>1. \A b \in Blocks : given[b] = 0 /\ refs[b] = 0 /\ \A t \in Threads : mine[t] # b
      BY Ranges DEF ObjectsInit, Init
    <2> QED
      BY <2>1 DEF HeldInv, ObjectsInit
  <1> QED
    BY <1>1, <1>2, <1>3 DEF ObjectsInv

LEMMA CreateStep ==
  ASSUME ObjectsInv, NEW t \in Threads, NEW kind \in Kinds, NEW n \in Sizes, ~killed, Create(t, kind, n)
  PROVE  MakeInv' /\ HeldInv'
  <1> USE DEF ObjectsInv
  <1>1. /\ making[t] = "none" /\ making' = [making EXCEPT ![t] = kind] /\ UNCHANGED <<mine, refs, killed, given>>
        /\ pc'[t] = "pop" /\ \A u \in Threads : u # t => pc'[u] = pc[u]
    BY BeginIs DEF Create, Allocate, AllocateInv
  <1>2. MakeInv'
    BY <1>1 DEF MakeInv, Kinds
  <1>3. HeldInv'
    BY <1>1 DEF HeldInv
  <1> QED
    BY <1>2, <1>3

LEMMA GetBlockStep ==
  ASSUME ObjectsInv, NEW t \in Threads, ~killed, GetBlock(t)
  PROVE  MakeInv' /\ HeldInv'
  <1> USE DEF ObjectsInv
  <1> DEFINE new == {b \in Blocks : given[b] = 0 /\ given'[b] # 0}
  <1>1. /\ mine' = [mine EXCEPT ![t] = IF new = {} THEN NoBlock ELSE CHOOSE b \in new : TRUE]
        /\ UNCHANGED <<making, refs, killed>> /\ pc[t] = "pop"
    BY DEF GetBlock, PopRing, Malloc
  <1>2. \/ given' = given /\ pc' = pc
        \/ /\ \E b \in Blocks : given[b] = 0 /\ given'[b] # 0 /\ \A a \in Blocks : a # b => given'[a] = given[a]
           /\ pc'[t] = "idle" /\ \A u \in Threads : u # t => pc'[u] = pc[u]
    BY RequestEnds DEF GetBlock
  <1>3. mine[t] = NoBlock /\ making[t] # "none"
    BY <1>1 DEF MakeInv
  <1>4. CASE given' = given /\ pc' = pc
    <2>1. mine' = mine
      BY <1>1, <1>3, <1>4 DEF MakeInv
    <2> QED
      BY <1>1, <1>4, <2>1 DEF MakeInv, HeldInv
  <1>5. ASSUME NEW b \in Blocks, given[b] = 0, given'[b] # 0, \A a \in Blocks : a # b => given'[a] = given[a],
               pc'[t] = "idle", \A u \in Threads : u # t => pc'[u] = pc[u]
        PROVE  MakeInv' /\ HeldInv'
    <2>1. new = {b}
      BY <1>5
    <2>2. mine' = [mine EXCEPT ![t] = b]
      BY <1>1, <2>1
    <2>3. MakeInv'
      BY <1>1, <1>3, <1>5, <2>2 DEF MakeInv
    <2>4. refs[b] = 0 /\ \A u \in Threads : mine[u] # b
      BY <1>5 DEF HeldInv, MakeInv
    <2>5. HeldInv'
      BY <1>1, <1>3, <1>5, <2>2, <2>4, Ranges DEF HeldInv, MakeInv
    <2> QED
      BY <2>3, <2>5
  <1> QED
    BY <1>2, <1>4, <1>5
LEMMA GetNullStep ==
  ASSUME ObjectsInv, NEW t \in Threads, ~killed, GetNull(t)
  PROVE  MakeInv' /\ HeldInv'
  <1> USE DEF ObjectsInv
  <1>1. /\ pc[t] = "pop" /\ UNCHANGED <<given, mine, refs>> /\ Finish(t)
        /\ \/ making' = [making EXCEPT ![t] = "none"] /\ UNCHANGED killed
           \/ making[t] # "user" /\ killed' = TRUE /\ UNCHANGED making
    BY DEF GetNull, MallocFails
  <1>2. pc'[t] = "idle" /\ \A u \in Threads : u # t => pc'[u] = pc[u]
    BY <1>1, FinishIs DEF AllocateInv
  <1>3. mine[t] = NoBlock /\ making[t] # "none"
    BY <1>1 DEF MakeInv
  <1>4. MakeInv'
    BY <1>1, <1>2, <1>3 DEF MakeInv
  <1>5. HeldInv'
    BY <1>1, <1>3 DEF HeldInv, MakeInv, Kinds
  <1> QED
    BY <1>4, <1>5

LEMMA ConstructStep ==
  ASSUME ObjectsInv, NEW t \in Threads, ~killed, Construct(t)
  PROVE  MakeInv' /\ HeldInv'
  <1> USE DEF ObjectsInv
  <1>1. /\ mine[t] # NoBlock /\ refs' = [refs EXCEPT ![mine[t]] = 1]
        /\ making' = [making EXCEPT ![t] = "none"] /\ mine' = [mine EXCEPT ![t] = NoBlock]
        /\ UNCHANGED <<given, pc, killed>>
    BY DEF Construct, vars
  <1>2. PICK b \in Blocks : b = mine[t]
    BY <1>1 DEF MakeInv
  <1>3. MakeInv'
    BY <1>1, <1>2 DEF MakeInv
  <1>4. /\ refs'[b] = 1 /\ \A a \in Blocks : a # b => refs'[a] = refs[a]
        /\ mine'[t] = NoBlock /\ \A u \in Threads : u # t => mine'[u] = mine[u] /\ mine[u] # b
    BY <1>1, <1>2 DEF MakeInv, HeldInv
  <1>5. HeldInv'
    <2>1. ASSUME NEW a \in Blocks PROVE given'[a] # 0 <=> refs'[a] > 0 \/ \E u \in Threads : mine'[u] = a
      BY <1>1, <1>2, <1>4, Ranges DEF HeldInv
    <2>2. ASSUME NEW u \in Threads, mine'[u] # NoBlock
          PROVE  refs'[mine'[u]] = 0 /\ \A v \in Threads : mine'[v] = mine'[u] => u = v
      BY <1>4, <2>2 DEF HeldInv, MakeInv
    <2> QED
      BY <1>1, <2>1, <2>2 DEF HeldInv
  <1> QED
    BY <1>3, <1>5

LEMMA ShareStep ==
  ASSUME ObjectsInv, NEW b \in Blocks, ~killed, Share(b)
  PROVE  MakeInv' /\ HeldInv'
  <1> USE DEF ObjectsInv
  <1>1. /\ refs[b] \in 1..(MaxRefs - 1) /\ refs' = [refs EXCEPT ![b] = @ + 1]
        /\ UNCHANGED <<given, pc, making, mine, killed>>
    BY DEF Share, vars
  <1>2. refs' \in [Blocks -> Nat] /\ refs[b] > 0 /\ refs'[b] > 0 /\ \A a \in Blocks : a # b => refs'[a] = refs[a]
    BY <1>1, ObjectsAssumption DEF MakeInv
  <1>3. MakeInv'
    BY <1>1, <1>2 DEF MakeInv
  <1>4. HeldInv'
    BY <1>1, <1>2 DEF HeldInv, MakeInv
  <1> QED
    BY <1>3, <1>4

LEMMA DropStep ==
  ASSUME ObjectsInv, NEW t \in Threads, NEW b \in Blocks, ~killed, Drop(t, b)
  PROVE  MakeInv' /\ HeldInv'
  <1> USE DEF ObjectsInv
  <1>1. /\ refs[b] > 0 /\ making[t] = "none" /\ pc[t] = "idle" /\ refs' = [refs EXCEPT ![b] = @ - 1]
        /\ UNCHANGED <<making, mine, killed>>
    BY DEF Drop
  <1>2. refs' \in [Blocks -> Nat] /\ refs'[b] = refs[b] - 1 /\ \A a \in Blocks : a # b => refs'[a] = refs[a]
    BY <1>1 DEF MakeInv
  <1>3. \A u \in Threads : mine[u] # b
    BY <1>1, Ranges DEF HeldInv, MakeInv
  <1>4. CASE refs[b] = 1
    <2>1. /\ given' = [given EXCEPT ![b] = 0] /\ Begin(t, "push", given[b], b) /\ given[b] # 0
      BY <1>1, <1>4 DEF Drop, DeAllocate
    <2>2. pc'[t] = "push" /\ \A u \in Threads : u # t => pc'[u] = pc[u]
      BY <2>1, BeginIs DEF AllocateInv, TypeOK
    <2>3. given'[b] = 0 /\ \A a \in Blocks : a # b => given'[a] = given[a]
      BY <2>1 DEF AllocateInv, TypeOK
    <2>4. MakeInv'
      BY <1>1, <1>2, <2>2 DEF MakeInv
    <2>5. HeldInv'
      BY <1>1, <1>2, <1>3, <1>4, <2>3, Ranges DEF HeldInv, MakeInv
    <2> QED
      BY <2>4, <2>5
  <1>5. CASE refs[b] # 1
    <2>1. UNCHANGED <<given, pc>>
      BY <1>1, <1>5 DEF Drop, vars
    <2>2. refs'[b] > 0
      BY <1>1, <1>2, <1>5 DEF MakeInv
    <2>3. MakeInv' /\ HeldInv'
      BY <1>1, <1>2, <1>3, <2>1, <2>2 DEF MakeInv, HeldInv
    <2> QED
      BY <2>3
  <1> QED
    BY <1>4, <1>5

LEMMA GiveBackStep ==
  ASSUME ObjectsInv, NEW t \in Threads, ~killed, GiveBack(t)
  PROVE  MakeInv' /\ HeldInv'
  <1> USE DEF ObjectsInv
  <1>1. UNCHANGED <<given, making, mine, refs, killed>> /\ pc[t] = "push" /\ (Finish(t) \/ NextRing(t))
    BY DEF GiveBack, PushRing, Free, objectVars
  <1>2. \A u \in Threads : pc'[u] \in {pc[u], "idle"}
    <2>1. CASE Finish(t)
      BY <2>1, FinishIs DEF AllocateInv
    <2>2. CASE NextRing(t)
      BY <2>2 DEF NextRing
    <2> QED
      BY <1>1, <2>1, <2>2
  <1>3. MakeInv' /\ HeldInv'
    BY <1>1, <1>2 DEF MakeInv, HeldInv
  <1> QED
    BY <1>3

LEMMA NextObjects == ObjectsInv /\ [ObjectsNext]_<<vars, objectVars>> => ObjectsInv'
  <1> SUFFICES ASSUME ObjectsInv, [ObjectsNext]_<<vars, objectVars>> PROVE ObjectsInv'
    OBVIOUS
  <1>1. AllocateInv'
    BY ObjectsSteps, NextAllocate DEF ObjectsInv
  <1>2. CASE ObjectsNext /\ ~StartStop
    BY <1>1, <1>2, CreateStep, GetBlockStep, GetNullStep, ConstructStep, ShareStep, DropStep, GiveBackStep
    DEF ObjectsNext, ObjectsInv
  <1>3. CASE StartStop \/ UNCHANGED <<vars, objectVars>>
    <2>1. UNCHANGED <<given, pc, making, mine, refs, killed>>
      BY <1>3 DEF StartStop, Start, Stop, vars, objectVars
    <2> QED
      BY <1>1, <2>1 DEF ObjectsInv, MakeInv, HeldInv
  <1> QED
    BY <1>2, <1>3

\* A block is in use exactly while something refers to what is in it or the one
\* thread that got it makes it.  When memory runs out, a user or a session that
\* cannot be made does no harm: the process dies only of a room, the data of a
\* buffer or elements.
THEOREM BlocksHeld == ObjectsSpec => []ObjectsHeld
  <1>1. ObjectsInv => ObjectsHeld
    <2> SUFFICES ASSUME ObjectsInv PROVE ObjectsHeld
      OBVIOUS
    <2> USE Ranges DEF ObjectsInv, MakeInv, HeldInv
    <2>1. ASSUME NEW b \in Blocks
          PROVE  LET makers == {t \in Threads : mine[t] = b} IN
                   /\ given[b] # 0 <=> refs[b] > 0 \/ makers # {}
                   /\ refs[b] > 0 => makers = {}
                   /\ \A t, u \in makers : t = u
      OBVIOUS
    <2> QED
      BY <2>1 DEF ObjectsHeld
  <1> QED
    BY <1>1, InitObjects, NextObjects, PTL DEF ObjectsSpec
=============================================================================
