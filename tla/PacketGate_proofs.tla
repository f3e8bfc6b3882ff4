-------------------------- MODULE PacketGate_proofs --------------------------
(***************************************************************************)
(* Proofs about PacketGate, for every width of the sequence number, every  *)
(* key, any bodies and any number of packets.  Until the connection begins *)
(* to be closed m_nSeq counts the packets admitted, modulo 2^w, and nobody *)
(* else writes it between the test of a packet and the store.              *)
(*                                                                         *)
(* Then the checksum.  A round of the shift register leaves alone what     *)
(* lies above its lowest bit (StepSplits), so eight rounds of a word are   *)
(* eight of its low byte, which the table has, and a shift of the rest     *)
(* (ByteStep); and the bits of a byte may be added one by one or all at    *)
(* once (BitIn).                                                           *)
(***************************************************************************)
EXTENDS PacketGate, WellFoundedInduction, TLAPS

\* Nobody has begun to close the session.
Open == closer = "idle" /\ linked

Past == {"session", "seq", "crc", "load", "store"}      \* the test of the state

SeqInv ==
  Open =>
    /\ seq = admitted % Wrap
    /\ pc \in {"crc", "load", "store"} => packet.seq = seq
    /\ pc = "store" => loaded = seq
    /\ pc = "process" => packet.seq = (admitted - 1) % Wrap

LateInv ==
  /\ late \in {0, 1}
  /\ state = "login" \/ pc \in Past => late = 0

GateInv == TypeOK /\ SeqInv /\ LateInv

\* Counting modulo Wrap.
LEMMA Modulo ==
  ASSUME NEW n \in Nat, NEW m \in Nat \ {0}, NEW q \in Nat, NEW r \in 0..(m - 1), n = m * q + r
  PROVE  n % m = r
  OBVIOUS

LEMMA NextSeq ==
  ASSUME NEW n \in Nat
  PROVE  ((n % Wrap) + 1) % Wrap = (n + 1) % Wrap /\ n % Wrap \in 0..(Wrap - 1)
  <1> USE GateAssumption
  <1>1. PICK q \in Nat, r \in 0..(Wrap - 1) : n = Wrap * q + r /\ n % Wrap = r
    <2>1. n = Wrap * (n \div Wrap) + (n % Wrap) /\ n \div Wrap \in Nat /\ n % Wrap \in 0..(Wrap - 1)
      OBVIOUS
    <2> QED
      BY <2>1
  <1>2. CASE r = Wrap - 1
    <2>1. n + 1 = Wrap * (q + 1) + 0 /\ Wrap = Wrap * 1 + 0 /\ 0 \in 0..(Wrap - 1)
      BY <1>1, <1>2
    <2>2. n + 1 \in Nat /\ q + 1 \in Nat /\ Wrap \in Nat \ {0}
      OBVIOUS
    <2>3. (n + 1) % Wrap = 0
      BY <2>1, <2>2, Modulo, Zenon
    <2>4. Wrap % Wrap = 0
      OBVIOUS
    <2> QED
      BY <1>1, <1>2, <2>3, <2>4
  <1>3. CASE r # Wrap - 1
    <2>1. n + 1 = Wrap * q + (r + 1) /\ r + 1 \in 0..(Wrap - 1)
      BY <1>1, <1>3
    <2>2. n + 1 \in Nat /\ Wrap \in Nat \ {0}
      OBVIOUS
    <2>3. (n + 1) % Wrap = r + 1
      BY <2>1, <2>2, Modulo, Zenon
    <2>4. (r + 1) % Wrap = r + 1
      BY <2>1
    <2> QED
      BY <1>1, <2>3, <2>4
  <1> QED
    BY <1>2, <1>3

LEMMA InitGate == Init => GateInv
  <1> SUFFICES ASSUME Init PROVE GateInv
    OBVIOUS
  <1> USE GateAssumption DEF Init
  <1>1. TypeOK
    BY DEF TypeOK, NoPacket, Packets
  <1>2. SeqInv /\ LateInv
    BY DEF SeqInv, LateInv, Past
  <1> QED
    BY <1>1, <1>2 DEF GateInv

LEMMA NextGate == GateInv /\ [Next]_vars => GateInv'
  <1> SUFFICES ASSUME GateInv, [Next]_vars PROVE GateInv'
    OBVIOUS
  <1> USE GateAssumption DEF GateInv, TypeOK, SeqInv, LateInv, Open, Past, userVars
  <1>1. ASSUME NEW p \in Packets, Receive(p) PROVE GateInv'
    BY <1>1 DEF Receive
  <1>2. CASE CheckState \/ CheckSession
    BY <1>2 DEF CheckState, CheckSession, Goto
  <1>3. CASE CheckSeq
    BY <1>3 DEF CheckSeq, Goto
  <1>4. CASE CheckCrc
    BY <1>4 DEF CheckCrc, Goto
  <1>5. CASE LoadSeq
    BY <1>5 DEF LoadSeq
  <1>6. CASE StoreSeq
    <2>1. /\ seq' = (loaded + 1) % Wrap /\ pc' = "process" /\ admitted' = admitted + 1 /\ pc = "store"
          /\ late' = IF state = "login" THEN late ELSE late + 1
          /\ UNCHANGED <<state, linked, key, packet, loaded, closer, received>>
      BY <1>6 DEF StoreSeq
    <2>2. seq' \in 0..(Wrap - 1)
      BY <2>1
    <2>3. Open => seq' = admitted' % Wrap /\ packet.seq = (admitted' - 1) % Wrap
      <3>1. ((admitted % Wrap) + 1) % Wrap = (admitted + 1) % Wrap
        BY NextSeq
      <3>2. admitted' - 1 = admitted
        BY <2>1
      <3> QED
        BY <2>1, <3>1, <3>2
    <2> QED
      BY <2>1, <2>2, <2>3
  <1>7. CASE Process
    BY <1>7 DEF Process, NoPacket, Packets
  <1>8. CASE CloseSeq \/ CloseKey
    BY <1>8 DEF CloseSeq, CloseKey
  <1>9. CASE CloseState
    <2>1. UNCHANGED <<seq, key, pc, packet, loaded, received, admitted, late>> /\ ~linked' /\ state' = "logout"
      BY <1>9 DEF CloseState
    <2>2. TypeOK'
      BY <1>9 DEF CloseState
    <2> QED
      BY <2>1, <2>2
  <1>10. CASE Kick
    BY <1>10 DEF Kick
  <1>11. CASE UNCHANGED vars
    BY <1>11 DEF vars
  <1> QED
    BY <1>1, <1>2, <1>3, <1>4, <1>5, <1>6, <1>7, <1>8, <1>9, <1>10, <1>11 DEF Next

LEMMA GateInvariance == Spec => []GateInv
  BY InitGate, NextGate, PTL DEF Spec

\* Until the session begins to be closed the packets of a connection are
\* handled in the order of their sequence numbers, from 0 on and none twice,
\* across the wrap of the counter.
THEOREM PacketsInOrder == Spec => []InOrder
  <1>1. GateInv => InOrder
    BY DEF GateInv, SeqInv, InOrder, Open
  <1> QED
    BY <1>1, GateInvariance, PTL

\* Of a user that has been kicked or logged out at most one more packet is
\* handled.
THEOREM AtMostOneLate == Spec => []LateOnce
  <1>1. GateInv => LateOnce
    BY DEF GateInv, LateInv, LateOnce
  <1> QED
    BY <1>1, GateInvariance, PTL

-----------------------------------------------------------------------------
\* Words and their bits.

LEMMA XorWords ==
  ASSUME NEW a \in Word, NEW b \in Word
  PROVE  Xor(a, b) \in Word /\ \A i \in 0..31 : i \in Xor(a, b) <=> ~(i \in a <=> i \in b)
  BY DEF Xor, Word

LEMMA ShiftWord ==
  ASSUME NEW a \in Word, NEW n \in Nat
  PROVE  Shift(a, n) \in Word /\ \A i \in 0..31 : i \in Shift(a, n) <=> i + n \in a
  BY DEF Shift, Word

LEMMA SameWord ==
  ASSUME NEW a \in Word, NEW b \in Word, \A i \in 0..31 : i \in a <=> i \in b
  PROVE  a = b
  BY DEF Word

LEMMA StepWord ==
  ASSUME NEW poly \in Word, NEW a \in Word
  PROVE  BitStep(poly, a) \in Word
  <1>1. Shift(a, 1) \in Word
    BY ShiftWord
  <1>2. Xor(poly, Shift(a, 1)) \in Word
    BY <1>1, XorWords
  <1> QED
    BY <1>1, <1>2 DEF BitStep

LEMMA ShiftXor ==
  ASSUME NEW a \in Word, NEW b \in Word, NEW n \in Nat
  PROVE  Shift(Xor(a, b), n) = Xor(Shift(a, n), Shift(b, n))
  <1>1. Shift(a, n) \in Word /\ Shift(b, n) \in Word /\ Xor(a, b) \in Word
    BY ShiftWord, XorWords
  <1>2. Shift(Xor(a, b), n) \in Word /\ Xor(Shift(a, n), Shift(b, n)) \in Word
    BY <1>1, ShiftWord, XorWords
  <1>3. ASSUME NEW i \in 0..31
        PROVE  i \in Shift(Xor(a, b), n) <=> i \in Xor(Shift(a, n), Shift(b, n))
    <2>1. i + n \in Xor(a, b) <=> ~(i + n \in a <=> i + n \in b)
      BY DEF Xor
    <2>2. i \in Shift(Xor(a, b), n) <=> i + n \in Xor(a, b)
      BY <1>1, ShiftWord
    <2>3. (i \in Shift(a, n) <=> i + n \in a) /\ (i \in Shift(b, n) <=> i + n \in b)
      BY ShiftWord
    <2>4. i \in Xor(Shift(a, n), Shift(b, n)) <=> ~(i \in Shift(a, n) <=> i \in Shift(b, n))
      BY DEF Xor
    <2> QED
      BY <2>1, <2>2, <2>3, <2>4
  <1> QED
    BY <1>2, <1>3, SameWord

LEMMA ShiftShift ==
  ASSUME NEW a \in Word, NEW m \in Nat, NEW n \in Nat
  PROVE  Shift(Shift(a, m), n) = Shift(a, m + n)
  <1>1. Shift(a, m) \in Word /\ Shift(a, m + n) \in Word
    BY ShiftWord
  <1>2. Shift(Shift(a, m), n) \in Word
    BY <1>1, ShiftWord
  <1>3. ASSUME NEW i \in 0..31
        PROVE  i \in Shift(Shift(a, m), n) <=> i \in Shift(a, m + n)
    <2>1. i + n \in Shift(a, m) <=> i + (m + n) \in a
      <3>1. i + n \in 0..31 \/ i + (m + n) \notin 0..31
        OBVIOUS
      <3>2. i + n + m = i + (m + n)
        OBVIOUS
      <3> QED
        BY <3>1, <3>2 DEF Shift, Word
    <2>2. i \in Shift(Shift(a, m), n) <=> i + n \in Shift(a, m)
      BY <1>1, ShiftWord
    <2>3. i \in Shift(a, m + n) <=> i + (m + n) \in a
      BY DEF Shift
    <2> QED
      BY <2>1, <2>2, <2>3
  <1> QED
    BY <1>1, <1>2, <1>3, SameWord

LEMMA XorXor ==
  ASSUME NEW a \in Word, NEW b \in Word, NEW c \in Word
  PROVE  Xor(a, Xor(b, c)) = Xor(Xor(a, b), c)
  <1>1. Xor(a, b) \in Word /\ Xor(b, c) \in Word
    BY XorWords
  <1>2. Xor(a, Xor(b, c)) \in Word /\ Xor(Xor(a, b), c) \in Word
    BY <1>1, XorWords
  <1>3. ASSUME NEW i \in 0..31 PROVE i \in Xor(a, Xor(b, c)) <=> i \in Xor(Xor(a, b), c)
    BY DEF Xor
  <1> QED
    BY <1>2, <1>3, SameWord

\* A round leaves alone what lies above the bit it takes out.
LEMMA StepSplits ==
  ASSUME NEW poly \in Word, NEW a \in Word, NEW b \in Word, 0 \notin b
  PROVE  BitStep(poly, Xor(a, b)) = Xor(BitStep(poly, a), Shift(b, 1))
  <1>1. Shift(Xor(a, b), 1) = Xor(Shift(a, 1), Shift(b, 1))
    BY ShiftXor
  <1>2. 0 \in Xor(a, b) <=> 0 \in a
    BY DEF Xor
  <1>3. Shift(a, 1) \in Word /\ Shift(b, 1) \in Word
    BY ShiftWord
  <1>4. Xor(poly, Xor(Shift(a, 1), Shift(b, 1))) = Xor(Xor(poly, Shift(a, 1)), Shift(b, 1))
    BY <1>3, XorXor
  <1> QED
    BY <1>1, <1>2, <1>4 DEF BitStep

\* So do several.
LEMMA TwoSplit ==
  ASSUME NEW poly \in Word, NEW a \in Word, NEW b \in Word, b \cap (0..1) = {}
  PROVE  TwoSteps(poly, Xor(a, b)) = Xor(TwoSteps(poly, a), Shift(b, 2)) /\ TwoSteps(poly, a) \in Word
  <1>1. BitStep(poly, Xor(a, b)) = Xor(BitStep(poly, a), Shift(b, 1))
    BY StepSplits
  <1>2. BitStep(poly, a) \in Word /\ Shift(b, 1) \in Word /\ 0 \notin Shift(b, 1)
    <2>1. 0 \notin Shift(b, 1)
      BY DEF Shift
    <2> QED
      BY <2>1, StepWord, ShiftWord
  <1>3. BitStep(poly, Xor(BitStep(poly, a), Shift(b, 1)))
          = Xor(BitStep(poly, BitStep(poly, a)), Shift(Shift(b, 1), 1))
    BY <1>2, StepSplits
  <1>4. Shift(Shift(b, 1), 1) = Shift(b, 2)
    <2>1. Shift(Shift(b, 1), 1) = Shift(b, 1 + 1)
      BY ShiftShift
    <2> QED
      BY <2>1
  <1> QED
    BY <1>1, <1>2, <1>3, <1>4, StepWord DEF TwoSteps

LEMMA FourSplit ==
  ASSUME NEW poly \in Word, NEW a \in Word, NEW b \in Word, b \cap (0..3) = {}
  PROVE  FourSteps(poly, Xor(a, b)) = Xor(FourSteps(poly, a), Shift(b, 4)) /\ FourSteps(poly, a) \in Word
  <1>1. TwoSteps(poly, Xor(a, b)) = Xor(TwoSteps(poly, a), Shift(b, 2)) /\ TwoSteps(poly, a) \in Word
    <2>1. b \cap (0..1) = {}
      OBVIOUS
    <2> QED
      BY <2>1, TwoSplit
  <1>2. Shift(b, 2) \in Word /\ Shift(b, 2) \cap (0..1) = {}
    <2>1. Shift(b, 2) \cap (0..1) = {}
      BY DEF Shift
    <2> QED
      BY <2>1, ShiftWord
  <1>3. TwoSteps(poly, Xor(TwoSteps(poly, a), Shift(b, 2)))
          = Xor(TwoSteps(poly, TwoSteps(poly, a)), Shift(Shift(b, 2), 2))
        /\ TwoSteps(poly, TwoSteps(poly, a)) \in Word
    BY <1>1, <1>2, TwoSplit
  <1>4. Shift(Shift(b, 2), 2) = Shift(b, 4)
    <2>1. Shift(Shift(b, 2), 2) = Shift(b, 2 + 2)
      BY ShiftShift
    <2> QED
      BY <2>1
  <1> QED
    BY <1>1, <1>3, <1>4 DEF FourSteps

LEMMA EightSplit ==
  ASSUME NEW poly \in Word, NEW a \in Word, NEW b \in Word, b \cap (0..7) = {}
  PROVE  CrcTable(poly, Xor(a, b)) = Xor(CrcTable(poly, a), Shift(b, 8)) /\ CrcTable(poly, a) \in Word
  <1>1. FourSteps(poly, Xor(a, b)) = Xor(FourSteps(poly, a), Shift(b, 4)) /\ FourSteps(poly, a) \in Word
    <2>1. b \cap (0..3) = {}
      OBVIOUS
    <2> QED
      BY <2>1, FourSplit
  <1>2. Shift(b, 4) \in Word /\ Shift(b, 4) \cap (0..3) = {}
    <2>1. Shift(b, 4) \cap (0..3) = {}
      BY DEF Shift
    <2> QED
      BY <2>1, ShiftWord
  <1>3. FourSteps(poly, Xor(FourSteps(poly, a), Shift(b, 4)))
          = Xor(FourSteps(poly, FourSteps(poly, a)), Shift(Shift(b, 4), 4))
        /\ FourSteps(poly, FourSteps(poly, a)) \in Word
    BY <1>1, <1>2, FourSplit
  <1>4. Shift(Shift(b, 4), 4) = Shift(b, 8)
    <2>1. Shift(Shift(b, 4), 4) = Shift(b, 4 + 4)
      BY ShiftShift
    <2> QED
      BY <2>1
  <1> QED
    BY <1>1, <1>3, <1>4 DEF CrcTable

\* DO1_BYTE is eight rounds of the register with the byte in its low bits.
LEMMA ByteStep ==
  ASSUME NEW poly \in Word, NEW crc \in Word, NEW byte \in Byte
  PROVE  DoByte(poly, crc, byte) = CrcTable(poly, Xor(crc, byte)) /\ DoByte(poly, crc, byte) \in Word
  <1>1. byte \in Word
    BY DEF Byte, Word
  <1>2. Xor(crc, byte) \in Word
    BY <1>1, XorWords
  <1>3. PICK low \in Word, high \in Word :
          /\ low = Xor(crc, byte) \cap (0..7) /\ high = Xor(crc, byte) \ (0..7)
    BY <1>2 DEF Word
  <1>4. Xor(low, high) = Xor(crc, byte)
    BY <1>3 DEF Xor
  <1>5. Shift(high, 8) = Shift(crc, 8)
    <2>1. Shift(high, 8) \in Word /\ Shift(crc, 8) \in Word
      BY ShiftWord
    <2>2. ASSUME NEW i \in 0..31 PROVE i \in Shift(high, 8) <=> i \in Shift(crc, 8)
      <3>1. i + 8 \notin 0..7
        OBVIOUS
      <3>2. i + 8 \notin byte
        BY <3>1 DEF Byte
      <3>3. i + 8 \in high <=> i + 8 \in crc
        BY <1>3, <3>1, <3>2 DEF Xor
      <3> QED
        BY <3>3, ShiftWord
    <2> QED
      BY <2>1, <2>2, SameWord
  <1>6. high \cap (0..7) = {}
    BY <1>3
  <1>7. CrcTable(poly, Xor(low, high)) = Xor(CrcTable(poly, low), Shift(high, 8))
        /\ CrcTable(poly, low) \in Word
    BY <1>6, EightSplit
  <1>8. Xor(CrcTable(poly, low), Shift(crc, 8)) \in Word
    BY <1>7, ShiftWord, XorWords
  <1> QED
    BY <1>3, <1>4, <1>5, <1>7, <1>8 DEF DoByte

\* To add a bit and then run a round is to run a round with the bits of the
\* byte that are still to come taken out of the register.
LEMMA BitIn ==
  ASSUME NEW poly \in Word, NEW w \in Word, NEW byte \in Byte, NEW j \in Nat
  PROVE  AddBit(poly, Xor(w, Shift(byte, j)), j \in byte) = Xor(BitStep(poly, w), Shift(byte, j + 1))
  <1>1. byte \in Word /\ Shift(byte, j) \in Word
    <2>1. byte \in Word
      BY DEF Byte, Word
    <2> QED
      BY <2>1, ShiftWord
  <1>2. PICK rest \in Word : rest = Shift(byte, j) \ {0}
    BY <1>1 DEF Word
  <1>3. (IF j \in byte THEN Xor(Xor(w, Shift(byte, j)), {0}) ELSE Xor(w, Shift(byte, j))) = Xor(w, rest)
    <2>1. 0 \in Shift(byte, j) <=> j \in byte
      BY <1>1, ShiftWord
    <2>2. CASE j \in byte
      <3>1. Xor(Xor(w, Shift(byte, j)), {0}) = Xor(w, rest)
        BY <1>2, <2>1, <2>2 DEF Xor
      <3> QED
        BY <2>2, <3>1
    <2>3. CASE j \notin byte
      BY <1>2, <2>1, <2>3
    <2> QED
      BY <2>2, <2>3
  <1>4. BitStep(poly, Xor(w, rest)) = Xor(BitStep(poly, w), Shift(rest, 1))
    BY <1>2, StepSplits
  <1>5. Shift(rest, 1) = Shift(byte, j + 1)
    <2>1. Shift(Shift(byte, j), 1) = Shift(byte, j + 1)
      BY <1>1, ShiftShift
    <2>2. Shift(rest, 1) = Shift(Shift(byte, j), 1)
      BY <1>2 DEF Shift
    <2> QED
      BY <2>1, <2>2
  <1> QED
    BY <1>3, <1>4, <1>5 DEF AddBit

LEMMA Least ==
  ASSUME NEW T, T \subseteq Nat, T # {}
  PROVE  \E m \in T : \A k \in T : m <= k
  <1>1. PICK m \in T : \A k \in T : ~(<<k, m>> \in OpToRel(<, Nat))
    BY NatLessThanWellFounded, WFMin
  <1>2. \A k \in T : k < m => <<k, m>> \in OpToRel(<, Nat)
    BY DEF OpToRel
  <1>3. \A k \in T : ~(k < m)
    BY <1>1, <1>2, Zenon
  <1> QED
    BY <1>3

\* A word that is changed L times, the n-th time by step[n].
Steps(L) == [1..L -> [Word -> Word]]
Runs(L, first, step, f) ==
  f \in [0..L -> Word] /\ f[0] = first /\ \A n \in 1..L : f[n] = step[n][f[n - 1]]

\* What is defined by recursion exists.
LEMMA Recursion ==
  ASSUME NEW L \in Nat, NEW first \in Word, NEW step \in Steps(L)
  PROVE  \E f : Runs(L, first, step, f)
  <1> USE DEF Steps
  <1> DEFINE Good(m) == \E f \in [0..m -> Word] :
               f[0] = first /\ \A n \in 1..m : f[n] = step[n][f[n - 1]]
  <1>1. Good(0)
    <2>1. PICK f : f = [n \in 0..0 |-> first]
      OBVIOUS
    <2>2. f \in [0..0 -> Word] /\ f[0] = first /\ 1..0 = {}
      BY <2>1
    <2> QED
      BY <2>2
  <1>2. ASSUME NEW m \in 0..L, m # L, Good(m) PROVE Good(m + 1)
    <2>1. PICK f \in [0..m -> Word] : f[0] = first /\ \A n \in 1..m : f[n] = step[n][f[n - 1]]
      BY <1>2
    <2>2. PICK y \in Word : y = step[m + 1][f[m]]
      <3>1. m + 1 \in 1..L /\ f[m] \in Word
        BY <1>2
      <3> QED
        BY <3>1
    <2>3. PICK g : g = [n \in 0..(m + 1) |-> IF n = m + 1 THEN y ELSE f[n]]
      OBVIOUS
    <2>4. g \in [0..(m + 1) -> Word] /\ g[m + 1] = y /\ \A n \in 0..m : g[n] = f[n]
      <3>1. \A n \in 0..(m + 1) : n = m + 1 \/ n \in 0..m
        OBVIOUS
      <3>2. \A n \in 0..m : n # m + 1 /\ n \in 0..(m + 1)
        OBVIOUS
      <3>3. m + 1 \in 0..(m + 1)
        OBVIOUS
      <3> QED
        BY <2>3, <3>1, <3>2, <3>3
    <2>5. ASSUME NEW n \in 1..(m + 1) PROVE g[n] = step[n][g[n - 1]]
      <3>1. CASE n = m + 1
        <4>1. n - 1 = m /\ m \in 0..m
          BY <3>1
        <4> QED
          BY <2>2, <2>4, <3>1, <4>1
      <3>2. CASE n # m + 1
        <4>1. n \in 1..m /\ n \in 0..m /\ n - 1 \in 0..m
          BY <3>2
        <4> QED
          BY <2>1, <2>4, <4>1
      <3> QED
        BY <3>1, <3>2
    <2>6. g[0] = first
      BY <2>1, <2>4
    <2> HIDE DEF Good
    <2> QED
      BY <2>4, <2>5, <2>6 DEF Good
  <1> HIDE DEF Good
  <1>3. Good(L)
    <2> SUFFICES ASSUME ~Good(L) PROVE FALSE
      OBVIOUS
    <2>1. PICK T : T = {m \in 0..L : ~Good(m)}
      OBVIOUS
    <2>2. T \subseteq Nat /\ L \in T
      BY <2>1
    <2>3. PICK b \in T : \A k \in T : b <= k
      BY <2>2, Least
    <2>4. b \in 0..L /\ ~Good(b) /\ b # 0
      BY <1>1, <2>1, <2>3
    <2>5. b - 1 \in 0..L /\ b - 1 # L /\ (b - 1) + 1 = b /\ ~(b <= b - 1)
      BY <2>4
    <2>6. Good(b - 1)
      BY <2>1, <2>3, <2>5
    <2> QED
      BY <1>2, <2>4, <2>5, <2>6
  <1> QED
    BY <1>3 DEF Good, Runs

\* Whatever obeys the recursion has the range of its steps.
LEMMA RecursionRange ==
  ASSUME NEW L \in Nat, NEW g, g = [n \in 0..L |-> g[n]], g[0] \in Word,
         \A n \in 1..L : g[n - 1] \in Word => g[n] \in Word
  PROVE  g \in [0..L -> Word]
  <1>1. \A n \in 0..L : g[n] \in Word
    <2> SUFFICES ASSUME NEW n \in 0..L, g[n] \notin Word PROVE FALSE
      OBVIOUS
    <2>1. PICK T : T = {m \in 0..L : g[m] \notin Word}
      OBVIOUS
    <2>2. T \subseteq Nat /\ n \in T
      BY <2>1
    <2>3. PICK b \in T : \A k \in T : b <= k
      BY <2>2, Least
    <2>4. b \in 1..L /\ b - 1 \in 0..L /\ ~(b <= b - 1) /\ g[b] \notin Word
      BY <2>1, <2>3
    <2>5. g[b - 1] \in Word
      BY <2>1, <2>3, <2>4
    <2> QED
      BY <2>4, <2>5
  <1> QED
    BY <1>1

\* The eight bits of a byte, added one by one, are one step of the table.
LEMMA EightBits ==
  ASSUME NEW poly \in Word, NEW crc \in Word, NEW byte \in Byte, NEW c,
         c[0] = crc, \A j \in 0..7 : c[j + 1] = AddBit(poly, c[j], j \in byte)
  PROVE  c[8] = DoByte(poly, crc, byte)
  <1>1. byte \in Word
    BY DEF Byte, Word
  <1>2. PICK w \in [0..8 -> Word] :
          w[0] = Xor(crc, byte) /\ \A j \in 1..8 : w[j] = BitStep(poly, w[j - 1])
    <2>1. PICK step : step = [j \in 1..8 |-> [a \in Word |-> BitStep(poly, a)]]
      OBVIOUS
    <2>2. step \in Steps(8)
      BY <2>1, StepWord DEF Steps
    <2>3. Xor(crc, byte) \in Word /\ 8 \in Nat
      BY <1>1, XorWords
    <2>4. PICK w : Runs(8, Xor(crc, byte), step, w)
      BY <2>2, <2>3, Recursion
    <2>5. \A j \in 1..8, a \in Word : step[j][a] = BitStep(poly, a)
      BY <2>1
    <2>6. w \in [0..8 -> Word] /\ \A j \in 1..8 : w[j - 1] \in Word
      BY <2>4 DEF Runs
    <2> QED
      BY <2>4, <2>5, <2>6 DEF Runs
  <1>3. c[0] = Xor(w[0], Shift(byte, 0))
    <2>1. Shift(byte, 0) = byte
      BY <1>1 DEF Shift, Word
    <2>2. Xor(Xor(crc, byte), byte) = crc
      BY DEF Xor
    <2> QED
      BY <1>2, <2>1, <2>2
  <1>4. ASSUME NEW j \in 0..7, c[j] = Xor(w[j], Shift(byte, j))
        PROVE  c[j + 1] = Xor(w[j + 1], Shift(byte, j + 1))
    <2>1. c[j + 1] = AddBit(poly, Xor(w[j], Shift(byte, j)), j \in byte)
      BY <1>4
    <2>2. w[j] \in Word /\ w[j + 1] = BitStep(poly, w[j])
      <3>1. j \in 0..8 /\ j + 1 \in 1..8 /\ (j + 1) - 1 = j
        OBVIOUS
      <3> QED
        BY <1>2, <3>1
    <2>3. AddBit(poly, Xor(w[j], Shift(byte, j)), j \in byte)
            = Xor(BitStep(poly, w[j]), Shift(byte, j + 1))
      BY <2>2, BitIn
    <2> QED
      BY <2>1, <2>2, <2>3
  <1>5. c[8] = Xor(w[8], Shift(byte, 8))
    <2>1. c[1] = Xor(w[1], Shift(byte, 1))
      BY <1>3, <1>4
    <2>2. c[2] = Xor(w[2], Shift(byte, 2))
      BY <2>1, <1>4
    <2>3. c[3] = Xor(w[3], Shift(byte, 3))
      BY <2>2, <1>4
    <2>4. c[4] = Xor(w[4], Shift(byte, 4))
      BY <2>3, <1>4
    <2>5. c[5] = Xor(w[5], Shift(byte, 5))
      BY <2>4, <1>4
    <2>6. c[6] = Xor(w[6], Shift(byte, 6))
      BY <2>5, <1>4
    <2>7. c[7] = Xor(w[7], Shift(byte, 7))
      BY <2>6, <1>4
    <2> QED
      BY <2>7, <1>4
  <1>6. Xor(w[8], Shift(byte, 8)) = w[8]
    <2>1. Shift(byte, 8) = {}
      BY DEF Shift, Byte
    <2> QED
      BY <2>1 DEF Xor
  <1>7. w[8] = CrcTable(poly, w[0])
    <2>1. /\ w[1] = BitStep(poly, w[0]) /\ w[2] = BitStep(poly, w[1])
          /\ w[3] = BitStep(poly, w[2]) /\ w[4] = BitStep(poly, w[3])
          /\ w[5] = BitStep(poly, w[4]) /\ w[6] = BitStep(poly, w[5])
          /\ w[7] = BitStep(poly, w[6]) /\ w[8] = BitStep(poly, w[7])
      BY <1>2
    <2> QED
      BY <2>1, Zenon DEF CrcTable, FourSteps, TwoSteps
  <1> QED
    BY <1>2, <1>5, <1>6, <1>7, ByteStep

\* GetCRC and BitwiseCRC, their recursion unfolded.
LEMMA BytesUnfold ==
  ASSUME NEW poly \in Word, NEW crc \in Word, NEW buf \in Seq(Byte)
  PROVE  \E f \in [0..Len(buf) -> Word] :
           /\ f[0] = Complement(crc)
           /\ \A n \in 1..Len(buf) : f[n] = DoByte(poly, f[n - 1], buf[n])
           /\ GetCRC(crc, buf, poly) = Complement(f[Len(buf)])
  <1>1. PICK L \in Nat : L = Len(buf)
    OBVIOUS
  <1>2. Complement(crc) \in Word
    BY DEF Complement, Word
  <1>3. \A n \in 1..L : buf[n] \in Byte
    BY <1>1
  <1>4. PICK step : step = [n \in 1..L |-> [a \in Word |-> DoByte(poly, a, buf[n])]]
    OBVIOUS
  <1>5. step \in Steps(L)
    BY <1>3, <1>4, ByteStep DEF Steps
  <1>6. PICK f : Runs(L, Complement(crc), step, f)
    BY <1>2, <1>5, Recursion
  <1>7. /\ f \in [0..L -> Word] /\ f[0] = Complement(crc)
        /\ \A n \in 1..L : f[n] = DoByte(poly, f[n - 1], buf[n])
    <2>1. \A n \in 1..L, a \in Word : step[n][a] = DoByte(poly, a, buf[n])
      BY <1>4
    <2>2. f \in [0..L -> Word] /\ \A n \in 1..L : f[n - 1] \in Word
      BY <1>6 DEF Runs
    <2> QED
      BY <1>6, <2>1, <2>2 DEF Runs
  <1>8. f = [n \in 0..L |-> IF n = 0 THEN Complement(crc) ELSE DoByte(poly, f[n - 1], buf[n])]
    <2>1. \A n \in 0..L : f[n] = IF n = 0 THEN Complement(crc) ELSE DoByte(poly, f[n - 1], buf[n])
      BY <1>7
    <2> QED
      BY <1>7, <2>1
  <1>9. PICK g : g = CHOOSE h : h = [n \in 0..Len(buf) |->
                       IF n = 0 THEN Complement(crc) ELSE DoByte(poly, h[n - 1], buf[n])]
    OBVIOUS
  <1>10. g = [n \in 0..L |-> IF n = 0 THEN Complement(crc) ELSE DoByte(poly, g[n - 1], buf[n])]
    BY <1>1, <1>8, <1>9, Zenon
  <1>11. g[0] = Complement(crc) /\ \A n \in 1..L : g[n] = DoByte(poly, g[n - 1], buf[n])
    <2>1. \A n \in 0..L : g[n] = IF n = 0 THEN Complement(crc) ELSE DoByte(poly, g[n - 1], buf[n])
      BY <1>10, Zenon
    <2> QED
      BY <2>1
  <1>12. g \in [0..L -> Word]
    <2>1. g = [n \in 0..L |-> g[n]]
      BY <1>10, Zenon
    <2>2. \A n \in 1..L : g[n - 1] \in Word => g[n] \in Word
      BY <1>3, <1>11, ByteStep, ZenonT(30)
    <2>3. g[0] \in Word
      BY <1>2, <1>11
    <2> QED
      BY <2>1, <2>2, <2>3, RecursionRange
  <1>13. GetCRC(crc, buf, poly) = Complement(g[Len(buf)])
    BY <1>9 DEF GetCRC
  <1> QED
    BY <1>1, <1>11, <1>12, <1>13

LEMMA BitsUnfold ==
  ASSUME NEW poly \in Word, NEW crc \in Word, NEW buf \in Seq(Byte)
  PROVE  \E f \in [0..(8 * Len(buf)) -> Word] :
           /\ f[0] = Complement(crc)
           /\ \A n \in 1..(8 * Len(buf)) :
                f[n] = AddBit(poly, f[n - 1], (n - 1) % 8 \in buf[(n + 7) \div 8])
           /\ BitwiseCRC(crc, buf, poly) = Complement(f[8 * Len(buf)])
  <1>1. PICK L \in Nat : L = 8 * Len(buf)
    OBVIOUS
  <1>2. Complement(crc) \in Word
    BY DEF Complement, Word
  <1>3. PICK bit : bit = [n \in 1..L |-> (n - 1) % 8 \in buf[(n + 7) \div 8]]
    OBVIOUS
  <1>4. \A n \in 1..L, a \in Word : AddBit(poly, a, (n - 1) % 8 \in buf[(n + 7) \div 8]) \in Word
    <2> SUFFICES ASSUME NEW a \in Word, NEW b
                 PROVE  AddBit(poly, a, b) \in Word
      OBVIOUS
    <2>1. Xor(a, {0}) \in Word
      BY DEF Xor, Word
    <2> QED
      BY <2>1, StepWord DEF AddBit
  <1>5. PICK step : step = [n \in 1..L |-> [a \in Word |->
                              AddBit(poly, a, (n - 1) % 8 \in buf[(n + 7) \div 8])]]
    OBVIOUS
  <1>6. step \in Steps(L)
    BY <1>4, <1>5 DEF Steps
  <1>7. PICK f : Runs(L, Complement(crc), step, f)
    BY <1>2, <1>6, Recursion
  <1>8. /\ f \in [0..L -> Word] /\ f[0] = Complement(crc)
        /\ \A n \in 1..L : f[n] = AddBit(poly, f[n - 1], (n - 1) % 8 \in buf[(n + 7) \div 8])
    <2>1. \A n \in 1..L, a \in Word :
            step[n][a] = AddBit(poly, a, (n - 1) % 8 \in buf[(n + 7) \div 8])
      BY <1>5, Zenon
    <2>2. f \in [0..L -> Word] /\ \A n \in 1..L : f[n - 1] \in Word
      BY <1>7 DEF Runs
    <2> QED
      BY <1>7, <2>1, <2>2, Zenon DEF Runs
  <1>9. f = [n \in 0..L |->
               IF n = 0 THEN Complement(crc)
               ELSE AddBit(poly, f[n - 1], (n - 1) % 8 \in buf[(n + 7) \div 8])]
    <2>1. \A n \in 0..L : n # 0 => n \in 1..L
      OBVIOUS
    <2>2. \A n \in 0..L : f[n] = IF n = 0 THEN Complement(crc)
                                 ELSE AddBit(poly, f[n - 1], (n - 1) % 8 \in buf[(n + 7) \div 8])
      BY <1>8, <2>1, Zenon
    <2> QED
      BY <1>8, <2>2, Zenon
  <1>10. PICK g : g = CHOOSE h : h = [n \in 0..(8 * Len(buf)) |->
                        IF n = 0 THEN Complement(crc)
                        ELSE AddBit(poly, h[n - 1], (n - 1) % 8 \in buf[(n + 7) \div 8])]
    OBVIOUS
  <1>11. g = [n \in 0..L |->
                IF n = 0 THEN Complement(crc)
                ELSE AddBit(poly, g[n - 1], (n - 1) % 8 \in buf[(n + 7) \div 8])]
    BY <1>1, <1>9, <1>10, Zenon
  <1>12. /\ g[0] = Complement(crc)
         /\ \A n \in 1..L : g[n] = AddBit(poly, g[n - 1], (n - 1) % 8 \in buf[(n + 7) \div 8])
    <2>1. \A n \in 0..L : g[n] = IF n = 0 THEN Complement(crc)
                                 ELSE AddBit(poly, g[n - 1], (n - 1) % 8 \in buf[(n + 7) \div 8])
      BY <1>11, Zenon
    <2>2. 0 \in 0..L /\ \A n \in 1..L : n \in 0..L /\ n # 0
      OBVIOUS
    <2> QED
      BY <2>1, <2>2, Zenon
  <1>13. g \in [0..L -> Word]
    <2>1. g = [n \in 0..L |-> g[n]]
      BY <1>11, Zenon
    <2>2. \A n \in 1..L : g[n - 1] \in Word => g[n] \in Word
      BY <1>4, <1>12, Zenon
    <2>3. g[0] \in Word
      BY <1>2, <1>12
    <2> QED
      BY <2>1, <2>2, <2>3, RecursionRange
  <1>14. BitwiseCRC(crc, buf, poly) = Complement(g[8 * Len(buf)])
    BY <1>10, Zenon DEF BitwiseCRC
  <1> QED
    BY <1>1, <1>12, <1>13, <1>14, Zenon

LEMMA BitOfByte ==
  ASSUME NEW m \in Nat, NEW j \in 0..7
  PROVE  ((8 * m + (j + 1)) - 1) % 8 = j /\ ((8 * m + (j + 1)) + 7) \div 8 = m + 1
  OBVIOUS

\* GetCRC, which takes a byte at a time from a table, computes the CRC that is
\* defined bit by bit, whatever the key, the polynomial and the bytes.
THEOREM ChecksumIsCRC ==
  \A poly \in Word, crc \in Word, buf \in Seq(Byte) :
    GetCRC(crc, buf, poly) = BitwiseCRC(crc, buf, poly)
  <1> SUFFICES ASSUME NEW poly \in Word, NEW crc \in Word, NEW buf \in Seq(Byte)
               PROVE  GetCRC(crc, buf, poly) = BitwiseCRC(crc, buf, poly)
    OBVIOUS
  <1>1. PICK L \in Nat : L = Len(buf) /\ \A n \in 1..L : buf[n] \in Byte
    OBVIOUS
  <1>2. PICK f \in [0..L -> Word] :
          /\ f[0] = Complement(crc)
          /\ \A n \in 1..L : f[n] = DoByte(poly, f[n - 1], buf[n])
          /\ GetCRC(crc, buf, poly) = Complement(f[L])
    BY <1>1, BytesUnfold
  <1>3. PICK g \in [0..(8 * L) -> Word] :
          /\ g[0] = Complement(crc)
          /\ \A n \in 1..(8 * L) : g[n] = AddBit(poly, g[n - 1], (n - 1) % 8 \in buf[(n + 7) \div 8])
          /\ BitwiseCRC(crc, buf, poly) = Complement(g[8 * L])
    BY <1>1, BitsUnfold, ZenonT(30)
  <1>4. ASSUME NEW m \in 0..L, m # L, g[8 * m] = f[m]
        PROVE  g[8 * (m + 1)] = f[m + 1]
    <2>1. PICK c : c = [j \in 0..8 |-> g[8 * m + j]]
      OBVIOUS
    <2>2. m + 1 \in 1..L /\ buf[m + 1] \in Byte /\ f[m] \in Word
      BY <1>1, <1>4
    <2>3. ASSUME NEW j \in 0..7 PROVE c[j + 1] = AddBit(poly, c[j], j \in buf[m + 1])
      <3>1. PICK n \in 1..(8 * L) : n = 8 * m + (j + 1) /\ n - 1 = 8 * m + j
        BY <2>2
      <3>2. (n - 1) % 8 = j /\ (n + 7) \div 8 = m + 1
        BY <3>1, BitOfByte
      <3>3. g[n] = AddBit(poly, g[n - 1], j \in buf[m + 1])
        BY <1>3, <3>2, Zenon
      <3>4. c[j + 1] = g[n] /\ c[j] = g[n - 1]
        BY <2>1, <3>1, SMTT(20)
      <3> QED
        BY <3>3, <3>4, Zenon
    <2>4. c[0] = f[m] /\ c[8] = g[8 * (m + 1)]
      BY <1>4, <2>1
    <2>5. c[8] = DoByte(poly, f[m], buf[m + 1])
      <3>1. PICK a \in Word, byte \in Byte : a = f[m] /\ byte = buf[m + 1]
        BY <2>2
      <3>2. c[0] = a /\ \A j \in 0..7 : c[j + 1] = AddBit(poly, c[j], j \in byte)
        BY <2>3, <2>4, <3>1
      <3> QED
        BY <3>1, <3>2, EightBits
    <2>6. f[m + 1] = DoByte(poly, f[m], buf[m + 1])
      BY <1>2, <2>2
    <2> QED
      BY <2>4, <2>5, <2>6
  <1>5. g[8 * L] = f[L]
    <2> SUFFICES ASSUME g[8 * L] # f[L] PROVE FALSE
      OBVIOUS
    <2>1. PICK T : T = {m \in 0..L : g[8 * m] # f[m]}
      OBVIOUS
    <2>2. T \subseteq Nat /\ L \in T
      BY <2>1
    <2>3. PICK b \in T : \A k \in T : b <= k
      BY <2>2, Least
    <2>4. b \in 0..L /\ g[8 * b] # f[b] /\ b # 0
      BY <1>2, <1>3, <2>1, <2>3
    <2>5. PICK m \in 0..L : m # L /\ m + 1 = b /\ ~(b <= m)
      BY <2>4
    <2>6. g[8 * m] = f[m]
      BY <2>1, <2>3, <2>5
    <2> QED
      BY <1>4, <2>4, <2>5, <2>6
  <1> QED
    BY <1>2, <1>3, <1>5

\* Whatever word arrives as its checksum, a packet with a body passes exactly if
\* that is the CRC of the body that has arrived, from the key that m_nKey holds
\* by then, for every key, body and word.
THEOREM ChecksumDecides == Spec => CrcAgrees
  <1> DEFINE Agrees == pc = "crc" /\ pc' # "crc" =>
               (pc' = "load" <=>
                  packet.body = <<>> \/ packet.crc = BitwiseCRC(key, packet.body, Key))
  <1>1. GateInv /\ [Next]_vars => [Agrees]_vars
    <2> SUFFICES ASSUME GateInv, [Next]_vars, pc = "crc", pc' # "crc"
                 PROVE  pc' = "load" <=>
                          packet.body = <<>> \/ packet.crc = BitwiseCRC(key, packet.body, Key)
      OBVIOUS
    <2>1. CheckCrc
      <3>1. \A p \in Packets : ~Receive(p)
        BY DEF Receive
      <3>2. /\ ~CheckState /\ ~CheckSession /\ ~CheckSeq /\ ~LoadSeq /\ ~StoreSeq /\ ~Process
            /\ ~CloseSeq /\ ~CloseKey /\ ~CloseState /\ ~Kick /\ vars' # vars
        BY DEF CheckState, CheckSession, CheckSeq, LoadSeq, StoreSeq, Process,
               CloseSeq, CloseKey, CloseState, Kick, vars
      <3> QED
        BY <3>1, <3>2 DEF Next
    <2>2. pc' = "load" <=> packet.body = <<>> \/ packet.crc = GetCRC(key, packet.body, Key)
      BY <2>1 DEF CheckCrc, Goto
    <2>3. packet.body \in Seq(Byte) /\ key \in Word
      <3>1. packet \in Packets /\ key \in {Key, {}}
        BY DEF GateInv, TypeOK
      <3> QED
        BY <3>1, GateAssumption DEF Packets, Word
    <2>4. GetCRC(key, packet.body, Key) = BitwiseCRC(key, packet.body, Key)
      BY <2>3, ChecksumIsCRC, GateAssumption
    <2> QED
      BY <2>2, <2>4
  <1> QED
    BY <1>1, GateInvariance, PTL DEF Spec, CrcAgrees
=============================================================================
