----------------------------- MODULE PacketGate -----------------------------
(***************************************************************************)
(* The way of a packet from a session to its handler:                      *)
(* VNetworkProcessPacketManager::ReceivePacket and OnReceive (VChatLib)    *)
(* and VUser::CheckSecurity (VNetWork/VUser.cpp), for one logged-in user.  *)
(*                                                                         *)
(* The io thread that has read a packet tests the user's state and         *)
(* session, each under the user's mutex, and then the packet's sequence    *)
(* number and checksum (module Checksum), without it.  Meanwhile another   *)
(* thread may run VChatUser::CloseSession (a write to the connection       *)
(* failed), which resets the sequence number and the key without the mutex *)
(* and then logs the user out, or may kick the user.  m_nSeq is an integer *)
(* of w bits, and ++m_nSeq is a load and a store.  CanReceivePacket        *)
(* (m_State is LOGIN) and the state KICK are declared elsewhere.           *)
(***************************************************************************)
EXTENDS Checksum

CONSTANTS Wrap,         \* 2^w
          MaxPackets,   \* bound: how many packets are received
          Key,          \* the key agreed at login
          Bodies,       \* the bodies of packets, with the empty one
          Crcs          \* the words that arrive as their checksums

ASSUME GateAssumption ==
  /\ Wrap \in Nat \ {0, 1} /\ MaxPackets \in Nat
  /\ Key \in Word /\ Key # {}
  /\ Bodies \subseteq Seq(Byte) /\ <<>> \in Bodies
  /\ Crcs \subseteq Word /\ Crcs # {}

VARIABLES state,        \* m_State
          linked,       \* m_Session is the connection
          seq,          \* m_nSeq
          key,          \* m_nKey; m_CrcTable stays the one made for Key
          pc,           \* where the io thread is
          packet,       \* the packet it has read
          loaded,       \* what it has loaded from m_nSeq
          closer,       \* where a thread is in CloseSession
          received,     \* how many packets were read
          admitted,     \* history: how many passed CheckSecurity
          late          \* history: how many did when the user was no longer logged in

userVars == <<state, linked, seq, key>>
vars == <<userVars, pc, packet, loaded, closer, received, admitted, late>>

\* The sequence number and the checksum of a header are whatever has arrived.
Packets == [seq : 0..(Wrap - 1), body : Bodies, crc : Crcs]
NoPacket == [seq |-> 0, body |-> <<>>, crc |-> CHOOSE c \in Crcs : TRUE]

\* The login: InitSecretKey.
Init ==
  /\ state = "login" /\ linked = TRUE /\ seq = 0 /\ key = Key
  /\ pc = "idle" /\ packet = NoPacket /\ loaded = 0
  /\ closer = "idle"
  /\ received = 0 /\ admitted = 0 /\ late = 0

Goto(l) == pc' = l /\ UNCHANGED <<userVars, packet, loaded, closer, received, admitted, late>>

-----------------------------------------------------------------------------
\* The io thread.

Receive(p) ==
  /\ pc = "idle" /\ received < MaxPackets
  /\ pc' = "state" /\ packet' = p /\ received' = received + 1
  /\ UNCHANGED <<userVars, loaded, closer, admitted, late>>

\* Mutant of CheckState: the state is not tested.
CheckStateNever == pc = "state" /\ Goto("session")

\* user->CanReceivePacket()
CheckState == pc = "state" /\ Goto(IF state = "login" THEN "session" ELSE "idle")

\* user->GetSession().get() != conn
CheckSession == pc = "session" /\ Goto(IF linked THEN "seq" ELSE "idle")

\* Mutant of CheckSeq: nSeq >= m_nSeq.
CheckSeqFrom == pc = "seq" /\ Goto(IF packet.seq >= seq THEN "crc" ELSE "idle")

\* nSeq == m_nSeq
CheckSeq == pc = "seq" /\ Goto(IF packet.seq = seq THEN "crc" ELSE "idle")

\* nLen == 0 || nCRC == GetCRC(m_nKey, ...)
CheckCrc ==
  /\ pc = "crc"
  /\ Goto(IF packet.body = <<>> \/ packet.crc = GetCRC(key, packet.body, Key) THEN "load" ELSE "idle")

\* ++m_nSeq
LoadSeq ==
  /\ pc = "load"
  /\ loaded' = seq /\ pc' = "store"
  /\ UNCHANGED <<userVars, packet, closer, received, admitted, late>>

StoreSeq ==
  /\ pc = "store"
  /\ seq' = (loaded + 1) % Wrap /\ pc' = "process"
  /\ admitted' = admitted + 1
  /\ late' = IF state = "login" THEN late ELSE late + 1
  /\ UNCHANGED <<state, linked, key, packet, loaded, closer, received>>

\* The packet goes to the handlers of its type; the next one is read after.
Process ==
  /\ pc = "process"
  /\ pc' = "idle" /\ packet' = NoPacket /\ loaded' = 0
  /\ UNCHANGED <<userVars, closer, received, admitted, late>>

-----------------------------------------------------------------------------
\* Other threads.

\* CloseSession: m_nSeq = 0; m_nKey = 0; SetState(LOGOUT), which resets the
\* session under the mutex.
CloseSeq ==
  /\ closer = "idle"
  /\ seq' = 0 /\ closer' = "key"
  /\ UNCHANGED <<state, linked, key, pc, packet, loaded, received, admitted, late>>

CloseKey ==
  /\ closer = "key"
  /\ key' = {} /\ closer' = "state"
  /\ UNCHANGED <<state, linked, seq, pc, packet, loaded, received, admitted, late>>

CloseState ==
  /\ closer = "state"
  /\ state' = "logout" /\ linked' = FALSE /\ closer' = "idle"
  /\ UNCHANGED <<seq, key, pc, packet, loaded, received, admitted, late>>

\* SetState(KICK)
Kick ==
  /\ state' = "kick"
  /\ UNCHANGED <<linked, seq, key, pc, packet, loaded, closer, received, admitted, late>>

Next ==
  \/ \E p \in Packets : Receive(p)
  \/ CheckState \/ CheckSession \/ CheckSeq \/ CheckCrc \/ LoadSeq \/ StoreSeq \/ Process
  \/ CloseSeq \/ CloseKey \/ CloseState \/ Kick

Spec == Init /\ [][Next]_vars

-----------------------------------------------------------------------------
\* Type invariant: m_nSeq stays in its width.
TypeOK ==
  /\ state \in {"login", "kick", "logout"}
  /\ linked \in BOOLEAN /\ key \in {Key, {}}
  /\ seq \in 0..(Wrap - 1) /\ loaded \in 0..(Wrap - 1)
  /\ pc \in {"idle", "state", "session", "seq", "crc", "load", "store", "process"}
  /\ packet \in Packets
  /\ closer \in {"idle", "key", "state"}
  /\ received \in 0..MaxPackets
  /\ admitted \in Nat /\ late \in Nat

\* All is in its range, and the packets of a connection are handled in the
\* order of their sequence numbers, from 0 on and none twice, across the wrap
\* of the counter; until the user's session begins to be closed, which resets
\* the counter under the reader's feet.
InOrder ==
  /\ TypeOK
  /\ pc = "process" /\ closer = "idle" /\ linked => packet.seq = (admitted - 1) % Wrap

\* Of a user that has been kicked or logged out at most one more packet is
\* handled, the one that was past the test of the state.
LateOnce == late <= 1

\* Whatever word has arrived as its checksum, a packet with a body passes
\* exactly if that is the CRC, as the client computes it bit by bit, of the body
\* that has arrived, with the polynomial that was agreed and starting from what
\* m_nKey holds by then: the key agreed, or 0 once CloseSession has reset it,
\* which leaves the table alone.  So the checksum of a client that knows of no
\* reset passes after it only if it is the one from 0 too.
CrcAgrees ==
  [][pc = "crc" /\ pc' # "crc" =>
       (pc' = "load" <=>
          packet.body = <<>> \/ packet.crc = BitwiseCRC(key, packet.body, Key))]_vars
=============================================================================
