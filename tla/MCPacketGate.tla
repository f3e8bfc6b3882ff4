---------------------------- MODULE MCPacketGate ----------------------------
(***************************************************************************)
(* PacketGate with the polynomial of CRC-32 as key and two bodies, none    *)
(* and one of three bytes (a step of GetCRC takes a byte, in a block of    *)
(* eight or not; the proofs are for every length).  The words that arrive  *)
(* as checksums are its CRC from the key, its CRC from 0, and the CRC that *)
(* it had before one bit of its last byte was changed.                     *)
(***************************************************************************)
EXTENDS PacketGate

\* 0xEDB88320
MCKey == {5, 8, 9, 15, 19, 20, 21, 23, 24, 26, 27, 29, 30, 31}

\* The bits of the bytes 0x41 to 0x43.
MCBody == [n \in 1..3 |-> {i \in 0..3 : (n \div 2^i) % 2 = 1} \cup {6}]
MCBodies == {<<>>, MCBody}
MCCrcs == {BitwiseCRC(MCKey, MCBody, MCKey), BitwiseCRC({}, MCBody, MCKey),
           BitwiseCRC(MCKey, [MCBody EXCEPT ![3] = @ \cup {1}], MCKey)}
=============================================================================
