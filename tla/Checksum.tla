------------------------------ MODULE Checksum ------------------------------
(***************************************************************************)
(* The keyed CRC-32 of a packet's body: the table that VUser::             *)
(* InitSecretKey makes (VNetWork/VUser.cpp) and GetCRC, which reads it a   *)
(* byte at a time (VCommon/crc32.h).  A VUInt32 is the set of its bits,    *)
(* the lowest is bit 0, so its exclusive or is a symmetric difference.     *)
(* The other GetCRC of that file has no caller.                            *)
(***************************************************************************)
EXTENDS Integers, Sequences

Word == SUBSET (0..31)
Byte == SUBSET (0..7)

Xor(a, b) == (a \ b) \cup (b \ a)
Complement(a) == (0..31) \ a
Shift(a, n) == {i \in 0..31 : i + n \in a}      \* a >> n

\* One round of the inner loop: key ^ (c >> 1), or c >> 1.
BitStep(key, c) == IF 0 \in c THEN Xor(key, Shift(c, 1)) ELSE Shift(c, 1)

TwoSteps(key, c) == BitStep(key, BitStep(key, c))
FourSteps(key, c) == TwoSteps(key, TwoSteps(key, c))

\* m_CrcTable[n]: eight rounds.
CrcTable(key, n) == FourSteps(key, FourSteps(key, n))

\* DO1_BYTE, with the table made for the polynomial poly.
DoByte(poly, crc, byte) == Xor(CrcTable(poly, Xor(crc, byte) \cap (0..7)), Shift(crc, 8))

\* Mutant of GetCRC: the bytes after the last whole block of eight are left out.
GetCRCBlocks(crc, buf, poly) ==
  LET after[n \in 0..Len(buf)] ==
        IF n = 0 THEN Complement(crc) ELSE DoByte(poly, after[n - 1], buf[n])
  IN Complement(after[8 * (Len(buf) \div 8)])

\* GetCRC, of all bytes in order: eight at a time while there are as many, then
\* the rest.
GetCRC(crc, buf, poly) ==
  LET after[n \in 0..Len(buf)] ==
        IF n = 0 THEN Complement(crc) ELSE DoByte(poly, after[n - 1], buf[n])
  IN Complement(after[Len(buf)])

-----------------------------------------------------------------------------
\* The definition of a CRC that starts with crc, one bit of the message after
\* the other: the bit and the lowest bit of the register say whether poly is
\* added.  This is what the client, which is not in the repository, has to
\* compute.
AddBit(poly, crc, bit) == BitStep(poly, IF bit THEN Xor(crc, {0}) ELSE crc)

BitwiseCRC(crc, buf, poly) ==
  LET after[n \in 0..(8 * Len(buf))] ==
        IF n = 0 THEN Complement(crc)
        ELSE AddBit(poly, after[n - 1], (n - 1) % 8 \in buf[(n + 7) \div 8])
  IN Complement(after[8 * Len(buf)])
=============================================================================
