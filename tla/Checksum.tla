------------------------------- MODULE Checksum -------------------------------
(***************************************************************************)
(* The checksum of a frame (checksum.py), bit by bit, and the definition   *)
(* of CRC-16/Modbus that it is to compute.  Bytes are numbers in 0..255.   *)
(***************************************************************************)
EXTENDS Integers, Sequences, Bitwise, FiniteSetsExt

\* Mutation of Shifted: the polynomial of the mirrored register.
ShiftedMirrored(v) ==
  IF v % 2 = 1 THEN (v \div 2) ^^ 32773 ELSE v \div 2

\* One step of the inner loop; 40961 is 0xA001.
Shifted(v) ==
  IF v % 2 = 1 THEN (v \div 2) ^^ 40961 ELSE v \div 2

Crc16(bytes) ==
  LET shifts == [v \in 0..65535 |->
        LET s[n \in 0..8] == IF n = 0 THEN v ELSE Shifted(s[n - 1]) IN s[8]]
      value[n \in 0..Len(bytes)] ==
        IF n = 0 THEN 65535 ELSE shifts[value[n - 1] ^^ bytes[n]]
  IN value[Len(bytes)]

-----------------------------------------------------------------------------
(* The definition of CRC-16/Modbus, in polynomials over two elements: a    *)
(* polynomial is the set of its exponents.                                 *)

\* The message, each byte's low bit first, times x^16, plus the ones that the
\* register starts with.
Dividend(bytes) ==
  LET bits == 8 * Len(bytes)
  IN SymDiff({bits + 15 - (8 * (i - 1) + b) :
                <<i, b>> \in {ib \in (1..Len(bytes)) \X (0..7) :
                                (bytes[ib[1]] \div 2^ib[2]) % 2 = 1}},
             bits..bits + 15)

\* The remainder modulo x^16 + x^15 + x^2 + 1.
Remainder(bytes) ==
  LET top == 8 * Len(bytes) + 15
      below[e \in 16..top + 1] ==
        IF e = top + 1 THEN Dividend(bytes)
        ELSE LET p == below[e + 1]
             IN IF e \in p THEN SymDiff(p, {e, e - 1, e - 14, e - 16}) ELSE p
  IN below[16]

\* The register holds the highest coefficient in its lowest bit.
ModbusCrc(bytes) == SumSet({2^(15 - e) : e \in Remainder(bytes)})
=============================================================================
