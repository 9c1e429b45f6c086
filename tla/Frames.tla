-------------------------------- MODULE Frames --------------------------------
(***************************************************************************)
(* Frames as bytes: the layout FRAME (schemas.py), and FrameBuffer.feed    *)
(* (protocol.py), which puts the fragments of a Bluetooth characteristic   *)
(* together again.  Bytes are numbers in 0..255.  The checksum is a        *)
(* parameter; the program's own is in Checksum.                            *)
(***************************************************************************)
EXTENDS Integers, Sequences

CONSTANTS
  PayloadSize,  \* 252 in the code
  Crc(_)        \* crc16

ASSUME FramesAssumption == PayloadSize \in Nat \ {0}

FrameSize == 1 + PayloadSize + 2

\* FRAME.build: the checksum's high byte goes first.
Frame(opcode, payload) ==
  LET body == <<opcode>> \o payload
      crc == Crc(body)
  IN body \o <<crc \div 256, crc % 256>>

\* Mutation of Valid: the length alone is looked at.
ValidLength(frame) == Len(frame) = FrameSize

\* FRAME.parse
Valid(frame) ==
  /\ Len(frame) = FrameSize
  /\ Crc(SubSeq(frame, 1, FrameSize - 2)) =
       256 * frame[FrameSize - 1] + frame[FrameSize]

Opcode(frame) == frame[1]
Payload(frame) == SubSeq(frame, 2, FrameSize - 2)

\* How many whole frames there are.
Complete(bytes) == Len(bytes) \div FrameSize

\* FrameBuffer.feed, with the buffer extended already: the frames, whether one
\* was damaged, and the bytes that are left.
Feed(bytes) ==
  LET Cut(i) == SubSeq(bytes, (i - 1) * FrameSize + 1, i * FrameSize)
      complete == Complete(bytes)
      damaged == \E i \in 1..complete : ~Valid(Cut(i))
  IN [damaged |-> damaged,
      frames |-> IF damaged THEN <<>> ELSE [i \in 1..complete |-> Cut(i)],
      left |-> IF damaged THEN <<>>
               ELSE SubSeq(bytes, complete * FrameSize + 1, Len(bytes))]
=============================================================================
