---------------------------- MODULE RtcmParser ------------------------------
(***************************************************************************)
(* RtcmStreamParser.feed: RTCM 3 framing of a byte stream.  A frame is the *)
(* preamble, ten bits of length, the payload and three bytes of CRC.  The  *)
(* parser keeps what it cannot decide yet and looks for the next preamble  *)
(* one byte after a candidate that turns out to be none.                   *)
(***************************************************************************)
EXTENDS Integers, Sequences, SequencesExt

CONSTANTS
    Crc(_)       \* crc24q of a sequence of bytes, as three bytes

Byte == 0..255
Preamble == 211

CrcBytes == 3
HeaderBytes == 3

\* The length field says how long the candidate at the head of b would be.
PayloadLength(b) == (b[2] % 4) * 256 + b[3]
FrameLength(b) == HeaderBytes + PayloadLength(b) + CrcBytes

Whole(b) == Len(b) >= HeaderBytes /\ Len(b) >= FrameLength(b)

HeadFrame(b) == SubSeq(b, 1, FrameLength(b))

\* A frame too short to have a message type is an error like a wrong CRC.
Good(f) ==
    /\ Crc(SubSeq(f, 1, Len(f) - CrcBytes)) = SubSeq(f, Len(f) - CrcBytes + 1, Len(f))
    /\ PayloadLength(f) >= 2

\* rtcm_message_type: the first twelve bits of the payload.
MessageType(f) == f[4] * 16 + f[5] \div 16

\* What is left to scan after the candidate at the head of b was refused.
Resume_PastCandidate(b) == FrameLength(b) + 1
Resume(b) == 2

\* The frames in s, the candidates refused on the way, and the undecided rest.
Scan(s) ==
    LET from[i \in 1..(Len(s) + 1)] ==
          LET b == SubSeq(s, i, Len(s))
          IN  IF b = <<>>
                THEN [frames |-> <<>>, errors |-> 0, rest |-> b]
              ELSE IF b[1] # Preamble
                THEN from[i + 1]
              ELSE IF ~Whole(b)
                THEN [frames |-> <<>>, errors |-> 0, rest |-> b]
              ELSE IF Good(HeadFrame(b))
                THEN LET later == from[i + FrameLength(b)]
                     IN  [later EXCEPT !.frames = <<HeadFrame(b)>> \o @]
              ELSE LET later == from[i + Resume(b) - 1]
                   IN  [later EXCEPT !.errors = @ + 1]
    IN  from[1]

\* Where good frames begin in s, whether the scan takes them or not.
GoodAt(s, i) ==
    LET b == SubSeq(s, i, Len(s))
    IN  b # <<>> /\ b[1] = Preamble /\ Whole(b) /\ Good(HeadFrame(b))

=============================================================================
