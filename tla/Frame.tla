------------------------------- MODULE Frame -------------------------------
(***************************************************************************)
(* The frame codec of internal/protocol/frame.go as operators on sequences *)
(* of bytes: two bytes of stream ID, one of type, four of length, all big  *)
(* endian, and the payload.  A function of the code that may return an     *)
(* error becomes a predicate, which says when it does not, and an operator *)
(* for its result.                                                         *)
(***************************************************************************)
EXTENDS Integers, Sequences

\* A bound on all lengths: the length field has 32 bits, TLC's integers 31.
MaxLength == 2147483647

CONSTANT MaxPayloadSize

ASSUME PayloadAssumption == MaxPayloadSize \in 0..MaxLength

Byte == 0..255

StreamId == 0..65535

FrameHeaderSize == 7

\* The stream IDs and frame types that the models use.
StreamSSH == 1

StreamShell == 2

FrameData == 1

FramePing == 5

Frames == [stream : StreamId, type : Byte, payload : Seq(Byte)]

PutUint16(v) == <<v \div 256, v % 256>>

PutUint32(v) == <<v \div 16777216, (v \div 65536) % 256, (v \div 256) % 256, v % 256>>

Uint16(b1, b2) == b1 * 256 + b2

Uint32(b1, b2, b3, b4) == b1 * 16777216 + b2 * 65536 + b3 * 256 + b4

\* Frame.MarshalBinary accepts a payload of at most MaxPayloadSize bytes.
Marshals(f) == Len(f.payload) <= MaxPayloadSize

MarshalBinary(f) ==
    PutUint16(f.stream) \o <<f.type>> \o PutUint32(Len(f.payload)) \o f.payload

\* The length field of a header.
LengthOf(b) == Uint32(b[4], b[5], b[6], b[7])

\* The sequence b holds a whole frame that UnmarshalBinary accepts.
Unmarshals(b) ==
    /\ Len(b) >= FrameHeaderSize
    /\ Len(b) >= FrameHeaderSize + LengthOf(b)
    /\ LengthOf(b) <= MaxPayloadSize

UnmarshalBinary(b) ==
    [stream  |-> Uint16(b[1], b[2]),
     type    |-> b[3],
     payload |-> SubSeq(b, FrameHeaderSize + 1, FrameHeaderSize + LengthOf(b))]

\* How many more bytes ReadFrom wants after it has read b.
Wanted(b) ==
    IF Len(b) < FrameHeaderSize
    THEN FrameHeaderSize - Len(b)
    ELSE FrameHeaderSize + LengthOf(b) - Len(b)

\* ReadFrom has read a header whose length it refuses.
Refuses(b) == Len(b) = FrameHeaderSize /\ LengthOf(b) > MaxPayloadSize

\* The frames at the beginning of a stream of bytes: what a receiver that
\* calls ReadFrom again and again has got after these bytes.
Decoded(bytes) ==
    LET rest(i) == SubSeq(bytes, i, Len(bytes))
        from[i \in 1..(Len(bytes) + 1)] ==
            IF Unmarshals(rest(i))
            THEN <<UnmarshalBinary(rest(i))>>
                    \o from[i + FrameHeaderSize + LengthOf(rest(i))]
            ELSE <<>>
    IN  from[1]
============================================================================
