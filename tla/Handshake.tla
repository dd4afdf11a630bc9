----------------------------- MODULE Handshake -----------------------------
(***************************************************************************)
(* The handshake of the relay, byte for byte (internal/relay/handshake.go).*)
(* A reader blocks until it has the bytes of its next field; so what it    *)
(* makes of a connection depends on the bytes that have arrived so far: it *)
(* rejects them, accepts them, or needs more.                              *)
(***************************************************************************)
EXTENDS Bytes

Magic == <<67, 66, 76, 68>>  \* "CBLD"
Version == 1
PeerTypeInitiator == 1
PeerTypeResponder == 2
StatusOK == 0
StatusError == 1
MaxUint16 == 65535
MaxIDLength == 256

\* WriteHandshake refuses no other session ID.
CanWrite(id) == Len(id) <= MaxUint16

WriteHandshake(id, peerType) ==
    Magic \o <<Version>> \o PutUint16(Len(id)) \o id \o <<peerType>>

\* ReadHandshake: the fields of a handshake in bytes b, when they are there.
IDLength(b) == Uint16(SubSeq(b, 6, 7))

HandshakeComplete(b) == Len(b) >= 7 /\ Len(b) >= 8 + IDLength(b)

HandshakeID(b) == SubSeq(b, 8, 7 + IDLength(b))

HandshakePeer(b) == b[8 + IDLength(b)]

HandshakeRejected(b) ==
    \/ Len(b) >= 4 /\ SubSeq(b, 1, 4) # Magic
    \/ Len(b) >= 5 /\ b[5] # Version
    \/ Len(b) >= 7 /\ IDLength(b) \notin 1 .. MaxIDLength
    \/ HandshakeComplete(b) /\ HandshakePeer(b) \notin {PeerTypeInitiator, PeerTypeResponder}

HandshakeAccepted(b) == HandshakeComplete(b) /\ ~HandshakeRejected(b)

\* WriteHandshakeAck; a message that is too long is cut.
WriteHandshakeAck(ok, msg) ==
    LET size == IF Len(msg) > MaxUint16 THEN MaxUint16 ELSE Len(msg)
    IN  Magic \o IF ok THEN <<StatusOK>>
                 ELSE <<StatusError>> \o PutUint16(size) \o SubSeq(msg, 1, size)

\* Mutant: whoever answers with the magic has accepted.
AckMagicSuffices(b) == Len(b) >= 4 /\ SubSeq(b, 1, 4) = Magic

\* ReadHandshakeAck returns nil.  With anything else it returns an error: the
\* magic is wrong, the error message is complete, or no more bytes come before
\* the end of the connection or its deadline.
AckAccepted(b) == Len(b) >= 5 /\ SubSeq(b, 1, 4) = Magic /\ b[5] = StatusOK
============================================================================
