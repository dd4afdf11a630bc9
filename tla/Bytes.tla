------------------------------- MODULE Bytes -------------------------------
(***************************************************************************)
(* Bytes and their big-endian pairs, as encoding/binary and the shifts of  *)
(* relay/handshake.go form them.                                           *)
(***************************************************************************)
EXTENDS Integers, Sequences

Byte == 0 .. 255

\* Exclusive or of two bytes, bit for bit.
Xor(x, y) ==
    LET bit(p) == IF (x \div p) % 2 # (y \div p) % 2 THEN p ELSE 0
    IN  bit(1) + bit(2) + bit(4) + bit(8) + bit(16) + bit(32) + bit(64) + bit(128)

XorAll(s, t) == [i \in 1 .. Len(s) |-> Xor(s[i], t[i])]

\* PutUint16: the conversion to uint16 drops what is above.
PutUint16(n) == <<(n \div 256) % 256, n % 256>>

Uint16(s) == 256 * s[1] + s[2]
============================================================================
