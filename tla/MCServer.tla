------------------------------ MODULE MCServer ------------------------------
(***************************************************************************)
(* The server program with STUN clients at an IPv4 address, at an IPv4     *)
(* address in its IPv6 form and at an IPv6 address.                        *)
(***************************************************************************)
EXTENDS Server

Mapped == [i \in 1 .. 12 |-> IF i > 10 THEN 255 ELSE 0]

V4 == [ip |-> <<192, 0, 2, 255>>, port |-> 65535]
V4In6 == [ip |-> Mapped \o <<10, 0, 0, 1>>, port |-> 80]
V6 == [ip |-> [i \in 1 .. 16 |-> 16 * i - 1], port |-> 32853]

Message(type, length, cookie, first, rest) ==
    PutUint16(type) \o PutUint16(length) \o cookie \o [i \in 1 .. 12 |-> first + i] \o rest

Request == Message(1, 0, StunMagicCookie, 0, <<>>)

\* A request of each client, two with the same transaction ID; one with an
\* attribute up to the end of the buffer and one that the buffer cuts off; one
\* that is too short, one with another cookie, and a response.
AllDatagrams ==
    {[from |-> V4, data |-> Request],
     [from |-> V4In6, data |-> Request],
     [from |-> V6, data |-> Message(1, 4, StunMagicCookie, 100, <<0, 0, 0, 0>>)],
     [from |-> V4, data |-> Message(1, 8, StunMagicCookie, 200, <<0, 0, 0, 0, 0, 0, 0, 0>>)],
     [from |-> V6, data |-> SubSeq(Request, 1, 19)],
     [from |-> V4In6, data |-> Message(1, 0, <<0, 0, 0, 0>>, 100, <<>>)],
     [from |-> V4, data |-> Message(257, 0, StunMagicCookie, 100, <<>>)]}
=============================================================================
