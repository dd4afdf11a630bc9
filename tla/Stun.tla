-------------------------------- MODULE Stun --------------------------------
(***************************************************************************)
(* The STUN server (internal/stun/server.go): its encoding of a Binding    *)
(* Response, byte for byte, and the goroutine that serves requests.        *)
(*                                                                         *)
(* Datagrams get lost, come twice, late or in another order: the network   *)
(* delivers anything that was ever sent, any number of times or never.     *)
(*                                                                         *)
(* serve is the place of the goroutine:                                    *)
(*   none    Start has not been called       check   the test of s.done    *)
(*   read    in ReadFromUDP                  failed  after a read error    *)
(*   handle  a message is in the buffer      over    it has returned       *)
(***************************************************************************)
EXTENDS Bytes, FiniteSets

CONSTANTS
    Datagrams,     \* what clients send, and from where: [from, data]
    MaxDatagrams,  \* bound on the different datagrams sent
    BufferSize     \* the length of serve's buffer

\* A net.IP has four or sixteen bytes.
Address == [1 .. 4 -> Byte] \cup [1 .. 16 -> Byte]
Port == 0 .. 65535

ASSUME StunAssumption ==
    /\ Datagrams \subseteq [from : [ip : Address, port : Port], data : Seq(Byte)]
    /\ BufferSize \in Nat

VARIABLES
    serve,     \* the goroutine of serve
    buf,       \* the message it works on: [from, data]
    conn,      \* the UDP socket: "none", "open" or "closed"
    done,      \* is the channel s.done closed?
    requests,  \* every datagram sent to the server: [from, data]
    responses  \* every datagram the server sent: [to, data]

stun == <<serve, buf, conn, done, requests, responses>>

NoMessage == [from |-> [ip |-> <<>>, port |-> 0], data |-> <<>>]

StunInit ==
    /\ serve = "none"
    /\ buf = NoMessage
    /\ conn = "none"
    /\ done = FALSE
    /\ requests = {}
    /\ responses = {}

-----------------------------------------------------------------------------
(* Messages                                                                *)

StunMagicCookie == <<33, 18, 164, 66>>
StunBindingRequest == 1
StunBindingResponse == 257
AttrXORMappedAddress == 32

\* net.IP.To4: an IPv4 address may come in its IPv6 form.
To4(ip) ==
    IF Len(ip) = 16 /\ SubSeq(ip, 1, 12) = [i \in 1 .. 12 |-> IF i > 10 THEN 255 ELSE 0]
    THEN SubSeq(ip, 13, 16) ELSE ip

\* Mutant: the cookie alone is the key, over and over.
XorKeyCookies(transactionID) == [i \in 1 .. 16 |-> StunMagicCookie[((i - 1) % 4) + 1]]

\* The key for an address: an IPv4 address uses its first four bytes.
XorKey(transactionID) == StunMagicCookie \o transactionID

\* buildBindingResponse
BuildBindingResponse(transactionID, addr) ==
    LET ip == To4(addr.ip)
        family == IF Len(ip) = 4 THEN 1 ELSE 2
        value == <<0, family>> \o XorAll(PutUint16(addr.port), StunMagicCookie)
                    \o XorAll(ip, XorKey(transactionID))
        attr == PutUint16(AttrXORMappedAddress) \o PutUint16(Len(value)) \o value
    IN  PutUint16(StunBindingResponse) \o PutUint16(Len(attr)) \o StunMagicCookie
           \o transactionID \o attr

\* The tests of handleMessage.
IsBindingRequest(data) ==
    /\ Len(data) >= 20
    /\ SubSeq(data, 5, 8) = StunMagicCookie
    /\ Uint16(data) = StunBindingRequest
    /\ Len(data) >= 20 + Uint16(SubSeq(data, 3, 4))

-----------------------------------------------------------------------------
(* The server                                                              *)

\* Start, when the socket can be opened.
StartStun ==
    /\ conn' = "open"
    /\ serve' = "check"
    /\ UNCHANGED <<buf, done, requests, responses>>

\* A client sends.
SendRequest(m) ==
    /\ conn = "open" /\ Cardinality(requests) < MaxDatagrams
    /\ requests' = requests \cup {m}
    /\ UNCHANGED <<serve, buf, conn, done, responses>>

ServeCheck ==
    /\ serve = "check"
    /\ serve' = IF done THEN "over" ELSE "read"
    /\ UNCHANGED <<buf, conn, done, requests, responses>>

\* ReadFromUDP returns a message, of which only BufferSize bytes are kept.
ServeRead ==
    /\ serve = "read" /\ conn = "open"
    /\ \E m \in requests :
          buf' = [m EXCEPT !.data = SubSeq(@, 1, IF Len(@) < BufferSize THEN Len(@) ELSE BufferSize)]
    /\ serve' = "handle"
    /\ UNCHANGED <<conn, done, requests, responses>>

\* Its deadline of a second passes.
ServeTimeout ==
    /\ serve = "read" /\ conn = "open"
    /\ serve' = "check"
    /\ UNCHANGED <<buf, conn, done, requests, responses>>

\* It fails because the socket was closed; then isClosed.
ServeError ==
    /\ serve = "read" /\ conn = "closed"
    /\ serve' = "failed"
    /\ UNCHANGED <<buf, conn, done, requests, responses>>

ServeFailed ==
    /\ serve = "failed"
    /\ serve' = IF done THEN "over" ELSE "check"
    /\ UNCHANGED <<buf, conn, done, requests, responses>>

\* handleMessage; WriteToUDP fails if the socket was closed meanwhile.
HandleMessage ==
    /\ serve = "handle"
    /\ serve' = "check"
    /\ buf' = NoMessage
    /\ responses' =
          IF IsBindingRequest(buf.data) /\ conn = "open"
          THEN responses \cup {[to |-> buf.from,
                                data |-> BuildBindingResponse(SubSeq(buf.data, 9, 20), buf.from)]}
          ELSE responses
    /\ UNCHANGED <<conn, done, requests>>

Serve == ServeCheck \/ ServeRead \/ ServeTimeout \/ ServeError \/ ServeFailed \/ HandleMessage

\* Close: close(s.done) is its first statement, conn.Close() its second.
CloseStun(n) ==
    /\ done' = (done \/ n = 1)
    /\ conn' = IF n = 2 THEN "closed" ELSE conn
    /\ UNCHANGED <<serve, buf, requests, responses>>

-----------------------------------------------------------------------------
(* What RFC 5389 says a client makes of a response.                        *)

\* The address in the XOR-MAPPED-ADDRESS attribute of a Binding Response that
\* has no other attribute, or nothing.
MappedAddress(data) ==
    LET value == SubSeq(data, 25, Len(data))
        size == CASE value[2] = 1 -> 4 [] value[2] = 2 -> 16
    IN  IF /\ Uint16(data) = StunBindingResponse
           /\ SubSeq(data, 5, 8) = StunMagicCookie
           /\ Uint16(SubSeq(data, 3, 4)) = Len(data) - 20
           /\ Uint16(SubSeq(data, 21, 22)) = AttrXORMappedAddress
           /\ Uint16(SubSeq(data, 23, 24)) = Len(value)
           /\ Len(value) = 4 + size
        THEN {[ip |-> XorAll(SubSeq(value, 5, Len(value)), SubSeq(data, 5, 20)),
               port |-> Uint16(XorAll(SubSeq(value, 3, 4), SubSeq(data, 5, 6)))]}
        ELSE {}

\* Every response tells its receiver, IPv4 or IPv6, the receiver's own address
\* and port and a transaction ID of its own, however requests of several
\* clients follow each other through the one buffer, come twice, are cut at its
\* end or are no requests at all (serve, handleMessage, buildBindingResponse).
ResponsesTrue ==
    \A r \in responses :
       /\ MappedAddress(r.data) = {[ip |-> To4(r.to.ip), port |-> r.to.port]}
       /\ \E m \in requests : /\ m.from = r.to
                              /\ Len(m.data) >= 20
                              /\ SubSeq(m.data, 9, 20) = SubSeq(r.data, 9, 20)
                              /\ Len(m.data) >= 20 + Uint16(SubSeq(m.data, 3, 4))
=============================================================================
