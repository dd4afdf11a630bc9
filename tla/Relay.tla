------------------------------- MODULE Relay -------------------------------
(***************************************************************************)
(* The TCP relay server (internal/relay/server.go, session.go,             *)
(* handshake.go) and its clients (client.go).  Every accepted connection   *)
(* has a goroutine, handleConnection, that reads the handshake, joins the  *)
(* connection to a session, acknowledges it and, when it then sees two     *)
(* peers, starts a relay: a goroutine with two copiers, one per direction, *)
(* which at its end closes the session and deletes it from the server.     *)
(*                                                                         *)
(* A session object is named after the connection whose handler created    *)
(* it, a relay after the connection whose handler started it.  A stream is *)
(* a sequence of numbered chunks; io.Copy moves one chunk at a time.       *)
(*                                                                         *)
(* at[k], the handler:  handshake, lookup, add, ack, count, then done.     *)
(* relay[k]:  run while its copiers are at work, then closing (before      *)
(* Session.Close), delete (before the deletion), over.                     *)
(***************************************************************************)
EXTENDS Naturals, Sequences, FiniteSets, Functions

CONSTANTS
    Conns,        \* the connections that clients open
    Sessions,     \* session IDs
    Names,        \* the session IDs that each client may name
    MaxSessions,  \* ServerConfig.MaxSessions
    QuotaBytes,   \* ServerConfig.QuotaBytes, in chunks
    MaxChunks,    \* bound on the chunks each client sends
    Window,       \* the chunks that fit between the server and a client
    Nil

ASSUME RelayBounds == MaxSessions \in Nat /\ QuotaBytes \in Nat /\ MaxChunks \in [Conns -> Nat]
ASSUME RelayWindow == Window \in Nat \ {0}
ASSUME RelayNames == Names \in [Conns -> SUBSET Sessions]
ASSUME RelayNil == Nil \notin Conns /\ Nil \notin Sessions

VARIABLES
    at,        \* the handler of each connection
    sid,       \* the session ID in the client's handshake
    joined,    \* the session object its handler looked up
    sessions,  \* Server.sessions: session ID -> session object or Nil
    peers,     \* Session.peers, up to peerCount
    closed,    \* Session.closed
    bytes,     \* Session.bytes
    open,      \* is the server's end of the connection open?
    hung,      \* has the client closed its end?
    client,    \* the client: "none", "wait" for the acknowledgement, "up"
    sent,      \* the number of chunks the client has sent
    inbuf,     \* chunks on their way to the server
    out,       \* acknowledgement and chunks on their way to the client
    got,       \* chunks the client's user has read
    relay,     \* the relay that the connection's handler started
    copier,    \* its two copiers
    down       \* has Server.Close run?

session == <<sessions, peers, closed, bytes>>
clientVars == <<sid, hung, client, sent, inbuf, got>>
vars == <<at, joined, session, open, clientVars, out, relay, copier, down>>

Chunk == [from : Conns, n : Nat]

\* The two acknowledgements WriteHandshakeAck can send.
Ok == [from |-> Nil, n |-> 0]

Error == [from |-> Nil, n |-> 1]

\* A copier reads from peer 1 or 2, holds a chunk, or is about to close its
\* destination; n counts what it copied.
Copier == [at : {"read", "write", "close", "over"},
           hand : Chunk \cup {Nil}, n : Nat]

NewCopier == [at |-> "read", hand |-> Nil, n |-> 0]

Directions == {1, 2}

Source(r, i) == peers[joined[r]][i]

\* Mutant: the peer is looked up by session ID whenever a chunk is written.
DestinationByID(r, i) ==
    LET o == sessions[sid[r]]
    IN  IF o # Nil /\ Len(peers[o]) >= 3 - i THEN peers[o][3 - i]
        ELSE peers[joined[r]][3 - i]

Destination(r, i) == peers[joined[r]][3 - i]

SessionCount == Cardinality({s \in Sessions : sessions[s] # Nil})

Goto(k, place) == at' = [at EXCEPT ![k] = place]

----------------------------------------------------------------------------
Init ==
    /\ at = [k \in Conns |-> "none"]
    /\ sid = [k \in Conns |-> Nil]
    /\ joined = [k \in Conns |-> Nil]
    /\ sessions = [s \in Sessions |-> Nil]
    /\ peers = [o \in Conns |-> <<>>]
    /\ closed = [o \in Conns |-> FALSE]
    /\ bytes = [o \in Conns |-> 0]
    /\ open = [k \in Conns |-> FALSE]
    /\ hung = [k \in Conns |-> FALSE]
    /\ client = [k \in Conns |-> "none"]
    /\ sent = [k \in Conns |-> 0]
    /\ inbuf = [k \in Conns |-> <<>>]
    /\ out = [k \in Conns |-> <<>>]
    /\ got = [k \in Conns |-> <<>>]
    /\ relay = [r \in Conns |-> "none"]
    /\ copier = [r \in Conns |-> [i \in Directions |-> NewCopier]]
    /\ down = FALSE

----------------------------------------------------------------------------
\* The clients, ConnectToRelay and the use of the connection it returns.

\* Dial, WriteHandshake for session s; acceptLoop starts a handler.
Dial(k, s) ==
    /\ at[k] = "none" /\ ~down /\ s \in Names[k]
    /\ sid' = [sid EXCEPT ![k] = s]
    /\ Goto(k, "handshake")
    /\ open' = [open EXCEPT ![k] = TRUE]
    /\ client' = [client EXCEPT ![k] = "wait"]
    /\ UNCHANGED <<joined, session, hung, sent, inbuf, got, out, relay, copier, down>>

\* ReadHandshakeAck reads through a buffered reader that it then drops, and
\* with it the chunks that had already arrived behind the acknowledgement.
\* Anything but an "ok" makes the client give up.
ReadHandshakeAck(k) ==
    /\ client[k] = "wait" /\ ~hung[k] /\ out[k] # <<>>
    /\ IF Head(out[k]) = Ok
       THEN /\ client' = [client EXCEPT ![k] = "up"]
            /\ \E n \in 1 .. Len(out[k]) :
                  out' = [out EXCEPT ![k] = SubSeq(@, n + 1, Len(@))]
            /\ UNCHANGED hung
       ELSE /\ hung' = [hung EXCEPT ![k] = TRUE]
            /\ out' = [out EXCEPT ![k] = <<>>]
            /\ UNCHANGED client
    /\ UNCHANGED <<at, sid, joined, session, open, sent, inbuf, got, relay, copier, down>>

Send(k) ==
    /\ client[k] = "up" /\ ~hung[k] /\ open[k] /\ sent[k] < MaxChunks[k]
    /\ sent' = [sent EXCEPT ![k] = @ + 1]
    /\ inbuf' = [inbuf EXCEPT ![k] = Append(@, [from |-> k, n |-> sent[k] + 1])]
    /\ UNCHANGED <<at, sid, joined, session, open, hung, client, out, got, relay, copier, down>>

Receive(k) ==
    /\ client[k] = "up" /\ ~hung[k] /\ out[k] # <<>>
    /\ got' = [got EXCEPT ![k] = Append(@, Head(out[k]))]
    /\ out' = [out EXCEPT ![k] = Tail(@)]
    /\ UNCHANGED <<at, sid, joined, session, open, hung, client, sent, inbuf, relay, copier, down>>

\* The client closes the connection, or fails; what it had not read is lost.
HangUp(k) ==
    /\ client[k] # "none" /\ ~hung[k]
    /\ hung' = [hung EXCEPT ![k] = TRUE]
    /\ out' = [out EXCEPT ![k] = <<>>]
    /\ UNCHANGED <<at, sid, joined, session, open, client, sent, inbuf, got, relay, copier, down>>

----------------------------------------------------------------------------
\* handleConnection.

\* A write to a client that does not read blocks when the window is full; no
\* deadline ends it, only the end of the connection on either side does.
Room(k) == hung[k] \/ Len(out[k]) < Window

Put(k, x) ==
    out' = IF hung[k] THEN out ELSE [out EXCEPT ![k] = Append(@, x)]

ReadHandshake(k) ==
    /\ at[k] = "handshake"
    /\ Goto(k, "lookup")
    /\ UNCHANGED <<joined, session, open, clientVars, out, relay, copier, down>>

\* The handshake is malformed, does not come in time, or the client is gone;
\* also the end of a connection that was refused: an error acknowledgement,
\* the first that is written to the client, then Close.
Refuse(k) ==
    /\ Put(k, Error)
    /\ open' = [open EXCEPT ![k] = FALSE]
    /\ Goto(k, "done")

BadHandshake(k) ==
    /\ at[k] = "handshake"
    /\ Refuse(k)
    /\ UNCHANGED <<joined, session, clientVars, relay, copier, down>>

\* Mutant: off by one.
LookupOneMore(k) ==
    /\ at[k] = "lookup"
    /\ LET s == sid[k]
       IN  \/ /\ sessions[s] # Nil
              /\ joined' = [joined EXCEPT ![k] = sessions[s]]
              /\ Goto(k, "add")
              /\ UNCHANGED <<sessions, open, out>>
           \/ /\ sessions[s] = Nil /\ SessionCount <= MaxSessions
              /\ joined' = [joined EXCEPT ![k] = k]
              /\ sessions' = [sessions EXCEPT ![s] = k]
              /\ Goto(k, "add")
              /\ UNCHANGED <<open, out>>
    /\ UNCHANGED <<peers, closed, bytes, clientVars, relay, copier, down>>

\* The critical section of Server.mu: find the session or create it.
Lookup(k) ==
    /\ at[k] = "lookup"
    /\ LET s == sid[k]
       IN  \/ /\ sessions[s] # Nil
              /\ joined' = [joined EXCEPT ![k] = sessions[s]]
              /\ Goto(k, "add")
              /\ UNCHANGED <<sessions, open, out>>
           \/ /\ sessions[s] = Nil /\ SessionCount < MaxSessions
              /\ joined' = [joined EXCEPT ![k] = k]
              /\ sessions' = [sessions EXCEPT ![s] = k]
              /\ Goto(k, "add")
              /\ UNCHANGED <<open, out>>
           \/ /\ sessions[s] = Nil /\ SessionCount >= MaxSessions
              /\ Refuse(k)
              /\ UNCHANGED <<joined, sessions>>
    /\ UNCHANGED <<peers, closed, bytes, clientVars, relay, copier, down>>

\* Mutant: no limit.
AddAnyPeer(k) ==
    /\ at[k] = "add"
    /\ peers' = [peers EXCEPT ![joined[k]] = Append(@, k)]
    /\ Goto(k, "ack")
    /\ UNCHANGED <<joined, sessions, closed, bytes, open, clientVars, out, relay, copier, down>>

\* Session.AddPeer, which does not ask whether the session is closed.  The
\* clean-up of an empty session after a refusal finds two peers, and does
\* nothing.
AddPeer(k) ==
    /\ at[k] = "add"
    /\ LET o == joined[k]
       IN  \/ /\ Len(peers[o]) < 2
              /\ peers' = [peers EXCEPT ![o] = Append(@, k)]
              /\ Goto(k, "ack")
              /\ UNCHANGED <<open, out>>
           \/ /\ Len(peers[o]) >= 2
              /\ Refuse(k)
              /\ UNCHANGED peers
    /\ UNCHANGED <<joined, sessions, closed, bytes, clientVars, relay, copier, down>>

\* Mutant: who completes a session gets its acknowledgement after the relay's
\* start.
AckLater(k) ==
    /\ at[k] = "ack" /\ open[k]
    /\ IF joined[k] = k THEN Put(k, Ok) ELSE UNCHANGED out
    /\ Goto(k, "count")
    /\ UNCHANGED <<joined, session, open, clientVars, relay, copier, down>>

\* WriteHandshakeAck: it fails if the connection was closed, by the other
\* handler's relay or by Server.Close, and may fail if the client hung up.
\* The connection stays a peer of the session in either case.
Ack(k) ==
    /\ at[k] = "ack"
    /\ \/ /\ open[k] /\ Room(k)
          /\ Put(k, Ok)
          /\ Goto(k, "count")
          /\ UNCHANGED open
       \/ /\ ~open[k] \/ hung[k]
          /\ open' = [open EXCEPT ![k] = FALSE]
          /\ Goto(k, "done")
          /\ UNCHANGED out
    /\ UNCHANGED <<joined, session, clientVars, relay, copier, down>>

\* PeerCount, under a lock of its own: both handlers may find two peers.
Count(k) ==
    /\ at[k] = "count"
    /\ Goto(k, "done")
    /\ relay' = IF Len(peers[joined[k]]) = 2 THEN [relay EXCEPT ![k] = "run"]
                ELSE relay
    /\ UNCHANGED <<joined, session, open, clientVars, out, copier, down>>

----------------------------------------------------------------------------
\* relaySession and the deletion of the session.

SetCopier(r, i, c) == copier' = [copier EXCEPT ![r][i] = c]

\* Mutant: the chunk is read again.
CopyReread(r, i) ==
    LET k == Source(r, i)
        c == copier[r][i]
    IN  /\ relay[r] = "run" /\ c.at = "read"
        /\ open[k] /\ inbuf[k] # <<>>
        /\ c.n < MaxChunks[k]
        /\ SetCopier(r, i, [c EXCEPT !.at = "write", !.hand = Head(inbuf[k])])
        /\ UNCHANGED <<at, joined, session, open, clientVars, out, relay, down>>

\* A copier reads a chunk ...
CopyRead(r, i) ==
    LET k == Source(r, i)
        c == copier[r][i]
    IN  /\ relay[r] = "run" /\ c.at = "read"
        /\ open[k] /\ inbuf[k] # <<>>
        /\ SetCopier(r, i, [c EXCEPT !.at = "write", !.hand = Head(inbuf[k])])
        /\ inbuf' = [inbuf EXCEPT ![k] = Tail(@)]
        /\ UNCHANGED <<at, sid, joined, session, open, hung, client, sent, got, out, relay, down>>

\* ... or finds the connection closed or at its end.
CopyEOF(r, i) ==
    LET k == Source(r, i)
        c == copier[r][i]
    IN  /\ relay[r] = "run" /\ c.at = "read"
        /\ ~open[k] \/ (hung[k] /\ inbuf[k] = <<>>)
        /\ SetCopier(r, i, [c EXCEPT !.at = "close"])
        /\ UNCHANGED <<at, joined, session, open, clientVars, out, relay, down>>

\* It writes the chunk, once there is room; to a client that hung up the write
\* may fail or not.
CopyWrite(r, i) ==
    LET k == Destination(r, i)
        c == copier[r][i]
    IN  /\ relay[r] = "run" /\ c.at = "write"
        /\ \/ /\ open[k] /\ Room(k)
              /\ Put(k, c.hand)
              /\ SetCopier(r, i, [at |-> "read", hand |-> Nil, n |-> c.n + 1])
           \/ /\ ~open[k] \/ hung[k]
              /\ SetCopier(r, i, [c EXCEPT !.at = "close", !.hand = Nil])
              /\ UNCHANGED out
        /\ UNCHANGED <<at, joined, session, open, clientVars, relay, down>>

\* Mutant: the destination stays open.
CopyNoClose(r, i) ==
    LET c == copier[r][i]
    IN  /\ relay[r] = "run" /\ c.at = "close"
        /\ bytes' = [bytes EXCEPT ![joined[r]] = @ + c.n]
        /\ SetCopier(r, i, [c EXCEPT !.at = "over", !.n = 0])
        /\ UNCHANGED <<at, joined, sessions, peers, closed, open, clientVars, out, relay, down>>

\* Mutant: the session is taken off the map before the relay has ended.
CopyCloseDelete(r, i) ==
    LET c == copier[r][i]
    IN  /\ relay[r] = "run" /\ c.at = "close"
        /\ bytes' = [bytes EXCEPT ![joined[r]] = @ + c.n]
        /\ open' = [open EXCEPT ![Destination(r, i)] = FALSE]
        /\ sessions' = [sessions EXCEPT ![sid[r]] = Nil]
        /\ SetCopier(r, i, [c EXCEPT !.at = "over", !.n = 0])
        /\ UNCHANGED <<at, joined, peers, closed, clientVars, out, relay, down>>

\* Mutant: the second direction to end overwrites the count of the first.
CopyCloseSet(r, i) ==
    LET c == copier[r][i]
    IN  /\ relay[r] = "run" /\ c.at = "close"
        /\ bytes' = [bytes EXCEPT ![joined[r]] = c.n]
        /\ open' = [open EXCEPT ![Destination(r, i)] = FALSE]
        /\ SetCopier(r, i, [c EXCEPT !.at = "over", !.n = 0])
        /\ UNCHANGED <<at, joined, sessions, peers, closed, clientVars, out, relay, down>>

\* io.Copy has returned: AddBytes, Close of the destination, wg.Done.
CopyClose(r, i) ==
    LET c == copier[r][i]
    IN  /\ relay[r] = "run" /\ c.at = "close"
        /\ bytes' = [bytes EXCEPT ![joined[r]] = @ + c.n]
        /\ open' = [open EXCEPT ![Destination(r, i)] = FALSE]
        /\ SetCopier(r, i, [c EXCEPT !.at = "over", !.n = 0])
        /\ UNCHANGED <<at, joined, sessions, peers, closed, clientVars, out, relay, down>>

RelayWait(r) ==
    /\ relay[r] = "run"
    /\ \A i \in Directions : copier[r][i].at = "over"
    /\ relay' = [relay EXCEPT ![r] = "closing"]
    /\ UNCHANGED <<at, joined, session, open, clientVars, out, copier, down>>

\* Session.Close closes the peers the session has now, once.
ClosePeers(objects) ==
    /\ closed' = [o \in Conns |-> closed[o] \/ o \in objects]
    /\ open' = [k \in Conns |->
                  open[k] /\ \A o \in objects :
                     closed[o] \/ \A j \in 1 .. Len(peers[o]) : peers[o][j] # k]

CloseSession(r) ==
    /\ relay[r] = "closing"
    /\ ClosePeers({joined[r]})
    /\ relay' = [relay EXCEPT ![r] = "delete"]
    /\ UNCHANGED <<at, joined, sessions, peers, bytes, clientVars, out, copier, down>>

\* delete(s.sessions, ID): whatever session has the ID by now.
Delete(r) ==
    /\ relay[r] = "delete"
    /\ sessions' = [sessions EXCEPT ![sid[r]] = Nil]
    /\ relay' = [relay EXCEPT ![r] = "over"]
    /\ UNCHANGED <<at, joined, peers, closed, bytes, open, clientVars, out, copier, down>>

\* Server.Close: the listener and every session in the map; handlers and
\* relays that are under way go on.
Close ==
    /\ ~down
    /\ down' = TRUE
    /\ ClosePeers({sessions[s] : s \in Sessions} \ {Nil})
    /\ sessions' = [s \in Sessions |-> Nil]
    /\ UNCHANGED <<at, joined, peers, bytes, clientVars, out, relay, copier>>

----------------------------------------------------------------------------
Client(k) == ReadHandshakeAck(k) \/ Receive(k)

Handler(k) ==
    ReadHandshake(k) \/ BadHandshake(k) \/ Lookup(k) \/ AddPeer(k) \/ Ack(k) \/ Count(k)

Copy(r, i) == CopyRead(r, i) \/ CopyEOF(r, i) \/ CopyWrite(r, i) \/ CopyClose(r, i)

Relay(r) == RelayWait(r) \/ CloseSession(r) \/ Delete(r)

Next ==
    \/ \E k \in Conns :
          \/ \E s \in Sessions : Dial(k, s)
          \/ Send(k) \/ HangUp(k) \/ Client(k)
          \/ Handler(k)
          \/ \E i \in Directions : Copy(k, i)
          \/ Relay(k)
    \/ Close

Spec == Init /\ [][Next]_vars

\* Every goroutine of the server runs when it does not wait for a client; a
\* handshake is read or times out.  Nothing is assumed of the clients.
Fairness ==
    \A k \in Conns : /\ WF_vars(Handler(k))
                     /\ \A i \in Directions : WF_vars(Copy(k, i))
                     /\ WF_vars(Relay(k))

FairSpec == Spec /\ Fairness
----------------------------------------------------------------------------
\* Correctness.

HandlerTypeOK ==
    /\ at \in [Conns -> {"none", "handshake", "lookup", "add", "ack", "count", "done"}]
    /\ sid \in [Conns -> Sessions \cup {Nil}]
    /\ joined \in [Conns -> Conns \cup {Nil}]

SessionTypeOK ==
    /\ sessions \in [Sessions -> Conns \cup {Nil}]
    /\ peers \in [Conns -> Seq(Conns)]
    /\ closed \in [Conns -> BOOLEAN]
    /\ bytes \in [Conns -> Nat]

LinkTypeOK ==
    /\ open \in [Conns -> BOOLEAN]
    /\ hung \in [Conns -> BOOLEAN]
    /\ client \in [Conns -> {"none", "wait", "up"}]
    /\ sent \in [Conns -> Nat]

StreamTypeOK ==
    /\ inbuf \in [Conns -> Seq(Chunk)]
    /\ out \in [Conns -> Seq(Chunk \cup {Ok, Error})]
    /\ got \in [Conns -> Seq(Chunk \cup {Ok, Error})]

RelayTypeOK ==
    /\ relay \in [Conns -> {"none", "run", "closing", "delete", "over"}]
    /\ copier \in [Conns -> [Directions -> Copier]]
    /\ down \in BOOLEAN

\* Every variable has the type its Go declaration and its use give it; a
\* session never has more than its two peers.
TypeOK ==
    /\ HandlerTypeOK /\ SessionTypeOK /\ LinkTypeOK /\ StreamTypeOK /\ RelayTypeOK
    /\ \A o \in Conns : Len(peers[o]) <= 2

\* ServerConfig.MaxSessions bounds the sessions in the map, however the
\* handlers of new connections interleave.
SessionsBounded == SessionCount <= MaxSessions

Peers(o) == {peers[o][j] : j \in 1 .. Len(peers[o])}

\* What the client has read and what is on its way to it, and where its chunks are.
Stream(k) == got[k] \o out[k]

Chunks(k) == {j \in 1 .. Len(Stream(k)) : Stream(k)[j].from # Nil}

\* A client only ever gets chunks of the other peer of its session, also when
\* both handlers have started a relay, and when a session of the same ID follows
\* while an earlier one is still being relayed.
Isolation ==
    \A k \in Conns : \A c \in Range(got[k]) \cup Range(out[k]) : c.from # Nil =>
       \E o \in Conns : Peers(o) = {c.from, k} /\ c.from # k

InOrder(k) == \A i, j \in Chunks(k) : i < j => Stream(k)[i].n < Stream(k)[j].n

Relays(o) == {r \in Conns : relay[r] # "none" /\ joined[r] = o}

\* Each chunk in s is the one that was sent after the chunk before it.
Unbroken(s) ==
    \A i, j \in 1 .. Len(s) :
       i < j /\ s[i].from # Nil /\ s[j].from # Nil
             /\ (\A m \in i + 1 .. j - 1 : s[m].from = Nil)
          => s[j].n = s[i].n + 1

\* With a single relay per session the copiers neither reorder, repeat nor skip
\* a chunk, whatever hangs up or closes: all that is ever missing is a beginning
\* that ReadHandshakeAck's buffered reader took along, and an end.
UnbrokenIfSingle ==
    \A o \in Conns : (\A q, r \in Relays(o) : q = r) =>
       \A k \in Peers(o) : Unbroken(Stream(k))

\* "relaySession forwards data between the two peers of a session": a stream
\* arrives in the order in which it was sent.
StreamsInOrder == \A k \in Conns : InOrder(k)

\* The handshake protocol: the server's answer begins with the
\* acknowledgement, no relayed data comes before it.
AckFirst ==
    \A k \in Conns : client[k] = "wait" /\ out[k] # <<>> => Head(out[k]).from = Nil

\* Relayed data overtakes an acknowledgement only in a relay that the handler
\* of the other peer has started, never in one's own.
AckFirstIfOwnRelay ==
    \A k \in Conns :
       client[k] = "wait" /\ out[k] # <<>> /\ Relays(joined[k]) \subseteq {k}
          => Head(out[k]).from = Nil

\* The acknowledgement is five bytes, what follows belongs to the stream: the
\* connection ConnectToRelay returns delivers the peer's data from its start.
StreamFromStart ==
    \A o \in Conns : Cardinality(Relays(o)) <= 1 =>
       \A k \in Peers(o) : got[k] # <<>> => Head(got[k]).n = 1

\* No two handlers have started a relay for the same session.
SingleRelays ==
    \A q, r \in Conns :
       relay[q] # "none" /\ relay[r] # "none" /\ joined[q] = joined[r] => q = r

\* "Clean up after session ends": a relay that ends deletes its own session
\* and no later one with the same ID, while the server is not shutting down
\* and no session, not even an earlier one, has had two relays.
CleanupOwn ==
    [][\A r \in Conns :
          Delete(r) /\ ~down /\ SingleRelays => sessions[sid[r]] = joined[r]]_vars

\* What the copiers of the relay that k's handler started have not yet added.
Held(k) == copier[k][1].n + copier[k][2].n

\* Session.AddBytes of both directions, and of both relays if there are two,
\* loses nothing: every chunk a client of the session has been written is in
\* the session's bytes or in the count of a copier that has not ended.
BytesAccounted ==
    \A o \in Conns :
       /\ Len(peers[o]) < 2 => \A k \in Peers(o) : Chunks(k) = {}
       /\ Len(peers[o]) = 2 =>
             Cardinality(Chunks(peers[o][1])) + Cardinality(Chunks(peers[o][2]))
                <= bytes[o] + Held(peers[o][1]) + Held(peers[o][2])

\* "QuotaBytes is the monthly bandwidth quota": a session does not relay more.
QuotaRespected == \A o \in Conns : bytes[o] <= QuotaBytes

\* Once a relay runs, either client's hanging up takes the whole session
\* down: both connections are closed and the session is deleted ("Clean up
\* after session ends", relay/server.go:220).  It does not hold when the other
\* client does not read: a copier that writes to it never gets to the end of
\* the input.
HangUpEndsSession ==
    \A o \in Conns :
       (Relays(o) # {} /\ \E k \in Peers(o) : hung[k])
          ~> /\ \A k \in Peers(o) : ~open[k]
             /\ \A s \in Sessions : sessions[s] # o

\* As long as clients read what they are sent, or hang up, it does: whatever
\* the copiers of one relay or two have in hand, none of them keeps the session
\* from being taken down (relaySession).
HangUpEndsSessionIfTaken == (\A k \in Conns : []<>Room(k)) => HangUpEndsSession

\* "SessionCount returns the number of active relay sessions": a session whose
\* clients have all gone does not stay in the map.
DeadSessionsRemoved ==
    \A o \in Conns :
       (Peers(o) # {} /\ \A k \in Peers(o) : hung[k])
          ~> \A s \in Sessions : sessions[s] # o
============================================================================
