---------------------------- MODULE AgentTunnel ----------------------------
(***************************************************************************)
(* The agent's data path: ShellSessions (internal/agent/proxy/shell.go)    *)
(* behind a RelayTransport (internal/tunnel/relay.go).  In mode "frames" a *)
(* ProxyDataFrames (internal/agent/tunnel.go) runs for every stream in     *)
(* running; all share the transport.  In mode "raw" there is one           *)
(* ShellSession.Pipe or ProxyData, which copies bytes without frames; its  *)
(* stream is the connection itself.                                        *)
(*                                                                         *)
(* Every proxy s has a goroutine from the shell to the transport:          *)
(*    up[s] = read, lock (it has a frame and wants rt.mu), write, done     *)
(* one from the transport to the shell:                                    *)
(*    down[s] = read, frame (it has a whole frame), done                   *)
(* and the caller, which waits for both:  main[s] = wait, returned.        *)
(*                                                                         *)
(* The connection is two streams of bytes.  What the agent writes is in    *)
(* wire, of which the peer has taken a part; a write blocks when Window    *)
(* bytes wait for the peer.  What the peer sends arrives in portions.      *)
(***************************************************************************)
EXTENDS Frame, FiniteSets, FiniteSetsExt, SequencesExt

CONSTANTS
    Streams,     \* the streams for which proxies may run
    PeerFrames,  \* what the peer may send
    Portions,    \* the numbers of bytes that may arrive at once
    MaxSent,     \* bound on the number of frames the peer sends
    MaxOutput,   \* bound on the bytes that each shell prints
    Window       \* the bytes that fit between agent and peer

ASSUME StreamsAssumption == Streams \subseteq StreamId
ASSUME PeerAssumption ==
    PeerFrames \subseteq Frames /\ \A f \in PeerFrames : Len(f.payload) <= MaxLength
ASSUME PortionsAssumption == Portions \subseteq Nat \ {0}
ASSUME WindowAssumption == Window \in Nat \ {0} /\ MaxSent \in Nat /\ MaxOutput \in [Streams -> Nat]
ASSUME BufferAssumption == MaxPayloadSize > 0

VARIABLES
    conn,     \* RelayTransport.conn: "none", "open", "closed"
    ended,    \* has the peer, or the network, ended the connection?
    mode,     \* "frames" or "raw"
    running,  \* the streams with a proxy
    mu,       \* who holds RelayTransport.mu: a stream or Free
    closer,   \* a caller of RelayTransport.Close: "idle", "want", "done"
    wire,     \* the bytes the agent has written before the end
    taken,    \* how many of them the peer has read
    sent,     \* the frames the peer has sent
    arrived,  \* how many of their bytes have arrived
    pos,      \* how many of these the agent has read
    up, hand, \* the goroutine shell -> transport and the bytes it must write
    down, got,\* the goroutine transport -> shell and the bytes it has read
    main,     \* the caller of the proxy
    alive,    \* does the shell process run?
    closed,   \* ShellSession.closed
    printed,  \* all that the shell has printed
    unread,   \* how much of it waits in the PTY
    typed     \* the bytes written to the shell's PTY

transport == <<conn, ended, mode, running>>
peer == <<taken, sent, arrived>>
shell == <<alive, closed, printed, typed>>
vars == <<transport, mu, closer, wire, peer, pos, up, hand, down, got, main, shell, unread>>

\* Nobody holds rt.mu; no stream ID is negative.
Free == -1

\* Mode "raw" has no headers.
Encoded(f) == IF mode = "frames" THEN MarshalBinary(f) ELSE f.payload

Inbound == FlattenSeq([i \in 1..Len(sent) |-> Encoded(sent[i])])

TypeOK ==
    /\ conn \in {"none", "open", "closed"} /\ ended \in BOOLEAN
    /\ mode \in {"frames", "raw"} /\ running \subseteq Streams
    /\ mu \in Streams \cup {Free} /\ closer \in {"idle", "want", "done"}
    /\ wire \in Seq(Byte) /\ taken \in 0..Len(wire) /\ Len(wire) - taken <= Window
    /\ sent \in Seq(PeerFrames) /\ arrived \in 0..Len(Inbound) /\ pos \in 0..arrived
    /\ up \in [Streams -> {"read", "lock", "write", "done"}]
    /\ down \in [Streams -> {"read", "frame", "done"}]
    /\ main \in [Streams -> {"wait", "returned"}]
    /\ hand \in [Streams -> Seq(Byte)] /\ got \in [Streams -> Seq(Byte)]
    /\ alive \in [Streams -> BOOLEAN] /\ closed \in [Streams -> BOOLEAN]
    /\ printed \in [Streams -> Seq(Byte)] /\ typed \in [Streams -> Seq(Byte)]
    /\ unread \in [Streams -> Nat] /\ \A s \in Streams : unread[s] <= Len(printed[s])

Init ==
    /\ conn = "none" /\ ended = FALSE /\ mode = "frames" /\ running = {}
    /\ mu = Free /\ closer = "idle"
    /\ wire = <<>> /\ taken = 0 /\ sent = <<>> /\ arrived = 0 /\ pos = 0
    /\ up = [s \in Streams |-> "read"] /\ down = [s \in Streams |-> "read"]
    /\ main = [s \in Streams |-> "wait"]
    /\ hand = [s \in Streams |-> <<>>] /\ got = [s \in Streams |-> <<>>]
    /\ alive = [s \in Streams |-> TRUE] /\ closed = [s \in Streams |-> FALSE]
    /\ printed = [s \in Streams |-> <<>>] /\ typed = [s \in Streams |-> <<>>]
    /\ unread = [s \in Streams |-> 0]

-----------------------------------------------------------------------------
(* The transport and its user.                                             *)

\* NewRelayTransportAsResponder and a successful Open; an Open that fails
\* leaves no connection.  The caller then starts a proxy per stream, in mode
\* "raw" only one.
Open(S, m) ==
    /\ conn = "none"
    /\ m = "raw" => Cardinality(S) = 1
    /\ conn' = "open" /\ running' = S /\ mode' = m
    /\ UNCHANGED <<ended, mu, closer, wire, peer, pos, up, hand, down, got, main, shell, unread>>

\* A user of the transport calls Close.
CallClose ==
    /\ conn = "open" /\ closer = "idle"
    /\ closer' = "want"
    /\ UNCHANGED <<transport, mu, wire, peer, pos, up, hand, down, got, main, shell, unread>>

\* RelayTransport.Close waits for rt.mu; in mode "raw" it is Close of the
\* connection itself.
Close ==
    /\ closer = "want" /\ (mode = "frames" => mu = Free)
    /\ closer' = "done" /\ conn' = "closed"
    /\ UNCHANGED <<ended, mode, running, mu, wire, peer, pos, up, hand, down, got, main, shell, unread>>

-----------------------------------------------------------------------------
(* The peer and the network.                                               *)

PeerSends(f) ==
    /\ conn # "none" /\ ~ended /\ Len(sent) < MaxSent
    /\ sent' = Append(sent, f)
    /\ UNCHANGED <<transport, mu, closer, wire, taken, arrived, pos, up, hand, down, got, main, shell, unread>>

\* Some of the bytes on their way arrive.
Deliver(n) ==
    /\ ~ended /\ arrived < Len(Inbound)
    /\ arrived' = Min({arrived + n, Len(Inbound)})
    /\ UNCHANGED <<transport, mu, closer, wire, taken, sent, pos, up, hand, down, got, main, shell, unread>>

PeerTakes ==
    /\ ~ended /\ taken < Len(wire)
    /\ taken' = Len(wire)
    /\ UNCHANGED <<transport, mu, closer, wire, sent, arrived, pos, up, hand, down, got, main, shell, unread>>

\* The peer, or the relay, closes the connection or it breaks; what has not
\* arrived is lost.
End ==
    /\ conn # "none" /\ ~ended
    /\ ended' = TRUE
    /\ UNCHANGED <<conn, mode, running, mu, closer, wire, peer, pos, up, hand, down, got, main, shell, unread>>

-----------------------------------------------------------------------------
(* The shell behind its PTY.                                               *)

\* The shell of s prints its next byte: 10 * s + 1, 10 * s + 2, ...
Prints(s) ==
    /\ s \in running /\ alive[s] /\ Len(printed[s]) < MaxOutput[s]
    /\ printed' = [printed EXCEPT ![s] = Append(@, (10 * s + Len(@) + 1) % 256)]
    /\ unread' = [unread EXCEPT ![s] = @ + 1]
    /\ UNCHANGED <<transport, mu, closer, wire, peer, pos, up, hand, down, got, main, alive, closed, typed>>

\* The shell process exits by itself.
Exits(s) ==
    /\ s \in running /\ alive[s]
    /\ alive' = [alive EXCEPT ![s] = FALSE]
    /\ UNCHANGED <<transport, mu, closer, wire, peer, pos, up, hand, down, got, main, closed, printed, typed, unread>>

\* ShellSession.Close: a second call returns at once; otherwise it hangs up
\* the process, closes the PTY and waits for the process.
ShellClosed(s) ==
    /\ closed' = [closed EXCEPT ![s] = TRUE]
    /\ alive' = [alive EXCEPT ![s] = FALSE]
    /\ UNCHANGED <<printed, typed>>

\* The user of the session closes the shell while the proxy runs.
CallShellClose(s) ==
    /\ s \in running /\ ~closed[s]
    /\ ShellClosed(s)
    /\ UNCHANGED <<transport, mu, closer, wire, peer, pos, up, hand, down, got, main, unread>>

-----------------------------------------------------------------------------
(* Shell -> transport.                                                     *)

UpDone(s) == up' = [up EXCEPT ![s] = "done"]

\* shell.Read returns what waits in the PTY, up to the size of the buffer.
\* The frame that is made of it is never too long.
UpRead(s) ==
    LET n == Min({unread[s], MaxPayloadSize})
        payload == SubSeq(printed[s], Len(printed[s]) - unread[s] + 1,
                                      Len(printed[s]) - unread[s] + n)
    IN  /\ s \in running /\ up[s] = "read" /\ ~closed[s] /\ unread[s] > 0
        /\ unread' = [unread EXCEPT ![s] = @ - n]
        /\ \/ /\ mode = "frames"
              /\ up' = [up EXCEPT ![s] = "lock"]
              /\ hand' = [hand EXCEPT ![s] = MarshalBinary(
                     [stream |-> s, type |-> FrameData, payload |-> payload])]
           \/ /\ mode = "raw"
              /\ up' = [up EXCEPT ![s] = "write"]
              /\ hand' = [hand EXCEPT ![s] = payload]
        /\ UNCHANGED <<transport, mu, closer, wire, peer, pos, down, got, main, shell>>

\* Mutant: the end of the process is not taken for an error.
UpReadFailsIfClosed(s) ==
    /\ s \in running /\ up[s] = "read"
    /\ closed[s]
    /\ UpDone(s)
    /\ UNCHANGED <<transport, mu, closer, wire, peer, pos, hand, down, got, main, shell, unread>>

\* shell.Read fails: the PTY is closed, or the process is gone and all it
\* printed has been read.
UpReadFails(s) ==
    /\ s \in running /\ up[s] = "read"
    /\ closed[s] \/ (~alive[s] /\ unread[s] = 0)
    /\ UpDone(s)
    /\ UNCHANGED <<transport, mu, closer, wire, peer, pos, hand, down, got, main, shell, unread>>

\* Mutant: WriteFrame does not take the lock.
WriteFrameUnlocked(s) ==
    /\ s \in running /\ up[s] = "lock"
    /\ up' = [up EXCEPT ![s] = "write"] /\ mu' = mu
    /\ hand' = [hand EXCEPT ![s] = MarshalBinary(UnmarshalBinary(@))]
    /\ UNCHANGED <<transport, closer, wire, peer, pos, down, got, main, shell, unread>>

\* WriteFrame takes rt.mu, decodes the frame and encodes it again.
WriteFrame(s) ==
    /\ s \in running /\ up[s] = "lock" /\ mu = Free
    /\ up' = [up EXCEPT ![s] = "write"] /\ mu' = s
    /\ hand' = [hand EXCEPT ![s] = MarshalBinary(UnmarshalBinary(@))]
    /\ UNCHANGED <<transport, closer, wire, peer, pos, down, got, main, shell, unread>>

Unlock(s) == mu' = IF mu = s THEN Free ELSE mu

\* conn.Write writes as much as fits and goes on until all is written.  The
\* kernel may take some bytes after the end, before it knows; they are lost.
UpWrite(s) ==
    LET n == Min({Len(hand[s]), Window - (Len(wire) - taken)})
        rest == SubSeq(hand[s], n + 1, Len(hand[s]))
    IN  /\ s \in running /\ up[s] = "write" /\ conn = "open" /\ n > 0
        /\ wire' = IF ended THEN wire ELSE wire \o SubSeq(hand[s], 1, n)
        /\ hand' = [hand EXCEPT ![s] = rest]
        /\ IF rest = <<>>
           THEN up' = [up EXCEPT ![s] = "read"] /\ Unlock(s)
           ELSE UNCHANGED <<up, mu>>
        /\ UNCHANGED <<transport, closer, peer, pos, down, got, main, shell, unread>>

\* Mutant: a failed write leaves rt.mu locked.
UpWriteFailsLocked(s) ==
    /\ s \in running /\ up[s] = "write"
    /\ conn = "closed" \/ ended
    /\ UpDone(s) /\ mu' = mu
    /\ UNCHANGED <<transport, closer, wire, peer, pos, hand, down, got, main, shell, unread>>

\* The write fails; rt.mu is released.
UpWriteFails(s) ==
    /\ s \in running /\ up[s] = "write"
    /\ conn = "closed" \/ ended
    /\ UpDone(s) /\ Unlock(s)
    /\ UNCHANGED <<transport, closer, wire, peer, pos, hand, down, got, main, shell, unread>>

-----------------------------------------------------------------------------
(* Transport -> shell.                                                     *)

DownDone(s) == down' = [down EXCEPT ![s] = "done"]

\* One Read of the connection inside ReadFrame, which takes no lock: as many
\* bytes as have arrived, and at most what ReadFrom still wants.  Then the
\* header is refused, the frame complete, or ReadFrom reads on.
DownRead(s) ==
    LET n == Min({Wanted(got[s]), arrived - pos})
        g == got[s] \o SubSeq(Inbound, pos + 1, pos + n)
    IN  /\ s \in running /\ mode = "frames" /\ down[s] = "read"
        /\ conn = "open" /\ n > 0
        /\ pos' = pos + n
        /\ got' = [got EXCEPT ![s] = g]
        /\ down' = [down EXCEPT ![s] = IF Refuses(g) THEN "done"
                                       ELSE IF Wanted(g) = 0 THEN "frame"
                                       ELSE "read"]
        /\ UNCHANGED <<transport, mu, closer, wire, peer, up, hand, main, shell, unread>>

\* io.Copy in mode "raw" reads what has arrived.
DownReadRaw(s) ==
    /\ s \in running /\ mode = "raw" /\ down[s] = "read"
    /\ conn = "open" /\ pos < arrived
    /\ pos' = arrived
    /\ got' = [got EXCEPT ![s] = SubSeq(Inbound, pos + 1, arrived)]
    /\ down' = [down EXCEPT ![s] = "frame"]
    /\ UNCHANGED <<transport, mu, closer, wire, peer, up, hand, main, shell, unread>>

\* The read fails, with or without bytes that had arrived before the end.
DownReadFails(s) ==
    /\ s \in running /\ down[s] = "read"
    /\ conn = "closed" \/ ended
    /\ DownDone(s)
    /\ UNCHANGED <<transport, mu, closer, wire, peer, pos, up, hand, got, main, shell, unread>>

\* Mutant: the type of the frame is not compared.
ForShellAnyType(s) == mode = "frames" => UnmarshalBinary(got[s]).stream = s

\* The data read is for this shell.
ForShell(s) ==
    mode = "frames" =>
        /\ UnmarshalBinary(got[s]).stream = s
        /\ UnmarshalBinary(got[s]).type = FrameData

Data(s) == IF mode = "raw" THEN got[s] ELSE UnmarshalBinary(got[s]).payload

\* A frame for another stream, or of another type, is dropped.
DownDrop(s) ==
    /\ s \in running /\ down[s] = "frame" /\ ~ForShell(s)
    /\ down' = [down EXCEPT ![s] = "read"] /\ got' = [got EXCEPT ![s] = <<>>]
    /\ UNCHANGED <<transport, mu, closer, wire, peer, pos, up, hand, main, shell, unread>>

\* shell.Write; it fails when the process is gone or the PTY closed.
DownWrite(s) ==
    /\ s \in running /\ down[s] = "frame" /\ ForShell(s)
    /\ got' = [got EXCEPT ![s] = <<>>]
    /\ \/ /\ alive[s]
          /\ typed' = [typed EXCEPT ![s] = @ \o Data(s)]
          /\ down' = [down EXCEPT ![s] = "read"]
       \/ /\ ~alive[s]
          /\ DownDone(s)
          /\ UNCHANGED typed
    /\ UNCHANGED <<transport, mu, closer, wire, peer, pos, up, hand, main, alive, closed, printed, unread>>

-----------------------------------------------------------------------------
\* wg.Wait returns; ProxyDataFrames closes the shell, Pipe and ProxyData do
\* not.  Both goroutines have left an error, so the loop over errCh, which
\* ProxyDataFrames never closes, returns.
ProxyReturns(s) ==
    /\ s \in running /\ main[s] = "wait" /\ up[s] = "done" /\ down[s] = "done"
    /\ main' = [main EXCEPT ![s] = "returned"]
    /\ IF mode = "frames" THEN ShellClosed(s) ELSE UNCHANGED shell
    /\ UNCHANGED <<transport, mu, closer, wire, peer, pos, up, hand, down, got, unread>>

Goroutines(s) ==
    \/ UpRead(s) \/ UpReadFails(s) \/ WriteFrame(s) \/ UpWrite(s) \/ UpWriteFails(s)
    \/ DownRead(s) \/ DownReadRaw(s) \/ DownReadFails(s) \/ DownDrop(s) \/ DownWrite(s)
    \/ ProxyReturns(s)

Next ==
    \/ \E S \in SUBSET Streams \ {{}}, m \in {"frames", "raw"} : Open(S, m)
    \/ CallClose \/ Close \/ PeerTakes \/ End
    \/ \E f \in PeerFrames : PeerSends(f)
    \/ \E n \in Portions : Deliver(n)
    \/ \E s \in Streams :
          \/ Prints(s) \/ Exits(s) \/ CallShellClose(s)
          \/ Goroutines(s)

Spec == Init /\ [][Next]_vars

\* Go runs every goroutine that can run, and sync.Mutex starves nobody.
\* Nothing is assumed of the shell, the peer and the network.
Fairness ==
    /\ SF_vars(Close)
    /\ \A s \in Streams :
          /\ WF_vars(UpRead(s) \/ UpReadFails(s) \/ UpWrite(s) \/ UpWriteFails(s))
          /\ SF_vars(WriteFrame(s))
          /\ WF_vars(DownRead(s) \/ DownReadRaw(s) \/ DownReadFails(s) \/ DownDrop(s) \/ DownWrite(s))
          /\ WF_vars(ProxyReturns(s))

FairSpec == Spec /\ Fairness
-----------------------------------------------------------------------------
(* Properties.                                                             *)

\* What a frame, and a sequence of frames, carries for stream s.
Payload(f, s) == IF f.stream = s /\ f.type = FrameData THEN f.payload ELSE <<>>

Payloads(frames, s) == FlattenSeq([i \in 1..Len(frames) |-> Payload(frames[i], s)])

\* What a receiver of all that was written gets for stream s.
Output(s) == IF mode = "frames" THEN Payloads(Decoded(wire), s) ELSE wire

\* The output that the proxy has read from the shell.
Fetched(s) == SubSeq(printed[s], 1, Len(printed[s]) - unread[s])

\* Every stream's output gets to the peer as the shell printed it, whatever
\* the other proxies on the transport write and wherever a write is cut into
\* pieces: nothing is reordered or mixed up, nothing is missing when the
\* goroutine reads on (WriteFrame, tunnel/relay.go; ProxyDataFrames), and
\* nothing of what a shell printed last is lost when it exits.
OutputIntact ==
    \A s \in running :
        /\ IsPrefix(Output(s), Fetched(s))
        /\ up[s] = "read" /\ ~ended => Output(s) = Fetched(s)
        /\ up[s] = "done" /\ ~closed[s] /\ conn = "open" /\ ~ended => Output(s) = printed[s]

\* The shell of s gets the data for its stream, in whole frames and in order,
\* and all of it once everything has been read.
InputIntact(s) ==
    /\ IF mode = "frames"
       THEN \E n \in 0..Len(sent) : typed[s] = Payloads(SubSeq(sent, 1, n), s)
       ELSE IsPrefix(typed[s], Inbound)
    /\ down[s] = "read" /\ got[s] = <<>> /\ pos = Len(Inbound) =>
           typed[s] = IF mode = "frames" THEN Payloads(sent, s) ELSE Inbound

\* A proxy that has the transport for itself types into the shell exactly the
\* data of its stream, though frames arrive in pieces, may be too long, may be
\* for others, and the connection may end in the middle of one (ReadFrom,
\* protocol/frame.go; ProxyDataFrames, Pipe).
InputIntactIfAlone == Cardinality(running) = 1 => \A s \in running : InputIntact(s)

\* "wraps raw data in protocol.Frame objects for multiplexed transport"
\* (ProxyDataFrames, agent/tunnel.go:150): the same for several proxies.  It
\* does not hold: each proxy reads, and drops, the frames of the others.
InputIntactMultiplexed == \A s \in running : InputIntact(s)

\* A proxy returns, and with it its shell is closed, once the shell has ended
\* and the connection has, in whatever place its goroutines and those of the
\* other proxies were then (ProxyDataFrames, Pipe).
ProxyEnds ==
    \A s \in Streams :
        (s \in running /\ ~alive[s] /\ (conn = "closed" \/ ended)) ~> (main[s] = "returned")

\* "Blocks until one side closes or an error occurs." (ShellSession.Pipe,
\* shell.go:107).  It does not hold: Pipe waits for both directions.
ProxyEndsWithOneSide ==
    \A s \in Streams : (up[s] = "done" \/ down[s] = "done") ~> (main[s] = "returned")

\* RelayTransport.Close returns though it has to wait for the writers, if the
\* peer keeps reading or the connection ends (Close and WriteFrame,
\* tunnel/relay.go).
CloseReturnsIfTaken ==
    []<>(taken = Len(wire) \/ ended) => (closer = "want") ~> (closer = "done")

\* "Close closes the relay connection." (tunnel/relay.go:54).  It does not
\* hold: it waits for a WriteFrame that waits for a peer that does not read.
CloseReturns == (closer = "want") ~> (closer = "done")
============================================================================
