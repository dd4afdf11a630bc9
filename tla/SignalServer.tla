---------------------------- MODULE SignalServer ----------------------------
(***************************************************************************)
(* The signaling server (internal/signal): for every WebSocket connection  *)
(* a goroutine that reads and handles messages, then cleans up             *)
(* (handleWebSocket, readPump, Handler), and a goroutine that writes       *)
(* (writePump).  They share the hub and the session table.                 *)
(*                                                                         *)
(* pc[c] is the place of the reading goroutine between two critical        *)
(* sections, and req[c] what its handler carries from one to the next:     *)
(*   read        blocked in ReadMessage                                    *)
(*   beat        handleHeartbeat has read client.DeviceID                  *)
(*   route       handleConnectRequest, before RouteToDevice                *)
(*   offline     the device could not be reached, before RejectSession     *)
(*   peer        before GetPeer in RouteToPeer                             *)
(*   send        RouteToPeer holds the peer, and no lock, before its send  *)
(*   close       handleDisconnect, before CloseSession                     *)
(*   reply       before the handler's send to its own client               *)
(*   remove      ReadMessage failed, before RemoveClientSessions           *)
(*   unregister  before UnregisterClient                                   *)
(*   gone        the handler has returned                                  *)
(*   panicked    it sent on a closed channel: net/http recovers the panic, *)
(*               readPump's deferred Conn.Close has run, the clean-up of   *)
(*               handleWebSocket has not                                   *)
(*                                                                         *)
(* The clients are the environment.  An app names sessions it created; an  *)
(* agent connection registers one device and names sessions it was asked   *)
(* for.  Otherwise they may send what they like, in any order, repeatedly. *)
(***************************************************************************)
EXTENDS SessionManager

CONSTANTS
    DeviceOf,  \* the device an agent connection registers
    Answers,   \* the values of "accepted" that agents answer with
    Inputs     \* the kinds of messages that clients send

ASSUME DeviceOfAssumption == DeviceOf \in [Agents -> Devices]
ASSUME AnswersAssumption == Answers \subseteq BOOLEAN

VARIABLES
    pc,      \* the reading goroutine of each connection
    req,     \* what its handler carries along
    up,      \* does the connection carry data?
    writer,  \* the writing goroutine: "none", "run" or "gone"
    told     \* the sessions an agent was delivered a connect request for

conn == <<pc, req, up, writer, told>>
vars == <<second, id, send, closed, registry, table, conn>>

Places == {"none", "read", "beat", "route", "offline", "peer", "send", "close",
           "reply", "remove", "unregister", "gone", "panicked"}

Request == [type : MessageTypes \cup {"none"}, sid : SessionIDs \cup {Nil},
            dev : Devices \cup {Nil}, peer : Clients \cup {Nil}]

NoRequest == [type |-> "none", sid |-> Nil, dev |-> Nil, peer |-> Nil]

Goto(c, place) == pc' = [pc EXCEPT ![c] = place]

Carry(c, r) == req' = [req EXCEPT ![c] = r]

\* The connection was closed locally: nothing can be written any more.
ConnClosed(c) == pc[c] \in {"remove", "unregister", "gone", "panicked"}

\* The sessions a client may name in a message.
Knows(c, s) == initiator[s] = c \/ (c \in Agents /\ s \in told[c])

\* Send on a channel that may have been closed: the goroutine panics.
Panic(c) ==
    /\ Goto(c, "panicked")
    /\ Carry(c, NoRequest)
    /\ up' = [up EXCEPT ![c] = FALSE]

----------------------------------------------------------------------------
Init ==
    /\ HubInit
    /\ SessionInit
    /\ pc = [c \in Clients |-> "none"]
    /\ req = [c \in Clients |-> NoRequest]
    /\ up = [c \in Clients |-> FALSE]
    /\ writer = [c \in Clients |-> "none"]
    /\ told = [c \in Agents |-> {}]

Tick ==
    /\ second < MaxSecond
    /\ second' = second + 1
    /\ UNCHANGED <<id, send, closed, registry, table, conn>>

\* handleWebSocket up to readPump.
Connect(c) ==
    /\ pc[c] = "none"
    /\ RegisterClient(c)
    /\ Goto(c, "read")
    /\ up' = [up EXCEPT ![c] = TRUE]
    /\ writer' = [writer EXCEPT ![c] = "run"]
    /\ UNCHANGED <<second, send, closed, table, req, told>>

\* The peer closes the connection, the network fails, or the client stops
\* reading until the write deadline passes.
Break(c) ==
    /\ up[c]
    /\ up' = [up EXCEPT ![c] = FALSE]
    /\ UNCHANGED <<second, id, send, closed, registry, table, pc, req, writer, told>>

----------------------------------------------------------------------------
\* HandleMessage: one action per kind of message.

\* handleRegister; an app's registration leaves no trace.
Register(c) ==
    /\ pc[c] = "read"
    /\ \/ c \in Agents /\ RegisterDevice(c, DeviceOf[c])
       \/ c \in Apps /\ UNCHANGED registry
    /\ Goto(c, "reply")
    /\ Carry(c, [NoRequest EXCEPT !.type = "register_ack"])
    /\ UNCHANGED <<second, id, send, closed, table, up, writer, told>>

\* handleHeartbeat reads client.DeviceID before it enters the hub.
Heartbeat(c) ==
    /\ pc[c] = "read"
    /\ Goto(c, "beat")
    /\ Carry(c, [NoRequest EXCEPT !.type = "heartbeat_ack", !.dev = deviceID[c]])
    /\ UNCHANGED <<second, id, send, closed, registry, table, up, writer, told>>

Beat(c) ==
    /\ pc[c] = "beat"
    /\ UpdateHeartbeat(req[c].dev)
    /\ Goto(c, "reply")
    /\ UNCHANGED <<second, id, send, closed, table, req, up, writer, told>>

\* An invalid payload or a type HandleMessage does not know.
BadMessage(c) ==
    /\ pc[c] = "read"
    /\ Goto(c, "reply")
    /\ Carry(c, [NoRequest EXCEPT !.type = "error"])
    /\ UNCHANGED <<second, id, send, closed, registry, table, up, writer, told>>

\* handleConnectRequest up to RouteToDevice.
ConnectRequest(c, s, d) ==
    /\ pc[c] = "read"
    /\ c \in Apps
    /\ status[s] = "none"
    /\ CreateSession(s, c, d)
    /\ Goto(c, "route")
    /\ Carry(c, [NoRequest EXCEPT !.type = "connect_request", !.sid = s, !.dev = d])
    /\ UNCHANGED <<second, id, send, closed, registry, up, writer, told>>

\* Mutant: any agent will do when the device is not there.
RouteToSomeDevice(c) ==
    /\ pc[c] = "route"
    /\ \E a \in {byDevice[d] : d \in devices} :
          /\ TrySend(a, [type |-> "connect_request", sid |-> req[c].sid])
          /\ Goto(c, "read") /\ Carry(c, NoRequest)
    /\ UNCHANGED <<second, id, closed, registry, table, up, writer, told>>

\* Mutant: a message dropped at a full buffer counts as sent.
RouteToDeviceQuietly(c) ==
    /\ pc[c] = "route"
    /\ LET a == byDevice[req[c].dev]
       IN  IF a = Nil
           THEN Goto(c, "offline") /\ UNCHANGED <<send, req>>
           ELSE /\ TrySend(a, [type |-> "connect_request", sid |-> req[c].sid])
                /\ Goto(c, "read") /\ Carry(c, NoRequest)
    /\ UNCHANGED <<second, id, closed, registry, table, up, writer, told>>

\* RouteToDevice, which sends while it holds the hub's lock.
RouteToDevice(c) ==
    /\ pc[c] = "route"
    /\ LET r == req[c]
           a == byDevice[r.dev]
       IN  IF a = Nil
           THEN Goto(c, "offline") /\ UNCHANGED <<send, req, up>>
           ELSE IF closed[a]
           THEN Panic(c) /\ UNCHANGED send
           ELSE /\ TrySend(a, [type |-> "connect_request", sid |-> r.sid])
                /\ IF Full(a)
                   THEN Goto(c, "offline") /\ UNCHANGED req
                   ELSE Goto(c, "read") /\ Carry(c, NoRequest)
                /\ UNCHANGED up
    /\ UNCHANGED <<second, id, closed, registry, table, writer, told>>

\* The device is offline: the session is marked, the app gets an error.
Offline(c) ==
    /\ pc[c] = "offline"
    /\ RejectSession(req[c].sid)
    /\ Goto(c, "reply")
    /\ Carry(c, [NoRequest EXCEPT !.type = "error"])
    /\ UNCHANGED <<second, id, send, closed, registry, up, writer, told>>

\* handleConnectResponse up to RouteToPeer.
ConnectResponse(c, s, accepted) ==
    /\ pc[c] = "read"
    /\ c \in Agents /\ s \in told[c]
    /\ IF accepted THEN AcceptSession(s, c) ELSE RejectSession(s)
    /\ Goto(c, "peer")
    /\ Carry(c, [NoRequest EXCEPT !.type = "connect_response", !.sid = s])
    /\ UNCHANGED <<second, id, send, closed, registry, up, writer, told>>

\* handleSDPOffer, handleSDPAnswer, handleICECandidate and
\* handleTransportNegotiate differ in the payload only.
Forward(c, s) ==
    /\ pc[c] = "read"
    /\ Knows(c, s)
    /\ Goto(c, "peer")
    /\ Carry(c, [NoRequest EXCEPT !.type = "forward", !.sid = s])
    /\ UNCHANGED <<second, id, send, closed, registry, table, up, writer, told>>

\* handleDisconnect up to RouteToPeer.
Disconnect(c, s) ==
    /\ pc[c] = "read"
    /\ Knows(c, s)
    /\ Goto(c, "peer")
    /\ Carry(c, [NoRequest EXCEPT !.type = "disconnect", !.sid = s])
    /\ UNCHANGED <<second, id, send, closed, registry, table, up, writer, told>>

\* What a handler does after RouteToPeer, which delivered the message or not.
AfterRoute(c, delivered) ==
    CASE req[c].type = "connect_response" /\ ~delivered ->
            Goto(c, "reply") /\ Carry(c, [NoRequest EXCEPT !.type = "error"])
      [] req[c].type = "disconnect" ->
            Goto(c, "close") /\ Carry(c, [req[c] EXCEPT !.peer = Nil])
      [] OTHER ->
            Goto(c, "read") /\ Carry(c, NoRequest)

\* RouteToPeer, first half: the peer, looked up under the table's lock.
FindPeer(c) ==
    /\ pc[c] = "peer"
    /\ LET p == GetPeer(req[c].sid, c)
       IN  IF p = Nil
           THEN AfterRoute(c, FALSE)
           ELSE Goto(c, "send") /\ Carry(c, [req[c] EXCEPT !.peer = p])
    /\ UNCHANGED <<second, id, send, closed, registry, table, up, writer, told>>

\* RouteToPeer, second half: the send, under no lock.
SendPeer(c) ==
    /\ pc[c] = "send"
    /\ LET r == req[c]
       IN  IF closed[r.peer]
           THEN Panic(c) /\ UNCHANGED send
           ELSE /\ TrySend(r.peer, [type |-> r.type, sid |-> r.sid])
                /\ AfterRoute(c, ~Full(r.peer))
                /\ UNCHANGED up
    /\ UNCHANGED <<second, id, closed, registry, table, writer, told>>

Close(c) ==
    /\ pc[c] = "close"
    /\ CloseSession(req[c].sid)
    /\ Goto(c, "read")
    /\ Carry(c, NoRequest)
    /\ UNCHANGED <<second, id, send, closed, registry, up, writer, told>>

\* The acknowledgement or error a handler sends to its own client, whose
\* Send channel only this goroutine closes, later.
Reply(c) ==
    /\ pc[c] = "reply"
    /\ TrySend(c, [type |-> req[c].type, sid |-> Nil])
    /\ Goto(c, "read")
    /\ Carry(c, NoRequest)
    /\ UNCHANGED <<second, id, closed, registry, table, up, writer, told>>

----------------------------------------------------------------------------
\* The end of a connection.

\* ReadMessage fails, at the latest when the read deadline passes, which
\* only pongs extend.
ReadError(c) ==
    /\ pc[c] = "read"
    /\ ~up[c]
    /\ Goto(c, "remove")
    /\ UNCHANGED <<second, id, send, closed, registry, table, req, up, writer, told>>

Remove(c) ==
    /\ pc[c] = "remove"
    /\ RemoveClientSessions(id[c])
    /\ Goto(c, "unregister")
    /\ UNCHANGED <<second, id, send, closed, registry, req, up, writer, told>>

Unregister(c) ==
    /\ pc[c] = "unregister"
    /\ UnregisterClient(c)
    /\ Goto(c, "gone")
    /\ UNCHANGED <<second, id, send, table, req, up, writer, told>>

----------------------------------------------------------------------------
\* writePump.

\* A write succeeds; it reaches the client if the connection still works.
Write(c) ==
    /\ writer[c] = "run" /\ send[c] # <<>> /\ ~ConnClosed(c)
    /\ LET m == Head(send[c])
       IN  told' = IF c \in Agents /\ up[c] /\ m.type = "connect_request"
                   THEN [told EXCEPT ![c] = @ \cup {m.sid}] ELSE told
    /\ send' = [send EXCEPT ![c] = Tail(@)]
    /\ UNCHANGED <<second, id, closed, registry, table, pc, req, up, writer>>

\* Mutant: write and ping errors are ignored.
WriterExitOnClose(c) ==
    /\ writer[c] = "run"
    /\ closed[c] /\ send[c] = <<>>
    /\ writer' = [writer EXCEPT ![c] = "gone"]
    /\ UNCHANGED <<second, id, send, closed, registry, table, pc, req, up, told>>

\* The write of a message or of a ping fails, or Send is closed and drained.
WriterExit(c) ==
    /\ writer[c] = "run"
    /\ \/ ~up[c]
       \/ closed[c] /\ send[c] = <<>>
    /\ writer' = [writer EXCEPT ![c] = "gone"]
    /\ send' = [send EXCEPT ![c] = IF @ = <<>> THEN @ ELSE Tail(@)]
    /\ UNCHANGED <<second, id, closed, registry, table, pc, req, up, told>>

----------------------------------------------------------------------------
\* Messages arrive when clients choose to send them.
Receive(c) ==
    \/ (c \in Agents \/ "register" \in Inputs) /\ Register(c)
    \/ "heartbeat" \in Inputs /\ Heartbeat(c)
    \/ "invalid" \in Inputs /\ BadMessage(c)
    \/ \E s \in SessionIDs, d \in Devices : ConnectRequest(c, s, d)
    \/ \E s \in SessionIDs, accepted \in Answers : ConnectResponse(c, s, accepted)
    \/ "forward" \in Inputs /\ \E s \in SessionIDs : Forward(c, s)
    \/ "disconnect" \in Inputs /\ \E s \in SessionIDs : Disconnect(c, s)

\* A handler that has started runs to its end.
Handle(c) ==
    \/ Beat(c) \/ RouteToDevice(c) \/ Offline(c)
    \/ FindPeer(c) \/ SendPeer(c) \/ Close(c) \/ Reply(c)
    \/ Remove(c) \/ Unregister(c)

Next ==
    \/ Tick
    \/ \E c \in Clients :
          \/ Connect(c) \/ Break(c) \/ Receive(c) \/ Handle(c)
          \/ ReadError(c) \/ Write(c) \/ WriterExit(c)

Spec == Init /\ [][Next]_vars

\* The goroutines run; a read on a broken connection fails at the deadline
\* however much the client sent before; a write completes or, at its deadline
\* at the latest, fails.
Fairness ==
    \A c \in Clients :
       /\ WF_vars(Handle(c))
       /\ SF_vars(ReadError(c))
       /\ WF_vars(Write(c))
       /\ WF_vars(WriterExit(c))

FairSpec == Spec /\ Fairness
----------------------------------------------------------------------------
\* Correctness.

ConnTypeOK ==
    /\ pc \in [Clients -> Places]
    /\ req \in [Clients -> Request]
    /\ up \in [Clients -> BOOLEAN]
    /\ writer \in [Clients -> {"none", "run", "gone"}]
    /\ told \in [Agents -> SUBSET SessionIDs]

\* Every variable has the type its Go declaration and its use give it, and no
\* Send channel holds more than the SendBufferSize messages it was made for.
TypeOK ==
    /\ HubTypeOK
    /\ SessionTypeOK
    /\ ConnTypeOK
    /\ \A c \in Clients : Len(send[c]) <= SendBufferSize

\* RegisterDevice and UnregisterClient keep the two device maps and the
\* DeviceID fields of the clients in step, however connections of one device
\* overlap: a device that is looked up is served by a client whose Send is
\* open (so RouteToDevice cannot panic), and of all connections that have not
\* finished only that one would unregister the device when it ends.
RegistryConsistent ==
    /\ \A d \in Devices :
          /\ d \in devices <=> byDevice[d] # Nil
          /\ byDevice[d] # Nil => /\ deviceID[byDevice[d]] = d
                                  /\ ~closed[byDevice[d]]
          /\ registered[d] <= lastSeen[d] /\ lastSeen[d] <= second
    /\ \A c \in Clients :
          deviceID[c] # Nil /\ pc[c] # "gone" => byDevice[deviceID[c]] = c

\* The connection has passed RemoveClientSessions.
Left(c) == pc[c] \in {"unregister", "gone"}

\* A session in the table never refers to a client that has cleaned up after
\* itself: AcceptSession and CreateSession index every party, so that
\* RemoveClientSessions finds the session from either end, also when client
\* IDs collide.
SessionPeersPresent ==
    \A s \in sessions :
       /\ ~Left(initiator[s])
       /\ responder[s] # Nil => ~Left(responder[s])

\* The index does not leak: sessions are kept under an ID only as long as a
\* connection with that ID has not been through RemoveClientSessions.
IndexOwned ==
    \A i \in IDs : byClient[i] # {} =>
       \E c \in Clients : id[c] = i /\ pc[c] # "none" /\ ~Left(c)

\* The agent connection that ends up as the responder of a session belongs
\* to the device the app asked for.
ResponderServesDevice ==
    \A s \in SessionIDs :
       responder[s] # Nil => DeviceOf[responder[s]] = target[s]

\* Handling an agent's answer whose session is still in the table.
Answering(c) ==
    pc[c] = "peer" /\ req[c].type = "connect_response" /\ req[c].sid \in sessions

\* Once an acceptance of the session has been recorded, RouteToPeer finds the
\* app that initiated the connection, whatever else happened to the session
\* meanwhile, provided agent and app were not given the same ID: no other
\* connection of the device can have taken the session over.
AcceptanceReachesInitiator ==
    \A c \in Agents :
       LET s == req[c].sid
       IN  Answering(c) /\ responder[s] # Nil /\ id[c] # id[initiator[s]]
             => GetPeer(s, c) = initiator[s]

\* handleConnectResponse: "Route response back to the app that initiated the
\* connection", and so also when the agent rejects it.
AnswerReachesInitiator ==
    \A c \in Agents :
       LET s == req[c].sid
       IN  Answering(c) /\ id[c] # id[initiator[s]]
             => GetPeer(s, c) = initiator[s]

\* RemoveClientSessions: "removes all sessions associated with a client" that
\* is leaving, and no session of other clients.
LeavingKeepsOthers ==
    [][\A c \in Clients :
          Remove(c) => \A s \in sessions \ sessions' :
                          c \in {initiator[s], responder[s]}]_vars

\* The same, for a client that shares its ID with no other connection.
LeavingKeepsOthersIfUnique ==
    [][\A c \in Clients :
          Remove(c) /\ (\A e \in Clients \ {c} : pc[e] = "none" \/ id[e] # id[c])
             => \A s \in sessions \ sessions' :
                          c \in {initiator[s], responder[s]}]_vars

\* ListSessions of the REST API returns "all active sessions": the table
\* holds no session that was rejected or closed.
ListedSessionsActive ==
    \A s \in sessions : status[s] \notin {"rejected", "closed"}

\* The hub as a directory of devices: each entry of byDevice with its times,
\* and the agent connections whose handler has returned or panicked.
Directory == INSTANCE DeviceDirectory WITH
    Conns <- Agents, Owner <- DeviceOf, MaxTime <- MaxSecond,
    time <- second, server <- byDevice, since <- registered, seen <- lastSeen,
    ended <- {c \in Agents : pc[c] \in {"gone", "panicked"}}

\* RegisterDevice, UpdateHeartbeat and UnregisterClient, called by any number
\* of overlapping connections of a device, amount to a directory in which the
\* latest registration counts: no late clean-up takes down a successor, and no
\* late heartbeat brings a device back.
ImplementsDirectory == Directory!Spec

\* No write pump outlives its connection for ever, not even when the reading
\* goroutine panicked and Send is never closed.
WritersExit ==
    \A c \in Clients : pc[c] # "none" /\ ~up[c] ~> writer[c] = "gone"

\* A device whose connection broke goes offline, or is taken over by a newer
\* connection, unless the connection's handler panicked.
DeviceGoesOffline ==
    \A d \in Devices, c \in Agents :
       byDevice[d] = c /\ ~up[c] ~> byDevice[d] # c \/ pc[c] = "panicked"

\* A connection request does not get lost between handleConnectRequest,
\* RouteToDevice and the agent's write pump, full buffers included: a pending
\* session comes before an agent of its device, or ceases to be pending, unless
\* a connection of that device broke or the app's handler panicked.  (Once an
\* agent's connection has broken, the session stays pending and the app is told
\* nothing.)
RequestSettled ==
    \A s \in SessionIDs :
       status[s] = "pending" ~>
          \/ status[s] # "pending"
          \/ pc[initiator[s]] = "panicked"
          \/ \E a \in Agents : DeviceOf[a] = target[s] /\ pc[a] # "none"
                               /\ (s \in told[a] \/ ~up[a])

\* The REST API on the hub's devices: "If it's in the hub, it's online", so
\* that a device whose connection broke does not stay in the hub.
HubDevicesOnline ==
    \A d \in Devices, c \in Agents :
       byDevice[d] = c /\ ~up[c] ~> byDevice[d] # c
============================================================================
