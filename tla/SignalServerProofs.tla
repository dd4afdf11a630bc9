------------------------- MODULE SignalServerProofs -------------------------
(***************************************************************************)
(* Invariants of the signaling server, for any number of connections,      *)
(* devices and sessions, any buffer size and any clock bound.  The server  *)
(* implements the directory of devices: every step of it is one of the     *)
(* directory, or none; and what the REST API answers about a device is     *)
(* true of the directory.                                                  *)
(***************************************************************************)
EXTENDS DeviceAPI, TLAPS

----------------------------------------------------------------------------
\* The strengthenings.

\* A handler carries what its next step needs.
RequestOK ==
    \A c \in Clients :
       /\ pc[c] \in {"route", "offline", "peer", "send", "close"}
             => req[c].sid \in SessionIDs
       /\ pc[c] = "route" => req[c].dev \in Devices
       /\ pc[c] = "send" => req[c].peer \in Clients
       /\ pc[c] \in {"peer", "send"}
             => req[c].type \in {"connect_response", "forward", "disconnect"}
       /\ pc[c] \in {"beat", "reply"}
             => req[c].type \in {"register_ack", "heartbeat_ack", "error"}

\* Connect requests are queued for agents only, and name a session.
QueueOK ==
    \A c \in Clients : \A k \in 1 .. Len(send[c]) :
       send[c][k].type = "connect_request"
          => c \in Agents /\ send[c][k].sid \in SessionIDs

\* A listed session was created by an app.
CreatedOK == \A s \in sessions : initiator[s] \in Apps

TypeInv == TypeOK /\ RequestOK /\ QueueOK /\ CreatedOK

\* Send is closed at the very end of a connection, and only agents have a
\* device, the one they register.
ClosedAtEnd == \A c \in Clients : closed[c] <=> pc[c] = "gone"

DeviceOwn == \A c \in Clients : deviceID[c] # Nil => c \in Agents /\ deviceID[c] = DeviceOf[c]

RegistryInv == RegistryConsistent /\ ClosedAtEnd /\ DeviceOwn

\* A listed session is indexed under both its parties, which are there.
Indexed ==
    \A s \in sessions : \A c \in {initiator[s], responder[s]} \ {Nil} :
       s \in byClient[id[c]] /\ pc[c] # "none" /\ ~Left(c)

\* A connect request only ever travels towards its device.
OnTarget(c, s) == DeviceOf[c] = target[s] /\ status[s] # "none"

Targeted ==
    /\ \A c \in Clients : pc[c] = "route" =>
          target[req[c].sid] = req[c].dev /\ status[req[c].sid] # "none"
    /\ \A c \in Clients : \A k \in 1 .. Len(send[c]) :
          send[c][k].type = "connect_request" => OnTarget(c, send[c][k].sid)
    /\ \A c \in Agents : \A s \in told[c] : OnTarget(c, s)
    /\ \A s \in SessionIDs : status[s] = "none" => responder[s] = Nil

----------------------------------------------------------------------------
\* What the operations of the hub and of the session table preserve.

\* TrySend keeps every queue within its capacity and adds at most the message.
LEMMA TrySendType ==
  ASSUME HubTypeOK, NEW c \in Clients, NEW m \in Message, TrySend(c, m),
         \A a \in Clients : Len(send[a]) <= SendBufferSize
  PROVE  /\ send' \in [Clients -> Seq(Message)]
         /\ \A a \in Clients : Len(send'[a]) <= SendBufferSize
         /\ \A a \in Clients : \A k \in 1 .. Len(send'[a]) :
               \/ a = c /\ send'[a][k] = m
               \/ k \in 1 .. Len(send[a]) /\ send'[a][k] = send[a][k]
  BY BoundsAssumption DEF HubTypeOK, TrySend, Full

\* Taking the first message off a queue leaves messages of the queue.
LEMMA TailType ==
  ASSUME HubTypeOK, NEW c \in Clients, send[c] # <<>>,
         send' = [send EXCEPT ![c] = Tail(@)],
         \A a \in Clients : Len(send[a]) <= SendBufferSize
  PROVE  /\ send' \in [Clients -> Seq(Message)]
         /\ \A a \in Clients : Len(send'[a]) <= SendBufferSize
         /\ \A a \in Clients : \A k \in 1 .. Len(send'[a]) :
               \E j \in 1 .. Len(send[a]) : send'[a][k] = send[a][j]
<1>1. /\ Tail(send[c]) \in Seq(Message)
      /\ Len(Tail(send[c])) = Len(send[c]) - 1
      /\ \A k \in 1 .. Len(Tail(send[c])) :
            k + 1 \in 1 .. Len(send[c]) /\ Tail(send[c])[k] = send[c][k + 1]
  BY DEF HubTypeOK
<1>2. \A a \in Clients : send'[a] = IF a = c THEN Tail(send[c]) ELSE send[a]
  BY DEF HubTypeOK
<1>3. send' \in [Clients -> Seq(Message)]
  BY <1>1 DEF HubTypeOK
<1>4. \A a \in Clients : Len(send'[a]) <= SendBufferSize
  BY <1>1, <1>2, BoundsAssumption DEF HubTypeOK
<1>5. ASSUME NEW a \in Clients, NEW k \in 1 .. Len(send'[a])
      PROVE  \E j \in 1 .. Len(send[a]) : send'[a][k] = send[a][j]
  <2>1. CASE a = c BY <1>1, <1>2, <2>1
  <2>2. CASE a # c BY <1>2, <2>2
  <2>. QED BY <2>1, <2>2
<1>. QED BY <1>3, <1>4, <1>5

\* A registration keeps the types of the registry.
LEMMA RegisterDeviceType ==
  ASSUME HubTypeOK, NEW c \in Agents, NEW d \in Devices, RegisterDevice(c, d),
         UNCHANGED <<second, id, send, closed>>
  PROVE  HubTypeOK'
  BY DEF HubTypeOK, RegisterDevice

\* So does the end of a client, which closes its Send channel.
LEMMA UnregisterClientType ==
  ASSUME HubTypeOK, NEW c \in Clients, UnregisterClient(c),
         UNCHANGED <<second, id, send>>
  PROVE  HubTypeOK'
<1>1. 0 \in IDs BY BoundsAssumption DEF IDs
<1>. QED BY <1>1 DEF HubTypeOK, UnregisterClient

\* A session that is created has the app as its initiator and no responder.
LEMMA CreateSessionType ==
  ASSUME HubTypeOK, SessionTypeOK, NEW s \in SessionIDs, NEW c \in Apps,
         NEW d \in Devices, CreateSession(s, c, d)
  PROVE  SessionTypeOK'
  BY DEF HubTypeOK, SessionTypeOK, CreateSession, Clients, Statuses

\* An accepted session has the agent connection as its responder.
LEMMA AcceptSessionType ==
  ASSUME HubTypeOK, SessionTypeOK, NEW s \in SessionIDs, NEW c \in Agents,
         AcceptSession(s, c)
  PROVE  SessionTypeOK'
<1>1. CASE s \in sessions
  <2>1. id[c] \in IDs BY DEF HubTypeOK, Clients
  <2>. QED BY <1>1, <2>1 DEF SessionTypeOK, AcceptSession, Statuses
<1>2. CASE s \notin sessions
  BY <1>2 DEF SessionTypeOK, AcceptSession, table
<1>. QED BY <1>1, <1>2

\* Rejecting or closing a session changes its status only.
LEMMA MarkSessionType ==
  ASSUME SessionTypeOK, NEW s \in SessionIDs, NEW st \in Statuses,
         MarkSession(s, st)
  PROVE  SessionTypeOK' /\ sessions' = sessions /\ initiator' = initiator
  BY DEF SessionTypeOK, MarkSession

\* The sessions of a client that leaves are dropped from the table.
LEMMA RemoveClientSessionsType ==
  ASSUME SessionTypeOK, NEW i \in IDs, RemoveClientSessions(i)
  PROVE  SessionTypeOK'
  BY DEF SessionTypeOK, RemoveClientSessions, Statuses

\* GetPeer returns a party of the session or nothing.
LEMMA GetPeerType ==
  ASSUME SessionTypeOK, NEW s \in SessionIDs, NEW c \in Clients
  PROVE  GetPeer(s, c) \in Clients \cup {Nil}
  BY DEF SessionTypeOK, GetPeer, Clients

\* What follows RouteToPeer keeps the handler's state typed.
LEMMA AfterRouteType ==
  ASSUME ConnTypeOK, RequestOK, NEW c \in Clients, pc[c] \in {"peer", "send"},
         NEW b \in BOOLEAN, AfterRoute(c, b)
  PROVE  /\ pc' \in [Clients -> Places]
         /\ req' \in [Clients -> Request]
         /\ RequestOK'
<1>. USE DEF ConnTypeOK, RequestOK, Goto, Carry, Places, Request, NoRequest,
             MessageTypes
<1>1. CASE req[c].type = "connect_response" /\ ~b
  BY <1>1 DEF AfterRoute
<1>2. CASE req[c].type = "disconnect"
  BY <1>2 DEF AfterRoute
<1>3. CASE req[c].type # "disconnect" /\ (req[c].type = "connect_response" => b)
  <2>1. Goto(c, "read") /\ Carry(c, NoRequest)
    BY <1>3 DEF AfterRoute
  <2>. QED BY <2>1
<1>. QED BY <1>1, <1>2, <1>3

\* A panic leaves a typed handler behind.
LEMMA PanicType ==
  ASSUME ConnTypeOK, RequestOK, NEW c \in Clients, Panic(c),
         UNCHANGED <<writer, told>>
  PROVE  ConnTypeOK' /\ RequestOK'
<1>1. NoRequest \in Request BY DEF NoRequest, Request
<1>2. ConnTypeOK' BY <1>1 DEF ConnTypeOK, Panic, Goto, Carry, Places
<1>3. RequestOK' BY DEF ConnTypeOK, RequestOK, Panic, Goto, Carry
<1>. QED BY <1>2, <1>3

\* Actions that leave the queues and the table alone need to keep the types of
\* the registry and of the handlers only.
LEMMA TypeFrame ==
  ASSUME TypeInv, HubTypeOK', ConnTypeOK', RequestOK',
         UNCHANGED <<send, table>>
  PROVE  TypeInv'
  BY DEF TypeInv, TypeOK, QueueOK, CreatedOK, SessionTypeOK, table

\* Messages that come in.
LEMMA TypeReceive ==
  ASSUME TypeInv, NEW c \in Clients, Receive(c)
  PROVE  TypeInv'
<1>. USE DEF TypeInv, TypeOK
<1>1. CASE Register(c)
  <2>1. HubTypeOK'
    <3>1. CASE c \in Agents /\ RegisterDevice(c, DeviceOf[c])
      BY <1>1, <3>1, RegisterDeviceType, DeviceOfAssumption DEF Register
    <3>2. CASE UNCHANGED registry
      BY <1>1, <3>2 DEF Register, HubTypeOK, registry
    <3>. QED BY <1>1, <3>1, <3>2 DEF Register
  <2>2. ConnTypeOK' /\ RequestOK'
    BY <1>1 DEF Register, Goto, Carry, ConnTypeOK, RequestOK, Places, Request,
                NoRequest, MessageTypes
  <2>. QED BY <1>1, <2>1, <2>2, TypeFrame DEF Register
<1>2. CASE Heartbeat(c)
  <2>1. HubTypeOK' BY <1>2 DEF Heartbeat, HubTypeOK, registry
  <2>2. ConnTypeOK' /\ RequestOK'
    BY <1>2 DEF Heartbeat, Goto, Carry, HubTypeOK, ConnTypeOK, RequestOK, Places,
                Request, NoRequest, MessageTypes
  <2>. QED BY <1>2, <2>1, <2>2, TypeFrame DEF Heartbeat
<1>3. CASE BadMessage(c)
  <2>1. HubTypeOK' BY <1>3 DEF BadMessage, HubTypeOK, registry
  <2>2. ConnTypeOK' /\ RequestOK'
    BY <1>3 DEF BadMessage, Goto, Carry, ConnTypeOK, RequestOK, Places, Request,
                NoRequest, MessageTypes
  <2>. QED BY <1>3, <2>1, <2>2, TypeFrame DEF BadMessage
<1>4. ASSUME NEW s \in SessionIDs, NEW d \in Devices, ConnectRequest(c, s, d)
      PROVE  TypeInv'
  <2>1. HubTypeOK' BY <1>4 DEF ConnectRequest, HubTypeOK, registry
  <2>2. ConnTypeOK' /\ RequestOK'
    BY <1>4 DEF ConnectRequest, Goto, Carry, ConnTypeOK, RequestOK, Places,
                Request, NoRequest, MessageTypes
  <2>3. SessionTypeOK' BY <1>4, CreateSessionType DEF ConnectRequest
  <2>4. CreatedOK'
    BY <1>4 DEF ConnectRequest, CreateSession, CreatedOK, SessionTypeOK
  <2>. QED BY <1>4, <2>1, <2>2, <2>3, <2>4 DEF ConnectRequest, QueueOK
<1>5. ASSUME NEW s \in SessionIDs, NEW a \in BOOLEAN, ConnectResponse(c, s, a)
      PROVE  TypeInv'
  <2>1. HubTypeOK' BY <1>5 DEF ConnectResponse, HubTypeOK, registry
  <2>2. ConnTypeOK' /\ RequestOK'
    BY <1>5 DEF ConnectResponse, Goto, Carry, ConnTypeOK, RequestOK, Places,
                Request, NoRequest, MessageTypes
  <2>3. SessionTypeOK' /\ sessions' = sessions /\ initiator' = initiator
    <3>1. CASE a
      BY <1>5, <3>1, AcceptSessionType DEF ConnectResponse, AcceptSession, table
    <3>2. CASE ~a
      BY <1>5, <3>2, MarkSessionType DEF ConnectResponse, RejectSession, Statuses
    <3>. QED BY <3>1, <3>2
  <2>. QED BY <1>5, <2>1, <2>2, <2>3 DEF ConnectResponse, QueueOK, CreatedOK
<1>6. ASSUME NEW s \in SessionIDs, Forward(c, s)
      PROVE  TypeInv'
  <2>1. HubTypeOK' BY <1>6 DEF Forward, HubTypeOK, registry
  <2>2. ConnTypeOK' /\ RequestOK'
    BY <1>6 DEF Forward, Goto, Carry, ConnTypeOK, RequestOK, Places, Request,
                NoRequest, MessageTypes
  <2>. QED BY <1>6, <2>1, <2>2, TypeFrame DEF Forward
<1>7. ASSUME NEW s \in SessionIDs, Disconnect(c, s)
      PROVE  TypeInv'
  <2>1. HubTypeOK' BY <1>7 DEF Disconnect, HubTypeOK, registry
  <2>2. ConnTypeOK' /\ RequestOK'
    BY <1>7 DEF Disconnect, Goto, Carry, ConnTypeOK, RequestOK, Places, Request,
                NoRequest, MessageTypes
  <2>. QED BY <1>7, <2>1, <2>2, TypeFrame DEF Disconnect
<1>. QED BY <1>1, <1>2, <1>3, <1>4, <1>5, <1>6, <1>7, AnswersAssumption DEF Receive

\* A message that is queued is a message, and a connect request goes to an
\* agent.
LEMMA TypeQueued ==
  ASSUME TypeInv, NEW c \in Clients, NEW m \in Message, TrySend(c, m),
         m.type = "connect_request" => c \in Agents /\ m.sid \in SessionIDs,
         UNCHANGED <<second, id, closed, registry, table>>,
         ConnTypeOK', RequestOK'
  PROVE  TypeInv'
<1>. USE DEF TypeInv, TypeOK
<1>1. /\ send' \in [Clients -> Seq(Message)]
      /\ \A a \in Clients : Len(send'[a]) <= SendBufferSize
      /\ \A a \in Clients : \A k \in 1 .. Len(send'[a]) :
            \/ a = c /\ send'[a][k] = m
            \/ k \in 1 .. Len(send[a]) /\ send'[a][k] = send[a][k]
  BY TrySendType
<1>2. HubTypeOK' BY <1>1 DEF HubTypeOK, registry
<1>3. SessionTypeOK' /\ CreatedOK' BY DEF SessionTypeOK, CreatedOK, table
<1>4. QueueOK' BY <1>1 DEF QueueOK
<1>. QED BY <1>1, <1>2, <1>3, <1>4

\* The steps of a handler, and the clean-up.
LEMMA TypeHandle ==
  ASSUME TypeInv, NEW c \in Clients, Handle(c)
  PROVE  TypeInv'
<1>. USE DEF TypeInv, TypeOK
<1>1. CASE Beat(c)
  <2>1. HubTypeOK' BY <1>1 DEF Beat, UpdateHeartbeat, HubTypeOK
  <2>2. ConnTypeOK' /\ RequestOK'
    BY <1>1 DEF Beat, Goto, ConnTypeOK, RequestOK, Places
  <2>. QED BY <1>1, <2>1, <2>2, TypeFrame DEF Beat
<1>2. CASE RouteToDevice(c)
  <2>. DEFINE r == req[c]
              a == byDevice[r.dev]
              m == [type |-> "connect_request", sid |-> r.sid]
  <2>1. /\ r.sid \in SessionIDs /\ r.dev \in Devices
        /\ a \in Agents \cup {Nil}
        /\ m \in Message
    BY <1>2 DEF RouteToDevice, RequestOK, HubTypeOK, Message, MessageTypes
  <2>2. ConnTypeOK' /\ RequestOK'
    <3>1. \/ Goto(c, "offline") /\ UNCHANGED <<req, up>>
          \/ Goto(c, "read") /\ Carry(c, NoRequest) /\ UNCHANGED up
          \/ Panic(c)
      BY <1>2 DEF RouteToDevice
    <3>2. CASE Panic(c) BY <1>2, <3>2, PanicType DEF RouteToDevice
    <3>3. CASE Goto(c, "offline") /\ UNCHANGED <<req, up>>
      BY <1>2, <3>3 DEF RouteToDevice, Goto, ConnTypeOK, RequestOK, Places
    <3>4. CASE Goto(c, "read") /\ Carry(c, NoRequest) /\ UNCHANGED up
      BY <1>2, <3>4 DEF RouteToDevice, Goto, Carry, ConnTypeOK, RequestOK,
                        Places, Request, NoRequest
    <3>. QED BY <3>1, <3>2, <3>3, <3>4
  <2>3. CASE a = Nil \/ closed[a]
    <3>1. UNCHANGED send BY <1>2, <2>3 DEF RouteToDevice
    <3>2. HubTypeOK' BY <1>2, <3>1 DEF RouteToDevice, HubTypeOK, registry
    <3>. QED BY <1>2, <2>2, <3>1, <3>2, TypeFrame DEF RouteToDevice
  <2>4. CASE a # Nil /\ ~closed[a]
    <3>1. TrySend(a, m) BY <1>2, <2>4 DEF RouteToDevice
    <3>2. a \in Clients /\ a \in Agents BY <2>1, <2>4 DEF Clients
    <3>. HIDE DEF a, m
    <3>3. UNCHANGED <<second, id, closed, registry, table>>
      BY <1>2 DEF RouteToDevice
    <3>4. m.type = "connect_request" => a \in Agents /\ m.sid \in SessionIDs
      BY <2>1, <3>2 DEF m
    <3>. QED BY <2>1, <2>2, <3>1, <3>2, <3>3, <3>4, TypeQueued
  <2>. QED BY <2>3, <2>4
<1>3. CASE Offline(c)
  <2>1. HubTypeOK' BY <1>3 DEF Offline, HubTypeOK, registry
  <2>2. ConnTypeOK' /\ RequestOK'
    BY <1>3 DEF Offline, Goto, Carry, ConnTypeOK, RequestOK, Places, Request,
                NoRequest, MessageTypes
  <2>3. SessionTypeOK' /\ sessions' = sessions /\ initiator' = initiator
    BY <1>3, MarkSessionType DEF Offline, RequestOK, RejectSession, Statuses
  <2>. QED BY <1>3, <2>1, <2>2, <2>3 DEF Offline, QueueOK, CreatedOK
<1>4. CASE FindPeer(c)
  <2>. DEFINE p == GetPeer(req[c].sid, c)
  <2>1. p \in Clients \cup {Nil}
    BY <1>4, GetPeerType DEF FindPeer, RequestOK
  <2>. HIDE DEF p
  <2>2. ConnTypeOK' /\ RequestOK'
    <3>1. CASE p = Nil
      <4>1. AfterRoute(c, FALSE) BY <1>4, <3>1 DEF FindPeer, p
      <4>. QED BY <1>4, <4>1, AfterRouteType DEF FindPeer, ConnTypeOK
    <3>2. CASE p # Nil
      <4>1. Goto(c, "send") /\ Carry(c, [req[c] EXCEPT !.peer = p])
        BY <1>4, <3>2 DEF FindPeer, p
      <4>. QED BY <1>4, <2>1, <3>2, <4>1
               DEF FindPeer, Goto, Carry, ConnTypeOK, RequestOK, Places, Request
    <3>. QED BY <3>1, <3>2
  <2>3. HubTypeOK' BY <1>4 DEF FindPeer, HubTypeOK, registry
  <2>. QED BY <1>4, <2>2, <2>3, TypeFrame DEF FindPeer
<1>5. CASE SendPeer(c)
  <2>. DEFINE r == req[c]
              m == [type |-> r.type, sid |-> r.sid]
  <2>1. /\ r.peer \in Clients
        /\ m \in Message /\ m.type # "connect_request"
    BY <1>5 DEF SendPeer, RequestOK, Message, MessageTypes
  <2>2. CASE closed[r.peer]
    <3>1. UNCHANGED send BY <1>5, <2>2 DEF SendPeer
    <3>2. HubTypeOK' BY <1>5, <3>1 DEF SendPeer, HubTypeOK, registry
    <3>3. ConnTypeOK' /\ RequestOK'
      BY <1>5, <2>2, PanicType DEF SendPeer
    <3>. QED BY <1>5, <3>1, <3>2, <3>3, TypeFrame DEF SendPeer
  <2>3. CASE ~closed[r.peer]
    <3>1. TrySend(r.peer, m) /\ AfterRoute(c, ~Full(r.peer)) /\ UNCHANGED up
      BY <1>5, <2>3 DEF SendPeer
    <3>2. PICK b \in BOOLEAN : AfterRoute(c, b)
      BY <3>1 DEF AfterRoute
    <3>3. /\ pc' \in [Clients -> Places]
          /\ req' \in [Clients -> Request]
          /\ RequestOK'
      BY <1>5, <3>1, <3>2, AfterRouteType DEF SendPeer
    <3>4. ConnTypeOK' BY <1>5, <3>1, <3>3 DEF SendPeer, ConnTypeOK
    <3>. HIDE DEF m
    <3>. QED BY <1>5, <2>1, <3>1, <3>3, <3>4, TypeQueued DEF SendPeer
  <2>. QED BY <2>2, <2>3
<1>6. CASE Close(c)
  <2>1. HubTypeOK' BY <1>6 DEF Close, HubTypeOK, registry
  <2>2. ConnTypeOK' /\ RequestOK'
    BY <1>6 DEF Close, Goto, Carry, ConnTypeOK, RequestOK, Places, Request,
                NoRequest
  <2>3. SessionTypeOK' /\ sessions' = sessions /\ initiator' = initiator
    BY <1>6, MarkSessionType DEF Close, RequestOK, CloseSession, Statuses
  <2>. QED BY <1>6, <2>1, <2>2, <2>3 DEF Close, QueueOK, CreatedOK
<1>7. CASE Reply(c)
  <2>. DEFINE m == [type |-> req[c].type, sid |-> Nil]
  <2>1. m \in Message /\ m.type # "connect_request"
    BY <1>7 DEF Reply, RequestOK, Message, MessageTypes
  <2>2. ConnTypeOK' /\ RequestOK'
    BY <1>7 DEF Reply, Goto, Carry, ConnTypeOK, RequestOK, Places, Request,
                NoRequest
  <2>3. TrySend(c, m) BY <1>7 DEF Reply
  <2>. HIDE DEF m
  <2>. QED BY <1>7, <2>1, <2>2, <2>3, TypeQueued DEF Reply
<1>8. CASE Remove(c)
  <2>1. HubTypeOK' BY <1>8 DEF Remove, HubTypeOK, registry
  <2>2. ConnTypeOK' /\ RequestOK'
    BY <1>8 DEF Remove, Goto, ConnTypeOK, RequestOK, Places
  <2>3. SessionTypeOK'
    BY <1>8, RemoveClientSessionsType DEF Remove, HubTypeOK
  <2>4. CreatedOK' BY <1>8 DEF Remove, RemoveClientSessions, CreatedOK
  <2>. QED BY <1>8, <2>1, <2>2, <2>3, <2>4 DEF Remove, QueueOK
<1>9. CASE Unregister(c)
  <2>1. HubTypeOK' BY <1>9, UnregisterClientType DEF Unregister
  <2>2. ConnTypeOK' /\ RequestOK'
    BY <1>9 DEF Unregister, Goto, ConnTypeOK, RequestOK, Places
  <2>. QED BY <1>9, <2>1, <2>2, TypeFrame DEF Unregister
<1>. QED BY <1>1, <1>2, <1>3, <1>4, <1>5, <1>6, <1>7, <1>8, <1>9 DEF Handle

\* The write pump.
LEMMA TypeWrite ==
  ASSUME TypeInv, NEW c \in Clients, Write(c) \/ WriterExit(c)
  PROVE  TypeInv'
<1>. USE DEF TypeInv, TypeOK
<1>1. SessionTypeOK' /\ CreatedOK' /\ RequestOK'
  BY DEF Write, WriterExit, SessionTypeOK, CreatedOK, RequestOK, table
<1>2. ConnTypeOK'
  <2>1. CASE Write(c)
    <3>1. Head(send[c]) = send[c][1] /\ 1 \in 1 .. Len(send[c])
      BY <2>1 DEF Write, HubTypeOK
    <3>. QED BY <2>1, <3>1 DEF Write, ConnTypeOK, QueueOK
  <2>2. CASE WriterExit(c) BY <2>2 DEF WriterExit, ConnTypeOK
  <2>. QED BY <2>1, <2>2
<1>3. CASE send[c] # <<>>
  <2>1. send' = [send EXCEPT ![c] = Tail(@)]
    BY <1>3 DEF Write, WriterExit, HubTypeOK
  <2>2. /\ send' \in [Clients -> Seq(Message)]
        /\ \A a \in Clients : Len(send'[a]) <= SendBufferSize
        /\ \A a \in Clients : \A k \in 1 .. Len(send'[a]) :
              \E j \in 1 .. Len(send[a]) : send'[a][k] = send[a][j]
    BY <1>3, <2>1, TailType
  <2>3. HubTypeOK' BY <2>2 DEF Write, WriterExit, HubTypeOK, registry
  <2>4. QueueOK' BY <2>2 DEF QueueOK
  <2>. QED BY <1>1, <1>2, <2>2, <2>3, <2>4
<1>4. CASE send[c] = <<>>
  <2>1. send' = send BY <1>4 DEF Write, WriterExit, HubTypeOK
  <2>2. HubTypeOK' BY <2>1 DEF Write, WriterExit, HubTypeOK, registry
  <2>. QED BY <1>1, <1>2, <2>1, <2>2 DEF QueueOK
<1>. QED BY <1>3, <1>4

\* TypeInv is inductive.
LEMMA TypeInductive == TypeInv /\ [Next]_vars => TypeInv'
<1>. SUFFICES ASSUME TypeInv, [Next]_vars PROVE TypeInv'
  OBVIOUS
<1>. USE DEF TypeInv, TypeOK
<1>1. CASE Tick
  <2>1. HubTypeOK' BY <1>1, BoundsAssumption DEF Tick, HubTypeOK, IDs, registry
  <2>2. ConnTypeOK' /\ RequestOK' BY <1>1 DEF Tick, ConnTypeOK, RequestOK, conn
  <2>. QED BY <1>1, <2>1, <2>2, TypeFrame DEF Tick
<1>2. ASSUME NEW c \in Clients, Connect(c) PROVE TypeInv'
  <2>1. HubTypeOK' BY <1>2 DEF Connect, RegisterClient, HubTypeOK
  <2>2. ConnTypeOK' /\ RequestOK'
    BY <1>2 DEF Connect, Goto, ConnTypeOK, RequestOK, Places
  <2>. QED BY <1>2, <2>1, <2>2, TypeFrame DEF Connect
<1>3. ASSUME NEW c \in Clients, Break(c) PROVE TypeInv'
  <2>1. HubTypeOK' BY <1>3 DEF Break, HubTypeOK, registry
  <2>2. ConnTypeOK' /\ RequestOK' BY <1>3 DEF Break, ConnTypeOK, RequestOK
  <2>. QED BY <1>3, <2>1, <2>2, TypeFrame DEF Break
<1>4. ASSUME NEW c \in Clients, ReadError(c) PROVE TypeInv'
  <2>1. HubTypeOK' BY <1>4 DEF ReadError, HubTypeOK, registry
  <2>2. ConnTypeOK' /\ RequestOK'
    BY <1>4 DEF ReadError, Goto, ConnTypeOK, RequestOK, Places
  <2>. QED BY <1>4, <2>1, <2>2, TypeFrame DEF ReadError
<1>5. CASE UNCHANGED vars
  BY <1>5 DEF vars, registry, table, conn, HubTypeOK, SessionTypeOK, ConnTypeOK,
              RequestOK, QueueOK, CreatedOK
<1>. QED BY <1>1, <1>2, <1>3, <1>4, <1>5, TypeReceive, TypeHandle, TypeWrite DEF Next

\* TypeInv holds initially.
LEMMA TypeInitial == Init => TypeInv
<1>. SUFFICES ASSUME Init PROVE TypeInv
  OBVIOUS
<1>1. HubTypeOK /\ SessionTypeOK
  BY BoundsAssumption DEF Init, HubInit, HubTypeOK, IDs, SessionInit, SessionTypeOK, Statuses
<1>2. ConnTypeOK
  BY DEF Init, ConnTypeOK, Places, Request, NoRequest
<1>3. \A c \in Clients : Len(send[c]) = 0 BY DEF Init, HubInit
<1>4. RequestOK /\ QueueOK /\ CreatedOK
  BY <1>3 DEF Init, SessionInit, RequestOK, QueueOK, CreatedOK
<1>. QED BY <1>1, <1>2, <1>3, <1>4, BoundsAssumption DEF TypeInv, TypeOK

\* Type correctness of the server: every map, field and queue keeps its type
\* and every Send channel stays within its capacity.
THEOREM TypeCorrect == Spec => []TypeOK
<1>1. TypeInv => TypeOK BY DEF TypeInv
<1>. QED BY <1>1, TypeInitial, TypeInductive, PTL DEF Spec

----------------------------------------------------------------------------
\* The registry of devices.

\* Every step of a reading goroutine moves its own place only; it is
\* Unregister that ends it, Remove that comes just before.
LEMMA Moves ==
  ASSUME TypeInv, NEW c \in Clients,
         Receive(c) \/ Handle(c) \/ ReadError(c) \/ Connect(c)
  PROVE  \E p \in Places : /\ pc' = [pc EXCEPT ![c] = p]
                           /\ p # "none"
                           /\ p = "gone" => Unregister(c)
                           /\ p = "unregister" => Remove(c)
<1>1. CASE Receive(c)
  BY <1>1 DEF Receive, Register, Heartbeat, BadMessage, ConnectRequest,
              ConnectResponse, Forward, Disconnect, Goto, Places
<1>2. CASE RouteToDevice(c)
  BY <1>2 DEF RouteToDevice, Panic, Goto, Places
<1>3. CASE FindPeer(c)
  BY <1>3 DEF FindPeer, AfterRoute, Goto, Places
<1>4. CASE SendPeer(c)
  BY <1>4 DEF SendPeer, AfterRoute, Panic, Goto, Places
<1>5. CASE Beat(c) \/ Offline(c) \/ Close(c) \/ Reply(c) \/ Remove(c) \/ Unregister(c)
  BY <1>5 DEF Beat, Offline, Close, Reply, Remove, Unregister, Goto, Places
<1>6. CASE ReadError(c) \/ Connect(c)
  BY <1>6 DEF ReadError, Connect, Goto, Places
<1>. QED BY <1>1, <1>2, <1>3, <1>4, <1>5, <1>6 DEF Handle

\* Steps that change neither the registry, nor the clock, nor who is gone.
LEMMA RegistryFrame ==
  ASSUME RegistryInv, UNCHANGED <<second, closed, registry>>,
         \A a \in Clients : pc'[a] = "gone" <=> pc[a] = "gone"
  PROVE  RegistryInv'
  BY DEF RegistryInv, RegistryConsistent, ClosedAtEnd, DeviceOwn, registry

\* A registration detaches the connection that served the device before.
LEMMA RegistryRegister ==
  ASSUME TypeInv, RegistryInv, NEW c \in Agents, Register(c)
  PROVE  RegistryInv'
<1>. DEFINE d == DeviceOf[c]
<1>. USE DEF TypeInv, TypeOK
<1>1. /\ d \in Devices /\ c \in Clients /\ RegisterDevice(c, d)
      /\ c \notin Apps /\ pc[c] = "read" /\ c # Nil /\ d # Nil
  BY ClientsAssumption, NilAssumption, DeviceOfAssumption DEF Register, Clients
<1>. HIDE DEF d
<1>2. /\ UNCHANGED <<second, closed>>
      /\ \A a \in Clients : pc'[a] = "gone" <=> pc[a] = "gone"
  BY <1>1 DEF Register, Goto, ConnTypeOK
<1>3. ClosedAtEnd' BY <1>2 DEF RegistryInv, ClosedAtEnd
<1>4. \A a \in Clients :
         deviceID'[a] = IF a = c THEN d
                        ELSE IF d \in devices /\ a = byDevice[d] THEN Nil
                        ELSE deviceID[a]
  BY <1>1 DEF RegisterDevice
<1>5. DeviceOwn'
  BY <1>1, <1>4 DEF RegistryInv, DeviceOwn, d
<1>6. \A e \in Devices : byDevice'[e] = IF e = d THEN c ELSE byDevice[e]
  BY <1>1 DEF RegisterDevice, HubTypeOK
<1>7. ASSUME NEW e \in Devices
      PROVE  /\ e \in devices' <=> byDevice'[e] # Nil
             /\ byDevice'[e] # Nil => /\ deviceID'[byDevice'[e]] = e
                                      /\ ~closed'[byDevice'[e]]
  <2>1. CASE e = d
    BY <1>1, <1>2, <1>4, <1>6, <2>1 DEF RegisterDevice, RegistryInv, ClosedAtEnd
  <2>2. CASE e # d
    <3>1. e \in devices' <=> e \in devices BY <1>1, <2>2 DEF RegisterDevice
    <3>2. byDevice[e] # Nil => byDevice[e] \in Clients
      BY DEF HubTypeOK, Clients
    <3>3. byDevice[e] # Nil => byDevice[e] # c
      BY <1>1, <2>2, NilAssumption DEF RegistryInv, RegistryConsistent, DeviceOwn, d
    <3>4. byDevice[e] # Nil => byDevice[e] # byDevice[d]
      BY <1>1, <2>2 DEF RegistryInv, RegistryConsistent
    <3>. QED BY <1>2, <1>4, <1>6, <2>2, <3>1, <3>2, <3>3, <3>4
             DEF RegistryInv, RegistryConsistent
  <2>. QED BY <2>1, <2>2
<1>8. \A e \in Devices : registered'[e] <= lastSeen'[e] /\ lastSeen'[e] <= second'
  BY <1>1, <1>2, BoundsAssumption
     DEF RegisterDevice, RegistryInv, RegistryConsistent, HubTypeOK, IDs
<1>9. ASSUME NEW a \in Clients, deviceID'[a] # Nil, pc'[a] # "gone"
      PROVE  byDevice'[deviceID'[a]] = a
  <2>1. CASE a = c BY <1>1, <1>4, <1>6, <2>1
  <2>2. CASE a # c
    <3>1. deviceID'[a] = deviceID[a] /\ ~(d \in devices /\ a = byDevice[d])
      BY <1>4, <1>9, <2>2
    <3>2. deviceID[a] \in Devices /\ byDevice[deviceID[a]] = a /\ a # Nil
      <4>1. deviceID[a] # Nil /\ pc[a] # "gone" /\ a # Nil
        BY <1>2, <1>9, <3>1, ClientsAssumption
      <4>. QED BY <4>1 DEF RegistryInv, RegistryConsistent, HubTypeOK
    <3>3. deviceID[a] # d
      BY <1>1, <3>1, <3>2 DEF RegistryInv, RegistryConsistent
    <3>. QED BY <1>6, <3>1, <3>2, <3>3
  <2>. QED BY <2>1, <2>2
<1>. QED BY <1>3, <1>5, <1>7, <1>8, <1>9 DEF RegistryInv, RegistryConsistent

\* A connection that ends takes the device along only if it still serves it.
LEMMA RegistryUnregister ==
  ASSUME TypeInv, RegistryInv, NEW c \in Clients, Unregister(c)
  PROVE  RegistryInv'
<1>. DEFINE d == deviceID[c]
<1>. USE DEF TypeInv, TypeOK
<1>1. /\ pc[c] = "unregister" /\ UnregisterClient(c)
      /\ UNCHANGED <<second, deviceID>>
      /\ pc' = [pc EXCEPT ![c] = "gone"]
      /\ closed' = [closed EXCEPT ![c] = TRUE]
  BY DEF Unregister, UnregisterClient, Goto
<1>2. d # Nil => c \in Agents /\ d \in Devices /\ byDevice[d] = c
  BY <1>1 DEF RegistryInv, RegistryConsistent, DeviceOwn, HubTypeOK
<1>3. /\ devices' = devices \ {d}
      /\ \A e \in Devices : byDevice'[e] = IF e = d THEN Nil ELSE byDevice[e]
      /\ \A e \in Devices : registered'[e] = IF e = d THEN 0 ELSE registered[e]
      /\ \A e \in Devices : lastSeen'[e] = IF e = d THEN 0 ELSE lastSeen[e]
  <2>1. CASE d = Nil
    BY <1>1, <2>1, NilAssumption DEF UnregisterClient, HubTypeOK
  <2>2. CASE d # Nil
    BY <1>1, <1>2, <2>2 DEF UnregisterClient
  <2>. QED BY <2>1, <2>2
<1>4. ClosedAtEnd' BY <1>1 DEF RegistryInv, ClosedAtEnd, HubTypeOK, ConnTypeOK
<1>5. DeviceOwn' BY <1>1 DEF RegistryInv, DeviceOwn
<1>6. ASSUME NEW e \in Devices
      PROVE  /\ e \in devices' <=> byDevice'[e] # Nil
             /\ byDevice'[e] # Nil => /\ deviceID'[byDevice'[e]] = e
                                      /\ ~closed'[byDevice'[e]]
  <2>1. CASE e = d BY <1>3, <2>1
  <2>2. CASE e # d
    <3>1. byDevice[e] # Nil => byDevice[e] \in Clients /\ byDevice[e] # c
      BY <2>2 DEF RegistryInv, RegistryConsistent, HubTypeOK, Clients
    <3>. QED BY <1>1, <1>3, <2>2, <3>1
             DEF RegistryInv, RegistryConsistent, HubTypeOK
  <2>. QED BY <2>1, <2>2
<1>7. \A e \in Devices : registered'[e] <= lastSeen'[e] /\ lastSeen'[e] <= second'
  <2>1. second \in Nat BY BoundsAssumption DEF HubTypeOK, IDs
  <2>2. \A e \in Devices : registered[e] <= lastSeen[e] /\ lastSeen[e] <= second
    BY DEF RegistryInv, RegistryConsistent
  <2>. QED BY <1>1, <1>3, <2>1, <2>2
<1>8. ASSUME NEW a \in Clients, deviceID'[a] # Nil, pc'[a] # "gone"
      PROVE  byDevice'[deviceID'[a]] = a
  <2>1. a # c /\ deviceID[a] # Nil /\ pc[a] # "gone"
    BY <1>1, <1>8 DEF ConnTypeOK
  <2>2. byDevice[deviceID[a]] = a /\ deviceID[a] \in Devices
    BY <2>1 DEF RegistryInv, RegistryConsistent, HubTypeOK
  <2>3. deviceID[a] # d BY <1>2, <2>1, <2>2
  <2>. QED BY <1>1, <1>3, <2>2, <2>3
<1>. QED BY <1>4, <1>5, <1>6, <1>7, <1>8 DEF RegistryInv, RegistryConsistent

\* RegistryInv is inductive.
LEMMA RegistryInductive == TypeInv /\ RegistryInv /\ [Next]_vars => RegistryInv'
<1>. SUFFICES ASSUME TypeInv, RegistryInv, [Next]_vars PROVE RegistryInv'
  OBVIOUS
<1>1. CASE Tick
  BY <1>1 DEF Tick, RegistryInv, RegistryConsistent, ClosedAtEnd, DeviceOwn,
              registry, conn, TypeInv, TypeOK, HubTypeOK, IDs
<1>2. ASSUME NEW c \in Clients, Connect(c) PROVE RegistryInv'
  BY <1>2 DEF Connect, RegisterClient, Goto, RegistryInv, RegistryConsistent,
              ClosedAtEnd, DeviceOwn, TypeInv, TypeOK, ConnTypeOK
<1>3. ASSUME NEW c \in Clients, Break(c) \/ Write(c) \/ WriterExit(c)
      PROVE  RegistryInv'
  BY <1>3, RegistryFrame DEF Break, Write, WriterExit
<1>4. ASSUME NEW c \in Clients, Receive(c) \/ Handle(c) \/ ReadError(c),
             ~Unregister(c), pc[c] # "gone"
      PROVE  \A a \in Clients : pc'[a] = "gone" <=> pc[a] = "gone"
  <2>1. PICK p \in Places : pc' = [pc EXCEPT ![c] = p] /\ p # "gone"
    BY <1>4, Moves
  <2>. QED BY <1>4, <2>1 DEF TypeInv, TypeOK, ConnTypeOK
<1>5. ASSUME NEW c \in Clients, Receive(c) PROVE RegistryInv'
  <2>1. pc[c] = "read" /\ ~Unregister(c)
    BY <1>5 DEF Receive, Register, Heartbeat, BadMessage, ConnectRequest,
                ConnectResponse, Forward, Disconnect, Unregister
  <2>2. CASE Register(c) /\ c \in Agents BY <2>2, RegistryRegister
  <2>3. CASE ~(Register(c) /\ c \in Agents)
    <3>1. UNCHANGED <<second, closed, registry>>
      BY <1>5, <2>3 DEF Receive, Register, Heartbeat, BadMessage, ConnectRequest,
                        ConnectResponse, Forward, Disconnect, Clients
    <3>. QED BY <1>4, <1>5, <2>1, <3>1, RegistryFrame
  <2>. QED BY <2>2, <2>3
<1>6. ASSUME NEW c \in Clients, Handle(c) PROVE RegistryInv'
  <2>1. pc[c] # "gone"
    BY <1>6 DEF Handle, Beat, RouteToDevice, Offline, FindPeer, SendPeer, Close,
                Reply, Remove, Unregister
  <2>2. CASE Unregister(c) BY <2>2, RegistryUnregister
  <2>3. CASE Beat(c)
    BY <2>3 DEF Beat, UpdateHeartbeat, Goto, RegistryInv, RegistryConsistent,
                ClosedAtEnd, DeviceOwn, TypeInv, TypeOK, HubTypeOK, ConnTypeOK, IDs
  <2>4. CASE ~Unregister(c) /\ ~Beat(c)
    <3>1. UNCHANGED <<second, closed, registry>>
      BY <1>6, <2>4 DEF Handle, RouteToDevice, Offline, FindPeer, SendPeer, Close,
                        Reply, Remove
    <3>. QED BY <1>4, <1>6, <2>1, <2>4, <3>1, RegistryFrame
  <2>. QED BY <2>2, <2>3, <2>4
<1>7. ASSUME NEW c \in Clients, ReadError(c) PROVE RegistryInv'
  <2>1. pc[c] = "read" /\ ~Unregister(c) BY <1>7 DEF ReadError, Unregister
  <2>. QED BY <1>4, <1>7, <2>1, RegistryFrame DEF ReadError
<1>8. CASE UNCHANGED vars BY <1>8, RegistryFrame DEF vars, conn
<1>. QED BY <1>1, <1>2, <1>3, <1>5, <1>6, <1>7, <1>8 DEF Next

\* The device maps and the clients' DeviceID fields agree in every state: a
\* device is served by the connection that registered it last, whose Send is
\* open, and superseded connections never take the device down.
THEOREM RegistrySafe == Spec => []RegistryConsistent
<1>1. Init => RegistryInv
  BY BoundsAssumption
     DEF Init, HubInit, RegistryInv, RegistryConsistent, ClosedAtEnd, DeviceOwn
<1>2. RegistryInv => RegistryConsistent BY DEF RegistryInv
<1>. QED BY <1>1, <1>2, TypeInitial, TypeInductive, RegistryInductive, PTL DEF Spec

----------------------------------------------------------------------------
\* The session table and its index.

\* Steps that leave the table's keys, parties and index alone.
LEMMA SessionFrame ==
  ASSUME Indexed, IndexOwned,
         UNCHANGED <<id, sessions, initiator, responder, byClient>>,
         \A a \in Clients : pc[a] # "none" /\ ~Left(a) => pc'[a] # "none" /\ ~Left(a)',
         \A s \in sessions : {initiator[s], responder[s]} \subseteq Clients \cup {Nil}
  PROVE  Indexed' /\ IndexOwned'
  BY DEF Indexed, IndexOwned, Left

\* The parties of a session are connections.
LEMMA Parties ==
  ASSUME TypeInv, NEW s \in SessionIDs
  PROVE  {initiator[s], responder[s]} \subseteq Clients \cup {Nil}
  BY DEF TypeInv, TypeOK, SessionTypeOK, Clients

\* A new session is indexed under its initiator, who is there.
LEMMA SessionCreate ==
  ASSUME TypeInv, Indexed, IndexOwned, NEW c \in Clients, NEW s \in SessionIDs,
         NEW d \in Devices, ConnectRequest(c, s, d)
  PROVE  Indexed' /\ IndexOwned'
<1>. USE DEF TypeInv, TypeOK
<1>1. /\ pc[c] = "read" /\ CreateSession(s, c, d)
      /\ id' = id /\ id[c] \in IDs
      /\ pc'[c] # "none" /\ ~Left(c)'
      /\ \A a \in Clients \ {c} : pc'[a] = pc[a] /\ Left(a)' = Left(a)
  BY DEF ConnectRequest, Goto, Left, ConnTypeOK, HubTypeOK
<1>2. \A i \in IDs : byClient'[i] = IF i = id[c] THEN byClient[i] \cup {s} ELSE byClient[i]
  BY <1>1 DEF CreateSession, SessionTypeOK
<1>3. ASSUME NEW t \in sessions', NEW e \in {initiator'[t], responder'[t]} \ {Nil}
      PROVE  t \in byClient'[id'[e]] /\ pc'[e] # "none" /\ ~Left(e)'
  <2>1. CASE t = s
    <3>1. e = c BY <1>1, <1>3, <2>1 DEF CreateSession, SessionTypeOK
    <3>. QED BY <1>1, <1>2, <2>1, <3>1
  <2>2. CASE t # s
    <3>1. t \in sessions /\ e \in {initiator[t], responder[t]} \ {Nil}
      BY <1>1, <1>3, <2>2 DEF CreateSession, SessionTypeOK
    <3>2. e \in Clients /\ id[e] \in IDs
      BY <3>1, Parties DEF SessionTypeOK, HubTypeOK
    <3>3. t \in byClient[id[e]] /\ pc[e] # "none" /\ ~Left(e)
      BY <3>1 DEF Indexed
    <3>. QED BY <1>1, <1>2, <3>2, <3>3
  <2>. QED BY <2>1, <2>2
<1>4. IndexOwned'
  <2>1. ASSUME NEW i \in IDs, byClient'[i] # {}
        PROVE  \E e \in Clients : id'[e] = i /\ pc'[e] # "none" /\ ~Left(e)'
    <3>1. CASE i = id[c] BY <1>1, <3>1
    <3>2. CASE i # id[c]
      <4>1. PICK e \in Clients : id[e] = i /\ pc[e] # "none" /\ ~Left(e)
        BY <1>2, <2>1, <3>2 DEF IndexOwned
      <4>. QED BY <1>1, <3>2, <4>1
    <3>. QED BY <3>1, <3>2
  <2>. QED BY <2>1 DEF IndexOwned
<1>. QED BY <1>3, <1>4 DEF Indexed

\* An accepted session is indexed under its responder, who is there.
LEMMA SessionAccept ==
  ASSUME TypeInv, Indexed, IndexOwned, NEW c \in Agents, NEW s \in sessions,
         pc[c] = "read", AcceptSession(s, c), id' = id,
         pc' = [pc EXCEPT ![c] = "peer"]
  PROVE  Indexed' /\ IndexOwned'
<1>. USE DEF TypeInv, TypeOK
<1>1. /\ c \in Clients /\ id[c] \in IDs /\ s \in SessionIDs
      /\ pc'[c] # "none" /\ ~Left(c)' /\ ~Left(c)
      /\ \A a \in Clients \ {c} : pc'[a] = pc[a] /\ Left(a)' = Left(a)
  BY DEF ConnTypeOK, HubTypeOK, SessionTypeOK, Clients, Left
<1>2. \A i \in IDs : byClient'[i] = IF i = id[c] THEN byClient[i] \cup {s} ELSE byClient[i]
  <2>1. byClient' = [byClient EXCEPT ![id[c]] = @ \cup {s}]
    BY DEF AcceptSession
  <2>. QED BY <1>1, <2>1 DEF SessionTypeOK
<1>3. ASSUME NEW t \in sessions', NEW e \in {initiator'[t], responder'[t]} \ {Nil}
      PROVE  t \in byClient'[id'[e]] /\ pc'[e] # "none" /\ ~Left(e)'
  <2>1. t \in sessions /\ t \in SessionIDs
    BY DEF AcceptSession, SessionTypeOK
  <2>2. CASE t = s /\ e = c
    <3>. HIDE DEF TypeInv, TypeOK
    <3>1. s \in byClient'[id[c]] BY <1>1, <1>2
    <3>. QED BY <1>1, <2>2, <3>1
  <2>3. CASE ~(t = s /\ e = c)
    <3>1. e \in {initiator[t], responder[t]} \ {Nil}
      BY <1>3, <2>1, <2>3 DEF AcceptSession, SessionTypeOK
    <3>2. e \in Clients /\ id[e] \in IDs
      BY <2>1, <3>1, Parties DEF HubTypeOK
    <3>3. t \in byClient[id[e]] /\ pc[e] # "none" /\ ~Left(e)
      BY <2>1, <3>1 DEF Indexed
    <3>. QED BY <1>1, <1>2, <3>2, <3>3
  <2>. QED BY <2>2, <2>3
<1>4. IndexOwned'
  <2>1. ASSUME NEW i \in IDs, byClient'[i] # {}
        PROVE  \E e \in Clients : id'[e] = i /\ pc'[e] # "none" /\ ~Left(e)'
    <3>1. CASE i = id[c] BY <1>1, <3>1
    <3>2. CASE i # id[c]
      <4>1. PICK e \in Clients : id[e] = i /\ pc[e] # "none" /\ ~Left(e)
        BY <1>2, <2>1, <3>2 DEF IndexOwned
      <4>. QED BY <1>1, <3>2, <4>1
    <3>. QED BY <3>1, <3>2
  <2>. QED BY <2>1 DEF IndexOwned
<1>. QED BY <1>3, <1>4 DEF Indexed

\* Remove takes every session of the leaving client off the table: what stays
\* has no party with its ID.
LEMMA SessionRemove ==
  ASSUME TypeInv, Indexed, IndexOwned, NEW c \in Clients, Remove(c)
  PROVE  Indexed' /\ IndexOwned'
<1>. USE DEF TypeInv, TypeOK
<1>1. /\ RemoveClientSessions(id[c]) /\ id' = id /\ id[c] \in IDs
      /\ \A a \in Clients : pc'[a] = IF a = c THEN "unregister" ELSE pc[a]
  BY DEF Remove, Goto, ConnTypeOK, HubTypeOK
<1>2. \A i \in IDs : byClient'[i] = IF i = id[c] THEN {} ELSE byClient[i]
  BY <1>1 DEF RemoveClientSessions, SessionTypeOK
<1>3. ASSUME NEW t \in sessions', NEW e \in {initiator'[t], responder'[t]} \ {Nil}
      PROVE  t \in byClient'[id'[e]] /\ pc'[e] # "none" /\ ~Left(e)'
  <2>1. t \in sessions /\ t \notin byClient[id[c]] /\ t \in SessionIDs
    BY <1>1 DEF RemoveClientSessions, SessionTypeOK
  <2>2. e \in {initiator[t], responder[t]} \ {Nil}
    BY <1>1, <1>3 DEF RemoveClientSessions
  <2>3. e \in Clients /\ id[e] \in IDs
    BY <2>1, <2>2, Parties DEF HubTypeOK
  <2>4. t \in byClient[id[e]] /\ pc[e] # "none" /\ ~Left(e)
    BY <2>1, <2>2 DEF Indexed
  <2>. QED BY <1>1, <1>2, <2>1, <2>3, <2>4 DEF Left
<1>4. IndexOwned' BY <1>1, <1>2 DEF IndexOwned, Left
<1>. QED BY <1>3, <1>4 DEF Indexed

\* A connection has no sessions when it begins.
LEMMA SessionConnect ==
  ASSUME TypeInv, Indexed, IndexOwned, NEW c \in Clients, Connect(c)
  PROVE  Indexed' /\ IndexOwned'
<1>. USE DEF TypeInv, TypeOK
<1>1. /\ pc[c] = "none" /\ UNCHANGED table
      /\ \A a \in Clients : a # c => id'[a] = id[a] /\ pc'[a] = pc[a]
  BY DEF Connect, RegisterClient, Goto, ConnTypeOK, HubTypeOK
<1>2. ASSUME NEW t \in sessions', NEW e \in {initiator'[t], responder'[t]} \ {Nil}
      PROVE  t \in byClient'[id'[e]] /\ pc'[e] # "none" /\ ~Left(e)'
  <2>1. t \in sessions /\ t \in SessionIDs /\ e \in {initiator[t], responder[t]} \ {Nil}
    BY <1>1, <1>2 DEF table, SessionTypeOK
  <2>2. e \in Clients BY <2>1, Parties
  <2>3. t \in byClient[id[e]] /\ pc[e] # "none" /\ ~Left(e)
    BY <2>1 DEF Indexed
  <2>. QED BY <1>1, <2>2, <2>3 DEF table, Left
<1>3. IndexOwned'
  <2>1. ASSUME NEW i \in IDs, byClient'[i] # {}
        PROVE  \E e \in Clients : id'[e] = i /\ pc'[e] # "none" /\ ~Left(e)'
    <3>1. PICK e \in Clients : id[e] = i /\ pc[e] # "none" /\ ~Left(e)
      BY <1>1, <2>1 DEF IndexOwned, table
    <3>. QED BY <1>1, <3>1 DEF Left
  <2>. QED BY <2>1 DEF IndexOwned
<1>. QED BY <1>2, <1>3 DEF Indexed

\* The index of the session table is inductive.
LEMMA SessionInductive ==
  TypeInv /\ Indexed /\ IndexOwned /\ [Next]_vars => Indexed' /\ IndexOwned'
<1>. SUFFICES ASSUME TypeInv, Indexed, IndexOwned, [Next]_vars
              PROVE  Indexed' /\ IndexOwned'
  OBVIOUS
<1>1. \A s \in sessions : {initiator[s], responder[s]} \subseteq Clients \cup {Nil}
  BY Parties DEF TypeInv, TypeOK, SessionTypeOK
<1>2. ASSUME UNCHANGED <<id, table, pc>>
      PROVE  Indexed' /\ IndexOwned'
  BY <1>1, <1>2, SessionFrame DEF table, Left
<1>3. ASSUME NEW c \in Clients, Receive(c) \/ Handle(c) \/ ReadError(c), ~Remove(c),
             UNCHANGED <<id, sessions, initiator, responder, byClient>>
      PROVE  Indexed' /\ IndexOwned'
  <2>1. PICK p \in Places : /\ pc' = [pc EXCEPT ![c] = p]
                            /\ p # "none" /\ p # "unregister"
                            /\ p = "gone" => Unregister(c)
    BY <1>3, Moves
  <2>2. \A a \in Clients : pc[a] # "none" /\ ~Left(a) => pc'[a] # "none" /\ ~Left(a)'
    BY <2>1 DEF Left, Unregister, TypeInv, TypeOK, ConnTypeOK
  <2>. QED BY <1>1, <1>3, <2>2, SessionFrame
<1>4. ASSUME NEW c \in Clients, Receive(c) PROVE Indexed' /\ IndexOwned'
  <2>1. ~Remove(c)
    BY <1>4 DEF Receive, Register, Heartbeat, BadMessage, ConnectRequest,
                ConnectResponse, Forward, Disconnect, Remove
  <2>2. CASE \E s \in SessionIDs, d \in Devices : ConnectRequest(c, s, d)
    BY <2>2, SessionCreate
  <2>3. ASSUME NEW s \in SessionIDs, NEW a \in Answers, ConnectResponse(c, s, a)
        PROVE  Indexed' /\ IndexOwned'
    <3>1. CASE a /\ s \in sessions
      BY <2>3, <3>1, SessionAccept DEF ConnectResponse, Goto
    <3>2. CASE ~(a /\ s \in sessions)
      BY <1>3, <1>4, <2>1, <2>3, <3>2
         DEF ConnectResponse, AcceptSession, RejectSession, MarkSession, table
    <3>. QED BY <3>1, <3>2
  <2>4. CASE \/ Register(c) \/ Heartbeat(c) \/ BadMessage(c)
             \/ \E s \in SessionIDs : Forward(c, s) \/ Disconnect(c, s)
    <3>1. UNCHANGED <<id, sessions, initiator, responder, byClient>>
      BY <2>4 DEF Register, Heartbeat, BadMessage, Forward, Disconnect, table
    <3>. QED BY <1>3, <1>4, <2>1, <3>1
  <2>. QED BY <1>4, <2>2, <2>3, <2>4 DEF Receive
<1>5. ASSUME NEW c \in Clients, Handle(c) PROVE Indexed' /\ IndexOwned'
  <2>1. CASE Remove(c) BY <2>1, SessionRemove
  <2>2. CASE ~Remove(c)
    <3>1. UNCHANGED <<id, sessions, initiator, responder, byClient>>
      BY <1>5, <2>2 DEF Handle, Beat, RouteToDevice, Offline, FindPeer, SendPeer,
                Close, Reply, Unregister, RejectSession, CloseSession, MarkSession, table
    <3>. QED BY <1>3, <1>5, <2>2, <3>1
  <2>. QED BY <2>1, <2>2
<1>6. ASSUME NEW c \in Clients, ReadError(c) PROVE Indexed' /\ IndexOwned'
  BY <1>3, <1>6 DEF ReadError, Remove, table
<1>7. ASSUME NEW c \in Clients, Break(c) \/ Write(c) \/ WriterExit(c)
      PROVE  Indexed' /\ IndexOwned'
  BY <1>2, <1>7 DEF Break, Write, WriterExit
<1>8. CASE Tick \/ UNCHANGED vars
  BY <1>2, <1>8 DEF Tick, vars, conn
<1>. QED BY <1>4, <1>5, <1>6, <1>7, <1>8, SessionConnect DEF Next

\* No session in the table refers to a connection that has cleaned up, and no
\* entry of the index outlives the connections of its ID.
THEOREM SessionsSafe == Spec => [](SessionPeersPresent /\ IndexOwned)
<1>1. Init => Indexed /\ IndexOwned
  BY DEF Init, SessionInit, Indexed, IndexOwned
<1>2. TypeInv /\ Indexed => SessionPeersPresent
  <2>. SUFFICES ASSUME TypeInv, Indexed, NEW s \in sessions
                PROVE  ~Left(initiator[s]) /\ (responder[s] # Nil => ~Left(responder[s]))
    BY DEF SessionPeersPresent
  <2>1. initiator[s] # Nil
    BY ClientsAssumption DEF TypeInv, CreatedOK, Clients
  <2>. QED BY <2>1 DEF Indexed
<1>. QED BY <1>1, <1>2, TypeInitial, TypeInductive, SessionInductive, PTL DEF Spec

\* The index of the session table does not leak: no ID is left in it once its
\* connections have been through RemoveClientSessions.
THEOREM IndexSafe == Spec => []IndexOwned
  BY SessionsSafe, PTL

----------------------------------------------------------------------------
\* Which agent a session ends up with.

\* A session that was created keeps its device and is never uncreated.
LEMMA SessionsKept ==
  ASSUME TypeInv, [Next]_vars, NEW s \in SessionIDs, status[s] # "none"
  PROVE  status'[s] # "none" /\ target'[s] = target[s]
<1>. USE DEF TypeInv, TypeOK, SessionTypeOK
<1>1. CASE UNCHANGED table BY <1>1 DEF table
<1>2. ASSUME NEW c \in Clients, NEW t \in SessionIDs, NEW d \in Devices,
             ConnectRequest(c, t, d)
      PROVE  status'[s] # "none" /\ target'[s] = target[s]
  BY <1>2 DEF ConnectRequest, CreateSession
<1>3. ASSUME NEW c \in Clients, NEW t \in SessionIDs, NEW a \in Answers,
             ConnectResponse(c, t, a)
      PROVE  status'[s] # "none" /\ target'[s] = target[s]
  <2>1. AcceptSession(t, c) \/ MarkSession(t, "rejected")
    BY <1>3 DEF ConnectResponse, RejectSession
  <2>2. CASE AcceptSession(t, c) BY <2>2 DEF AcceptSession, table
  <2>3. CASE MarkSession(t, "rejected") BY <2>3 DEF MarkSession
  <2>. QED BY <2>1, <2>2, <2>3
<1>4. ASSUME NEW c \in Clients, Offline(c) \/ Close(c)
      PROVE  status'[s] # "none" /\ target'[s] = target[s]
  BY <1>4 DEF Offline, Close, RejectSession, CloseSession, MarkSession
<1>5. ASSUME NEW c \in Clients, Remove(c)
      PROVE  status'[s] # "none" /\ target'[s] = target[s]
  BY <1>5 DEF Remove, RemoveClientSessions
<1>6. ASSUME NEW c \in Clients,
             \/ Connect(c) \/ Break(c) \/ ReadError(c) \/ Write(c) \/ WriterExit(c)
             \/ Register(c) \/ Heartbeat(c) \/ BadMessage(c)
             \/ \E t \in SessionIDs : Forward(c, t) \/ Disconnect(c, t)
             \/ Beat(c) \/ RouteToDevice(c) \/ FindPeer(c) \/ SendPeer(c)
             \/ Reply(c) \/ Unregister(c)
      PROVE  UNCHANGED table
  BY <1>6 DEF Connect, Break, ReadError, Write, WriterExit, Register, Heartbeat,
              BadMessage, Forward, Disconnect, Beat, RouteToDevice, FindPeer,
              SendPeer, Reply, Unregister
<1>7. CASE Tick \/ UNCHANGED vars BY <1>1, <1>7 DEF Tick, vars
<1>. QED BY <1>1, <1>2, <1>3, <1>4, <1>5, <1>6, <1>7 DEF Next, Receive, Handle

\* A handler about to route a request has just created its session.
LEMMA RouteSource ==
  ASSUME TypeInv, [Next]_vars, NEW a \in Clients, pc'[a] = "route"
  PROVE  \/ pc[a] = "route" /\ req'[a] = req[a]
         \/ \E s \in SessionIDs, d \in Devices : ConnectRequest(a, s, d)
<1>. USE DEF TypeInv, TypeOK, ConnTypeOK
<1>1. CASE Tick \/ UNCHANGED vars BY <1>1 DEF Tick, vars, conn
<1>2. ASSUME NEW c \in Clients,
             \/ Connect(c) \/ Break(c) \/ ReadError(c) \/ Write(c) \/ WriterExit(c)
             \/ Beat(c) \/ Offline(c) \/ Close(c) \/ Reply(c) \/ Remove(c) \/ Unregister(c)
      PROVE  pc[a] = "route" /\ req'[a] = req[a]
  BY <1>2 DEF Connect, Break, ReadError, Write, WriterExit, Beat, Offline, Close,
              Reply, Remove, Unregister, Goto, Carry
<1>3. ASSUME NEW c \in Clients, Register(c) \/ Heartbeat(c) \/ BadMessage(c)
      PROVE  pc[a] = "route" /\ req'[a] = req[a]
  BY <1>3 DEF Register, Heartbeat, BadMessage, Goto, Carry
<1>4. ASSUME NEW c \in Clients, NEW s \in SessionIDs,
             \/ Forward(c, s) \/ Disconnect(c, s)
             \/ \E b \in Answers : ConnectResponse(c, s, b)
      PROVE  pc[a] = "route" /\ req'[a] = req[a]
  BY <1>4 DEF Forward, Disconnect, ConnectResponse, Goto, Carry
<1>5. ASSUME NEW c \in Clients, NEW s \in SessionIDs, NEW d \in Devices,
             ConnectRequest(c, s, d), a # c
      PROVE  pc[a] = "route" /\ req'[a] = req[a]
  BY <1>5 DEF ConnectRequest, Goto, Carry
<1>6. ASSUME NEW c \in Clients, RouteToDevice(c) \/ FindPeer(c) \/ SendPeer(c)
      PROVE  pc[a] = "route" /\ req'[a] = req[a]
  <2>1. PICK p, r : /\ p \in Places /\ p # "route"
                    /\ pc' = [pc EXCEPT ![c] = p]
                    /\ req' = [req EXCEPT ![c] = r]
    <3>1. CASE RouteToDevice(c)
      <4>1. \/ Goto(c, "offline") /\ req' = [req EXCEPT ![c] = req[c]]
            \/ Goto(c, "read") /\ Carry(c, NoRequest)
            \/ Goto(c, "panicked") /\ Carry(c, NoRequest)
        BY <3>1 DEF RouteToDevice, Panic
      <4>. QED BY <4>1 DEF Goto, Carry, Places
    <3>2. CASE FindPeer(c)
      BY <3>2 DEF FindPeer, AfterRoute, Goto, Carry, Places
    <3>3. CASE SendPeer(c)
      BY <3>3 DEF SendPeer, AfterRoute, Panic, Goto, Carry, Places
    <3>. QED BY <1>6, <3>1, <3>2, <3>3
  <2>. QED BY <2>1
<1>. QED BY <1>1, <1>2, <1>3, <1>4, <1>5, <1>6 DEF Next, Receive, Handle

\* A connect request on a queue was there before or is being routed to the
\* client that serves its device.
LEMMA QueueSource ==
  ASSUME TypeInv, [Next]_vars, NEW a \in Clients, NEW k \in 1 .. Len(send'[a]),
         send'[a][k].type = "connect_request"
  PROVE  \/ \E j \in 1 .. Len(send[a]) : send'[a][k] = send[a][j]
         \/ \E c \in Clients : /\ RouteToDevice(c) /\ pc[c] = "route"
                               /\ byDevice[req[c].dev] = a
                               /\ send'[a][k].sid = req[c].sid
<1>. DEFINE Old == \E j \in 1 .. Len(send[a]) : send'[a][k] = send[a][j]
<1>. USE DEF TypeInv, TypeOK
<1>1. CASE send' = send BY <1>1
<1>2. ASSUME NEW c \in Clients, NEW m \in Message, TrySend(c, m),
             ~(a = c /\ send'[a][k] = m)
      PROVE  Old
  BY <1>2, TrySendType
<1>3. ASSUME NEW c \in Clients, RouteToDevice(c)
      PROVE  Old \/ /\ pc[c] = "route"
                    /\ byDevice[req[c].dev] = a
                    /\ send'[a][k].sid = req[c].sid
  <2>. DEFINE g == byDevice[req[c].dev]
              m == [type |-> "connect_request", sid |-> req[c].sid]
  <2>1. CASE send' = send BY <1>1, <2>1
  <2>2. CASE TrySend(g, m) /\ g # Nil
    <3>1. g \in Clients /\ m \in Message /\ pc[c] = "route"
      BY <1>3, <2>2
         DEF RouteToDevice, RequestOK, HubTypeOK, Clients, Message, MessageTypes
    <3>. HIDE DEF Old
    <3>2. CASE a = g /\ send'[a][k] = m BY <3>1, <3>2
    <3>3. CASE ~(a = g /\ send'[a][k] = m)
      <4>. HIDE DEF g, m
      <4>. QED BY <1>2, <2>2, <3>1, <3>3
    <3>. QED BY <3>2, <3>3
  <2>. QED BY <1>3, <2>1, <2>2 DEF RouteToDevice
<1>4. ASSUME NEW c \in Clients, SendPeer(c) PROVE Old
  <2>. DEFINE m == [type |-> req[c].type, sid |-> req[c].sid]
  <2>1. CASE send' = send BY <1>1, <2>1
  <2>2. CASE TrySend(req[c].peer, m)
    <3>1. /\ req[c].peer \in Clients
          /\ m \in Message /\ m.type # "connect_request"
      BY <1>4 DEF SendPeer, RequestOK, Message, MessageTypes
    <3>2. send'[a][k] # m BY <3>1
    <3>. HIDE DEF Old, m
    <3>. QED BY <1>2, <2>2, <3>1, <3>2
  <2>. QED BY <1>4, <2>1, <2>2 DEF SendPeer
<1>5. ASSUME NEW c \in Clients, Reply(c) PROVE Old
  <2>. DEFINE m == [type |-> req[c].type, sid |-> Nil]
  <2>1. m \in Message /\ m.type # "connect_request"
    BY <1>5 DEF Reply, RequestOK, Message, MessageTypes
  <2>2. TrySend(c, m) BY <1>5 DEF Reply
  <2>3. send'[a][k] # m BY <2>1
  <2>. HIDE DEF Old, m
  <2>. QED BY <1>2, <2>1, <2>2, <2>3
<1>6. ASSUME NEW c \in Clients, Write(c) \/ WriterExit(c) PROVE Old
  <2>1. CASE send[c] = <<>>
    <3>1. send' = send BY <1>6, <2>1 DEF Write, WriterExit, HubTypeOK
    <3>. QED BY <1>1, <3>1
  <2>2. CASE send[c] # <<>>
    <3>1. send' = [send EXCEPT ![c] = Tail(@)]
      BY <1>6, <2>2 DEF Write, WriterExit, HubTypeOK
    <3>. QED BY <2>2, <3>1, TailType
  <2>. QED BY <2>1, <2>2
<1>7. ASSUME NEW c \in Clients,
             \/ Connect(c) \/ Break(c) \/ ReadError(c) \/ Receive(c)
             \/ Beat(c) \/ Offline(c) \/ FindPeer(c) \/ Close(c)
             \/ Remove(c) \/ Unregister(c)
      PROVE  send' = send
  BY <1>7 DEF Connect, Break, ReadError, Receive, Register, Heartbeat, BadMessage,
              ConnectRequest, ConnectResponse, Forward, Disconnect, Beat, Offline,
              FindPeer, Close, Remove, Unregister
<1>8. CASE Tick \/ UNCHANGED vars BY <1>1, <1>8 DEF Tick, vars
<1>. HIDE DEF Old
<1>9. Old \/ \E c \in Clients : RouteToDevice(c)
  <2>1. send' = send => Old BY <1>1 DEF Old
  <2>. QED BY <2>1, <1>4, <1>5, <1>6, <1>7, <1>8 DEF Next, Handle, Tick, vars
<1>. QED BY <1>3, <1>9 DEF Old

\* An agent knows of a session from a connect request that was queued for it.
LEMMA ToldSource ==
  ASSUME TypeInv, [Next]_vars, NEW a \in Agents, NEW s \in told'[a]
  PROVE  \/ s \in told[a]
         \/ \E j \in 1 .. Len(send[a]) : /\ send[a][j].type = "connect_request"
                                         /\ send[a][j].sid = s
<1>. USE DEF TypeInv, TypeOK
<1>1. CASE told' = told BY <1>1
<1>2. ASSUME NEW c \in Clients, Write(c), told' # told
      PROVE  \/ s \in told[a]
             \/ \E j \in 1 .. Len(send[a]) : /\ send[a][j].type = "connect_request"
                                             /\ send[a][j].sid = s
  <2>1. Head(send[c]) = send[c][1] /\ 1 \in 1 .. Len(send[c])
    BY <1>2 DEF Write, HubTypeOK
  <2>2. /\ send[c][1].type = "connect_request"
        /\ told' = [told EXCEPT ![c] = @ \cup {send[c][1].sid}]
    BY <1>2, <2>1 DEF Write
  <2>3. s \in told[a] \/ (a = c /\ s = send[c][1].sid)
    BY <2>2 DEF ConnTypeOK
  <2>. QED BY <2>1, <2>2, <2>3
<1>3. ASSUME NEW c \in Clients,
             \/ Connect(c) \/ Break(c) \/ ReadError(c) \/ Receive(c) \/ Handle(c)
             \/ WriterExit(c)
      PROVE  told' = told
  BY <1>3 DEF Connect, Break, ReadError, Receive, Register, Heartbeat, BadMessage,
              ConnectRequest, ConnectResponse, Forward, Disconnect, Handle, Beat,
              RouteToDevice, Offline, FindPeer, SendPeer, Close, Reply, Remove,
              Unregister, WriterExit
<1>4. CASE Tick \/ UNCHANGED vars BY <1>1, <1>4 DEF Tick, vars, conn
<1>. QED BY <1>1, <1>2, <1>3, <1>4 DEF Next

\* The responder of a session, if new, was asked for it.
LEMMA ResponderSource ==
  ASSUME TypeInv, [Next]_vars, NEW s \in SessionIDs, responder'[s] # Nil
  PROVE  \/ responder'[s] = responder[s]
         \/ responder'[s] \in Agents /\ s \in told[responder'[s]]
<1>. USE DEF TypeInv, TypeOK, SessionTypeOK
<1>1. CASE responder' = responder BY <1>1
<1>2. ASSUME NEW c \in Clients, NEW t \in SessionIDs, NEW d \in Devices,
             ConnectRequest(c, t, d)
      PROVE  responder'[s] = responder[s]
  BY <1>2 DEF ConnectRequest, CreateSession
<1>3. ASSUME NEW c \in Clients, NEW t \in SessionIDs, NEW a \in Answers,
             ConnectResponse(c, t, a)
      PROVE  \/ responder'[s] = responder[s]
             \/ responder'[s] \in Agents /\ s \in told[responder'[s]]
  <2>1. c \in Agents /\ t \in told[c] BY <1>3 DEF ConnectResponse
  <2>2. responder' = responder \/ responder' = [responder EXCEPT ![t] = c]
    BY <1>3 DEF ConnectResponse, AcceptSession, RejectSession, MarkSession, table
  <2>. QED BY <2>1, <2>2
<1>4. ASSUME NEW c \in Clients,
             \/ Connect(c) \/ Break(c) \/ ReadError(c) \/ Write(c) \/ WriterExit(c)
             \/ Register(c) \/ Heartbeat(c) \/ BadMessage(c)
             \/ \E t \in SessionIDs : Forward(c, t) \/ Disconnect(c, t)
             \/ Handle(c)
      PROVE  responder' = responder
  BY <1>4 DEF Connect, Break, ReadError, Write, WriterExit, Register, Heartbeat,
              BadMessage, Forward, Disconnect, Handle, Beat, RouteToDevice, Offline,
              FindPeer, SendPeer, Close, Reply, Remove, Unregister, RejectSession,
              CloseSession, MarkSession, RemoveClientSessions, table
<1>5. CASE Tick \/ UNCHANGED vars BY <1>1, <1>5 DEF Tick, vars, table
<1>. QED BY <1>1, <1>2, <1>3, <1>4, <1>5 DEF Next, Receive

\* Requests stay on target: the chain from the app's request over the hub, the
\* queue and the agent's answer to the session's responder.
LEMMA TargetInductive ==
  TypeInv /\ RegistryInv /\ Targeted /\ ResponderServesDevice /\ [Next]_vars
     => Targeted' /\ ResponderServesDevice'
<1>. SUFFICES ASSUME TypeInv, RegistryInv, Targeted, ResponderServesDevice,
                     [Next]_vars
              PROVE  Targeted' /\ ResponderServesDevice'
  OBVIOUS
<1>. USE DEF TypeInv, TypeOK
<1>1. \A s \in SessionIDs : status[s] # "none" =>
         status'[s] # "none" /\ target'[s] = target[s]
  BY SessionsKept
<1>2. ASSUME NEW a \in Clients, pc'[a] = "route"
      PROVE  target'[req'[a].sid] = req'[a].dev /\ status'[req'[a].sid] # "none"
  <2>1. CASE pc[a] = "route" /\ req'[a] = req[a]
    <3>1. req[a].sid \in SessionIDs BY <2>1 DEF RequestOK
    <3>. QED BY <1>1, <2>1, <3>1 DEF Targeted
  <2>2. ASSUME NEW s \in SessionIDs, NEW d \in Devices, ConnectRequest(a, s, d)
        PROVE  target'[req'[a].sid] = req'[a].dev /\ status'[req'[a].sid] # "none"
    <3>1. req'[a].sid = s /\ req'[a].dev = d
      BY <2>2 DEF ConnectRequest, Carry, NoRequest, ConnTypeOK
    <3>2. target'[s] = d /\ status'[s] = "pending"
      BY <2>2 DEF ConnectRequest, CreateSession, SessionTypeOK
    <3>. QED BY <3>1, <3>2
  <2>. QED BY <1>2, <2>1, <2>2, RouteSource
<1>3. ASSUME NEW a \in Clients, NEW k \in 1 .. Len(send'[a]),
             send'[a][k].type = "connect_request"
      PROVE  /\ DeviceOf[a] = target'[send'[a][k].sid]
             /\ status'[send'[a][k].sid] # "none"
  <2>1. ASSUME NEW j \in 1 .. Len(send[a]), send'[a][k] = send[a][j]
        PROVE  /\ DeviceOf[a] = target'[send'[a][k].sid]
               /\ status'[send'[a][k].sid] # "none"
    <3>1. send[a][j].sid \in SessionIDs /\ OnTarget(a, send[a][j].sid)
      BY <1>3, <2>1 DEF QueueOK, Targeted
    <3>. QED BY <1>1, <2>1, <3>1 DEF OnTarget
  <2>2. ASSUME NEW c \in Clients, pc[c] = "route", byDevice[req[c].dev] = a,
               send'[a][k].sid = req[c].sid
        PROVE  /\ DeviceOf[a] = target'[send'[a][k].sid]
               /\ status'[send'[a][k].sid] # "none"
    <3>1. req[c].dev \in Devices /\ req[c].sid \in SessionIDs
      BY <2>2 DEF RequestOK
    <3>2. a # Nil BY ClientsAssumption
    <3>3. deviceID[a] = req[c].dev
      BY <2>2, <3>1, <3>2 DEF RegistryInv, RegistryConsistent
    <3>4. DeviceOf[a] = req[c].dev
      BY <3>1, <3>3, NilAssumption DEF RegistryInv, DeviceOwn
    <3>5. target[req[c].sid] = req[c].dev /\ status[req[c].sid] # "none"
      BY <2>2 DEF Targeted
    <3>. QED BY <1>1, <2>2, <3>1, <3>4, <3>5 DEF OnTarget
  <2>. QED BY <1>3, <2>1, <2>2, QueueSource
<1>4. ASSUME NEW a \in Agents, NEW s \in told'[a]
      PROVE  OnTarget(a, s)'
  <2>1. s \in SessionIDs /\ OnTarget(a, s)
    <3>1. CASE s \in told[a] BY <3>1 DEF Targeted, ConnTypeOK
    <3>2. ASSUME NEW j \in 1 .. Len(send[a]), send[a][j].type = "connect_request",
                 send[a][j].sid = s
          PROVE  s \in SessionIDs /\ OnTarget(a, s)
      BY <3>2 DEF QueueOK, Targeted, Clients
    <3>. QED BY <3>1, <3>2, ToldSource
  <2>. QED BY <1>1, <2>1 DEF OnTarget
<1>5. ASSUME NEW s \in SessionIDs, responder'[s] # Nil
      PROVE  status'[s] # "none" /\ DeviceOf[responder'[s]] = target'[s]
  <2>1. CASE responder'[s] = responder[s]
    BY <1>1, <1>5, <2>1 DEF Targeted, ResponderServesDevice
  <2>2. CASE responder'[s] \in Agents /\ s \in told[responder'[s]]
    BY <1>1, <2>2 DEF Targeted, OnTarget
  <2>3. \/ responder'[s] = responder[s]
        \/ responder'[s] \in Agents /\ s \in told[responder'[s]]
    <3>. HIDE DEF TypeInv
    <3>. QED BY <1>5, ResponderSource
  <2>. QED BY <2>1, <2>2, <2>3
<1>6. Targeted' BY <1>2, <1>3, <1>4, <1>5 DEF Targeted, OnTarget
<1>7. ResponderServesDevice' BY <1>5 DEF ResponderServesDevice
<1>. QED BY <1>6, <1>7

\* Whoever answers, an app is only ever connected to a connection of the
\* device it asked for.
THEOREM ResponderSafe == Spec => []ResponderServesDevice
<1>1. Init => RegistryInv
  BY BoundsAssumption
     DEF Init, HubInit, RegistryInv, RegistryConsistent, ClosedAtEnd, DeviceOwn
<1>2. Init => Targeted /\ ResponderServesDevice
  <2>. SUFFICES ASSUME Init PROVE Targeted /\ ResponderServesDevice
    OBVIOUS
  <2>1. \A c \in Clients : Len(send[c]) = 0 BY DEF Init, HubInit
  <2>. QED BY <2>1 DEF Init, SessionInit, Targeted, ResponderServesDevice
<1>. QED BY <1>1, <1>2, TypeInitial, TypeInductive, RegistryInductive,
            TargetInductive, PTL DEF Spec

----------------------------------------------------------------------------
\* Whose sessions go when a connection ends.

\* The agent was sent, or is about to be sent, the connect request of s.
Asked(a, s) ==
    \/ a \in Agents /\ s \in told[a]
    \/ \E k \in 1 .. Len(send[a]) : /\ send[a][k].type = "connect_request"
                                    /\ send[a][k].sid = s

\* A connect request is routed by the app that created the session and reaches
\* one connection at most; only that connection can become the responder.
AskedOnce ==
    /\ \A c \in Clients : pc[c] = "route" =>
          /\ initiator[req[c].sid] = c
          /\ \A a \in Clients : ~Asked(a, req[c].sid)
    /\ \A s \in SessionIDs, a, b \in Clients : Asked(a, s) /\ Asked(b, s) => a = b
    /\ \A s \in SessionIDs : responder[s] # Nil => s \in told[responder[s]]

\* A listed session is indexed under the IDs of its parties only, and nothing
\* is indexed before it is created.
IndexTrue ==
    \A i \in IDs : \A s \in byClient[i] :
       /\ status[s] # "none"
       /\ s \in sessions => \E c \in {initiator[s], responder[s]} \ {Nil} : id[c] = i

\* The initiator of a session that was created does not change.
LEMMA InitiatorKept ==
  ASSUME TypeInv, [Next]_vars, NEW s \in SessionIDs, status[s] # "none"
  PROVE  initiator'[s] = initiator[s]
<1>. USE DEF TypeInv, TypeOK, SessionTypeOK
<1>1. ASSUME NEW c \in Clients, NEW t \in SessionIDs, NEW d \in Devices,
             ConnectRequest(c, t, d)
      PROVE  initiator'[s] = initiator[s]
  BY <1>1 DEF ConnectRequest, CreateSession
<1>2. ASSUME NEW c \in Clients,
             \/ Connect(c) \/ Break(c) \/ ReadError(c) \/ Write(c) \/ WriterExit(c)
             \/ Register(c) \/ Heartbeat(c) \/ BadMessage(c)
             \/ \E t \in SessionIDs : Forward(c, t) \/ Disconnect(c, t)
             \/ \E t \in SessionIDs, a \in Answers : ConnectResponse(c, t, a)
             \/ Handle(c)
      PROVE  initiator' = initiator
  BY <1>2 DEF Connect, Break, ReadError, Write, WriterExit, Register, Heartbeat,
              BadMessage, Forward, Disconnect, ConnectResponse, AcceptSession, Handle,
              Beat, RouteToDevice, Offline, FindPeer, SendPeer, Close, Reply, Remove,
              Unregister, RejectSession, CloseSession, MarkSession,
              RemoveClientSessions, table
<1>3. CASE Tick \/ UNCHANGED vars BY <1>3 DEF Tick, vars, table
<1>. QED BY <1>1, <1>2, <1>3 DEF Next, Receive

\* An agent is asked for a session because it was before, or because the
\* request is being routed to it in this step, after which it is no longer
\* waiting to be routed.
LEMMA AskedSource ==
  ASSUME TypeInv, [Next]_vars, NEW a \in Clients, NEW s \in SessionIDs, Asked(a, s)'
  PROVE  \/ Asked(a, s)
         \/ \E c \in Clients : /\ pc[c] = "route" /\ req[c].sid = s
                               /\ byDevice[req[c].dev] = a
                               /\ pc'[c] # "route"
<1>1. CASE a \in Agents /\ s \in told'[a]
  BY <1>1, ToldSource DEF Asked
<1>2. ASSUME NEW k \in 1 .. Len(send'[a]), send'[a][k].type = "connect_request",
             send'[a][k].sid = s
      PROVE  \/ Asked(a, s)
             \/ \E c \in Clients : /\ pc[c] = "route" /\ req[c].sid = s
                                   /\ byDevice[req[c].dev] = a
                                   /\ pc'[c] # "route"
  <2>1. ASSUME NEW c \in Clients, RouteToDevice(c) PROVE pc'[c] # "route"
    <3>1. Goto(c, "offline") \/ Goto(c, "read") \/ Goto(c, "panicked")
      BY <2>1 DEF RouteToDevice, Panic
    <3>. QED BY <3>1 DEF Goto, TypeInv, TypeOK, ConnTypeOK
  <2>2. CASE \E j \in 1 .. Len(send[a]) : send'[a][k] = send[a][j]
    BY <1>2, <2>2 DEF Asked
  <2>. QED BY <1>2, <2>1, <2>2, QueueSource
<1>. QED BY <1>1, <1>2 DEF Asked

\* The set of sessions an agent was told of only grows.
LEMMA ToldKept ==
  ASSUME TypeInv, [Next]_vars, NEW a \in Agents
  PROVE  told[a] \subseteq told'[a]
<1>1. ASSUME NEW c \in Clients, Write(c) PROVE told[a] \subseteq told'[a]
  BY <1>1 DEF Write, TypeInv, TypeOK, ConnTypeOK
<1>2. ASSUME NEW c \in Clients,
             \/ Connect(c) \/ Break(c) \/ ReadError(c) \/ Receive(c) \/ Handle(c)
             \/ WriterExit(c)
      PROVE  told' = told
  BY <1>2 DEF Connect, Break, ReadError, Receive, Register, Heartbeat, BadMessage,
              ConnectRequest, ConnectResponse, Forward, Disconnect, Handle, Beat,
              RouteToDevice, Offline, FindPeer, SendPeer, Close, Reply, Remove,
              Unregister, WriterExit
<1>3. CASE Tick \/ UNCHANGED vars BY <1>3 DEF Tick, vars, conn
<1>. QED BY <1>1, <1>2, <1>3 DEF Next

\* Connect requests are neither duplicated nor answered by a second agent.
LEMMA AskedInductive ==
  TypeInv /\ Targeted /\ AskedOnce /\ [Next]_vars => AskedOnce'
<1>. SUFFICES ASSUME TypeInv, Targeted, AskedOnce, [Next]_vars PROVE AskedOnce'
  OBVIOUS
<1>1. ASSUME NEW c \in Clients, pc[c] = "route"
      PROVE  /\ req[c].sid \in SessionIDs /\ status[req[c].sid] # "none"
             /\ initiator[req[c].sid] = c
             /\ \A a \in Clients : ~Asked(a, req[c].sid)
  BY <1>1 DEF TypeInv, RequestOK, Targeted, AskedOnce
<1>2. ASSUME NEW a \in Clients, NEW s \in SessionIDs, Asked(a, s)
      PROVE  status[s] # "none"
  BY <1>2 DEF Asked, Targeted, OnTarget
<1>3. ASSUME NEW c \in Clients, pc'[c] = "route"
      PROVE  /\ initiator'[req'[c].sid] = c
             /\ \A a \in Clients : ~Asked(a, req[c].sid)'
  <2>1. CASE pc[c] = "route" /\ req'[c] = req[c]
    <3>. PICK s \in SessionIDs : s = req[c].sid /\ s = req'[c].sid BY <1>1, <2>1
    <3>1. initiator'[s] = c BY <1>1, <2>1, InitiatorKept
    <3>2. ASSUME NEW a \in Clients, Asked(a, s)' PROVE FALSE
      <4>1. ~Asked(a, s) BY <1>1, <2>1
      <4>2. PICK e \in Clients : pc[e] = "route" /\ req[e].sid = s /\ pc'[e] # "route"
        BY <3>2, <4>1, AskedSource
      <4>3. e = c BY <1>1, <2>1, <4>2
      <4>. QED BY <1>3, <4>2, <4>3
    <3>. QED BY <2>1, <3>1, <3>2
  <2>2. ASSUME NEW s \in SessionIDs, NEW d \in Devices, ConnectRequest(c, s, d)
        PROVE  /\ initiator'[req'[c].sid] = c
               /\ \A a \in Clients : ~Asked(a, req[c].sid)'
    <3>1. req'[c].sid = s /\ initiator'[s] = c
      BY <2>2 DEF ConnectRequest, Carry, NoRequest, CreateSession, TypeInv, TypeOK,
                  ConnTypeOK, SessionTypeOK
    <3>2. status[s] = "none" BY <2>2 DEF ConnectRequest
    <3>3. \A a \in Clients : Asked(a, s)' = Asked(a, s)
      BY <2>2 DEF ConnectRequest, Asked
    <3>. QED BY <1>2, <3>1, <3>2, <3>3
  <2>. QED BY <1>3, <2>1, <2>2, RouteSource
<1>4. ASSUME NEW s \in SessionIDs, NEW a \in Clients, NEW b \in Clients,
             Asked(a, s)', Asked(b, s)'
      PROVE  a = b
  <2>1. CASE Asked(a, s)
    <3>1. \A c \in Clients : pc[c] = "route" => req[c].sid # s BY <1>1, <2>1
    <3>2. Asked(b, s) BY <1>4, <3>1, AskedSource
    <3>. QED BY <2>1, <3>2 DEF AskedOnce
  <2>2. CASE ~Asked(a, s)
    <3>1. PICK c \in Clients : /\ pc[c] = "route" /\ req[c].sid = s
                               /\ byDevice[req[c].dev] = a
      BY <1>4, <2>2, AskedSource
    <3>2. ~Asked(b, s) BY <1>1, <3>1
    <3>3. PICK e \in Clients : /\ pc[e] = "route" /\ req[e].sid = s
                               /\ byDevice[req[e].dev] = b
      BY <1>4, <3>2, AskedSource
    <3>4. c = e BY <1>1, <3>1, <3>3
    <3>. QED BY <3>1, <3>3, <3>4
  <2>. QED BY <2>1, <2>2
<1>5. ASSUME NEW s \in SessionIDs, responder'[s] # Nil
      PROVE  s \in told'[responder'[s]]
  <2>1. responder[s] # Nil => responder[s] \in Agents
    BY DEF TypeInv, TypeOK, SessionTypeOK
  <2>2. responder'[s] \in Agents /\ s \in told[responder'[s]]
    BY <1>5, <2>1, ResponderSource DEF AskedOnce
  <2>. QED BY <2>2, ToldKept
<1>. QED BY <1>3, <1>4, <1>5 DEF AskedOnce

\* The agent that answers is the only one that can have answered before.
LEMMA SameResponder ==
  ASSUME TypeInv, AskedOnce, NEW c \in Agents, NEW s \in told[c]
  PROVE  responder[s] \in {Nil, c}
<1>1. s \in SessionIDs /\ responder[s] \in Agents \cup {Nil}
  BY DEF TypeInv, TypeOK, ConnTypeOK, SessionTypeOK
<1>2. responder[s] # Nil => Asked(responder[s], s) /\ responder[s] \in Clients
  BY <1>1 DEF AskedOnce, Asked, Clients
<1>3. Asked(c, s) /\ c \in Clients BY DEF Asked, Clients
<1>. QED BY <1>1, <1>2, <1>3 DEF AskedOnce

\* The index says only what is true of the sessions in the table.
LEMMA IndexTrueInductive ==
  TypeInv /\ Indexed /\ AskedOnce /\ IndexTrue /\ [Next]_vars => IndexTrue'
<1>. SUFFICES ASSUME TypeInv, Indexed, AskedOnce, IndexTrue, [Next]_vars
              PROVE  IndexTrue'
  OBVIOUS
<1>. USE DEF TypeInv, TypeOK
<1>1. ASSUME UNCHANGED <<id, sessions, initiator, responder, byClient>>,
             \A s \in SessionIDs : status[s] # "none" => status'[s] # "none"
      PROVE  IndexTrue'
  BY <1>1 DEF IndexTrue, SessionTypeOK
<1>2. \A s \in SessionIDs : status[s] # "none" => status'[s] # "none"
  BY SessionsKept
<1>3. ASSUME NEW c \in Clients, NEW t \in SessionIDs, NEW d \in Devices,
             ConnectRequest(c, t, d)
      PROVE  IndexTrue'
  <2>1. /\ CreateSession(t, c, d) /\ id' = id /\ id[c] \in IDs /\ status[t] = "none"
        /\ c # Nil
    BY <1>3, ClientsAssumption DEF ConnectRequest, HubTypeOK
  <2>2. ASSUME NEW i \in IDs, NEW s \in byClient'[i]
        PROVE  /\ status'[s] # "none"
               /\ s \in sessions' =>
                     \E e \in {initiator'[s], responder'[s]} \ {Nil} : id'[e] = i
    <3>1. s \in SessionIDs /\ (s \in byClient[i] \/ (s = t /\ i = id[c]))
      BY <2>1, <2>2 DEF CreateSession, SessionTypeOK
    <3>2. CASE s = t
      <4>1. s \notin byClient[i] BY <2>1, <3>2 DEF IndexTrue
      <4>2. i = id[c] /\ initiator'[s] = c /\ status'[s] = "pending"
        BY <2>1, <3>1, <3>2, <4>1 DEF CreateSession, SessionTypeOK
      <4>. QED BY <2>1, <4>2
    <3>3. CASE s # t
      BY <2>1, <3>1, <3>3 DEF CreateSession, SessionTypeOK, IndexTrue
    <3>. QED BY <3>2, <3>3
  <2>. QED BY <2>2 DEF IndexTrue
<1>4. ASSUME NEW c \in Clients, NEW t \in SessionIDs, NEW a \in Answers,
             ConnectResponse(c, t, a)
      PROVE  IndexTrue'
  <2>1. CASE a /\ t \in sessions
    <3>1. /\ AcceptSession(t, c) /\ id' = id /\ c \in Agents /\ t \in told[c]
          /\ id[c] \in IDs /\ c # Nil /\ responder[t] \in {Nil, c}
      BY <1>4, <2>1, ClientsAssumption, SameResponder DEF ConnectResponse, HubTypeOK
    <3>2. ASSUME NEW i \in IDs, NEW s \in byClient'[i]
          PROVE  /\ status'[s] # "none"
                 /\ s \in sessions' =>
                       \E e \in {initiator'[s], responder'[s]} \ {Nil} : id'[e] = i
      <4>1. /\ s \in SessionIDs /\ (s \in byClient[i] \/ (s = t /\ i = id[c]))
            /\ sessions' = sessions /\ initiator' = initiator
            /\ \A r \in SessionIDs : responder'[r] = IF r = t THEN c ELSE responder[r]
            /\ \A r \in SessionIDs : status'[r] = IF r = t THEN "accepted" ELSE status[r]
        BY <2>1, <3>1, <3>2 DEF AcceptSession, SessionTypeOK
      <4>2. CASE s = t /\ i = id[c] BY <3>1, <4>1, <4>2
      <4>3. CASE ~(s = t /\ i = id[c])
        <5>1. /\ s \in byClient[i] /\ status[s] # "none"
              /\ s \in sessions =>
                    \E e \in {initiator[s], responder[s]} \ {Nil} : id[e] = i
          BY <4>1, <4>3 DEF IndexTrue
        <5>. QED BY <3>1, <4>1, <5>1
      <4>. QED BY <4>2, <4>3
    <3>. QED BY <3>2 DEF IndexTrue
  <2>2. CASE ~(a /\ t \in sessions)
    BY <1>1, <1>2, <1>4, <2>2
       DEF ConnectResponse, AcceptSession, RejectSession, MarkSession, table
  <2>. QED BY <2>1, <2>2
<1>5. ASSUME NEW c \in Clients, Remove(c) PROVE IndexTrue'
  <2>1. RemoveClientSessions(id[c]) /\ id' = id /\ id[c] \in IDs
    BY <1>5 DEF Remove, HubTypeOK
  <2>. QED BY <1>2, <2>1 DEF RemoveClientSessions, IndexTrue, SessionTypeOK
<1>6. ASSUME NEW c \in Clients, Connect(c) PROVE IndexTrue'
  <2>1. /\ pc[c] = "none" /\ UNCHANGED table
        /\ \A e \in Clients : e # c => id'[e] = id[e]
    BY <1>6 DEF Connect, RegisterClient, HubTypeOK
  <2>2. ASSUME NEW i \in IDs, NEW s \in byClient'[i], s \in sessions'
        PROVE  \E e \in {initiator'[s], responder'[s]} \ {Nil} : id'[e] = i
    <3>1. PICK e \in {initiator[s], responder[s]} \ {Nil} : id[e] = i
      BY <2>1, <2>2 DEF table, IndexTrue
    <3>2. s \in sessions /\ s \in SessionIDs BY <2>1, <2>2 DEF table, SessionTypeOK
    <3>3. e \in Clients /\ e # c BY <2>1, <3>1, <3>2, Parties DEF Indexed
    <3>. QED BY <2>1, <3>1, <3>3 DEF table
  <2>. QED BY <2>1, <2>2 DEF IndexTrue, table
<1>7. ASSUME NEW c \in Clients,
             \/ Break(c) \/ ReadError(c) \/ Write(c) \/ WriterExit(c)
             \/ Register(c) \/ Heartbeat(c) \/ BadMessage(c)
             \/ \E t \in SessionIDs : Forward(c, t) \/ Disconnect(c, t)
             \/ Handle(c) /\ ~Remove(c)
      PROVE  UNCHANGED <<id, sessions, initiator, responder, byClient>>
  BY <1>7 DEF Break, ReadError, Write, WriterExit, Register, Heartbeat, BadMessage,
              Forward, Disconnect, Handle, Beat, RouteToDevice, Offline, FindPeer,
              SendPeer, Close, Reply, Unregister, RejectSession, CloseSession,
              MarkSession, table
<1>8. CASE Tick \/ UNCHANGED vars BY <1>1, <1>2, <1>8 DEF Tick, vars, table
<1>. QED BY <1>1, <1>2, <1>3, <1>4, <1>5, <1>6, <1>7, <1>8 DEF Next, Receive

\* Everything that is known of the sessions.
SessionInv ==
    /\ TypeInv /\ RegistryInv
    /\ Indexed /\ IndexOwned /\ IndexTrue
    /\ Targeted /\ ResponderServesDevice /\ AskedOnce

\* It is an inductive invariant.
LEMMA SessionInvariant ==
  /\ Init => SessionInv
  /\ SessionInv /\ [Next]_vars => SessionInv'
<1>1. ASSUME Init PROVE SessionInv
  <2>. USE <1>1
  <2>1. RegistryInv
    BY BoundsAssumption
       DEF Init, HubInit, RegistryInv, RegistryConsistent, ClosedAtEnd, DeviceOwn
  <2>2. \A c \in Clients : Len(send[c]) = 0 BY DEF Init, HubInit
  <2>3. Targeted /\ ResponderServesDevice
    BY <2>2 DEF Init, SessionInit, Targeted, ResponderServesDevice
  <2>4. Indexed /\ IndexOwned /\ IndexTrue
    BY DEF Init, SessionInit, Indexed, IndexOwned, IndexTrue
  <2>5. AskedOnce
    BY <2>2 DEF Init, SessionInit, AskedOnce, Asked, Clients
  <2>. QED BY <2>1, <2>3, <2>4, <2>5, TypeInitial DEF SessionInv
<1>2. SessionInv /\ [Next]_vars => SessionInv'
  BY TypeInductive, RegistryInductive, SessionInductive, TargetInductive,
     AskedInductive, IndexTrueInductive DEF SessionInv
<1>. QED BY <1>1, <1>2

\* A connection that ends, and whose ID no other connection was given, takes
\* with it the sessions it is a party of and no others, however requests,
\* answers and reconnections interleaved before (RemoveClientSessions).
THEOREM LeavingSafe == Spec => LeavingKeepsOthersIfUnique
<1>. DEFINE Leaves == \A c \in Clients :
                         Remove(c) /\ (\A e \in Clients \ {c} :
                                          pc[e] = "none" \/ id[e] # id[c])
                            => \A s \in sessions \ sessions' :
                                         c \in {initiator[s], responder[s]}
<1>1. SessionInv /\ [Next]_vars => [Leaves]_vars
  <2>. SUFFICES ASSUME SessionInv, NEW c \in Clients, Remove(c),
                       \A e \in Clients \ {c} : pc[e] = "none" \/ id[e] # id[c],
                       NEW s \in sessions \ sessions'
                PROVE  c \in {initiator[s], responder[s]}
    OBVIOUS
  <2>1. s \in sessions /\ s \in byClient[id[c]] /\ id[c] \in IDs /\ s \in SessionIDs
    BY DEF Remove, RemoveClientSessions, SessionInv, TypeInv, TypeOK, HubTypeOK,
           SessionTypeOK
  <2>2. PICK e \in {initiator[s], responder[s]} \ {Nil} : id[e] = id[c]
    BY <2>1 DEF SessionInv, IndexTrue
  <2>3. e \in Clients /\ pc[e] # "none"
    BY <2>1, <2>2, Parties DEF SessionInv, Indexed
  <2>. QED BY <2>2, <2>3
<1>. QED BY <1>1, SessionInvariant, PTL DEF Spec, LeavingKeepsOthersIfUnique

\* An agent routes an answer for a session it was told of.
AnswerKnown ==
    \A c \in Clients : pc[c] = "peer" /\ req[c].type = "connect_response"
                          => c \in Agents /\ req[c].sid \in told[c]

\* A handler about to route an answer has just received it.
LEMMA AnswerSource ==
  ASSUME TypeInv, [Next]_vars, NEW a \in Clients, pc'[a] = "peer",
         req'[a].type = "connect_response"
  PROVE  \/ pc[a] = "peer" /\ req'[a] = req[a]
         \/ \E s \in SessionIDs, b \in Answers : ConnectResponse(a, s, b)
<1>. USE DEF TypeInv, TypeOK, ConnTypeOK
<1>1. CASE Tick \/ UNCHANGED vars BY <1>1 DEF Tick, vars, conn
<1>2. ASSUME NEW c \in Clients,
             \/ Connect(c) \/ Break(c) \/ ReadError(c) \/ Write(c) \/ WriterExit(c)
             \/ Beat(c) \/ Offline(c) \/ Close(c) \/ Reply(c) \/ Remove(c) \/ Unregister(c)
      PROVE  pc[a] = "peer" /\ req'[a] = req[a]
  BY <1>2 DEF Connect, Break, ReadError, Write, WriterExit, Beat, Offline, Close,
              Reply, Remove, Unregister, Goto, Carry
<1>3. ASSUME NEW c \in Clients,
             \/ Register(c) \/ Heartbeat(c) \/ BadMessage(c)
             \/ \E s \in SessionIDs, d \in Devices : ConnectRequest(c, s, d)
      PROVE  pc[a] = "peer" /\ req'[a] = req[a]
  BY <1>3 DEF Register, Heartbeat, BadMessage, ConnectRequest, Goto, Carry
<1>4. ASSUME NEW c \in Clients, NEW s \in SessionIDs, Forward(c, s) \/ Disconnect(c, s)
      PROVE  pc[a] = "peer" /\ req'[a] = req[a]
  BY <1>4 DEF Forward, Disconnect, Goto, Carry, NoRequest
<1>5. ASSUME NEW c \in Clients, NEW s \in SessionIDs, NEW b \in Answers,
             ConnectResponse(c, s, b), a # c
      PROVE  pc[a] = "peer" /\ req'[a] = req[a]
  BY <1>5 DEF ConnectResponse, Goto, Carry
<1>6. ASSUME NEW c \in Clients, RouteToDevice(c) \/ FindPeer(c) \/ SendPeer(c)
      PROVE  pc[a] = "peer" /\ req'[a] = req[a]
  <2>1. PICK p, r : /\ p \in Places /\ p # "peer"
                    /\ pc' = [pc EXCEPT ![c] = p]
                    /\ req' = [req EXCEPT ![c] = r]
    <3>1. CASE RouteToDevice(c)
      <4>1. \/ Goto(c, "offline") /\ req' = [req EXCEPT ![c] = req[c]]
            \/ Goto(c, "read") /\ Carry(c, NoRequest)
            \/ Goto(c, "panicked") /\ Carry(c, NoRequest)
        BY <3>1 DEF RouteToDevice, Panic
      <4>. QED BY <4>1 DEF Goto, Carry, Places
    <3>2. CASE FindPeer(c)
      BY <3>2 DEF FindPeer, AfterRoute, Goto, Carry, Places
    <3>3. CASE SendPeer(c)
      BY <3>3 DEF SendPeer, AfterRoute, Panic, Goto, Carry, Places
    <3>. QED BY <1>6, <3>1, <3>2, <3>3
  <2>. QED BY <2>1
<1>. QED BY <1>1, <1>2, <1>3, <1>4, <1>5, <1>6 DEF Next, Receive, Handle

\* Once a session has been accepted, the answer of any agent to it is routed
\* to the app that asked: no second agent can have become the responder
\* (AcceptSession, which overwrites the responder, and GetPeer).
THEOREM AcceptanceReaches == Spec => []AcceptanceReachesInitiator
<1>1. Init => AnswerKnown BY DEF Init, AnswerKnown
<1>2. SessionInv /\ AnswerKnown /\ [Next]_vars => AnswerKnown'
  <2>. SUFFICES ASSUME SessionInv, AnswerKnown, [Next]_vars, NEW c \in Clients,
                       pc'[c] = "peer", req'[c].type = "connect_response"
                PROVE  c \in Agents /\ req'[c].sid \in told'[c]
    BY DEF AnswerKnown
  <2>1. CASE pc[c] = "peer" /\ req'[c] = req[c]
    BY <2>1, ToldKept DEF AnswerKnown, SessionInv
  <2>2. ASSUME NEW s \in SessionIDs, NEW b \in Answers, ConnectResponse(c, s, b)
        PROVE  c \in Agents /\ req'[c].sid \in told'[c]
    BY <2>2 DEF ConnectResponse, Carry, NoRequest, SessionInv, TypeInv, TypeOK, ConnTypeOK
  <2>. QED BY <2>1, <2>2, AnswerSource DEF SessionInv
<1>3. SessionInv /\ AnswerKnown => AcceptanceReachesInitiator
  <2>. SUFFICES ASSUME SessionInv, AnswerKnown, NEW c \in Agents, Answering(c),
                       responder[req[c].sid] # Nil,
                       id[c] # id[initiator[req[c].sid]]
                PROVE  GetPeer(req[c].sid, c) = initiator[req[c].sid]
    BY DEF AcceptanceReachesInitiator
  <2>1. req[c].sid \in told[c] BY DEF AnswerKnown, Answering, Clients
  <2>2. responder[req[c].sid] = c BY <2>1, SameResponder DEF SessionInv
  <2>. QED BY <2>2 DEF Answering, GetPeer
<1>. QED BY <1>1, <1>2, <1>3, SessionInvariant, PTL DEF Spec

----------------------------------------------------------------------------
(* The server implements the directory.                                    *)

\* The connections that are over, in the directory's terms.
Over == {c \in Agents : pc[c] \in {"gone", "panicked"}}

\* The hub starts as an empty directory.
LEMMA DirectoryInit == Init => Directory!Init
  BY ClientsAssumption
     DEF Init, HubInit, SessionInit, Directory!Init, Clients

\* A step that leaves the devices alone is a stutter of the directory, or the
\* failure of the connection whose handler it is.
LEMMA DirectoryFrame ==
  ASSUME TypeInv, NEW c \in Clients, NEW p \in Places \ {"gone"},
         pc[c] \notin {"gone", "panicked"}, pc' = [pc EXCEPT ![c] = p],
         UNCHANGED <<second, byDevice, registered, lastSeen>>
  PROVE  [Directory!Next]_(Directory!vars)
<1>. USE DEF TypeInv, TypeOK, ConnTypeOK
<1>1. CASE c \in Agents /\ p = "panicked"
  <2>1. c \notin Over /\ Over' = Over \cup {c} BY <1>1 DEF Over
  <2>2. Directory!Fail(c) BY <2>1 DEF Directory!Fail, Over
  <2>. QED BY <1>1, <2>2 DEF Directory!Next
<1>2. CASE ~(c \in Agents /\ p = "panicked")
  <2>1. Over' = Over BY <1>2 DEF Over
  <2>. QED BY <2>1 DEF Directory!vars, Over
<1>. QED BY <1>1, <1>2

\* RegisterDevice signs the connection on.
LEMMA DirectoryRegister ==
  ASSUME TypeInv, RegistryInv, NEW c \in Agents, Register(c)
  PROVE  Directory!SignOn(c)
<1>. USE DEF TypeInv, TypeOK
<1>1. /\ DeviceOf[c] \in Devices /\ c \in Clients /\ c \notin Apps
      /\ pc[c] = "read" /\ RegisterDevice(c, DeviceOf[c]) /\ UNCHANGED second
  BY ClientsAssumption, DeviceOfAssumption DEF Register, Clients
<1>2. c \notin Over /\ Over' = Over
  BY <1>1 DEF Register, Goto, ConnTypeOK, Over
<1>3. DeviceOf[c] \in devices <=> byDevice[DeviceOf[c]] # Nil
  BY <1>1 DEF RegistryInv, RegistryConsistent
<1>. QED BY <1>1, <1>2, <1>3 DEF Directory!SignOn, RegisterDevice, Over

\* A heartbeat counts for a device that is registered, and for no other.
LEMMA DirectoryBeat ==
  ASSUME TypeInv, RegistryInv, NEW c \in Clients, Beat(c)
  PROVE  [Directory!Next]_(Directory!vars)
<1>. DEFINE d == req[c].dev
<1>. USE DEF TypeInv, TypeOK
<1>1. /\ UpdateHeartbeat(d) /\ UNCHANGED second
      /\ pc[c] = "beat" /\ pc' = [pc EXCEPT ![c] = "reply"]
  BY DEF Beat, Goto
<1>2. Over' = Over BY <1>1 DEF Over, ConnTypeOK
<1>3. CASE d \in devices
  <2>1. d \in Devices /\ byDevice[d] # Nil
    BY <1>3 DEF RegistryInv, RegistryConsistent, HubTypeOK
  <2>2. Directory!Hear(d)
    BY <1>1, <1>2, <1>3, <2>1 DEF UpdateHeartbeat, Directory!Hear, Over
  <2>. QED BY <2>1, <2>2 DEF Directory!Next
<1>4. CASE d \notin devices
  BY <1>1, <1>2, <1>4 DEF UpdateHeartbeat, Directory!vars, Over
<1>. QED BY <1>3, <1>4

\* UnregisterClient signs the connection off, and takes the device along only
\* if no later connection has signed on for it.
LEMMA DirectoryUnregister ==
  ASSUME TypeInv, RegistryInv, NEW c \in Clients, Unregister(c)
  PROVE  [Directory!Next]_(Directory!vars)
<1>. USE DEF TypeInv, TypeOK
<1>1. /\ pc[c] = "unregister" /\ pc' = [pc EXCEPT ![c] = "gone"]
      /\ UnregisterClient(c) /\ UNCHANGED second /\ c # Nil
  BY ClientsAssumption DEF Unregister, Goto
<1>2. CASE deviceID[c] = Nil \/ c \notin Agents
  <2>1. UNCHANGED <<byDevice, registered, lastSeen>>
    BY <1>1, <1>2 DEF UnregisterClient, HubTypeOK
  <2>2. CASE c \notin Agents
    <3>1. Over' = Over BY <1>1, <2>2 DEF Over, ConnTypeOK
    <3>. QED BY <1>1, <2>1, <3>1 DEF Directory!vars, Over
  <2>3. CASE c \in Agents
    <3>1. c \notin Over /\ Over' = Over \cup {c}
      BY <1>1, <2>3 DEF Over, ConnTypeOK
    <3>2. byDevice[DeviceOf[c]] # c
      BY <1>1, <1>2, <2>3, DeviceOfAssumption, NilAssumption
         DEF RegistryInv, RegistryConsistent
    <3>3. Directory!SignOff(c)
      BY <1>1, <2>1, <3>1, <3>2 DEF Directory!SignOff, Over
    <3>. QED BY <2>3, <3>3 DEF Directory!Next
  <2>. QED BY <2>2, <2>3
<1>3. CASE deviceID[c] # Nil /\ c \in Agents
  <2>1. /\ deviceID[c] = DeviceOf[c] /\ DeviceOf[c] \in Devices
        /\ byDevice[DeviceOf[c]] = c
    BY <1>1, <1>3, DeviceOfAssumption
       DEF RegistryInv, RegistryConsistent, DeviceOwn
  <2>2. c \notin Over /\ Over' = Over \cup {c}
    BY <1>1, <1>3 DEF Over, ConnTypeOK
  <2>3. /\ byDevice' = [byDevice EXCEPT ![DeviceOf[c]] = Nil]
        /\ registered' = [registered EXCEPT ![DeviceOf[c]] = 0]
        /\ lastSeen' = [lastSeen EXCEPT ![DeviceOf[c]] = 0]
    BY <1>1, <1>3, <2>1 DEF UnregisterClient, HubTypeOK
  <2>4. Directory!SignOff(c)
    BY <1>1, <2>1, <2>2, <2>3 DEF Directory!SignOff, Over
  <2>. QED BY <1>3, <2>4 DEF Directory!Next
<1>. QED BY <1>2, <1>3

\* Every step of the server is a step of the directory or a stutter.
LEMMA DirectoryStep ==
  ASSUME TypeInv, RegistryInv, [Next]_vars
  PROVE  [Directory!Next]_(Directory!vars)
<1>1. CASE Tick
  BY <1>1 DEF Tick, registry, conn, Directory!Next, Directory!Tick
<1>2. CASE UNCHANGED vars
  BY <1>2 DEF vars, registry, conn, Directory!vars
<1>3. ASSUME NEW c \in Clients, Break(c) \/ Write(c) \/ WriterExit(c)
      PROVE  [Directory!Next]_(Directory!vars)
  BY <1>3 DEF Break, Write, WriterExit, registry, Directory!vars
<1>4. ASSUME NEW c \in Clients, Receive(c) \/ Handle(c) \/ ReadError(c) \/ Connect(c)
      PROVE  [Directory!Next]_(Directory!vars)
  <2>1. PICK p \in Places : /\ pc' = [pc EXCEPT ![c] = p]
                            /\ p = "gone" => Unregister(c)
    BY <1>4, Moves
  <2>2. pc[c] \notin {"gone", "panicked"}
    BY <1>4 DEF Receive, Register, Heartbeat, BadMessage, ConnectRequest,
                ConnectResponse, Forward, Disconnect, Handle, Beat, RouteToDevice,
                Offline, FindPeer, SendPeer, Close, Reply, Remove, Unregister,
                ReadError, Connect
  <2>3. CASE c \in Agents /\ Register(c)
    BY <2>3, DirectoryRegister DEF Directory!Next
  <2>4. CASE Beat(c) BY <2>4, DirectoryBeat
  <2>5. CASE Unregister(c) BY <2>5, DirectoryUnregister
  <2>6. CASE ~(c \in Agents /\ Register(c)) /\ ~Beat(c) /\ ~Unregister(c)
    <3>1. UNCHANGED <<second, byDevice, registered, lastSeen>>
      BY <1>4, <2>6
         DEF Receive, Register, Heartbeat, BadMessage, ConnectRequest,
             ConnectResponse, Forward, Disconnect, Handle, RouteToDevice, Offline,
             FindPeer, SendPeer, Close, Reply, Remove, ReadError, Connect,
             RegisterClient, registry, Clients
    <3>2. p \in Places \ {"gone"} BY <2>1, <2>6
    <3>. QED BY <2>1, <2>2, <3>1, <3>2, DirectoryFrame
  <2>. QED BY <2>3, <2>4, <2>5, <2>6
<1>. QED BY <1>1, <1>2, <1>3, <1>4 DEF Next

\* The hub, called by any number of overlapping connections of a device, whose
\* heartbeats and clean-ups may come late, implements the directory in which
\* the latest registration counts.
THEOREM SignalImplementsDirectory == Spec => ImplementsDirectory
<1>1. Init => RegistryInv
  BY BoundsAssumption
     DEF Init, HubInit, RegistryInv, RegistryConsistent, ClosedAtEnd, DeviceOwn
<1>2. TypeInv /\ RegistryInv /\ [Next]_vars => [Directory!Next]_(Directory!vars)
  BY DirectoryStep
<1>. QED BY <1>1, <1>2, DirectoryInit, TypeInitial, TypeInductive, RegistryInductive,
            PTL DEF Spec, ImplementsDirectory, Directory!Spec

----------------------------------------------------------------------------
\* The REST API.

\* What a handler can hold between two calls, and what it can answer.
Lists == (SUBSET Devices) \cup (SUBSET SessionIDs)

Held == Agents \cup {Nil} \cup Lists

AnswerSet == Devices \cup {Nil, NotFound} \cup Lists \cup (Held \X Lists)

\* The types of the requests' state.
CallTypeOK ==
    /\ kind \in [Calls -> Asks \cup {"none"}]
    /\ place \in [Calls -> {"start", "second", "done"}]
    /\ wanted \in [Calls -> Devices \cup {Nil}]
    /\ held \in [Calls -> Held]
    /\ answer \in [Calls -> AnswerSet]
    /\ served \in [Calls -> SUBSET (Agents \cup {Nil})]

\* A request for a device has noted whoever serves the device now, has noted
\* connections of that device only, and holds one of them between its look-ups.
Watched(q) ==
    kind[q] = "device" =>
       /\ wanted[q] \in Devices
       /\ \A c \in served[q] : c # Nil => DeviceOf[c] = wanted[q]
       /\ place[q] # "done" => byDevice[wanted[q]] \in served[q]
       /\ place[q] = "second" => held[q] \in served[q] /\ held[q] # Nil

Truthful(q) ==
    kind[q] = "device" /\ place[q] = "done" =>
       IF answer[q] = NotFound
       THEN Nil \in served[q] \/ \E c, e \in served[q] : c # e
       ELSE answer[q] = wanted[q] /\ served[q] # {Nil}

CallInv ==
    /\ CallTypeOK
    /\ \A q \in Calls : /\ kind[q] = "none" => place[q] = "start"
                        /\ Watched(q)
                        /\ Truthful(q)

\* Whoever serves a device is a connection of it.
LEMMA ServesOwn ==
  ASSUME TypeInv, RegistryInv, NEW d \in Devices
  PROVE  /\ byDevice[d] \in Agents \cup {Nil}
         /\ byDevice[d] # Nil => DeviceOf[byDevice[d]] = d
  BY NilAssumption
     DEF TypeInv, TypeOK, HubTypeOK, RegistryInv, RegistryConsistent, DeviceOwn, Clients

\* A request that arrives begins to watch the device it names.
LEMMA CallAsk ==
  ASSUME TypeInv, RegistryInv, CallInv, NEW q \in Calls, NEW k \in Asks,
         NEW d \in Devices, Ask(q, k, d)
  PROVE  CallInv'
<1>. USE DEF CallInv
<1>1. CallTypeOK' BY ServesOwn DEF Ask, CallTypeOK
<1>2. ASSUME NEW r \in Calls, r # q
      PROVE  (kind'[r] = "none" => place'[r] = "start") /\ Watched(r)' /\ Truthful(r)'
  BY <1>2 DEF Ask, CallTypeOK, Watched, Truthful, vars, registry
<1>3. place'[q] = "start" /\ byDevice' = byDevice
  BY DEF Ask, vars, registry
<1>4. Watched(q)'
  BY <1>3, ServesOwn DEF Ask, CallTypeOK, Watched
<1>. QED BY <1>1, <1>2, <1>3, <1>4 DEF Truthful

\* A handler that keeps something for its second call.
LEMMA CallHold ==
  ASSUME CallInv, NEW q \in Calls, NEW x \in Held, Hold(q, x),
         kind[q] # "none", kind[q] = "device" => x = byDevice[wanted[q]] /\ x # Nil,
         place[q] = "start"
  PROVE  CallInv'
<1>. USE DEF CallInv
<1>1. CallTypeOK' BY DEF Hold, Held, CallTypeOK
<1>2. ASSUME NEW r \in Calls, r # q
      PROVE  (kind'[r] = "none" => place'[r] = "start") /\ Watched(r)' /\ Truthful(r)'
  BY <1>2 DEF Hold, CallTypeOK, Watched, Truthful, vars, registry
<1>3. (kind'[q] = "none" => place'[q] = "start") /\ Watched(q)' /\ Truthful(q)'
  BY DEF Hold, CallTypeOK, Watched, Truthful, vars, registry
<1>. QED BY <1>1, <1>2, <1>3

\* A handler that answers.
LEMMA CallRespond ==
  ASSUME CallInv, NEW q \in Calls, NEW a \in AnswerSet, Respond(q, a), kind[q] # "none",
         kind[q] = "device" =>
            IF a = NotFound
            THEN Nil \in served[q] \/ \E c, e \in served[q] : c # e
            ELSE a = wanted[q] /\ served[q] # {Nil}
  PROVE  CallInv'
<1>. USE DEF CallInv
<1>1. CallTypeOK' BY DEF Respond, Held, CallTypeOK
<1>2. ASSUME NEW r \in Calls, r # q
      PROVE  (kind'[r] = "none" => place'[r] = "start") /\ Watched(r)' /\ Truthful(r)'
  BY <1>2 DEF Respond, CallTypeOK, Watched, Truthful, vars, registry
<1>3. (kind'[q] = "none" => place'[q] = "start") /\ Watched(q)' /\ Truthful(q)'
  BY DEF Respond, CallTypeOK, Watched, Truthful, vars, registry
<1>. QED BY <1>1, <1>2, <1>3

\* The two halves of GetDevice, between which the server may have gone on.
LEMMA CallDevice ==
  ASSUME TypeInv, RegistryInv, CallInv, NEW q \in Calls,
         GetDeviceClient(q) \/ GetDeviceInfo(q)
  PROVE  CallInv'
<1>1. kind[q] = "device" /\ wanted[q] \in Devices /\ Watched(q)
  BY DEF GetDeviceClient, GetDeviceInfo, CallInv, Watched
<1>2. CASE GetDeviceClient(q)
  <2>. DEFINE c == byDevice[wanted[q]]
  <2>1. c \in Held /\ c \in served[q] /\ place[q] = "start" /\ NotFound \in AnswerSet
    BY <1>1, <1>2, ServesOwn DEF Watched, GetDeviceClient, Held, AnswerSet
  <2>2. CASE c = Nil
    <3>1. Respond(q, NotFound) BY <1>2, <2>2 DEF GetDeviceClient, FindClientByDevice
    <3>. QED BY <1>1, <2>1, <2>2, <3>1, CallRespond
  <2>3. CASE c # Nil
    <3>1. Hold(q, c) BY <1>2, <2>3 DEF GetDeviceClient, FindClientByDevice
    <3>. QED BY <1>1, <2>1, <2>3, <3>1, CallHold
  <2>. QED BY <2>2, <2>3
<1>3. CASE GetDeviceInfo(q)
  <2>. DEFINE d == FindDeviceByClient(held[q])
              a == IF d = Nil THEN NotFound ELSE d
              e == byDevice[wanted[q]]
  <2>1. /\ Respond(q, a) /\ e \in served[q]
        /\ held[q] \in served[q] /\ held[q] # Nil
    BY <1>1, <1>3 DEF GetDeviceInfo, Watched
  <2>2. held[q] \in Agents /\ DeviceOf[held[q]] = wanted[q]
    BY <1>1, <2>1 DEF CallInv, CallTypeOK, Watched
  <2>3. d # Nil => d = wanted[q]
    BY <2>2 DEF FindDeviceByClient, RegistryInv, DeviceOwn, Clients
  <2>4. d = Nil => e = Nil \/ e # held[q]
    BY <1>1, <2>1, NilAssumption
       DEF FindDeviceByClient, RegistryInv, RegistryConsistent
  <2>. HIDE DEF d
  <2>5. a \in AnswerSet BY <1>1, <2>3 DEF AnswerSet
  <2>6. IF a = NotFound
        THEN Nil \in served[q] \/ \E x, y \in served[q] : x # y
        ELSE a = wanted[q] /\ served[q] # {Nil}
    BY <1>1, <2>1, <2>3, <2>4, NotFoundAssumption
  <2>. HIDE DEF a
  <2>. QED BY <1>1, <2>1, <2>5, <2>6, CallRespond
<1>. QED BY <1>2, <1>3

\* The requests for lists.
LEMMA CallLists ==
  ASSUME TypeInv, CallInv, NEW q \in Calls,
         \/ AnswerDevices(q) \/ AnswerSessions(q)
         \/ StatsDevices(q) \/ StatsSessions(q)
  PROVE  CallInv'
<1>1. ListDevices \in Lists /\ ListSessions \in Lists
  BY DEF ListDevices, ListSessions, Lists, TypeInv, TypeOK, HubTypeOK, SessionTypeOK
<1>2. CASE AnswerDevices(q)
  BY <1>1, <1>2, CallRespond DEF AnswerDevices, AnswerSet
<1>3. CASE AnswerSessions(q)
  BY <1>1, <1>3, CallRespond DEF AnswerSessions, AnswerSet
<1>4. CASE StatsDevices(q)
  BY <1>1, <1>4, CallHold DEF StatsDevices, Held
<1>5. CASE StatsSessions(q)
  <2>1. <<held[q], ListSessions>> \in AnswerSet
    BY <1>1 DEF CallInv, CallTypeOK, AnswerSet
  <2>. QED BY <1>5, <2>1, CallRespond DEF StatsSessions
<1>. QED BY <1>2, <1>3, <1>4, <1>5

\* The server goes on, and whoever serves a watched device is noted.
LEMMA CallServer ==
  ASSUME TypeInv', RegistryInv', CallInv, ServerStep
  PROVE  CallInv'
<1>. USE DEF CallInv
<1>1. \A d \in Devices : /\ byDevice'[d] \in Agents \cup {Nil}
                         /\ byDevice'[d] # Nil => DeviceOf[byDevice'[d]] = d
  BY NilAssumption
     DEF TypeInv, TypeOK, HubTypeOK, RegistryInv, RegistryConsistent, DeviceOwn, Clients
<1>2. CallTypeOK' BY <1>1 DEF ServerStep, CallTypeOK
<1>3. ASSUME NEW q \in Calls
      PROVE  (kind'[q] = "none" => place'[q] = "start") /\ Watched(q)' /\ Truthful(q)'
  <2>1. CASE wanted[q] = Nil \/ place[q] = "done"
    BY <2>1, NilAssumption DEF ServerStep, Watched, Truthful
  <2>2. CASE wanted[q] # Nil /\ place[q] # "done"
    BY <1>1, <2>2 DEF ServerStep, Watched, Truthful
  <2>. QED BY <2>1, <2>2
<1>. QED BY <1>2, <1>3

\* Whatever connections come, go and replace each other between the two
\* look-ups of GetDevice, it describes the device it was asked for, which was
\* there during the request, and misses it only if the device was offline or
\* changed its connection meanwhile.
THEOREM APITruthful == APISpec => []GetDeviceTruthful
<1>1. APIInit => Init /\ RegistryInv
  BY BoundsAssumption
     DEF APIInit, Init, HubInit, RegistryInv, RegistryConsistent, ClosedAtEnd, DeviceOwn
<1>2. APIInit => CallInv
  BY DEF APIInit, Held, AnswerSet, CallInv, CallTypeOK, Watched, Truthful
<1>3. [APINext]_apiVars => [Next]_vars
  BY DEF APINext, ServerStep, APIStep, GetDeviceClient, GetDeviceInfo, AnswerDevices,
         AnswerSessions, StatsDevices, StatsSessions, Respond, Hold, Ask, apiVars
<1>4. TypeInv /\ RegistryInv /\ CallInv /\ [APINext]_apiVars /\ TypeInv' /\ RegistryInv'
         => CallInv'
  <2>. SUFFICES ASSUME TypeInv, RegistryInv, CallInv, [APINext]_apiVars, TypeInv',
                       RegistryInv'
                PROVE  CallInv'
    OBVIOUS
  <2>1. CASE ServerStep BY <2>1, CallServer
  <2>2. ASSUME NEW q \in Calls, APIStep(q) PROVE CallInv'
    BY <2>2, CallDevice, CallLists DEF APIStep
  <2>3. ASSUME NEW q \in Calls, NEW k \in Asks, NEW d \in Devices, Ask(q, k, d)
        PROVE  CallInv'
    BY <2>3, CallAsk
  <2>4. CASE UNCHANGED apiVars
    BY <2>4 DEF apiVars, api, vars, registry, CallInv, CallTypeOK, Watched, Truthful
  <2>. QED BY <2>1, <2>2, <2>3, <2>4 DEF APINext
<1>5. CallInv => GetDeviceTruthful BY DEF CallInv, Truthful, GetDeviceTruthful
<1>. QED BY <1>1, <1>2, <1>3, <1>4, <1>5, TypeInitial, TypeInductive,
            RegistryInductive, PTL DEF APISpec
=============================================================================
