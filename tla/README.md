# A TLA+ verification of CloudBridge

CloudBridge connects an app to remote devices.  An *agent* runs on every device
and keeps a WebSocket connection to a *signaling server*; an app asks that
server for a session with a device, the agent answers, and the two then meet at
a TCP *relay server* that copies bytes between them.  This directory models the
parts of the system that run concurrently and fail independently, checks them
with TLC on small instances and proves the central invariants with TLAPS for
instances of any size.

## 1. Inventory

| Component | State | Operations | Talks to |
|---|---|---|---|
| Hub (`internal/signal/hub.go`) | maps of clients, devices and device → client; each client's bounded `Send` channel | register and unregister clients, register devices, heartbeat, route to a device | called by the handlers and the clean-up of every connection |
| Session table (`internal/signal/session.go`) | map of sessions, index by client ID | create, accept, reject, close, find the peer, drop a client's sessions, route to the peer | the same callers; sends on the clients' `Send` |
| Signal connections (`internal/signal/server.go`, `handler.go`) | two goroutines per connection | one handler per message type, read and write pumps, clean-up | agents and apps over WebSocket |
| Relay server (`internal/relay/server.go`, `session.go`) | map of sessions, two peers each, byte counts | handshake, join, acknowledge, copy in both directions, clean-up, shutdown | app and agent over TCP |
| Relay handshake and client (`handshake.go`, `client.go`) | none | write and read handshake and acknowledgement | relay server |
| Agent (`internal/agent/register.go`, `cmd/agent/main.go`) | current connection, backoff delay, done channel, heartbeat loops | run, connect, register, heartbeat, read, answer, close | signaling server |
| Agent tunnel and shell proxy (`internal/agent/tunnel.go`, `internal/agent/proxy/shell.go`) | table of tunnel sessions, PTY | create and remove sessions, copy between shell and transport | relay transport |
| Tunnel and relay transport (`internal/tunnel`) | transport connection | open, close, read and write frames | relay client, frame codec |
| Frames and messages (`internal/protocol`, `app/lib/core/protocol`) | none | encode, decode | everybody |
| REST API (`internal/api`) | none; a handler between its look-ups | read-only views of hub and session table | hub, session table |
| STUN server (`internal/stun`) | socket, done channel, one buffer | start, serve, answer binding requests, close | UDP clients |
| App: signal client, connection manager, relay transport (`app/lib/core`) | connection states, active session, transport, timers | connect, negotiate, reconnect, disconnect | signaling server, relay server |
| App: screens (`app/lib/features`, `main.dart`) | widgets | navigation | connection manager |
| Server program (`cmd/server`) | context, signal channel | start the services, wait for a signal, stop them | STUN, relay, signaling server |
| Web proxy (`cmd/webproxy`) | none | wiring of library handlers | signaling server |

What is hard in it, and so what the properties are about:

* every connection of the signaling server has two goroutines, and handlers
  work on *other* clients' channels; a device may have several connections at
  once while it reconnects; clean-up races with registration, routing and
  acceptance; channels fill up and are closed under a sender;
* a relay session is assembled by two handlers that do not know of each other,
  and taken down by copiers that see the ends of the connections at different
  times;
* the agent must come back after every kind of failure, including a peer that
  vanishes without a word, and must stop when told to;
* the agent's tunnel sessions are dialled, shaken hands for and closed under one
  lock, with a relay that may be silent or refuse;
* `main` of the server and the goroutine that closes the services race for the
  exit;
* the app applies answers that arrive after the user has moved on.

`PROJECT.json` lists these hazards one by one with the source lines.

## 2. Modules

```
DeviceDirectory
   ^ INSTANCE
Hub  <-  SessionManager  <-  SignalServer  <-  MCSignalServer  <-  MCDeviceAPI
                                           <-  DeviceAPI       <-
                                                  ^
                                                  SignalServerProofs
Relay  <-  MCRelay
       <-  RelayProofs
Agent  <-  AgentProofs
Frame  <-  AgentTunnel  <-  MCAgentTunnel
                        <-  TunnelProofs
       <-  FrameProofs  <-
Bytes  <-  Handshake  <-  AgentSessions  <-  MCAgentSessions
                                         <-  AgentSessionsProofs
       <-  Stun  <-  Server  <-  MCServer
                             <-  ServerProofs
App  <-  AppProofs
```

**Hub, SessionManager.**  One operator per critical section of `Hub.mu` and
`SessionManager.mu`.  A client is one accepted WebSocket connection (one
`*Client`); its ID is the second in which it was accepted, as in
`generateClientID`, so that IDs may collide.  An entry of a Go map is a member
of a set and the values of functions at that key.  Messages keep their type and
session; device names, platforms, tokens and other payload are left out.

**SignalServer.**  The two goroutines of every connection.  `pc[c]` is the place
of the reading goroutine between two critical sections and `req[c]` what its
handler carries along, so that every value that the code reads under a lock and
uses after it (the peer in `RouteToPeer`, the `DeviceID` in `handleHeartbeat`)
may be stale in the model too.  A send on a closed channel panics; net/http
recovers the panic, the deferred `Conn.Close` of `readPump` runs and the
clean-up of `handleWebSocket`, which is not deferred, does not.  The clients
are the environment: apps name sessions they created, agents sessions they were
asked for, and otherwise they may send anything in any order.

**DeviceDirectory.**  What the server promises about devices, in four operations
and without goroutines or locks: a device is served by the connection that signed
on last, until that one signs off; the end of any other connection of the device
changes nothing, and the registration time survives a change of connection.
`SignalServer` implements it (`ImplementsDirectory`): the abstract server of a
device is `byDevice`, and a connection has ended when its clean-up unregistered
it or its handler panicked.

**DeviceAPI.**  The REST requests beside the running server, each look-up in the
hub or the session table a step of its own.  `served` is a history variable: the
connections that served the wanted device while the request ran.

**Relay.**  One handler per connection, in the steps its locks and writes make
(`handshake`, `lookup`, `add`, `ack`, `count`), and up to one relay per handler
with two copiers.  Streams are sequences of numbered chunks; `io.Copy` reads one
chunk, then writes it, and the write waits, without a deadline, while `Window`
chunks to that client have not been read.  Clients read when they like, or never.
The client's `ReadHandshakeAck` drops what its buffered reader read beyond the
acknowledgement.

**Bytes, Handshake.**  The relay's handshake and acknowledgement byte for byte.  A
reader is a pair of predicates on the bytes that have arrived so far, accepted and
rejected; when neither holds it waits for more.  The limits differ on the two
sides: the client writes IDs of up to 65535 bytes, the server takes 1 to 256.

**AgentSessions.**  The agent's `SessionManager` and what it calls: `CreateSession`
holds `sm.mu` over dial, handshake and acknowledgement, `RemoveSession` over
`Session.Close`, which waits for `rt.mu`; a `WriteFrame` holds that while its peer
does not read.  Goroutines call the operations in any order; the relay accepts,
refuses, answers in pieces or not at all.  A channel that is closed twice ends
the process.

**Stun, Server.**  `Stun` has the messages as bytes, the serving goroutine, and what
RFC 5389 makes of a response (`MappedAddress`, the reference).  Datagrams that were
sent are delivered any number of times, in any order or never.  `Server` composes
it with `main`, the goroutine that waits for a signal, the accept loop of the relay
and the HTTP server; the process ends with all of them when `main` returns, a
service fails to start, a signal comes before `Notify`, or a goroutine panics.

**Agent.**  The goroutine of `Run`, the heartbeat loop of every connection, the
callers of `Close` and of `cancel`, and the network.  A connection may break
visibly or lose its peer in silence; a write to a lost peer starts the
retransmissions that in the end break the connection, which is how the agent
notices.  `connect` never returns nil, because `readMessages` never does.
Time is abstract: the delay is kept, its passing is one action.

**Frame.**  The frame codec on sequences of bytes: `MarshalBinary`,
`UnmarshalBinary`, and how many bytes `ReadFrom` wants next.  A function that may
return an error is a predicate (`Marshals`, `Unmarshals`, `Refuses`) and a result.
`Decoded` is the reference definition of what a receiver gets out of a stream.

**AgentTunnel.**  The agent's data path: shells behind a `RelayTransport`.  Each
proxy has its two goroutines (`up`, `down`) and the caller that waits for both.
`WriteFrame` holds `rt.mu` while `conn.Write` goes on piece by piece; the reads of
`ReadFrame` take what has arrived and at most what `ReadFrom` wants.  Mode
"raw" is `Pipe` and `ProxyData`: the same goroutines without frames and lock.
The agent's `main` does not call these functions yet; the module lets a caller
open the transport, start a proxy per stream, and close transport and shells at
any time.  The shell, the PTY, the peer and the network are external.

**App.**  Dart runs one callback at a time, so an action is what happens between
two awaits: the signal client with its channels and reconnect timers, the
connection manager, its relay transports, and the terminal screens.  Two facts of the
platform matter.  A listener that throws ends the callback that set the state, and
`setState` of a disposed screen throws; terminal screens never remove their
listener.  So a change of server may be cut short: `disconnectClient` throws in its
last statement, no new client is made, and the app goes on with the old one, whose
channel is closing.  The history variable `cut` records that.  And a socket is a stream that can be listened to once: after
`socketFirst` read the acknowledgement, `socketListen` throws, so
`RelayTransport.connect` always fails and the manager never gets to
`relayConnected` and `connected`.

Mutants.  Operators whose comment begins with "Mutant" are not part of the
specifications: each is a version of the definition that follows, with one
plausible mistake, and `PROJECT.json` says which property notices it.

## 3. Runs

| Run | Instance | Shows |
|---|---|---|
| SignalRegistry | two connections of one device, no apps, heartbeats, 2 seconds, one REST request of any kind | `TypeOK`, `RegistryConsistent`, `GetDeviceTruthful`, `ImplementsDirectory`: overlapping connections of a device |
| SignalSessions | one agent, one app, two devices, one session, every kind of message, both answers | `AcceptanceReachesInitiator`, `SessionPeersPresent`, `IndexOwned`, `ResponderServesDevice`, `LeavingKeepsOthersIfUnique` |
| SignalLiveness | one agent, one app, fair | `WritersExit`, `DeviceGoesOffline`, `RequestSettled` |
| SignalGhostDevice | one agent, one app, fair | violation of `HubDevicesOnline` |
| RelayStreams | two connections, two session IDs and room for one, two chunks in one direction, a window of two, fair | `UnbrokenIfSingle`, `AckFirstIfOwnRelay`, `BytesAccounted`, `SessionsBounded`, `HangUpEndsSessionIfTaken` |
| RelaySessions | three connections of one session ID, one chunk, a window of one | `TypeOK`, `Isolation`, `CleanupOwn`: sessions of one ID that follow and overlap each other |
| AgentReconnect | three connections, delays 1 to 30, fair | `TypeOK`, `OneLoop`, `OneWorkingConnection`, `Reconnects`, `CancelStopsUnlessConnected` |
| TunnelOutput | two proxies or one, one byte printed by each shell, a window of 5 bytes for frames of 8, fair | `OutputIntact`, `ProxyEnds`, `CloseReturnsIfTaken` |
| TunnelInput | one proxy, two frames of five kinds in portions of 5 bytes, one byte printed | `InputIntactIfAlone` |
| AgentSessions | two goroutines, two sessions, IDs of 256 and 257 bytes, answers cut after 4 or 6 bytes, fair | `ListedIsJoined`, `LeakOnlyByReplacement`, `CrashNeedsClose`, `CallsReturnIfTaken` |
| AppSession | three channels, two screens, one relay transport, fair | `UpMeansOneChannelUnlessCut`, `LossIsShownUnlessCut`, `QuietLasts`, `ReconnectsUnlessDisposed` |
| ServerShutdown | two signals, one request under way, two datagrams of seven kinds, a buffer of 24 bytes, fair | `ResponsesTrue`, `CleanExit`, `SignalEndsProcess` |

**Bounds.**  `SendBufferSize = 1` makes full buffers happen at once; the code
treats every size alike.  Two seconds give equal and different client IDs; two
connections of a device give every overlap of an old and a new one, and a
connection that ended is never reused.  One session per run suffices because
sessions meet only in the index, by client ID.  Three relay connections are the
least with which a full session and a successor of a session exist; two chunks
the least that can be reordered.  A window of two is full
with the acknowledgement and a chunk, so that a copier waits with the next one in
hand, and lets a chunk arrive behind the acknowledgement, for the client's buffered
reader.  The sender names one session ID only, because IDs are interchangeable.
In RelaySessions a session is taken off the map, by the first of two relays or by
`Close`, while a copier of it holds a chunk, and the third connection opens the next
session of the same ID.  Three agent connections let one be lost, one
be closed by `Close` and one be dialled after that; the bound on `Lose` makes
sure that it never keeps the agent from dialling.  A payload of one byte with
`MaxPayloadSize = 1` gives frames that fit exactly and frames that are too long;
a window and portions of five bytes cut frames of eight in header and payload, at
a different place in each frame.  The five kinds of frame are data for this
stream (two, so that order shows), for another, of another type, and too long.
Three channels of the app let two be lost, so that timers of both losses are
pending at once, and let a second one be opened beside a closing one; two screens
give a disposed one and a new one; the bound on
channels never keeps the app from reconnecting while no screen was closed, because
the network takes a channel only when another one is left.  Two agent sessions are the least with
which one ID is used twice; an answer cut after 4 bytes ends in the magic, after 6
in the length of an error message.  The seven datagrams are requests from an IPv4,
an IPv4-in-IPv6 and an IPv6 address, two with the same transaction ID, requests
that end at the buffer's end and that it cuts off, and three that are no requests
(short, another cookie, another type); the code's buffer of 576 bytes treats them
the same way.  Two signals are one more than the signal channel holds.
No run checks deadlock:
connections are finite in number, and when all are over the system may stop.

The types of the tunnel and of the app (`TypeOK` of AgentTunnel and App) hold in the
same configurations; no run repeats them.

**Symmetry** is used only where the interchanged values appear in no
constant's value, and in no run with a liveness property.

**Fairness.**  Weak fairness of goroutines: Go schedules them.  `SF` of
`ReadError`: the read deadline, which only pongs extend, ends the read of a
broken connection however many messages came before.  Strong fairness of the
cases of a `select`: Go chooses among ready cases at random.  `TimeOut`: TCP
gives up on unacknowledged data.  `SF` of `WriteFrame` and `Close`: `sync.Mutex`
starves nobody, and the same for the locks of the agent's session table; dial and
handshake have timeouts.  `WF` of `Write`: a write pump writes what is in its
channel.  `ListenAndServe` returns after `Shutdown`.  Timers of the app fire.  A goroutine that waits
for a client to read is not fair: nothing is assumed of clients, of callers, of
messages, or of the network, and that clients read is a hypothesis of the properties
whose names end in `IfTaken`; `Reconnects` has the reachability of the
server as its hypothesis.

## 4. What the code does not keep

The violation run SignalGhostDevice shows a statement of the source that the code
does not keep; `findings` in `PROJECT.json` quotes it.  Behind it is a send after
the lock was released.

The modules state more of these, which no run repeats; each is refuted by TLC
when it takes the place of the property in the configuration named here:

| Property | Configuration | Statement in the source |
|---|---|---|
| `SignalServer!LeavingKeepsOthers` | SignalSessions | "RemoveClientSessions removes all sessions associated with a client" (`session.go:168`); clients accepted in one second share an ID |
| `SignalServer!ListedSessionsActive` | SignalSessions | "ListSessions returns all active sessions." (`api/device.go:111`); closed and rejected sessions stay listed |
| `DeviceAPI!GetDeviceFinds` | SignalRegistry | "GetDevice returns a specific device by ID." (`api/device.go:66`); a reconnection between the two look-ups detaches the client that the first one found |
| `Relay!StreamsInOrder` | RelayStreams | "relaySession forwards data between the two peers of a session." (`relay/server.go:231`); both handlers may see two peers and start a relay each, and two copiers per direction reorder the stream |
| `Relay!AckFirst` | RelayStreams | the handshake protocol (`handshake.go:20`); the other handler's relay may write before the acknowledgement |
| `Relay!StreamFromStart` | RelayStreams | an ok acknowledgement has five bytes (`handshake.go:21`); the client's buffered reader swallows what follows |
| `Relay!QuotaRespected` | RelayStreams | "QuotaBytes is the monthly bandwidth quota" (`relay/server.go:38`); nothing compares it |
| `Relay!HangUpEndsSession` | RelayStreams | "Clean up after session ends" (`relay/server.go:220`); a copier that waits for a client that does not read never sees that the other one hung up |
| `Relay!DeadSessionsRemoved` | RelayStreams | "SessionCount returns the number of active relay sessions." (`relay/server.go:105`); a first peer that hangs up leaves its session behind |
| `SignalServer!AnswerReachesInitiator` | SignalSessions | "Route response back to the app that initiated the connection" (`handler.go:170`); a rejection records no responder and is not routed |
| `Agent!CancelStops` | AgentReconnect | "received signal, shutting down" (`cmd/agent/main.go:63`); nothing interrupts the read of a connected agent |
| `Agent!CloseStops` | AgentReconnect | "Close stops the agent." (`register.go:143`); the backoff loop ignores `a.done` |
| `Agent!BackoffEndsOnSuccess` | AgentReconnect | "break // connected successfully" (`register.go:132`); never reached |
| `AgentTunnel!InputIntactMultiplexed` | TunnelOutput with `MaxSent = 2` | "wraps raw data in protocol.Frame objects for multiplexed transport" (`agent/tunnel.go:150`); each proxy reads and drops the others' frames |
| `AgentTunnel!ProxyEndsWithOneSide` | TunnelOutput | "Blocks until one side closes or an error occurs." (`shell.go:107`); `Pipe` waits for both sides |
| `AgentTunnel!CloseReturns` | TunnelOutput | "Close closes the relay connection." (`tunnel/relay.go:54`); it waits for a write that waits for the peer |
| `AgentSessions!CallsReturn` | AgentSessions | `GetSession` and the others (`agent/tunnel.go:96`); `RemoveSession` holds `sm.mu` while it waits for a write that waits for the peer |
| `AgentSessions!OpenIsListed` | AgentSessions | "SessionManager manages active tunnel sessions on the agent." (`agent/tunnel.go:12`); a second session with the same ID replaces the first, which stays open |
| `AgentSessions!ListedIsActive` | AgentSessions | "ListSessions returns all active sessions." (`agent/tunnel.go:104`); a session closed by `Session.Close` stays listed |
| `AgentSessions!NeverCrashes` | AgentSessions | "RemoveSession removes a session from the manager." (`agent/tunnel.go:84`); of a session that was closed, it closes a closed channel |
| `Server!NoRequestCut` | ServerShutdown | "Shutdown gracefully stops the server." (`signal/server.go:128`); `ListenAndServe` returns at once and `main` exits while `Shutdown` waits |
| `Server!NeverCrashes` | ServerShutdown | "Gracefully stop services" (`cmd/server/main.go:96`); a signal between `Notify` and the creation of the HTTP server meets a nil pointer |
| `App!OneChannel` | AppSession | "Connect to the signal server." (`signal_client.dart:78`), which returns when connected; after a change of server that was cut short, the old channel's `_onDone` hides the new channel and a third one is opened |
| `App!LossIsShown` | AppSession | "Signal connection lost" (`connection_manager.dart:103`); after a change of server that was cut short, an answer on the closing channel sets `probing` |
| `App!AlwaysReconnects` | AppSession | "unlimited" (`signal_client.dart:40`); after a terminal was closed its listener throws in `_onDone`, before the timer is set |
| `App!DisconnectLasts` | AppSession | "Disconnect from the signal server." (`signal_client.dart:282`); `_onDone` reconnects |
| `App!SocketsOwned` | AppSession | "Disconnect the active session." (`connection_manager.dart:68`); a transport that dials is not stopped |

## 5. Proofs

`SignalServerProofs` (for every set of connections, devices and sessions, every
buffer size and clock bound; assumptions: `ClientsAssumption`, `NilAssumption`,
`BoundsAssumption`, `DeviceOfAssumption`, `AnswersAssumption`):

* `TypeCorrect`: `Spec => []TypeOK`.  The types are not inductive: a handler's
  request must fit its place.  `TypeInv` adds `RequestOK` (what `req[c]` holds
  at each place), `QueueOK` (what an agent can find in its queue) and
  `CreatedOK` (a session in the table has an initiator).
* `RegistrySafe`: `Spec => []RegistryConsistent`.  `RegistryInv` adds that a
  channel is closed only at the end of its connection (`ClosedAtEnd`) and that a
  connection only ever serves its own device (`DeviceOwn`).  The argument is in
  `RegistryRegister`, where the old connection is detached, and
  `RegistryUnregister`, where only the serving connection takes the device along.
* `SessionsSafe`: `Spec => [](SessionPeersPresent /\ IndexOwned)`.  `Indexed`
  says that every party of a session in the table finds it under its ID; so a
  client that leaves removes all of its sessions, also when IDs collide.
* `ResponderSafe`: `Spec => []ResponderServesDevice`.  `Targeted` follows a
  request from the handler through the agent's queue and the agent's answer to
  the session's responder: at each place it names a session for the device
  that the connection serves.
* `IndexSafe`, `LeavingSafe` and `AcceptanceReaches`: `IndexOwned`, the action
  property `LeavingKeepsOthersIfUnique` and `AcceptanceReachesInitiator`.  The
  last needs that the initiator of a session is an app and its responder, once
  there is one, an agent.

In the last part of the module (further assumption: `NotFoundAssumption`, a device
that is not found is no device):

* `SignalImplementsDirectory`: `Spec => ImplementsDirectory`, the refinement.  Each
  action of the server is a step of `DeviceDirectory` or leaves its variables
  alone; registration and clean-up are where `RegistryInv` is needed, because the
  hub decides by `DeviceID` and `Send` what the directory decides by who serves.
* `APITruthful`: `APISpec => []GetDeviceTruthful`.  The requests run beside the
  server: a step is one of the server's, which adds to `served`, or one of a
  request.  `Watched` says that `served` has whoever serves the device now.

`AgentProofs` (for all delays and any number of connections; assumptions
`DelayAssumption`, `MaxConnsAssumption`):

* `AgentTypeCorrect`: the backoff delay stays between its limits.
* `AgentOneLoop`: `Spec => []OneLoop`.  Both rest on `AgentInv`, which adds that
  the agent has a connection while `connect` uses one.
* `AgentOneConnection`: `Spec => []OneWorkingConnection`.  `Abandoned` adds that
  the connection `Run` comes back from no longer works.

`RelayProofs` (for any number of connections, session IDs and chunks; assumptions
`RelayBounds`, `RelayWindow`, `RelayNames`, `RelayNil`):

* `RelayTypeCorrect`: `RelayInv` adds to the types what each place of a handler
  (`HandlerShape`), a relay (`RelayShape`) and a copier (`CopierShape`) says of
  the session and of the chunk in hand.
* `SessionsLimited`: the map is finite and grows only where the limit was
  compared under the same lock (`CountInv`).
* `CleanupSafe`: `Spec => CleanupOwn`, an action property.  `OwnEntry` says that
  an entry of the map has the ID it is filed under, `Listed` that a session stays
  in the map until its own relay has deleted it.  The attempt showed that one
  relay *of this session* is not enough of a hypothesis, which takes four
  connections to see: an earlier session with two relays deletes its entry
  twice, the second time the entry of its successor with the same ID; that one
  then finds, when it ends, no entry or that of a third session.  `CleanupOwn`
  therefore speaks of states in which no session has had two relays.
* `RelayIsolation`: `Spec => []Isolation`.  `FlowInv` follows a chunk from its
  sender's buffer (`SourcesTrue`) through the copier to the other peer
  (`ArrivedOK`), and adds that the two peers of a session are two connections that
  joined it (`PeersOK`).
* `AckBeforeData`: `Spec => []AckFirstIfOwnRelay`.  `AckInv` says that from the
  acknowledgement on, its bytes are first in what a client has not yet read,
  unless the other handler relays.
* `StreamUnbroken`: `Spec => []UnbrokenIfSingle`.  `ChainInv` numbers the chunks in
  a sender's buffer from the count of those that were read (`NumbersOK`); the one
  in the copier's hand is the last that was read, and the last one in the stream to
  the other client is the one before it, or itself once it is written (`Copied`).
  That needs that the ends of a copier are its own (`EndsOwn`), which is where the
  single relay comes in, and that a relay finds no chunk in the streams when it
  starts (`RelayedOK`).  A client that hangs up and the reader of the
  acknowledgement only take from the ends of a stream (`Mild`).
* `BytesCounted`: `Spec => []BytesAccounted`, with one relay or two.  The chunks in
  the streams to the two peers are at most the bytes counted and those that
  the copiers have written and not yet added (`AccountOK`): a chunk that is written
  makes both sides larger by one, and the addition at a copier's end moves its count
  from `Held` to `bytes`.  `MembersOK` says that whoever copies is a peer of its
  session; `ChainInv` gives the rest.

`AgentSessionsProofs` (for any number of goroutines, IDs and sessions and any cuts
of an answer; assumptions `SessionsAssumption`, `CutsAssumption` and
`IDsAssumption`: IDs are byte strings and differ in their bytes):

* `ListedSafe`, `LeakSafe`, `CrashSafe`: `ListedIsJoined`,
  `LeakOnlyByReplacement`, `CrashNeedsClose`, from one invariant, `SessionInv`.
  `PlaceOK` says that whoever dials, waits for an acknowledgement or removes holds
  `sm.mu`, and for which session; `DialledOK` and `AnswerOK` follow an ID through
  the handshake into the relay's files and back as an acknowledgement; `DoneOK`
  says who has closed a session that is still listed.  Below it are lemmas on
  bytes: `HandshakeKeepsID` (what `WriteHandshake` writes of an ID of up to 65535
  bytes is what `ReadHandshake` reads) and `AckTells` (no beginning of a refusal
  passes for an acceptance).

`ServerProofs` (any number of signals, requests and datagrams, of any length;
assumptions `ServerBounds`, `StunAssumption`: datagrams are bytes from an address
and a port):

* `ServerExits`: `Spec => []CleanExit`.  `ExitInv` says which services `main`
  has started at each of its places (`StartOrder`) and which ones the goroutine
  that waits for a signal has closed at each of its own (`StopOrder`).
* `StunAnswers`: `Spec => []ResponsesTrue`.  `StunInv` says that the buffer is the
  beginning of a datagram that was sent, cut off where the buffer ends.  The rest is
  about bytes: the response that `handlePacket` builds is parsed field by field, and
  an address that was combined with the cookie and the transaction ID is itself again
  when it is combined once more (`XorTwice`, on the eight bits of a byte).

`AppProofs` (any number of channels, screens and relay transports; assumption
`AppBounds`):

* `AppOneChannel`, `AppLossShown`, `AppQuiet`: `UpMeansOneChannelUnlessCut`,
  `LossIsShownUnlessCut` and the action property `QuietLasts`.  `ClientInv` adds that
  a channel works exactly as long as it is listened to, until the app drops the
  client or fails to.

`FrameProofs` (assumption `PayloadAssumption`: the limit is at most 2^31 - 1, the
largest length that TLC can count to as well; the code's limit is 64 KiB):

* `FrameRoundTrip`: for every frame whose payload is within the limit, the encoding
  is a sequence of bytes that `UnmarshalBinary` accepts and turns back into the
  frame.  The lemmas are the two big-endian conversions, the layout of four joined
  parts and the tail of a sequence.
* `DecodedFrames`: of the bytes of any sequence of frames, one after the other, and of
  bytes that are not a whole frame, a receiver gets exactly that sequence.  `Decoded`
  and `FlattenSeq` are recursive functions; that they exist (`FlattenExists`,
  `LaterExists`) and what they yield (`FlattenJoins`, `Unroll`) is proved by induction
  on numbers, in the form of `Induction`: a set that has 0 and with every number the
  next has all.

`TunnelProofs` (for any streams, portions, window and limit on payloads, any number of
frames and any output; assumptions `StreamsAssumption`: streams have a stream ID,
`PeerAssumption`: the peer sends frames whose length fits the length field, also
longer ones than the limit, `PortionsAssumption`, `WindowAssumption`,
`BufferAssumption`):

* `TunnelTypes`: `Spec => []TypeOK`.  `TypeInv` adds that nothing has happened before
  `Open` (`Idle`), that who waits for `rt.mu` has a whole frame in hand (`LockedOK`), and
  that what is passed on to the shell was read completely (`FrameOK`).
* `OutputArrives`: `Spec => []OutputIntact`.  `OutInv` says that the connection has
  the bytes of whole frames and a part of one more (`FramesOut`).  That part is
  empty while nobody holds `rt.mu`; otherwise it and what its holder has in hand make
  up one frame (`Writer`).  For each stream, what the frames carry and what its
  goroutine holds is what was fetched from the shell (`Stream`).  Frames are never
  interleaved because only the holder writes; that the receiver sees the frames is
  `DecodedFrames`.
* `InputArrives`: `Spec => []InputIntactIfAlone`.  `InInv` says of a proxy that is
  alone: what the bytes of the first frames and the bytes in its hand make up is
  exactly what has been read of the connection (`At`), and what these frames carry for
  its stream has been typed (`FramesIn`; `RawIn` without frames).  A whole frame in
  hand is the next one that the peer has sent (`NextFrame`), because its length
  is known from its first seven bytes and `ReadFrom` wants no more than that
  (`WantedLess`).

The invariants that the proofs add were checked by TLC in the same configurations
before they were proved, except where they say that there is some sequence of frames
or some part of one (`OutInv`, `InInv`), over which TLC cannot search.

Only model-checked: all liveness properties, because the prover has no ENABLED and no
fairness.  Every invariant and every other action property that a run checks is also
proved.

## 6. Not modelled

The web proxy program wires handlers of the standard library and keeps no state;
the screens are layout and navigation, and what they do to the connection manager
is in `App`.  Payload, logging, tokens, device keys, rates, flags and the texts and
times of REST answers are left out.  The writes of the agent never block for ever:
heartbeats and answers are far smaller than a socket buffer.  File descriptors are
not counted.

Code that nothing calls is left out: `ReadWriteCloser` and `IsClosed` of the tunnel,
`RouteToClient` and `GenerateSessionID` of the signaling server.  `StartShell`
does nothing, and `Resize` only tells a terminal its size.  Of the app: `_handleTransportReady` (the server never
passes its message on), malformed server URLs, the growth of the reconnect delay,
and the frame codec and frame buffer of the relay transport (`frame.dart`,
`_processBuffer`), which no connection reaches because its handshake always fails.

`AcceptSession` does not look at the status: an answer that comes after a disconnect
revives a closed session.  The model has this step; the source states no rule for
the order of the statuses, so there is nothing to check it against.

That an app hears of an agent that left in mid-request is promised nowhere and not
done; `RequestSettled` therefore ends at the agent.
