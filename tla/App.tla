-------------------------------- MODULE App --------------------------------
(***************************************************************************)
(* The app (app/lib): a SignalClient, the ConnectionManager that listens   *)
(* to it, the relay transports the manager dials and the terminal screens  *)
(* that use it.  Dart runs one callback at a time, so an action is what    *)
(* happens between two awaits.                                             *)
(*                                                                         *)
(* A listener that throws ends the callback that set the state: the state  *)
(* is assigned, the rest of the callback does not happen.  A terminal      *)
(* screen never removes its listener, and setState of a disposed screen    *)
(* throws.                                                                 *)
(*                                                                         *)
(* WebSocketChannel.connect returns before the connection stands; a        *)
(* connection that fails, then or later, reports an error and then its     *)
(* end in one turn of the event loop.                                      *)
(***************************************************************************)
EXTENDS Naturals, FiniteSets, FiniteSetsExt

CONSTANTS
    MaxChannels,  \* bound on the WebSocket channels that are opened
    MaxScreens,   \* bound on the terminal screens that are opened
    MaxRelays     \* bound on the relay transports that are created

ASSUME AppBounds == MaxChannels \in Nat /\ MaxScreens \in Nat /\ MaxRelays \in Nat

Channels == 1..MaxChannels
Screens == 1..MaxScreens
Relays == 1..MaxRelays

VARIABLES
    sig,      \* SignalClient._state between two callbacks
    chan,     \* SignalClient._channel, 0 for null
    status,   \* the channels: "none", "live", "closing", "over"
    timer,    \* is the timer in _reconnectTimer pending?
    timers,   \* other pending timers, which nothing can cancel
    beat,     \* is the heartbeat timer running?
    setup,    \* the calls of _connectSignalIfNeeded that wait for preferences
    asked,    \* the channels on which the app asked to be registered
    gone,     \* has the app dropped this client for another server?
    cut,      \* history: did an exception keep the app from dropping it?
    cm,       \* ConnectionManager._state
    active,   \* _activeSessionId: the screen that made it, 0 for null
    via,      \* the channel on which a session was requested, 0 for none
    relay,    \* _relayTransport, 0 for null
    rt,       \* the relay transports
    screen    \* the terminal screens: "none", "shown", "disposed"

signal == <<sig, chan, status, timer, timers, beat, setup, asked, gone, cut>>
manager == <<cm, active, via, relay, rt>>
vars == <<signal, manager, screen>>

Up == {"connected", "registered"}

\* A transport dials, waits for the acknowledgement, or is over: "failed"
\* without a socket, "stuck" with one, "broken" when its socket was destroyed
\* while it waited, "closed".  The states relayConnected and connected of the
\* manager are not among those that it reaches: RelayEnds says why.
TypeOK ==
    /\ sig \in Up \cup {"disconnected"}
    /\ chan \in Channels \cup {0}
    /\ status \in [Channels -> {"none", "live", "closing", "over"}]
    /\ timer \in BOOLEAN /\ timers \in Nat /\ beat \in BOOLEAN
    /\ setup \in Nat /\ asked \subseteq Channels
    /\ gone \in BOOLEAN /\ cut \in BOOLEAN
    /\ cm \in {"idle", "connecting", "probing", "relayConnecting", "error", "disconnected"}
    /\ active \in Screens \cup {0} /\ via \in [Screens -> Channels \cup {0}]
    /\ relay \in Relays \cup {0}
    /\ rt \in [Relays -> {"none", "dialing", "handshake", "failed", "stuck", "broken", "closed"}]
    /\ screen \in [Screens -> {"none", "shown", "disposed"}]

Init ==
    /\ sig = "disconnected" /\ chan = 0 /\ status = [c \in Channels |-> "none"]
    /\ timer = FALSE /\ timers = 0 /\ beat = FALSE /\ setup = 0 /\ asked = {}
    /\ gone = FALSE /\ cut = FALSE
    /\ cm = "idle" /\ active = 0 /\ via = [s \in Screens |-> 0]
    /\ relay = 0 /\ rt = [r \in Relays |-> "none"]
    /\ screen = [s \in Screens |-> "none"]

Fresh == {c \in Channels : status[c] = "none"}
Live == {c \in Channels : status[c] = "live"}
Listening == {c \in Channels : status[c] \in {"live", "closing"}}
Disposed == {s \in Screens : screen[s] = "disposed"}

\* ConnectionManager._setState(new) calls the listeners only on a change; the
\* listener of a disposed screen throws.
Throws(new) == cm # new /\ Disposed # {}

-----------------------------------------------------------------------------
(* SignalClient                                                            *)

\* Mutant: a registered client connects again.
ConnectIfNotConnected ==
    IF sig = "connected"
    THEN UNCHANGED <<sig, chan, status>>
    ELSE /\ Fresh # {}
         /\ sig' = "connected" /\ chan' = Min(Fresh)
         /\ status' = [status EXCEPT ![Min(Fresh)] = "live"]

\* connect(): nothing when connected or registered; else a new channel.
Connect ==
    IF sig \in Up
    THEN UNCHANGED <<sig, chan, status>>
    ELSE /\ Fresh # {}
         /\ sig' = "connected" /\ chan' = Min(Fresh)
         /\ status' = [status EXCEPT ![Min(Fresh)] = "live"]

\* _scheduleReconnect(), n times: the last timer takes the place of the one
\* that disconnectClient could cancel.  Attempts are unlimited; the delay is
\* left out.
Schedule(n) ==
    /\ timer' = TRUE
    /\ timers' = timers + (n - 1) + (IF timer THEN 1 ELSE 0)

\* Mutant: the manager listens to messages only.
SignalLossIgnored == cm' = cm

\* _handleSignalState in the manager: a lost signal connection is an error.
SignalLost == cm' = "error"

\* The list of devices opens, or its refresh button is pressed:
\* _connectSignalIfNeeded up to its first await.
Refresh ==
    /\ ~gone /\ sig = "disconnected"
    /\ Connect
    /\ setup' = setup + 1
    /\ UNCHANGED <<timer, timers, beat, asked, gone, cut, manager, screen>>

\* Mutant: the connection is made after the preferences have been read.
SetupConnects ==
    /\ setup > 0
    /\ setup' = setup - 1
    /\ Connect
    /\ asked' = asked \cup ({chan} \cap Live)
    /\ beat' = TRUE
    /\ UNCHANGED <<timer, timers, gone, cut, manager, screen>>

\* The rest of it: register and startHeartbeat.
Setup ==
    /\ setup > 0
    /\ setup' = setup - 1
    /\ asked' = asked \cup ({chan} \cap Live)
    /\ beat' = TRUE
    /\ UNCHANGED <<sig, chan, status, timer, timers, gone, cut, manager, screen>>

\* _handleRegisterAck
RegisterAck(c) ==
    /\ c \in asked \cap Listening
    /\ sig' = "registered"
    /\ UNCHANGED <<chan, status, timer, timers, beat, setup, asked, gone, cut, manager, screen>>

\* Mutant: _onDone schedules nothing when the client was not registered.
ChannelDoneQuiet(c) ==
    LET changes == sig # "disconnected"
    IN  /\ c \in Listening
        /\ c \in Live => Fresh # {}
        /\ status' = [status EXCEPT ![c] = "over"]
        /\ beat' = FALSE /\ sig' = "disconnected"
        /\ IF changes THEN SignalLost ELSE UNCHANGED cm
        /\ IF sig # "registered" THEN UNCHANGED <<timer, timers>> ELSE Schedule(1)
        /\ UNCHANGED <<chan, setup, asked, gone, cut, active, via, relay, rt, screen>>

\* _onDone: the server, or this side, closed the channel in good order.  The
\* network takes the last channel of the bound only from a closing client.
ChannelDone(c) ==
    LET changes == sig # "disconnected"
    IN  /\ c \in Listening
        /\ c \in Live => Fresh # {}
        /\ status' = [status EXCEPT ![c] = "over"]
        /\ beat' = FALSE /\ sig' = "disconnected"
        /\ IF changes THEN SignalLost ELSE UNCHANGED cm
        /\ IF changes /\ Throws("error") THEN UNCHANGED <<timer, timers>> ELSE Schedule(1)
        /\ UNCHANGED <<chan, setup, asked, gone, cut, active, via, relay, rt, screen>>

\* _onError and then _onDone: the first reports the error, to which the second
\* adds nothing; both schedule a timer, the first only if nobody throws.
ChannelFails(c) ==
    /\ c \in Live /\ Fresh # {}
    /\ status' = [status EXCEPT ![c] = "over"]
    /\ beat' = FALSE /\ sig' = "disconnected"
    /\ SignalLost
    /\ Schedule(IF Throws("error") THEN 1 ELSE 2)
    /\ UNCHANGED <<chan, setup, asked, gone, cut, active, via, relay, rt, screen>>

\* A timer of _scheduleReconnect fires: the one in _reconnectTimer, or another.
TimerFires ==
    /\ timer /\ timer' = FALSE /\ UNCHANGED timers
    /\ Connect
    /\ UNCHANGED <<beat, setup, asked, gone, cut, manager, screen>>

OtherTimerFires ==
    /\ timers > 0 /\ timers' = timers - 1 /\ UNCHANGED timer
    /\ Connect
    /\ UNCHANGED <<beat, setup, asked, gone, cut, manager, screen>>

\* disconnectClient()
DisconnectClient ==
    /\ beat' = FALSE /\ timer' = FALSE
    /\ chan' = 0
    /\ status' = [c \in Channels |-> IF c = chan /\ c \in Live THEN "closing" ELSE status[c]]
    /\ sig' = "disconnected"
    /\ IF sig # "disconnected" THEN SignalLost ELSE UNCHANGED cm

\* _onServerUrlChanged: the client is disconnected, and then a new client and
\* manager take its place and the manager's.  When a listener throws in the
\* former there are no new ones: the app goes on with this client.
ServerUrlChanged ==
    LET throws == sig # "disconnected" /\ Throws("error")
    IN  /\ ~gone
        /\ DisconnectClient
        /\ gone' = ~throws /\ cut' = (cut \/ throws)
        /\ UNCHANGED <<timers, setup, asked, active, via, relay, rt, screen>>

-----------------------------------------------------------------------------
(* ConnectionManager and RelayTransport                                    *)

\* RelayTransport.disconnect() of the manager's transport: it destroys the
\* socket, if there is one yet.
Destroyed ==
    [r \in Relays |-> CASE r = relay /\ rt[r] = "handshake" -> "broken"
                        [] r = relay /\ rt[r] \in {"stuck", "failed"} -> "closed"
                        [] OTHER -> rt[r]]

Forget == rt' = Destroyed /\ relay' = 0 /\ active' = 0

\* A terminal screen opens from the list of devices, which was there first:
\* connectToDevice.  When the state's listeners throw the request is not sent;
\* on a dead channel it is lost.
OpenScreen(s) ==
    /\ ~gone /\ Fresh # Channels
    /\ screen[s] = "none" /\ (s > 1 => screen[s - 1] # "none")
    /\ screen' = [screen EXCEPT ![s] = "shown"]
    /\ active' = s /\ cm' = "connecting"
    /\ via' = IF Throws("connecting") \/ chan \notin Live THEN via ELSE [via EXCEPT ![s] = chan]
    /\ UNCHANGED <<signal, relay, rt>>

\* A terminal screen closes: disconnect(), whatever session is active by then.
CloseScreen(s) ==
    /\ screen[s] = "shown"
    /\ screen' = [screen EXCEPT ![s] = "disposed"]
    /\ Forget /\ cm' = "disconnected"
    /\ UNCHANGED <<signal, via>>

\* The server passes a message about session s on.
Hears(s) == via[s] \in Listening

\* _handleConnectResponse, accepted: the manager negotiates for the relay.
Accepted(s) ==
    /\ Hears(s) /\ cm' = "probing"
    /\ UNCHANGED <<signal, active, via, relay, rt, screen>>

\* _handleConnectResponse, rejected.
Rejected(s) ==
    /\ Hears(s) /\ cm' = "error"
    /\ UNCHANGED <<signal, active, via, relay, rt, screen>>

\* _handleError of the client and of the manager: an answer to any message.
ServerError ==
    /\ Listening # {} /\ cm' = "error"
    /\ UNCHANGED <<signal, active, via, relay, rt, screen>>

\* _handleTransportNegotiate and _connectToRelay up to its await, for the
\* active session, whatever session the message is about.
Negotiate(s) ==
    LET unused == {r \in Relays : rt[r] = "none"}
    IN  /\ Hears(s) /\ active # 0
        /\ cm' = "relayConnecting"
        /\ IF Throws("relayConnecting")
           THEN UNCHANGED <<relay, rt>>
           ELSE /\ unused # {}
                /\ relay' = Min(unused)
                /\ rt' = [rt EXCEPT ![Min(unused)] = "dialing"]
        /\ UNCHANGED <<signal, active, via, screen>>

\* _handleDisconnect
PeerDisconnects(s) ==
    /\ Hears(s)
    /\ Forget /\ cm' = "disconnected"
    /\ UNCHANGED <<signal, via, screen>>

\* connectSocket returns; the transport writes its handshake, also when it has
\* been disconnected in the meantime.
Dialed(r) ==
    /\ rt[r] = "dialing"
    /\ rt' = [rt EXCEPT ![r] = "handshake"]
    /\ UNCHANGED <<signal, cm, active, via, relay, screen>>

\* RelayTransport.connect throws, and the manager's catch reports an error:
\* the dial fails, the socket was destroyed, or the acknowledgement is there
\* and the socket, a stream that has been listened to, refuses to be listened
\* to again.
RelayEnds(r) ==
    /\ rt[r] \in {"dialing", "handshake", "broken"}
    /\ rt' = [rt EXCEPT ![r] = CASE rt[r] = "dialing" -> "failed"
                                 [] rt[r] = "handshake" -> "stuck"
                                 [] OTHER -> "closed"]
    /\ cm' = "error"
    /\ UNCHANGED <<signal, active, via, relay, screen>>

-----------------------------------------------------------------------------
Next ==
    \/ Refresh \/ Setup \/ TimerFires \/ OtherTimerFires \/ ServerUrlChanged \/ ServerError
    \/ \E c \in Channels : RegisterAck(c) \/ ChannelDone(c) \/ ChannelFails(c)
    \/ \E s \in Screens :
          \/ OpenScreen(s) \/ CloseScreen(s)
          \/ Accepted(s) \/ Rejected(s) \/ Negotiate(s) \/ PeerDisconnects(s)
    \/ \E r \in Relays : Dialed(r) \/ RelayEnds(r)

Spec == Init /\ [][Next]_vars

\* Timers fire.  Nothing is assumed of the user, the server and the network.
FairSpec == Spec /\ WF_vars(TimerFires) /\ WF_vars(OtherTimerFires)

-----------------------------------------------------------------------------
(* Properties                                                              *)

\* The signal client that the app uses counts as connected exactly when it has
\* a channel that works, and it never has two: connect, the timers, the end of
\* a channel and the user's refreshes do not get into each other's way
\* (SignalClient.connect, _onError, _onDone, _scheduleReconnect), unless a
\* change of server was cut short.
UpMeansOneChannelUnlessCut ==
    ~gone /\ ~cut => /\ sig \in Up <=> Live # {}
                     /\ Live \subseteq {chan}

\* The manager never goes on with a session, or with its relay, as if the
\* signal connection it was negotiated on were there, when it is not
\* (ConnectionManager._handleSignalState against its other handlers), unless
\* a change of server was cut short.
LossIsShownUnlessCut ==
    ~gone /\ ~cut /\ cm \in {"probing", "relayConnecting"} => sig \in Up

\* A client that lost its channel connects again, as long as no terminal
\* screen has been closed (_scheduleReconnect).
ReconnectsUnlessDisposed ==
    (sig = "disconnected" /\ chan # 0) ~> (sig \in Up \/ Disposed # {} \/ gone)

\* No channel that could report its end, no timer.
Quiet == Listening = {} /\ ~timer /\ timers = 0

\* A client that was disconnected comes back to life only through the end of a
\* channel or through a timer that it left behind: once there are none, no late
\* callback (the rest of a _connectSignalIfNeeded, a message, a screen that
\* closes) makes it connect again.
QuietLasts == [][gone /\ Quiet => Quiet']_vars

\* "unlimited" reconnect attempts (signal_client.dart:40).  It does not hold:
\* _onDone sets the state, the manager passes it to the listener of a screen
\* that is no more, that throws, and no timer is set.
AlwaysReconnects == (sig = "disconnected" /\ chan # 0) ~> (sig \in Up \/ gone)

\* "Disconnect from the signal server." (signal_client.dart:282).  It does not
\* hold: the end of the channel, or a timer that was not the last one, makes
\* the client connect again.
DisconnectLasts == gone ~> [](Live = {})

\* "Connect to the signal server." (signal_client.dart:78), which returns at
\* once when the client is connected.  That it opens no second channel does not
\* hold for a client that an exception in disconnectClient keeps in use: the
\* closing channel's _onDone puts the state back to disconnected when the next
\* channel is there already.
OneChannel == ~gone => Live \subseteq {chan}

\* "Signal connection lost" (connection_manager.dart:103).  It does not hold for
\* such a client either: a connect_response that is still to come on the closing
\* channel hides the loss.
LossIsShown == ~gone /\ cm \in {"probing", "relayConnecting"} => sig \in Up

\* A socket to the relay that is open belongs to the manager's transport, that
\* disconnect() can destroy it ("Disconnect the active session.",
\* connection_manager.dart:68).  It does not hold: a transport that dials when
\* the session ends connects all the same.
SocketsOwned == \A r \in Relays : rt[r] \in {"handshake", "stuck"} => r = relay
============================================================================
