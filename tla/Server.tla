------------------------------- MODULE Server -------------------------------
(***************************************************************************)
(* The server program (cmd/server/main.go): main starts the STUN server,   *)
(* the relay and the signaling server, and a goroutine, here the stopper,  *)
(* waits for a signal and stops them.  With them run the serving goroutine *)
(* of STUN, the accept loop of the relay (relay/server.go) and the HTTP    *)
(* server of package signal.                                               *)
(*                                                                         *)
(* main:     stun, relay (before Start of each), notify, start (before the *)
(*           HTTP server is made), listen (before ListenAndServe), serving *)
(*           (inside it), wait (for ctx.Done()), exited (main returned)    *)
(*           or, the process being over for another reason: failed         *)
(*           (os.Exit(1)), killed (a signal before Notify), crashed        *)
(* stopper:  waiting (for a signal), then before each of its calls cancel, *)
(*           stun, socket, relay, shutdown; draining (in Shutdown), over   *)
(* accept:   the accept loop, like serve of module Stun                    *)
(***************************************************************************)
EXTENDS Stun

CONSTANTS
    MaxSignals,   \* bound on the signals the process is sent
    MaxRequests   \* bound on the REST requests under way

ASSUME ServerBounds == MaxSignals \in Nat /\ MaxRequests \in Nat

VARIABLES
    main,      \* the main goroutine
    stopper,   \* the goroutine that waits for a signal
    signals,   \* how many signals have been sent
    sigCh,     \* is a signal in the channel?
    ctxDone,   \* has cancel been called?
    http,      \* httpServer: "none", "made", "listening" or "shutdown"
    started,   \* what Start returned: "none", "closed" (ErrServerClosed), "failed"
    inflight,  \* REST requests under way
    accept,    \* the accept loop of the relay
    listener,  \* its listener: "none", "open" or "closed"
    relayDone  \* is the relay's channel done closed?

process == <<main, stopper, signals, sigCh, ctxDone>>
web == <<http, started, inflight>>
relay == <<accept, listener, relayDone>>
vars == <<process, web, relay, stun>>

Init ==
    /\ StunInit
    /\ main = "stun" /\ stopper = "none"
    /\ signals = 0 /\ sigCh = FALSE /\ ctxDone = FALSE
    /\ http = "none" /\ started = "none" /\ inflight = 0
    /\ accept = "none" /\ listener = "none" /\ relayDone = FALSE

\* The process is over, and with it every goroutine.
Ended == main \in {"exited", "failed", "killed", "crashed"}

Crash == main' = "crashed" /\ UNCHANGED stopper

-----------------------------------------------------------------------------
(* main                                                                    *)

\* Each of the first two services starts, or its address cannot be used.
MainStun ==
    /\ main = "stun"
    /\ \/ main' = "relay" /\ StartStun
       \/ main' = "failed" /\ UNCHANGED stun
    /\ UNCHANGED <<stopper, signals, sigCh, ctxDone, web, relay>>

MainRelay ==
    /\ main = "relay"
    /\ \/ main' = "notify" /\ listener' = "open" /\ accept' = "check"
       \/ main' = "failed" /\ UNCHANGED <<listener, accept>>
    /\ UNCHANGED <<stopper, signals, sigCh, ctxDone, web, relayDone, stun>>

\* Notify and the goroutine that waits.
MainNotify ==
    /\ main = "notify"
    /\ main' = "start" /\ stopper' = "waiting"
    /\ UNCHANGED <<signals, sigCh, ctxDone, web, relay, stun>>

\* Start of the signaling server, up to ListenAndServe.
MainStart ==
    /\ main = "start"
    /\ main' = "listen" /\ http' = "made"
    /\ UNCHANGED <<stopper, signals, sigCh, ctxDone, started, inflight, relay, stun>>

MainListen ==
    /\ main = "listen" /\ http = "made"
    /\ main' = "serving" /\ http' = "listening"
    /\ UNCHANGED <<stopper, signals, sigCh, ctxDone, started, inflight, relay, stun>>

\* ListenAndServe returns because of Shutdown, at once and whatever requests
\* are under way, or because it cannot listen or accept.
MainReturns ==
    /\ main \in {"listen", "serving"}
    /\ main' = "wait"
    /\ started' = IF http = "shutdown" THEN "closed" ELSE "failed"
    /\ UNCHANGED <<stopper, signals, sigCh, ctxDone, http, inflight, relay, stun>>

MainExit ==
    /\ main = "wait" /\ ctxDone
    /\ main' = "exited"
    /\ UNCHANGED <<stopper, signals, sigCh, ctxDone, web, relay, stun>>

-----------------------------------------------------------------------------
(* The goroutine that stops the services                                   *)

\* <-sigCh
StopSignal ==
    /\ stopper = "waiting" /\ sigCh
    /\ stopper' = "cancel" /\ sigCh' = FALSE
    /\ UNCHANGED <<main, signals, ctxDone, web, relay, stun>>

\* Mutant: cancel is left to its defer in main.
StopNoCancel ==
    /\ stopper = "cancel"
    /\ stopper' = "stun"
    /\ UNCHANGED <<main, signals, sigCh, ctxDone, web, relay, stun>>

\* Mutant: the signaling server is stopped before the other two.
StopShutdownFirst ==
    /\ stopper = "cancel"
    /\ stopper' = "shutdown" /\ ctxDone' = TRUE
    /\ UNCHANGED <<main, signals, sigCh, web, relay, stun>>

StopCancel ==
    /\ stopper = "cancel"
    /\ stopper' = "stun" /\ ctxDone' = TRUE
    /\ UNCHANGED <<main, signals, sigCh, web, relay, stun>>

\* stunServer.Close(); a second call would close a closed channel.
StopStun ==
    /\ stopper \in {"stun", "socket"}
    /\ IF stopper = "stun" /\ done
       THEN Crash /\ UNCHANGED stun
       ELSE /\ stopper' = IF stopper = "stun" THEN "socket" ELSE "relay"
            /\ CloseStun(IF stopper = "stun" THEN 1 ELSE 2)
            /\ UNCHANGED main
    /\ UNCHANGED <<signals, sigCh, ctxDone, web, relay>>

\* relayServer.Close(): the channel, the sessions (module Relay), the listener.
StopRelay ==
    /\ stopper = "relay"
    /\ IF ~relayDone
       THEN relayDone' = TRUE /\ UNCHANGED <<stopper, listener>>
       ELSE listener' = "closed" /\ stopper' = "shutdown" /\ UNCHANGED relayDone
    /\ UNCHANGED <<main, signals, sigCh, ctxDone, web, accept, stun>>

\* signalServer.Shutdown: without a server yet, a nil pointer.
StopShutdown ==
    /\ stopper = "shutdown"
    /\ IF http = "none"
       THEN Crash /\ UNCHANGED http
       ELSE http' = "shutdown" /\ stopper' = "draining" /\ UNCHANGED main
    /\ UNCHANGED <<signals, sigCh, ctxDone, started, inflight, relay, stun>>

\* Shutdown waits for the requests under way.
StopDrained ==
    /\ stopper = "draining" /\ inflight = 0
    /\ stopper' = "over"
    /\ UNCHANGED <<main, signals, sigCh, ctxDone, web, relay, stun>>

-----------------------------------------------------------------------------
(* The accept loop of the relay, and the environment                       *)

\* The test of s.done; Accept and the start of a handler; an error of Accept;
\* isClosed.
Accept ==
    /\ \/ accept = "check" /\ accept' = IF relayDone THEN "over" ELSE "accept"
       \/ accept = "accept" /\ listener = "closed" /\ accept' = "failed"
       \/ accept = "failed" /\ accept' = IF relayDone THEN "over" ELSE "check"
    /\ UNCHANGED <<process, web, listener, relayDone, stun>>

Accepted ==
    /\ accept = "accept" /\ listener = "open"
    /\ accept' = "check"
    /\ UNCHANGED <<process, web, listener, relayDone, stun>>

\* SIGINT or SIGTERM: it ends a process that does not wait for it; a second
\* one does not fit into the channel.
Signal ==
    /\ signals < MaxSignals
    /\ signals' = signals + 1
    /\ IF stopper = "none" THEN main' = "killed" /\ UNCHANGED sigCh
       ELSE sigCh' = TRUE /\ UNCHANGED main
    /\ UNCHANGED <<stopper, ctxDone, web, relay, stun>>

RequestBegins ==
    /\ http = "listening" /\ inflight < MaxRequests
    /\ inflight' = inflight + 1
    /\ UNCHANGED <<process, http, started, relay, stun>>

RequestEnds ==
    /\ inflight > 0
    /\ inflight' = inflight - 1
    /\ UNCHANGED <<process, http, started, relay, stun>>

StunClient ==
    /\ \E m \in Datagrams : SendRequest(m)
    /\ UNCHANGED <<process, web, relay>>

-----------------------------------------------------------------------------
Main == MainStun \/ MainRelay \/ MainNotify \/ MainStart \/ MainListen \/ MainExit

Stopper == StopSignal \/ StopCancel \/ StopStun \/ StopRelay \/ StopShutdown \/ StopDrained

StunServe == Serve /\ UNCHANGED <<process, web, relay>>

Next ==
    /\ ~Ended
    /\ \/ Main \/ MainReturns \/ Stopper \/ Accept \/ Accepted \/ StunServe
       \/ Signal \/ RequestBegins \/ RequestEnds \/ StunClient

Spec == Init /\ [][Next]_vars

\* The goroutines run, and ListenAndServe returns once Shutdown was called.
\* Nothing makes a request, or the network, end.
Fairness ==
    /\ WF_vars(~Ended /\ Main)
    /\ WF_vars(~Ended /\ http = "shutdown" /\ MainReturns)
    /\ WF_vars(~Ended /\ Stopper)

FairSpec == Spec /\ Fairness
-----------------------------------------------------------------------------
\* A signal ends the process, whenever it comes: while services start, when
\* the signaling server could not listen, with requests under way.
SignalEndsProcess == signals > 0 ~> Ended

\* "Gracefully stop services": a server that was stopped by a signal while it
\* was serving leaves with the sockets of STUN and of the relay closed, also
\* though main and the goroutine that closes them race for the exit; and no
\* number of signals closes a service twice, so that the process crashes, if at
\* all, before it has made the HTTP server.
CleanExit ==
    /\ main = "exited" /\ started = "closed" => conn = "closed" /\ listener = "closed"
    /\ main = "crashed" => http = "none"

\* "Shutdown gracefully stops the server." (signal/server.go:128): no request
\* is cut off.  It does not hold: ListenAndServe returns while Shutdown waits,
\* and main exits.
NoRequestCut == main = "exited" => inflight = 0

\* A signal does not crash the server.  It does not hold: Shutdown before
\* Start has made the HTTP server dereferences a nil pointer.
NeverCrashes == main # "crashed"
=============================================================================
