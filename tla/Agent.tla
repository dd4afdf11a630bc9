------------------------------- MODULE Agent -------------------------------
(***************************************************************************)
(* The agent's connection to the signal server (internal/agent/            *)
(* register.go): Run, which connects and reconnects with a backoff, the    *)
(* heartbeat loop of every connection, Close, and the cancellation of the  *)
(* context by the signal handler of cmd/agent/main.go.                     *)
(*                                                                         *)
(* pc, the goroutine of Run:                                               *)
(*   top       at the head of the outer loop                               *)
(*   dial      in connect, before DialContext                              *)
(*   register  connected, before the registration is written               *)
(*   check     in readMessages, before the test of ctx.Done()              *)
(*   reading   blocked in conn.ReadMessage()                               *)
(*   answer    before the response to a connect request is written         *)
(*   wait      in the backoff loop, waiting for the delay                  *)
(*   stopped   Run has returned                                            *)
(*                                                                         *)
(* Connections are numbered in the order in which they are dialled, and a  *)
(* heartbeat loop has the number of the connection it was started for.     *)
(***************************************************************************)
EXTENDS Naturals

CONSTANTS
    ReconnectBaseDelay,  \* the first delay of the backoff
    ReconnectMaxDelay,   \* its largest delay
    MaxConns             \* bound on the connections the agent dials

ASSUME DelayAssumption ==
    /\ ReconnectBaseDelay \in Nat \ {0}
    /\ ReconnectMaxDelay \in Nat
    /\ ReconnectBaseDelay <= ReconnectMaxDelay

ASSUME MaxConnsAssumption == MaxConns \in Nat \ {0}

VARIABLES
    pc,         \* the goroutine of Run
    inner,      \* was connect called from the backoff loop?
    delay,      \* the local variable of Run
    conn,       \* Agent.conn, 0 is nil
    link,       \* the state of every connection
    hb,         \* the heartbeat loops
    hbCancel,   \* has heartbeatCancel been called?
    registered, \* did the last call of connect register the device?
    netUp,      \* does the signal server answer?
    cancelled,  \* has the context of Run been cancelled?
    done        \* is the channel Agent.done closed?

run == <<pc, inner, delay, registered>>
loops == <<hb, hbCancel>>
vars == <<run, conn, link, loops, netUp, cancelled, done>>

Conns == 1 .. MaxConns

Places == {"top", "dial", "register", "check", "reading", "answer", "wait", "stopped"}

\* A connection works; has silently lost its peer; has data that the lost peer
\* will not acknowledge; or is known to be broken, and fails.
LinkStates == {"none", "up", "lost", "unacked", "dead"}

\* A heartbeat loop waits in its select, or is about to write.
LoopStates == {"none", "idle", "send", "gone"}

Init ==
    /\ pc = "top"
    /\ inner = FALSE
    /\ delay = ReconnectBaseDelay
    /\ conn = 0
    /\ link = [k \in Conns |-> "none"]
    /\ hb = [k \in Conns |-> "none"]
    /\ hbCancel = [k \in Conns |-> FALSE]
    /\ registered = FALSE
    /\ netUp \in BOOLEAN
    /\ cancelled = FALSE
    /\ done = FALSE

----------------------------------------------------------------------------
\* What a successful a.conn.WriteMessage does to the connection: a peer that
\* is gone does not acknowledge, and TCP will give up on the connection.
Written == link' = IF link[conn] = "lost" THEN [link EXCEPT ![conn] = "unacked"] ELSE link

\* The next delay of the backoff loop.
Doubled == IF 2 * delay > ReconnectMaxDelay THEN ReconnectMaxDelay ELSE 2 * delay

\* Mutant: the delay is compared with its limit before it is doubled.
ReturnUncapped(ok) ==
    /\ pc' = "wait"
    /\ inner' = TRUE
    /\ delay' = IF ~inner THEN ReconnectBaseDelay
                ELSE IF delay > ReconnectMaxDelay THEN ReconnectMaxDelay ELSE 2 * delay
    /\ registered' = ok

\* connect returns to Run, always with an error: readMessages only returns
\* with one.  Run enters the backoff loop or goes around it.
Return(ok) ==
    /\ pc' = "wait"
    /\ inner' = TRUE
    /\ delay' = IF inner THEN Doubled ELSE ReconnectBaseDelay
    /\ registered' = ok

\* Mutant: the heartbeat loop is left running.
ReturnKeepLoop == Return(TRUE) /\ UNCHANGED hbCancel

\* readMessages returns, and with it connect: the deferred heartbeatCancel.
ReturnRead == Return(TRUE) /\ hbCancel' = [hbCancel EXCEPT ![conn] = TRUE]

----------------------------------------------------------------------------
\* Run

\* The select at the head of the outer loop.
Top ==
    /\ pc = "top"
    /\ pc' = IF cancelled \/ done THEN "stopped" ELSE "dial"
    /\ UNCHANGED <<inner, delay, registered, conn, link, loops, netUp, cancelled, done>>

\* Mutant: Dial instead of DialContext.
DialAnyway ==
    /\ pc = "dial" /\ netUp /\ conn < MaxConns
    /\ pc' = "register"
    /\ conn' = conn + 1
    /\ link' = [link EXCEPT ![conn + 1] = "up"]
    /\ UNCHANGED <<inner, delay, registered, loops, netUp, cancelled, done>>

\* DialContext succeeds and the connection becomes Agent.conn.
Dial ==
    /\ pc = "dial" /\ netUp /\ ~cancelled /\ conn < MaxConns
    /\ pc' = "register"
    /\ conn' = conn + 1
    /\ link' = [link EXCEPT ![conn + 1] = "up"]
    /\ UNCHANGED <<inner, delay, registered, loops, netUp, cancelled, done>>

DialFails ==
    /\ pc = "dial" /\ (~netUp \/ cancelled)
    /\ Return(FALSE)
    /\ UNCHANGED <<conn, link, loops, netUp, cancelled, done>>

\* Mutant: the heartbeat loop is not started for a connection of the backoff loop.
RegisterNoLoop ==
    /\ pc = "register" /\ link[conn] # "dead"
    /\ Written
    /\ pc' = "check"
    /\ hb' = IF inner THEN hb ELSE [hb EXCEPT ![conn] = "idle"]
    /\ UNCHANGED <<inner, delay, registered, conn, hbCancel, netUp, cancelled, done>>

\* The registration is written and the heartbeat loop started.
Register ==
    /\ pc = "register" /\ link[conn] # "dead"
    /\ Written
    /\ pc' = "check"
    /\ hb' = [hb EXCEPT ![conn] = "idle"]
    /\ UNCHANGED <<inner, delay, registered, conn, hbCancel, netUp, cancelled, done>>

RegisterFails ==
    /\ pc = "register" /\ link[conn] = "dead"
    /\ Return(FALSE)
    /\ UNCHANGED <<conn, link, loops, netUp, cancelled, done>>

\* The test of the context between two messages.
Check ==
    /\ pc = "check"
    /\ IF cancelled
       THEN ReturnRead
       ELSE /\ pc' = "reading"
            /\ UNCHANGED <<inner, delay, registered, hbCancel>>
    /\ UNCHANGED <<conn, link, hb, netUp, cancelled, done>>

\* A message arrives; only a connect request makes the agent answer.
ReadMessage ==
    /\ pc = "reading" /\ link[conn] = "up"
    /\ pc' \in {"check", "answer"}
    /\ UNCHANGED <<inner, delay, registered, conn, link, loops, netUp, cancelled, done>>

\* ReadMessage fails.  Nothing else, not even the context, ends it.
ReadFails ==
    /\ pc = "reading" /\ link[conn] = "dead"
    /\ ReturnRead
    /\ UNCHANGED <<conn, link, hb, netUp, cancelled, done>>

\* handleConnectRequest accepts the request; a failed write is only logged.
Answer ==
    /\ pc = "answer"
    /\ pc' = "check"
    /\ IF link[conn] = "dead" THEN UNCHANGED link ELSE Written
    /\ UNCHANGED <<inner, delay, registered, conn, loops, netUp, cancelled, done>>

\* The delay of the backoff is over.
WaitElapsed ==
    /\ pc = "wait"
    /\ pc' = "dial"
    /\ UNCHANGED <<inner, delay, registered, conn, link, loops, netUp, cancelled, done>>

\* Mutant: the wait of the backoff loop does not look at the context.
WaitIgnored == pc = "wait" /\ cancelled /\ UNCHANGED vars

\* The context is cancelled during the wait.  Agent.done is not looked at.
WaitCancelled ==
    /\ pc = "wait" /\ cancelled
    /\ pc' = "stopped"
    /\ UNCHANGED <<inner, delay, registered, conn, link, loops, netUp, cancelled, done>>

----------------------------------------------------------------------------
\* heartbeatLoop, started for connection k.

\* The ticker fires and the select takes it.
Tick(k) ==
    /\ hb[k] = "idle"
    /\ hb' = [hb EXCEPT ![k] = "send"]
    /\ UNCHANGED <<run, conn, link, hbCancel, netUp, cancelled, done>>

\* The heartbeat is written to Agent.conn, which may by now be a later
\* connection than the loop's own.  An error ends the loop.
Beat(k) ==
    /\ hb[k] = "send"
    /\ IF link[conn] = "dead"
       THEN hb' = [hb EXCEPT ![k] = "gone"] /\ UNCHANGED link
       ELSE hb' = [hb EXCEPT ![k] = "idle"] /\ Written
    /\ UNCHANGED <<run, conn, hbCancel, netUp, cancelled, done>>

\* The select takes the cancelled context of the loop.
LoopExit(k) ==
    /\ hb[k] = "idle" /\ (hbCancel[k] \/ cancelled)
    /\ hb' = [hb EXCEPT ![k] = "gone"]
    /\ UNCHANGED <<run, conn, link, hbCancel, netUp, cancelled, done>>

----------------------------------------------------------------------------
\* The callers and the environment.

\* Agent.Close; a second call would panic.
Close ==
    /\ ~done
    /\ done' = TRUE
    /\ link' = IF conn = 0 THEN link ELSE [link EXCEPT ![conn] = "dead"]
    /\ UNCHANGED <<run, conn, loops, netUp, cancelled>>

\* The goroutine of main that waits for a signal.
Cancel ==
    /\ ~cancelled
    /\ cancelled' = TRUE
    /\ UNCHANGED <<run, conn, link, loops, netUp, done>>

\* The connection is closed by the server or reset, or its peer vanishes.  The
\* bound leaves one connection to dial after the last of these, and one more
\* after Close.
Lose ==
    /\ conn \in 1 .. MaxConns - 2 /\ link[conn] = "up"
    /\ \E s \in {"dead", "lost"} : link' = [link EXCEPT ![conn] = s]
    /\ UNCHANGED <<run, conn, loops, netUp, cancelled, done>>

\* TCP gives up on data that is not acknowledged.
TimeOut ==
    /\ conn # 0 /\ link[conn] = "unacked"
    /\ link' = [link EXCEPT ![conn] = "dead"]
    /\ UNCHANGED <<run, conn, loops, netUp, cancelled, done>>

\* The signal server becomes reachable or unreachable.
Network ==
    /\ netUp' = ~netUp
    /\ UNCHANGED <<run, conn, link, loops, cancelled, done>>

----------------------------------------------------------------------------
RunStep ==
    \/ Top \/ Dial \/ DialFails \/ Register \/ RegisterFails
    \/ Check \/ ReadFails \/ Answer \/ WaitElapsed

LoopStep(k) == Tick(k) \/ Beat(k)

Next ==
    \/ RunStep \/ WaitCancelled \/ ReadMessage
    \/ \E k \in Conns : LoopStep(k) \/ LoopExit(k)
    \/ Close \/ Cancel \/ Lose \/ TimeOut \/ Network

Spec == Init /\ [][Next]_vars

\* Goroutines run and timers fire.  A select with two ready cases chooses at
\* random: a case that is ready again and again is taken.  Nothing makes a
\* message arrive, a connection break or a caller stop the agent.
Fairness ==
    /\ WF_vars(RunStep)
    /\ SF_vars(WaitCancelled)
    /\ \A k \in Conns : WF_vars(LoopStep(k)) /\ SF_vars(LoopExit(k))
    /\ WF_vars(TimeOut)

FairSpec == Spec /\ Fairness

----------------------------------------------------------------------------
\* The types, and the delay of the backoff between its two limits.
TypeOK ==
    /\ pc \in Places
    /\ inner \in BOOLEAN
    /\ delay \in ReconnectBaseDelay .. ReconnectMaxDelay
    /\ conn \in 0 .. MaxConns
    /\ link \in [Conns -> LinkStates]
    /\ hb \in [Conns -> LoopStates]
    /\ hbCancel \in [Conns -> BOOLEAN]
    /\ registered \in BOOLEAN
    /\ netUp \in BOOLEAN
    /\ cancelled \in BOOLEAN
    /\ done \in BOOLEAN

\* The heartbeat loops of earlier connections have been told to end: after any
\* number of reconnections at most the loop of the connection being read from
\* goes on (connect's deferred heartbeatCancel).
OneLoop ==
    \A k \in Conns : hb[k] \in {"idle", "send"} /\ ~hbCancel[k]
                        => k = conn /\ pc \in {"check", "reading", "answer"}

\* Run never leaves a working connection behind for another one, although
\* connect closes its connection only when the registration fails: it is
\* abandoned after an error, or after a cancellation, which DialContext sees.
OneWorkingConnection == \A k \in Conns : k < conn => link[k] = "dead"

\* When the server stays reachable the agent is in the end connected to it,
\* unless it is stopped.  A peer that vanishes in silence is noticed because of
\* the heartbeats: readMessages sets no read deadline.
Reconnects ==
    <>[]netUp => <>[](\/ cancelled \/ done
                      \/ pc \in {"check", "reading", "answer"} /\ link[conn] = "up")

\* Once the context is cancelled, an agent without a working connection stops,
\* wherever it is: dialling, registering, reading or waiting.
CancelStopsUnlessConnected ==
    (cancelled /\ (conn = 0 \/ link[conn] = "dead")) ~> pc = "stopped"

\* "received signal, shutting down" (cmd/agent/main.go): a cancelled agent
\* stops.  It does not while ReadMessage waits on a working connection.
CancelStops == cancelled ~> pc = "stopped"

\* "Close stops the agent."  It reconnects: the backoff loop ignores Agent.done.
CloseStops == done ~> pc = "stopped"

\* "break // connected successfully": the backoff loop is left after a connect
\* that registered the device.  It goes on, with a doubled delay: connect
\* returns an error whenever it returns.
BackoffEndsOnSuccess == ~(pc = "wait" /\ registered /\ delay > ReconnectBaseDelay)
=============================================================================
