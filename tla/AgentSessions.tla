--------------------------- MODULE AgentSessions ---------------------------
(***************************************************************************)
(* The agent's table of tunnel sessions (SessionManager and Session of     *)
(* internal/agent/tunnel.go) with what it calls: Tunnel.Open and Close     *)
(* (internal/tunnel/tunnel.go), RelayTransport.Open, Close and WriteFrame  *)
(* (internal/tunnel/relay.go) and ConnectToRelay (internal/relay/          *)
(* client.go), which shakes hands with a relay, the environment here.      *)
(*                                                                         *)
(* Goroutines call the operations in any order.  pc[c] is where the        *)
(* goroutine c is, for the sake of what:                                   *)
(*   idle     in none of them                                              *)
(*   lock     wants sm.mu for CreateSession or RemoveSession               *)
(*   rlock    wants it for GetSession or ListSessions                      *)
(*   dial     CreateSession, holding sm.mu: before DialTimeout             *)
(*   ack      in ReadHandshakeAck                                          *)
(*   closing  Session.Close has closed its channel, wants rt.mu            *)
(*   wlock    WriteFrame wants rt.mu                                       *)
(*   writing  WriteFrame holds it and waits for its peer to read           *)
(*                                                                         *)
(* Sessions, with tunnel, transport and connection, are numbered in the    *)
(* order in which they are dialled.                                        *)
(***************************************************************************)
EXTENDS Handshake

CONSTANTS
    Callers,      \* goroutines
    IDs,          \* session IDs
    IDBytes,      \* the bytes of each
    MaxSessions,  \* bound on the sessions that are dialled
    Calls,        \* the operations that are called
    Cuts,         \* after how many bytes an answer may come in two pieces
    Free          \* not a goroutine: nobody holds the lock

ASSUME SessionsAssumption == MaxSessions \in Nat /\ Free \notin Callers
ASSUME CutsAssumption == Cuts \subseteq Nat
ASSUME IDsAssumption ==
    /\ IDBytes \in [IDs -> Seq(0 .. 255)]
    /\ \A i, j \in IDs : IDBytes[i] = IDBytes[j] => i = j
ASSUME CallsAssumption == Calls \subseteq {"create", "remove", "get", "list", "close", "write"}

Sessions == 1 .. MaxSessions

VARIABLES
    pc,       \* where a goroutine is
    call,     \* what it does there: [op, id, obj]
    mu,       \* who holds SessionManager.mu for writing
    table,    \* SessionManager.sessions, 0 for none
    dialled,  \* how many sessions have been dialled
    sid,      \* Session.ID
    stored,   \* the sessions that were put into the table
    done,     \* the sessions whose channel done is closed
    conn,     \* RelayTransport.conn: "none", "open" or "closed"
    rtmu,     \* who holds RelayTransport.mu
    sent,     \* the handshake, on its way to the relay
    reply,    \* what the relay answers, in all
    inbox,    \* what of it has arrived
    joined,   \* under which ID the relay has filed the connection
    direct,   \* the sessions on which a goroutine called Close itself
    crashed   \* a channel was closed twice

agent == <<pc, call, mu, table>>
session == <<dialled, sid, stored, done, conn, rtmu, direct>>
wire == <<sent, reply, inbox, joined>>
vars == <<agent, session, wire, crashed>>

NoCall == [op |-> "none", id |-> "none", obj |-> 0]

NoID == "none"

Init ==
    /\ pc = [c \in Callers |-> "idle"] /\ call = [c \in Callers |-> NoCall]
    /\ mu = Free /\ table = [i \in IDs |-> 0]
    /\ dialled = 0 /\ sid = [o \in Sessions |-> NoID] /\ stored = {} /\ done = {}
    /\ conn = [o \in Sessions |-> "none"] /\ rtmu = [o \in Sessions |-> Free]
    /\ direct = {}
    /\ sent = [o \in Sessions |-> <<>>] /\ reply = [o \in Sessions |-> <<>>]
    /\ inbox = [o \in Sessions |-> <<>>] /\ joined = [o \in Sessions |-> NoID]
    /\ crashed = FALSE

Goto(c, place) == pc' = [pc EXCEPT ![c] = place]

\* The call of c is over.
Return(c) == Goto(c, "idle") /\ call' = [call EXCEPT ![c] = NoCall]

-----------------------------------------------------------------------------
(* Calls                                                                   *)

\* An operation of the table, by ID.
CallTable(c, op, i) ==
    /\ pc[c] = "idle"
    /\ op = "create" => dialled < MaxSessions
    /\ Goto(c, IF op \in {"create", "remove"} THEN "lock" ELSE "rlock")
    /\ call' = [call EXCEPT ![c] = [op |-> op, id |-> i, obj |-> 0]]
    /\ UNCHANGED <<mu, table, session, wire, crashed>>

\* WriteFrame on a session, by pointer.
CallWrite(c, o) ==
    /\ pc[c] = "idle" /\ o \in stored
    /\ Goto(c, "wlock")
    /\ call' = [call EXCEPT ![c] = [op |-> "write", id |-> sid[o], obj |-> o]]
    /\ UNCHANGED <<mu, table, session, wire, crashed>>

\* Session.Close, up to Tunnel.Close: closing a closed channel panics.
CloseDone(c, op, o) ==
    IF o \in done
    THEN crashed' = TRUE /\ UNCHANGED <<pc, call, done>>
    ELSE /\ done' = done \cup {o}
         /\ Goto(c, "closing")
         /\ call' = [call EXCEPT ![c] = [op |-> op, id |-> sid[o], obj |-> o]]
         /\ UNCHANGED crashed

\* Session.Close, called by whoever has the session.
CallClose(c, o) ==
    /\ pc[c] = "idle" /\ o \in stored
    /\ CloseDone(c, "close", o)
    /\ direct' = direct \cup {o}
    /\ UNCHANGED <<mu, table, dialled, sid, stored, conn, rtmu, wire>>

-----------------------------------------------------------------------------
(* The table                                                               *)

\* GetSession and ListSessions, under the lock for reading.  What they return
\* is in stored already: goroutines share the sessions that they create.
Read(c) ==
    /\ pc[c] = "rlock" /\ mu = Free
    /\ Return(c)
    /\ UNCHANGED <<mu, table, session, wire, crashed>>

LockCreate(c) ==
    /\ pc[c] = "lock" /\ call[c].op = "create" /\ mu = Free
    /\ mu' = c
    /\ Goto(c, "dial")
    /\ UNCHANGED <<call, table, session, wire, crashed>>

\* Mutant: the lock is given back before the session is closed.
RemoveUnlocked(c) ==
    /\ pc[c] = "lock" /\ call[c].op = "remove" /\ mu = Free
    /\ IF table[call[c].id] = 0
       THEN Return(c) /\ UNCHANGED <<done, crashed>>
       ELSE CloseDone(c, "remove", table[call[c].id])
    /\ UNCHANGED <<mu, table, dialled, sid, stored, conn, rtmu, direct, wire>>

\* RemoveSession, up to Tunnel.Close of the session it finds.
LockRemove(c) ==
    /\ pc[c] = "lock" /\ call[c].op = "remove" /\ mu = Free
    /\ IF table[call[c].id] = 0
       THEN Return(c) /\ UNCHANGED <<mu, done, crashed>>
       ELSE CloseDone(c, "remove", table[call[c].id]) /\ mu' = c
    /\ UNCHANGED <<table, dialled, sid, stored, conn, rtmu, direct, wire>>

\* RelayTransport.Close, and the rest of RemoveSession.
CloseConn(c) ==
    /\ pc[c] = "closing" /\ rtmu[call[c].obj] = Free
    /\ conn' = [conn EXCEPT ![call[c].obj] = "closed"]
    /\ IF call[c].op = "remove"
       THEN mu' = Free /\ table' = [table EXCEPT ![call[c].id] = 0]
       ELSE UNCHANGED <<mu, table>>
    /\ Return(c)
    /\ UNCHANGED <<dialled, sid, stored, done, rtmu, direct, wire, crashed>>

-----------------------------------------------------------------------------
(* CreateSession: ConnectToRelay under sm.mu and rt.mu, which nobody else   *)
(* can want yet.                                                           *)

\* DialTimeout fails, within ten seconds, or WriteHandshake does.
DialFails(c) ==
    /\ pc[c] = "dial"
    /\ mu' = Free
    /\ Return(c)
    /\ UNCHANGED <<table, session, wire, crashed>>

\* Both succeed.
Dial(c) ==
    LET o == dialled + 1
        i == call[c].id
    IN  /\ pc[c] = "dial" /\ dialled < MaxSessions /\ CanWrite(IDBytes[i])
        /\ dialled' = o
        /\ sid' = [sid EXCEPT ![o] = i]
        /\ conn' = [conn EXCEPT ![o] = "open"]
        /\ sent' = [sent EXCEPT ![o] = WriteHandshake(IDBytes[i], PeerTypeResponder)]
        /\ Goto(c, "ack")
        /\ call' = [call EXCEPT ![c].obj = o]
        /\ UNCHANGED <<mu, table, stored, done, rtmu, direct, reply, inbox, joined, crashed>>

\* ReadHandshakeAck returns nil: the session enters the table, in the place of
\* any other session with its ID.
Acknowledged(c) ==
    LET o == call[c].obj
    IN  /\ pc[c] = "ack" /\ AckAccepted(inbox[o])
        /\ table' = [table EXCEPT ![call[c].id] = o]
        /\ stored' = stored \cup {o}
        /\ mu' = Free
        /\ Return(c)
        /\ UNCHANGED <<dialled, sid, done, conn, rtmu, direct, wire, crashed>>

\* Mutant: the connection is left open.
RefusedOpen(c) ==
    /\ pc[c] = "ack" /\ ~AckAccepted(inbox[call[c].obj])
    /\ mu' = Free
    /\ Return(c)
    /\ UNCHANGED <<table, session, wire, crashed>>

\* Mutant: the return on an error keeps the lock.
RefusedLocked(c) ==
    /\ pc[c] = "ack" /\ ~AckAccepted(inbox[call[c].obj])
    /\ conn' = [conn EXCEPT ![call[c].obj] = "closed"]
    /\ Return(c)
    /\ UNCHANGED <<mu, table, dialled, sid, stored, done, rtmu, direct, wire, crashed>>

\* It returns an error: a refusal, the end of the connection, or the deadline
\* of thirty seconds.
Refused(c) ==
    /\ pc[c] = "ack" /\ ~AckAccepted(inbox[call[c].obj])
    /\ conn' = [conn EXCEPT ![call[c].obj] = "closed"]
    /\ mu' = Free
    /\ Return(c)
    /\ UNCHANGED <<table, dialled, sid, stored, done, rtmu, direct, wire, crashed>>

-----------------------------------------------------------------------------
(* WriteFrame                                                              *)

LockWrite(c) ==
    /\ pc[c] = "wlock" /\ rtmu[call[c].obj] = Free
    /\ rtmu' = [rtmu EXCEPT ![call[c].obj] = c]
    /\ Goto(c, "writing")
    /\ UNCHANGED <<call, mu, table, dialled, sid, stored, done, conn, direct, wire, crashed>>

\* The write fails, or the peer reads what it waits for.
WriteReturns(c) ==
    /\ pc[c] = "writing"
    /\ rtmu' = [rtmu EXCEPT ![call[c].obj] = Free]
    /\ Return(c)
    /\ UNCHANGED <<mu, table, dialled, sid, stored, done, conn, direct, wire, crashed>>

-----------------------------------------------------------------------------
(* The relay: handleConnection of relay/server.go as a client sees it.     *)

\* It accepts the handshake and files the connection, or refuses it: as
\* malformed, or because it has no room.
Answer(o) ==
    /\ conn[o] = "open" /\ reply[o] = <<>>
    /\ \/ /\ HandshakeAccepted(sent[o]) /\ HandshakePeer(sent[o]) = PeerTypeResponder
          /\ reply' = [reply EXCEPT ![o] = WriteHandshakeAck(TRUE, <<>>)]
          /\ joined' = [joined EXCEPT ![o] = CHOOSE i \in IDs : IDBytes[i] = HandshakeID(sent[o])]
       \/ /\ reply' = [reply EXCEPT ![o] = WriteHandshakeAck(FALSE, <<110, 111>>)]
          /\ UNCHANGED joined
    /\ UNCHANGED <<agent, session, sent, inbox, crashed>>

\* Its answer arrives, at once, in two pieces, in part or not at all: it may
\* be slow, or have ended the connection.
Deliver(o) ==
    /\ conn[o] = "open"
    /\ \E n \in {k \in Cuts \cup {Len(reply[o])} : Len(inbox[o]) < k /\ k <= Len(reply[o])} :
          inbox' = [inbox EXCEPT ![o] = SubSeq(reply[o], 1, n)]
    /\ UNCHANGED <<agent, session, sent, reply, joined, crashed>>

-----------------------------------------------------------------------------
Locked(c) == Read(c) \/ LockCreate(c) \/ LockRemove(c) \/ LockWrite(c) \/ CloseConn(c)

Open(c) == DialFails(c) \/ Dial(c) \/ Acknowledged(c) \/ Refused(c)

Next ==
    /\ ~crashed
    /\ \/ \E c \in Callers :
             \/ \E i \in IDs, op \in Calls \cap {"create", "remove", "get", "list"} : CallTable(c, op, i)
             \/ \E o \in Sessions : \/ "write" \in Calls /\ CallWrite(c, o)
                                    \/ "close" \in Calls /\ CallClose(c, o)
             \/ Locked(c) \/ Open(c) \/ WriteReturns(c)
       \/ \E o \in Sessions : Answer(o) \/ Deliver(o)

Spec == Init /\ [][Next]_vars

\* Goroutines run, timeouts pass, and a lock that is given back again and again
\* is got: Go's mutexes do not starve.  Nothing makes a peer read.
Fairness ==
    \A c \in Callers : WF_vars(~crashed /\ Open(c)) /\ SF_vars(~crashed /\ Locked(c))

FairSpec == Spec /\ Fairness
-----------------------------------------------------------------------------
\* A session is in the table only if the relay has filed its connection under
\* this very ID: in every other case, an answer that comes in pieces, is a
\* refusal, is cut off or late, an ID the relay does not take,
\* CreateSession fails (ConnectToRelay, ReadHandshakeAck).
ListedIsJoined == \A i \in IDs : table[i] # 0 => joined[table[i]] = i

Creating(o) == \E c \in Callers : pc[c] = "ack" /\ call[c].obj = o

\* No connection leaks, whichever call fails and however calls overlap, save
\* that CreateSession drops a session with the same ID unclosed: every other
\* open connection is that of a session in the table, or is being made.
LeakOnlyByReplacement ==
    \A o \in Sessions :
       conn[o] = "open" => \/ Creating(o)
                           \/ table[sid[o]] = o
                           \/ \E p \in stored : p > o /\ sid[p] = sid[o]

\* RemoveSession closes a session once, however many goroutines call it: a
\* channel is closed twice only when somebody called Session.Close himself.
CrashNeedsClose == crashed => direct # {}

\* Every call returns, as long as no WriteFrame waits for ever for a peer that
\* does not read: the relay may be unreachable, silent or gone.
CallsReturnIfTaken ==
    (\A o \in Sessions : []<>(rtmu[o] = Free))
       => \A c \in Callers : pc[c] # "idle" ~> pc[c] = "idle" \/ crashed

\* Without that: a peer that does not read holds up RemoveSession of its own
\* session, and with it, through sm.mu, the calls for all others.
CallsReturn == \A c \in Callers : pc[c] \in {"lock", "rlock"} ~> pc[c] = "idle" \/ crashed

\* "SessionManager manages active tunnel sessions on the agent." (tunnel.go:12):
\* all open sessions are in the table.  They are not, after a replacement.
OpenIsListed == \A o \in stored : conn[o] = "open" => table[sid[o]] = o

\* "ListSessions returns all active sessions." (tunnel.go:104): no others.  A
\* session that was closed with Session.Close stays.
ListedIsActive == \A i \in IDs : table[i] # 0 /\ mu = Free => table[i] \notin done

\* "RemoveSession removes a session from the manager." (tunnel.go:84), also one
\* that has been closed.  It panics.
NeverCrashes == ~crashed
=============================================================================
