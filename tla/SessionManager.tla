--------------------------- MODULE SessionManager ---------------------------
(***************************************************************************)
(* The session table of the signaling server (internal/signal/session.go). *)
(* A session object is identified with its ID, since the apps draw a fresh *)
(* UUID for every connect request.  The object outlives its entry in the   *)
(* table: the index byClient of the other party may still refer to it.     *)
(* Every operation is one critical section of SessionManager.mu.           *)
(***************************************************************************)
EXTENDS Hub

VARIABLES
    sessions,   \* the keys of SessionManager.sessions
    status,     \* Session.Status, "none" before the session is created
    initiator,  \* Session.Initiator
    responder,  \* Session.Responder, Nil until the session is accepted
    target,     \* Session.DeviceID
    byClient    \* SessionManager.byClient: client ID -> sessions

table == <<sessions, status, initiator, responder, target, byClient>>

Statuses == {"none", "pending", "accepted", "rejected", "closed"}

SessionInit ==
    /\ sessions = {}
    /\ status = [s \in SessionIDs |-> "none"]
    /\ initiator = [s \in SessionIDs |-> Nil]
    /\ responder = [s \in SessionIDs |-> Nil]
    /\ target = [s \in SessionIDs |-> Nil]
    /\ byClient = [i \in IDs |-> {}]

SessionTypeOK ==
    /\ sessions \in SUBSET SessionIDs
    /\ status \in [SessionIDs -> Statuses]
    /\ initiator \in [SessionIDs -> Apps \cup {Nil}]
    /\ responder \in [SessionIDs -> Agents \cup {Nil}]
    /\ target \in [SessionIDs -> Devices \cup {Nil}]
    /\ byClient \in [IDs -> SUBSET SessionIDs]

CreateSession(s, c, d) ==
    /\ sessions' = sessions \cup {s}
    /\ status' = [status EXCEPT ![s] = "pending"]
    /\ initiator' = [initiator EXCEPT ![s] = c]
    /\ responder' = [responder EXCEPT ![s] = Nil]
    /\ target' = [target EXCEPT ![s] = d]
    /\ byClient' = [byClient EXCEPT ![id[c]] = @ \cup {s}]

\* Mutant: the responder is not indexed.
AcceptSessionNoIndex(s, c) ==
    \/ /\ s \in sessions
       /\ status' = [status EXCEPT ![s] = "accepted"]
       /\ responder' = [responder EXCEPT ![s] = c]
       /\ UNCHANGED <<sessions, initiator, target, byClient>>
    \/ /\ s \notin sessions
       /\ UNCHANGED table

\* AcceptSession looks at nothing but the presence of the session.
AcceptSession(s, c) ==
    \/ /\ s \in sessions
       /\ status' = [status EXCEPT ![s] = "accepted"]
       /\ responder' = [responder EXCEPT ![s] = c]
       /\ byClient' = [byClient EXCEPT ![id[c]] = @ \cup {s}]
       /\ UNCHANGED <<sessions, initiator, target>>
    \/ /\ s \notin sessions
       /\ UNCHANGED table

\* RejectSession and CloseSession: the session stays in the table.
MarkSession(s, st) ==
    /\ status' = IF s \in sessions THEN [status EXCEPT ![s] = st] ELSE status
    /\ UNCHANGED <<sessions, initiator, responder, target, byClient>>

RejectSession(s) == MarkSession(s, "rejected")

CloseSession(s) == MarkSession(s, "closed")

\* Mutant: only the initiator's end is found.
GetPeerOfInitiator(s, c) ==
    IF s \in sessions /\ id[initiator[s]] = id[c] THEN responder[s] ELSE Nil

\* GetPeer: the two parties are told apart by client ID, the initiator first;
\* Nil when there is no session, no such party, or no responder yet.
GetPeer(s, c) ==
    IF s \notin sessions THEN Nil
    ELSE IF id[initiator[s]] = id[c] THEN responder[s]
    ELSE IF responder[s] # Nil /\ id[responder[s]] = id[c] THEN initiator[s]
    ELSE Nil

\* Mutant: the index entry is not deleted.
RemoveClientSessionsKeepIndex(i) ==
    /\ sessions' = sessions \ byClient[i]
    /\ status' = [s \in SessionIDs |->
                    IF s \in byClient[i] THEN "closed" ELSE status[s]]
    /\ UNCHANGED <<initiator, responder, target, byClient>>

\* Mutant: every session goes.
RemoveAllSessions(i) ==
    /\ sessions' = {}
    /\ status' = [s \in SessionIDs |->
                    IF s \in sessions THEN "closed" ELSE status[s]]
    /\ byClient' = [byClient EXCEPT ![i] = {}]
    /\ UNCHANGED <<initiator, responder, target>>

\* RemoveClientSessions: every session indexed under the ID.
RemoveClientSessions(i) ==
    /\ sessions' = sessions \ byClient[i]
    /\ status' = [s \in SessionIDs |->
                    IF s \in byClient[i] THEN "closed" ELSE status[s]]
    /\ byClient' = [byClient EXCEPT ![i] = {}]
    /\ UNCHANGED <<initiator, responder, target>>

\* A copy of all sessions.
ListSessions == sessions
============================================================================
