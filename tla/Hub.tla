-------------------------------- MODULE Hub --------------------------------
(***************************************************************************)
(* The hub of the signaling server (internal/signal/hub.go): the connected *)
(* clients, the registered devices and the client that serves each device. *)
(* A client is one accepted WebSocket connection, i.e. one *Client object; *)
(* an agent that reconnects is another client.  Every operation below is   *)
(* one critical section of Hub.mu and so one atomic step of its caller.    *)
(*                                                                         *)
(* An entry of the map devices is its key in the set devices and its two   *)
(* times; a client's Send channel is the bounded queue send[c] and the     *)
(* flag closed[c] (sending on a closed channel panics).                    *)
(***************************************************************************)
EXTENDS Naturals, Sequences

CONSTANTS
    Agents,          \* connections opened with ?type=agent
    Apps,            \* all other connections
    Devices,         \* device identifiers
    SessionIDs,      \* session identifiers that apps generate
    SendBufferSize,  \* capacity of a client's Send channel
    MaxSecond,       \* bound on the server's clock
    Nil              \* no client, no device, no session

Clients == Agents \cup Apps

\* A client ID is the second in which the connection was accepted.
IDs == 0 .. MaxSecond

ASSUME ClientsAssumption == Agents \cap Apps = {} /\ Nil \notin Clients
ASSUME NilAssumption == Nil \notin Devices /\ Nil \notin SessionIDs
ASSUME BoundsAssumption == SendBufferSize \in Nat \ {0} /\ MaxSecond \in Nat

VARIABLES
    second,      \* time.Now(), to the second
    id,          \* Client.ID
    deviceID,    \* Client.DeviceID, Nil for ""
    send,        \* Client.Send: the messages queued for the write pump
    closed,      \* has Client.Send been closed?
    clients,     \* Hub.clients: client ID -> client or Nil
    devices,     \* the keys of Hub.devices
    registered,  \* DeviceInfo.Registered
    lastSeen,    \* DeviceInfo.LastSeen
    byDevice     \* Hub.byDevice: device ID -> client or Nil

registry == <<clients, devices, registered, lastSeen, byDevice, deviceID>>

----------------------------------------------------------------------------
\* Messages on a Send channel: the type and the session it names, if any.

MessageTypes == {"register_ack", "heartbeat_ack", "connect_request",
                 "connect_response", "forward", "disconnect", "error"}

Message == [type : MessageTypes, sid : SessionIDs \cup {Nil}]

\* Mutant: off by one.
FullLate(c) == Len(send[c]) > SendBufferSize

Full(c) == Len(send[c]) >= SendBufferSize

\* select { case c.Send <- msg: default: }: a full buffer drops the message.
TrySend(c, m) ==
    send' = IF Full(c) THEN send ELSE [send EXCEPT ![c] = Append(@, m)]

----------------------------------------------------------------------------
HubInit ==
    /\ second = 0
    /\ id = [c \in Clients |-> 0]
    /\ deviceID = [c \in Clients |-> Nil]
    /\ send = [c \in Clients |-> <<>>]
    /\ closed = [c \in Clients |-> FALSE]
    /\ clients = [i \in IDs |-> Nil]
    /\ devices = {}
    /\ registered = [d \in Devices |-> 0]
    /\ lastSeen = [d \in Devices |-> 0]
    /\ byDevice = [d \in Devices |-> Nil]

HubTypeOK ==
    /\ second \in IDs
    /\ id \in [Clients -> IDs]
    /\ deviceID \in [Clients -> Devices \cup {Nil}]
    /\ send \in [Clients -> Seq(Message)]
    /\ closed \in [Clients -> BOOLEAN]
    /\ clients \in [IDs -> Clients \cup {Nil}]
    /\ devices \in SUBSET Devices
    /\ registered \in [Devices -> IDs]
    /\ lastSeen \in [Devices -> IDs]
    /\ byDevice \in [Devices -> Agents \cup {Nil}]

\* generateClientID and RegisterClient: the newcomer takes over the entry of
\* a client that was accepted in the same second.
RegisterClient(c) ==
    /\ id' = [id EXCEPT ![c] = second]
    /\ clients' = [clients EXCEPT ![second] = c]
    /\ UNCHANGED <<devices, registered, lastSeen, byDevice, deviceID>>

\* Mutant: the old client keeps its DeviceID.
RegisterDeviceNoDetach(c, d) ==
    /\ deviceID' = [deviceID EXCEPT ![c] = d]
    /\ registered' = IF d \in devices THEN registered
                     ELSE [registered EXCEPT ![d] = second]
    /\ lastSeen' = [lastSeen EXCEPT ![d] = second]
    /\ devices' = devices \cup {d}
    /\ byDevice' = [byDevice EXCEPT ![d] = c]
    /\ UNCHANGED clients

\* Mutant: a re-registration counts as a registration.
RegisterDeviceAnew(c, d) ==
    /\ deviceID' = [a \in Clients |->
                      IF a = c THEN d
                      ELSE IF d \in devices /\ a = byDevice[d] THEN Nil
                      ELSE deviceID[a]]
    /\ registered' = [registered EXCEPT ![d] = second]
    /\ lastSeen' = [lastSeen EXCEPT ![d] = second]
    /\ devices' = devices \cup {d}
    /\ byDevice' = [byDevice EXCEPT ![d] = c]
    /\ UNCHANGED clients

\* RegisterDevice: the client that served the device until now is detached.
RegisterDevice(c, d) ==
    /\ deviceID' = [a \in Clients |->
                      IF a = c THEN d
                      ELSE IF d \in devices /\ a = byDevice[d] THEN Nil
                      ELSE deviceID[a]]
    /\ registered' = IF d \in devices THEN registered
                     ELSE [registered EXCEPT ![d] = second]
    /\ lastSeen' = [lastSeen EXCEPT ![d] = second]
    /\ devices' = devices \cup {d}
    /\ byDevice' = [byDevice EXCEPT ![d] = c]
    /\ UNCHANGED clients

\* UpdateHeartbeat: nothing happens when the device is not (or no longer)
\* registered.
UpdateHeartbeat(d) ==
    /\ lastSeen' = IF d \in devices THEN [lastSeen EXCEPT ![d] = second]
                   ELSE lastSeen
    /\ UNCHANGED <<clients, devices, registered, byDevice, deviceID>>

\* Mutant: the device is left behind.
UnregisterClientOnly(c) ==
    /\ clients' = [clients EXCEPT ![id[c]] = Nil]
    /\ closed' = [closed EXCEPT ![c] = TRUE]
    /\ UNCHANGED <<devices, registered, lastSeen, byDevice, deviceID>>

\* UnregisterClient: the entry under the client's ID goes, whoever it is for;
\* the device goes if this client still serves it; Send is closed.
UnregisterClient(c) ==
    LET d == deviceID[c]
        gone == IF c \in Agents /\ d # Nil THEN {d} ELSE {}
    IN  /\ clients' = [clients EXCEPT ![id[c]] = Nil]
        /\ devices' = devices \ gone
        /\ byDevice' = [e \in Devices |-> IF e \in gone THEN Nil ELSE byDevice[e]]
        /\ registered' = [e \in Devices |-> IF e \in gone THEN 0 ELSE registered[e]]
        /\ lastSeen' = [e \in Devices |-> IF e \in gone THEN 0 ELSE lastSeen[e]]
        /\ closed' = [closed EXCEPT ![c] = TRUE]
        /\ UNCHANGED deviceID
-----------------------------------------------------------------------------
(* Queries, under the lock for reading                                     *)

FindClientByDevice(d) == byDevice[d]

\* The device that the client has now, or Nil.
FindDeviceByClient(c) ==
    IF deviceID[c] # Nil /\ deviceID[c] \in devices THEN deviceID[c] ELSE Nil

ListDevices == devices
============================================================================
