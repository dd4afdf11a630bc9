----------------------------- MODULE DeviceAPI -----------------------------
(***************************************************************************)
(* The REST API of the server (internal/api/device.go) on top of the       *)
(* signaling server.  A request runs in a goroutine of its own and calls   *)
(* the read-only operations of the hub and of the session table, each one  *)
(* critical section:                                                       *)
(*    GetDevice     FindClientByDevice, then FindDeviceByClient            *)
(*    GetStats      Hub.ListDevices, then SessionManager.ListSessions      *)
(*    ListDevices, ListSessions   one of the two                           *)
(* The goroutine of request q is at "start", "second" (between the two) or *)
(* "done", with its answer.                                                *)
(***************************************************************************)
EXTENDS SignalServer

CONSTANTS
    Calls,  \* the HTTP requests
    Asks    \* the kinds of requests that are made

ASSUME AsksAssumption == Asks \subseteq {"device", "devices", "sessions", "stats"}

VARIABLES
    kind,    \* the route of a request, "none" before it is made
    place,   \* where its handler is
    wanted,  \* the device ID in the path of GetDevice
    held,    \* what the handler got from its first call
    answer,  \* what it answers
    served   \* the connections that served the wanted device meanwhile

api == <<kind, place, wanted, held, answer, served>>
apiVars == <<vars, api>>

\* The status that stands for an answer without a device.
NotFound == "404"

ASSUME NotFoundAssumption == NotFound \notin Devices

APIInit ==
    /\ Init
    /\ kind = [q \in Calls |-> "none"]
    /\ place = [q \in Calls |-> "start"]
    /\ wanted = [q \in Calls |-> Nil]
    /\ held = [q \in Calls |-> Nil]
    /\ answer = [q \in Calls |-> Nil]
    /\ served = [q \in Calls |-> {}]

\* A request arrives.
Ask(q, k, d) ==
    /\ kind[q] = "none"
    /\ kind' = [kind EXCEPT ![q] = k]
    /\ wanted' = [wanted EXCEPT ![q] = IF k = "device" THEN d ELSE Nil]
    /\ served' = [served EXCEPT ![q] = IF k = "device" THEN {byDevice[d]} ELSE {}]
    /\ UNCHANGED <<vars, place, held, answer>>

Respond(q, a) ==
    /\ place' = [place EXCEPT ![q] = "done"]
    /\ answer' = [answer EXCEPT ![q] = a]
    /\ held' = [held EXCEPT ![q] = Nil]
    /\ UNCHANGED <<vars, kind, wanted, served>>

\* The handler keeps x for its second call.
Hold(q, x) ==
    /\ place' = [place EXCEPT ![q] = "second"]
    /\ held' = [held EXCEPT ![q] = x]
    /\ UNCHANGED <<vars, kind, wanted, answer, served>>

\* GetDevice, first half: the client that serves the device.
GetDeviceClient(q) ==
    /\ kind[q] = "device" /\ place[q] = "start"
    /\ LET c == FindClientByDevice(wanted[q])
       IN  IF c = Nil THEN Respond(q, NotFound) ELSE Hold(q, c)

\* Mutant: the second look-up's result is not checked.
GetDeviceUnchecked(q) ==
    /\ kind[q] = "device" /\ place[q] = "second"
    /\ Respond(q, FindDeviceByClient(held[q]))

\* GetDevice, second half: what the hub has of that client's device.  The times
\* in the answer are left out.
GetDeviceInfo(q) ==
    /\ kind[q] = "device" /\ place[q] = "second"
    /\ LET d == FindDeviceByClient(held[q])
       IN  Respond(q, IF d = Nil THEN NotFound ELSE d)

AnswerDevices(q) ==
    /\ kind[q] = "devices" /\ place[q] = "start"
    /\ Respond(q, ListDevices)

AnswerSessions(q) ==
    /\ kind[q] = "sessions" /\ place[q] = "start"
    /\ Respond(q, ListSessions)

\* GetStats, which counts what it got from the two lists.
StatsDevices(q) ==
    /\ kind[q] = "stats" /\ place[q] = "start"
    /\ Hold(q, ListDevices)

StatsSessions(q) ==
    /\ kind[q] = "stats" /\ place[q] = "second"
    /\ Respond(q, <<held[q], ListSessions>>)

APIStep(q) ==
    \/ GetDeviceClient(q) \/ GetDeviceInfo(q)
    \/ AnswerDevices(q) \/ AnswerSessions(q) \/ StatsDevices(q) \/ StatsSessions(q)

\* The signaling server goes on; served records what a request could have seen.
ServerStep ==
    /\ Next
    /\ served' = [q \in Calls |->
                    IF wanted[q] = Nil \/ place[q] = "done" THEN served[q]
                    ELSE served[q] \cup {byDevice'[wanted[q]]}]
    /\ UNCHANGED <<kind, place, wanted, held, answer>>

APINext ==
    \/ ServerStep
    \/ \E q \in Calls : APIStep(q) \/ \E k \in Asks, d \in Devices : Ask(q, k, d)

APISpec == APIInit /\ [][APINext]_apiVars
----------------------------------------------------------------------------
\* GetDevice describes the device that was asked for and that was registered at
\* some moment of the request; and it answers "device not found" only if the
\* device was offline at some moment of the request, or changed its connection
\* between the two look-ups.
GetDeviceTruthful ==
    \A q \in Calls :
       kind[q] = "device" /\ place[q] = "done" =>
          IF answer[q] = NotFound
          THEN Nil \in served[q] \/ \E c, e \in served[q] : c # e
          ELSE answer[q] = wanted[q] /\ served[q] # {Nil}

\* "GetDevice returns a specific device by ID." (api/device.go:66): a device
\* that is in the hub throughout the request is found.  It does not hold: a
\* reconnection between the two look-ups detaches the old client.
GetDeviceFinds ==
    \A q \in Calls :
       kind[q] = "device" /\ place[q] = "done" /\ answer[q] = NotFound
          => Nil \in served[q]
============================================================================
