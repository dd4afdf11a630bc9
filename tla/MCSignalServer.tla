--------------------------- MODULE MCSignalServer ---------------------------
(***************************************************************************)
(* Small instances of the signaling server.  The configurations choose the *)
(* connections and which messages they send besides registrations, connect *)
(* requests and answers; this module says which device an agent registers. *)
(***************************************************************************)
EXTENDS SignalServer, TLC

\* All agent connections come from one device that reconnects.
OneDevice == [a \in Agents |-> CHOOSE d \in Devices : TRUE]

\* Every agent connection has a device of its own.
OwnDevices == CHOOSE f \in [Agents -> Devices] :
                 \A a, b \in Agents : f[a] = f[b] => a = b

\* Connections of one kind and one device, and sessions, are interchangeable.
Symmetry ==
    Permutations(Agents) \cup Permutations(Apps) \cup Permutations(SessionIDs)

SessionSymmetry == Permutations(Apps) \cup Permutations(SessionIDs)
============================================================================
