-------------------------- MODULE MCAgentSessions --------------------------
(***************************************************************************)
(* Two session IDs: one of the greatest length that the relay accepts, and *)
(* one that is longer, but that WriteHandshake writes.                     *)
(***************************************************************************)
EXTENDS AgentSessions, TLC

CONSTANTS longest, tooLong

BoundaryIDs == (longest :> [k \in 1 .. MaxIDLength |-> 7])
                  @@ (tooLong :> [k \in 1 .. MaxIDLength + 1 |-> 7])
============================================================================
