------------------------------ MODULE MCRelay ------------------------------
(***************************************************************************)
(* Small instances of the relay.                                           *)
(***************************************************************************)
EXTENDS Relay, TLC

\* The client that sends.
Sender == CHOOSE k \in Conns : TRUE

\* The sender sends n chunks; the others listen.
SenderSends(n) == [k \in Conns |-> IF k = Sender THEN n ELSE 0]

OneChunk == SenderSends(1)
TwoChunks == SenderSends(2)

\* The sender names one session, the others any.
SenderNames == [k \in Conns |-> IF k = Sender THEN {CHOOSE s \in Sessions : TRUE} ELSE Sessions]

\* The clients that listen.
ListenerSymmetry == Permutations(Conns \ {Sender})
============================================================================
