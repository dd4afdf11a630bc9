--------------------------- MODULE MCAgentTunnel ---------------------------
(***************************************************************************)
(* Small instances of the agent's data path.                               *)
(***************************************************************************)
EXTENDS AgentTunnel

Proxies == {StreamSSH, StreamShell}

OneProxy == {StreamShell}

\* Every shell prints one byte.
OneByte == [s \in Streams |-> 1]

\* Data for both streams (two chunks for the shell, that order can be told),
\* a frame that is no data, and one that is too long.
FramesSent ==
    {[stream |-> StreamShell, type |-> FrameData, payload |-> <<1>>],
     [stream |-> StreamShell, type |-> FrameData, payload |-> <<2>>],
     [stream |-> StreamSSH, type |-> FrameData, payload |-> <<3>>],
     [stream |-> StreamShell, type |-> FramePing, payload |-> <<5>>],
     [stream |-> StreamShell, type |-> FrameData, payload |-> <<4, 4>>]}
============================================================================
