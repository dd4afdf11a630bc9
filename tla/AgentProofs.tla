---------------------------- MODULE AgentProofs ----------------------------
(***************************************************************************)
(* The types of the agent, the limits of its backoff, and the cancellation *)
(* of its heartbeat loops, for every delay and any number of connections.  *)
(***************************************************************************)
EXTENDS Agent, TLAPS

\* The conjunct that the induction needs besides TypeOK and OneLoop: the agent
\* has a connection while connect uses one.
Connected == pc \in {"register", "check", "reading", "answer"} => conn # 0

AgentInv == TypeOK /\ OneLoop /\ Connected

\* A write keeps the type of the connections' states.
LEMMA WrittenType ==
    ASSUME TypeOK, Written
    PROVE  link' \in [Conns -> LinkStates]
BY DEF TypeOK, Written, LinkStates

\* The return of connect keeps the delay between its limits.
LEMMA ReturnType ==
    ASSUME TypeOK, NEW ok \in BOOLEAN, Return(ok)
    PROVE  /\ pc' = "wait" /\ inner' \in BOOLEAN /\ registered' \in BOOLEAN
           /\ delay' \in ReconnectBaseDelay .. ReconnectMaxDelay
BY DelayAssumption DEF TypeOK, Return, Doubled

\* Every step keeps the types.
LEMMA TypeStep == TypeOK /\ Connected /\ [Next]_vars => TypeOK'
<1> SUFFICES ASSUME TypeOK, Connected, [Next]_vars PROVE TypeOK'
    OBVIOUS
<1> USE DEF Places, LinkStates, LoopStates
<1>1. CASE Top BY <1>1 DEF Top, TypeOK, loops
<1>2. CASE Dial BY <1>2, MaxConnsAssumption DEF Dial, TypeOK, loops, Conns
<1>3. CASE DialFails BY <1>3, ReturnType DEF DialFails, TypeOK, loops
<1>4. CASE Register BY <1>4, WrittenType DEF Register, TypeOK
<1>5. CASE RegisterFails BY <1>5, ReturnType DEF RegisterFails, TypeOK, loops
<1>6. CASE Check
  <2>1. CASE cancelled BY <1>6, <2>1, ReturnType DEF Check, ReturnRead, TypeOK
  <2>2. CASE ~cancelled BY <1>6, <2>2 DEF Check, TypeOK
  <2> QED BY <2>1, <2>2
<1>7. CASE ReadMessage BY <1>7 DEF ReadMessage, TypeOK, loops
<1>8. CASE ReadFails BY <1>8, ReturnType DEF ReadFails, ReturnRead, TypeOK
<1>9. CASE Answer
  <2>1. link' \in [Conns -> LinkStates]
    BY <1>9, WrittenType DEF Answer, TypeOK
  <2> QED BY <1>9, <2>1 DEF Answer, TypeOK, loops
<1>10. CASE WaitElapsed \/ WaitCancelled
  BY <1>10 DEF WaitElapsed, WaitCancelled, TypeOK, loops
<1>11. ASSUME NEW k \in Conns, Tick(k) \/ LoopExit(k) PROVE TypeOK'
  BY <1>11 DEF Tick, LoopExit, TypeOK, run
<1>12. ASSUME NEW k \in Conns, Beat(k) PROVE TypeOK'
  <2>1. link' \in [Conns -> LinkStates]
    BY <1>12, WrittenType DEF Beat, TypeOK
  <2> QED BY <1>12, <2>1 DEF Beat, TypeOK, run
<1>13. CASE Close \/ Lose \/ TimeOut
  BY <1>13 DEF Close, Lose, TimeOut, TypeOK, run, loops
<1>14. CASE Cancel \/ Network BY <1>14 DEF Cancel, Network, TypeOK, run, loops
<1>15. CASE UNCHANGED vars BY <1>15 DEF vars, TypeOK, run, loops
<1> QED
  BY <1>1, <1>2, <1>3, <1>4, <1>5, <1>6, <1>7, <1>8, <1>9, <1>10, <1>11, <1>12,
     <1>13, <1>14, <1>15 DEF Next, RunStep, LoopStep

\* Every step that dials or leaves a connection keeps the other conjuncts.
LEMMA LoopStepInv == AgentInv /\ [Next]_vars => OneLoop' /\ Connected'
<1> SUFFICES ASSUME AgentInv, [Next]_vars PROVE OneLoop' /\ Connected'
    OBVIOUS
<1> USE DEF AgentInv, OneLoop, Connected
<1>1. CASE Top BY <1>1 DEF Top, TypeOK, loops
<1>2. CASE Dial BY <1>2 DEF Dial, TypeOK, loops
<1>3. CASE DialFails \/ RegisterFails
  BY <1>3 DEF DialFails, RegisterFails, Return, loops
<1>4. CASE Register BY <1>4 DEF Register, TypeOK
<1>5. CASE Check \/ ReadFails
  BY <1>5 DEF Check, ReadFails, ReturnRead, Return, TypeOK
<1>6. CASE ReadMessage \/ Answer BY <1>6 DEF ReadMessage, Answer, loops
<1>7. CASE WaitElapsed \/ WaitCancelled
  BY <1>7 DEF WaitElapsed, WaitCancelled, loops
<1>8. ASSUME NEW k \in Conns, Tick(k) \/ LoopExit(k) \/ Beat(k)
      PROVE  OneLoop' /\ Connected'
  BY <1>8 DEF Tick, LoopExit, Beat, TypeOK, run
<1>9. CASE Close \/ Lose \/ TimeOut \/ Cancel \/ Network
  BY <1>9 DEF Close, Lose, TimeOut, Cancel, Network, run, loops
<1>10. CASE UNCHANGED vars BY <1>10 DEF vars, run, loops
<1> QED
  BY <1>1, <1>2, <1>3, <1>4, <1>5, <1>6, <1>7, <1>8, <1>9, <1>10
  DEF Next, RunStep, LoopStep

\* What OneWorkingConnection needs besides: before it dials again, Run has seen
\* its last connection fail, unless the context was cancelled meanwhile.
Abandoned ==
    /\ pc = "top" => conn = 0
    /\ pc \in {"dial", "wait"} /\ conn # 0 /\ ~cancelled => link[conn] = "dead"

WorkingInv == OneWorkingConnection /\ Abandoned

\* The state of no connection but the current one changes, and a connection
\* that is known to be broken stays so.
LEMMA LinkSteps ==
    ASSUME AgentInv, [Next]_vars
    PROVE  \/ Dial
           \/ /\ conn' = conn
              /\ \A k \in Conns : k # conn \/ link[k] = "dead" => link'[k] = link[k]
<1> USE DEF AgentInv, TypeOK
<1>1. CASE \/ Top \/ DialFails \/ RegisterFails \/ Check \/ ReadMessage \/ ReadFails
           \/ WaitElapsed \/ WaitCancelled \/ Cancel \/ Network \/ UNCHANGED vars
  BY <1>1 DEF Top, DialFails, RegisterFails, Check, ReadMessage, ReadFails,
              WaitElapsed, WaitCancelled, Cancel, Network, vars
<1>2. CASE Register \/ Answer BY <1>2 DEF Register, Answer, Written
<1>3. ASSUME NEW k \in Conns, Tick(k) \/ LoopExit(k) \/ Beat(k)
      PROVE  /\ conn' = conn
             /\ \A j \in Conns : j # conn \/ link[j] = "dead" => link'[j] = link[j]
  BY <1>3 DEF Tick, LoopExit, Beat, Written
<1>4. CASE Close \/ Lose \/ TimeOut BY <1>4 DEF Close, Lose, TimeOut
<1> QED BY <1>1, <1>2, <1>3, <1>4 DEF Next, RunStep, LoopStep

\* Run is about to dial when it was waiting, or at its start; it waits when it
\* has failed to dial, when the connection broke, or when it was cancelled.
LEMMA WaitSource ==
    ASSUME AgentInv, [Next]_vars, pc' \in {"top", "dial", "wait"}
    PROVE  \/ pc \in {"top", "dial", "wait"} /\ (pc' = "top" => pc = "top")
           \/ pc' = "wait" /\ conn # 0 /\ (link[conn] = "dead" \/ cancelled)
<1>1. CASE \/ Top \/ DialFails \/ WaitElapsed \/ WaitCancelled \/ Close \/ Lose
           \/ TimeOut \/ Cancel \/ Network \/ UNCHANGED vars
  BY <1>1 DEF Top, DialFails, Return, WaitElapsed, WaitCancelled, Close, Lose,
              TimeOut, Cancel, Network, vars, run
<1>2. CASE RegisterFails \/ ReadFails
  BY <1>2 DEF RegisterFails, ReadFails, ReturnRead, Return, AgentInv, Connected
<1>3. CASE Check
  BY <1>3 DEF Check, ReturnRead, Return, AgentInv, Connected
<1>4. CASE Dial \/ Register \/ ReadMessage \/ Answer
  BY <1>4 DEF Dial, Register, ReadMessage, Answer
<1>5. ASSUME NEW k \in Conns, Tick(k) \/ LoopExit(k) \/ Beat(k)
      PROVE  pc' = pc
  BY <1>5 DEF Tick, LoopExit, Beat, run
<1> QED BY <1>1, <1>2, <1>3, <1>4, <1>5 DEF Next, RunStep, LoopStep

\* Nothing is dialled while the previous connection works.
LEMMA WorkingStep == AgentInv /\ WorkingInv /\ [Next]_vars => WorkingInv'
<1> SUFFICES ASSUME AgentInv, WorkingInv, [Next]_vars PROVE WorkingInv'
    OBVIOUS
<1> USE DEF WorkingInv, OneWorkingConnection, Abandoned
<1>1. CASE Dial
  <2>1. /\ conn \in Nat /\ conn' = conn + 1 /\ conn' \in Conns
        /\ conn # 0 => link[conn] = "dead"
        /\ \A k \in Conns : k # conn' => link'[k] = link[k]
    BY <1>1, MaxConnsAssumption DEF Dial, AgentInv, TypeOK, Conns
  <2>2. ASSUME NEW k \in Conns, k < conn' PROVE link'[k] = "dead"
    <3>1. k = conn \/ k < conn BY <2>1, <2>2 DEF Conns
    <3> QED BY <2>1, <2>2, <3>1 DEF Conns
  <2> QED BY <1>1, <2>2 DEF Dial
<1>2. CASE ~Dial
  <2>1. /\ conn' = conn /\ conn \in 0 .. MaxConns
        /\ \A k \in Conns : k # conn \/ link[k] = "dead" => link'[k] = link[k]
    BY <1>2, LinkSteps DEF AgentInv, TypeOK
  <2>2. OneWorkingConnection' BY <2>1
  <2>3. cancelled => cancelled'
    BY DEF Next, RunStep, LoopStep, Top, Dial, DialFails, Register, RegisterFails,
           Check, ReadMessage, ReadFails, Answer, WaitElapsed, WaitCancelled, Tick,
           Beat, LoopExit, Close, Cancel, Lose, TimeOut, Network, vars
  <2>4. Abandoned'
    <3>1. conn # 0 => conn \in Conns BY <2>1, MaxConnsAssumption DEF Conns
    <3> QED BY <2>1, <2>3, <3>1, WaitSource
  <2> QED BY <2>2, <2>4
<1> QED BY <1>1, <1>2

\* The invariant holds initially.
LEMMA InitInv == Init => AgentInv
<1> SUFFICES ASSUME Init PROVE AgentInv
    OBVIOUS
<1>1. TypeOK
  <2>1. delay \in ReconnectBaseDelay .. ReconnectMaxDelay /\ conn \in 0 .. MaxConns
    BY DelayAssumption, MaxConnsAssumption DEF Init
  <2> QED BY <2>1 DEF Init, TypeOK, Places, LinkStates, LoopStates
<1>2. OneLoop /\ Connected BY DEF Init, OneLoop, Connected
<1> QED BY <1>1, <1>2 DEF AgentInv

\* In every behaviour of the agent the delay of the backoff stays between
\* ReconnectBaseDelay and ReconnectMaxDelay, whatever these are (Run).
THEOREM AgentTypeCorrect == Spec => []TypeOK
<1>1. AgentInv /\ [Next]_vars => AgentInv' BY TypeStep, LoopStepInv DEF AgentInv
<1>2. AgentInv => TypeOK BY DEF AgentInv
<1> QED BY InitInv, <1>1, <1>2, PTL DEF Spec

\* Through any number of reconnections at most one heartbeat loop, that of the
\* connection being read from, has not been told to end (connect).
THEOREM AgentOneLoop == Spec => []OneLoop
<1>1. AgentInv /\ [Next]_vars => AgentInv' BY TypeStep, LoopStepInv DEF AgentInv
<1>2. AgentInv => OneLoop BY DEF AgentInv
<1> QED BY InitInv, <1>1, <1>2, PTL DEF Spec

\* Through any number of failures, lost peers, cancellations and calls of Close,
\* Run never dials while a connection of its own still works: no connection is
\* leaked, although connect closes one only when the registration fails.
THEOREM AgentOneConnection == Spec => []OneWorkingConnection
<1>1. Init => WorkingInv
  BY DEF Init, WorkingInv, OneWorkingConnection, Abandoned, Conns
<1>2. AgentInv /\ [Next]_vars => AgentInv' BY TypeStep, LoopStepInv DEF AgentInv
<1>3. WorkingInv => OneWorkingConnection BY DEF WorkingInv
<1> QED BY InitInv, <1>1, <1>2, <1>3, WorkingStep, PTL DEF Spec
=============================================================================
