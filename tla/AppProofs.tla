----------------------------- MODULE AppProofs -----------------------------
(***************************************************************************)
(* The app's signal client and connection manager, for any number of       *)
(* channels, screens and relay transports.                                 *)
(***************************************************************************)
EXTENDS App, WellFoundedInduction, TLAPS

-----------------------------------------------------------------------------
\* The part of the types that the arguments need.
SignalTypeOK ==
    /\ sig \in {"connected", "registered", "disconnected"}
    /\ status \in [Channels -> {"none", "live", "closing", "over"}]
    /\ asked \subseteq Channels

\* As long as the app uses the client and has not tried in vain to drop it, no
\* channel is on its way down: what can still report something is live, and it
\* is the client's channel.
InUse == ~gone /\ ~cut

ClientInv ==
    /\ SignalTypeOK
    /\ InUse => Listening = Live /\ UpMeansOneChannelUnlessCut /\ LossIsShownUnlessCut

\* A set of numbers that is not empty has a least member.
LEMMA MinType ==
  ASSUME NEW S, S \subseteq Nat, S # {}
  PROVE  Min(S) \in S
<1>1. PICK x \in S : \A y \in S : ~(<<y, x>> \in OpToRel(<, Nat))
  <2>1. IsWellFoundedOn(OpToRel(<, Nat), Nat) BY NatLessThanWellFounded
  <2>. QED BY <2>1, WFMin
<1>2. \A y \in S : ~(y < x) BY <1>1 DEF OpToRel
<1>3. \A y \in S : x =< y BY <1>2
<1>. QED BY <1>3 DEF Min

\* connect() does nothing when the client is up, and else opens a channel that
\* was never used.
LEMMA ConnectStep ==
  ASSUME SignalTypeOK, Connect
  PROVE  \/ sig \in Up /\ UNCHANGED <<sig, chan, status>>
         \/ \E c \in Fresh : /\ sig = "disconnected"
                             /\ sig' = "connected" /\ chan' = c
                             /\ status' = [status EXCEPT ![c] = "live"]
<1>1. CASE sig \in Up BY <1>1 DEF Connect
<1>2. CASE sig \notin Up
  <2>1. Fresh # {} BY <1>2 DEF Connect
  <2>2. Fresh \subseteq Nat BY DEF Fresh, Channels
  <2>3. Min(Fresh) \in Fresh BY <2>1, <2>2, MinType
  <2>. QED BY <1>2, <2>3 DEF Connect, SignalTypeOK, Up
<1>. QED BY <1>1, <1>2

\* connect() keeps the client's one channel.
LEMMA ConnectKeeps ==
  ASSUME ClientInv, Connect, UNCHANGED <<asked, gone, cut, cm>>
  PROVE  ClientInv'
<1>1. CASE sig \in Up /\ UNCHANGED <<sig, chan, status>>
  BY <1>1 DEF ClientInv, SignalTypeOK, UpMeansOneChannelUnlessCut, InUse, LossIsShownUnlessCut, Live, Listening
<1>2. ASSUME NEW c \in Fresh, sig = "disconnected", sig' = "connected", chan' = c,
             status' = [status EXCEPT ![c] = "live"]
      PROVE  ClientInv'
  <2>1. c \in Channels /\ status[c] = "none" BY DEF Fresh
  <2>2. SignalTypeOK' BY <1>2, <2>1 DEF ClientInv, SignalTypeOK
  <2>3. ASSUME InUse PROVE Listening' = Live' /\ UpMeansOneChannelUnlessCut' /\ LossIsShownUnlessCut'
    <3>1. Live = {} /\ Listening = {} BY <1>2, <2>3 DEF ClientInv, UpMeansOneChannelUnlessCut, InUse, Up
    <3>2. Live' = {c} /\ Listening' = {c}
      BY <1>2, <2>1, <3>1 DEF Live, Listening, ClientInv, SignalTypeOK
    <3>. QED BY <1>2, <3>2 DEF UpMeansOneChannelUnlessCut, InUse, LossIsShownUnlessCut, Up
  <2>. QED BY <1>2, <2>2, <2>3 DEF ClientInv, InUse
<1>. QED BY <1>1, <1>2, ConnectStep DEF ClientInv

\* Steps that leave the channels alone and make the manager go on only on what
\* came over a channel.
LEMMA ManagerKeeps ==
  ASSUME ClientInv, UNCHANGED signal,
         cm' \in {"probing", "relayConnecting"} => cm' = cm \/ Listening # {}
  PROVE  ClientInv'
<1>1. SignalTypeOK' /\ Listening' = Listening /\ Live' = Live
  BY DEF ClientInv, SignalTypeOK, Listening, Live, signal
<1>. QED BY <1>1 DEF ClientInv, UpMeansOneChannelUnlessCut, InUse, LossIsShownUnlessCut, signal

\* The end of a channel.
LEMMA ChannelEnds ==
  ASSUME ClientInv, NEW c \in Listening, status' = [status EXCEPT ![c] = "over"],
         sig' = "disconnected", UNCHANGED <<chan, asked, gone, cut>>,
         IF sig # "disconnected" THEN cm' = "error" ELSE UNCHANGED cm
  PROVE  ClientInv'
<1>1. c \in Channels BY DEF Listening
<1>2. SignalTypeOK' BY <1>1 DEF ClientInv, SignalTypeOK
<1>3. ASSUME InUse PROVE Listening' = Live' /\ UpMeansOneChannelUnlessCut' /\ LossIsShownUnlessCut'
  <2>1. Listening = Live /\ Live \subseteq {chan} /\ c \in Live /\ sig \in Up
    BY <1>3 DEF ClientInv, UpMeansOneChannelUnlessCut, InUse
  <2>2. Listening' = {} /\ Live' = {}
    BY <1>1, <2>1 DEF Listening, Live, ClientInv, SignalTypeOK
  <2>3. cm' = "error" BY <2>1 DEF Up
  <2>. QED BY <2>2, <2>3 DEF UpMeansOneChannelUnlessCut, InUse, LossIsShownUnlessCut, Up
<1>. QED BY <1>2, <1>3 DEF ClientInv, InUse

\* The steps that the client and the manager take keep the invariant.
LEMMA ClientStep ==
  ASSUME ClientInv, [Next]_vars
  PROVE  ClientInv'
<1>1. CASE Refresh BY <1>1, ConnectKeeps DEF Refresh, manager
<1>2. CASE TimerFires BY <1>2, ConnectKeeps DEF TimerFires, manager
<1>3. CASE OtherTimerFires BY <1>3, ConnectKeeps DEF OtherTimerFires, manager
<1>4. CASE Setup
  <2>1. asked' \subseteq Channels BY <1>4 DEF Setup, Live, ClientInv, SignalTypeOK
  <2>. QED BY <1>4, <2>1 DEF Setup, manager, ClientInv, SignalTypeOK, UpMeansOneChannelUnlessCut, InUse,
           LossIsShownUnlessCut, Live, Listening
<1>5. CASE ServerUrlChanged
  <2>1. SignalTypeOK' BY <1>5 DEF ServerUrlChanged, DisconnectClient, ClientInv, SignalTypeOK
  <2>2. ~InUse' BY <1>5, Zenon DEF ServerUrlChanged, InUse
  <2>. QED BY <2>1, <2>2 DEF ClientInv
<1>6. ASSUME NEW c \in Channels, RegisterAck(c) PROVE ClientInv'
  <2>1. /\ c \in Listening /\ sig' = "registered"
        /\ UNCHANGED <<chan, status, asked, gone, cut, cm>>
    BY <1>6 DEF RegisterAck, manager
  <2>2. SignalTypeOK' BY <2>1 DEF ClientInv, SignalTypeOK
  <2>3. Listening' = Listening /\ Live' = Live BY <2>1 DEF Listening, Live
  <2>. QED BY <2>1, <2>2, <2>3 DEF ClientInv, UpMeansOneChannelUnlessCut, InUse, LossIsShownUnlessCut, Up
<1>7. ASSUME NEW c \in Channels, ChannelDone(c) PROVE ClientInv'
  BY <1>7, ChannelEnds DEF ChannelDone, SignalLost
<1>8. ASSUME NEW c \in Channels, ChannelFails(c) PROVE ClientInv'
  <2>1. /\ c \in Live /\ status' = [status EXCEPT ![c] = "over"]
        /\ sig' = "disconnected" /\ cm' = "error" /\ UNCHANGED <<chan, asked, gone, cut>>
    BY <1>8 DEF ChannelFails, SignalLost
  <2>2. c \in Listening BY <2>1 DEF Live, Listening
  <2>3. SignalTypeOK' BY <2>1 DEF ClientInv, SignalTypeOK
  <2>4. ASSUME InUse PROVE Listening' = Live' /\ UpMeansOneChannelUnlessCut' /\ LossIsShownUnlessCut'
    <3>1. Listening = Live /\ Live \subseteq {chan}
      BY <2>4 DEF ClientInv, UpMeansOneChannelUnlessCut, InUse
    <3>2. Listening' = {} /\ Live' = {}
      BY <2>1, <2>2, <3>1 DEF Listening, Live, ClientInv, SignalTypeOK
    <3>. QED BY <2>1, <3>2 DEF UpMeansOneChannelUnlessCut, InUse, LossIsShownUnlessCut, Up
  <2>. QED BY <2>1, <2>3, <2>4 DEF ClientInv, InUse
<1>9. ASSUME NEW s \in Screens, OpenScreen(s) \/ CloseScreen(s) \/ Rejected(s) \/ PeerDisconnects(s)
      PROVE  ClientInv'
  BY <1>9, ManagerKeeps DEF OpenScreen, CloseScreen, Rejected, PeerDisconnects
<1>10. ASSUME NEW s \in Screens, Accepted(s) \/ Negotiate(s) PROVE ClientInv'
  BY <1>10, ManagerKeeps DEF Accepted, Negotiate, Hears
<1>11. ASSUME NEW r \in Relays, Dialed(r) \/ RelayEnds(r) PROVE ClientInv'
  <2>1. UNCHANGED signal /\ (cm' = cm \/ cm' = "error")
    BY <1>11, Zenon DEF Dialed, RelayEnds
  <2>. QED BY <2>1, ManagerKeeps
<1>12. CASE ServerError BY <1>12, ManagerKeeps DEF ServerError
<1>13. CASE UNCHANGED vars BY <1>13, ManagerKeeps DEF vars, manager
<1>. QED BY <1>1, <1>2, <1>3, <1>4, <1>5, <1>6, <1>7, <1>8, <1>9, <1>10, <1>11, <1>12,
            <1>13 DEF Next

\* The client's channel is an inductive invariant.
LEMMA ClientInvariant == Spec => []ClientInv
<1>1. Init => ClientInv
  BY DEF Init, ClientInv, SignalTypeOK, UpMeansOneChannelUnlessCut, InUse, LossIsShownUnlessCut, Live, Listening, Up
<1>2. ClientInv /\ [Next]_vars => ClientInv' BY ClientStep
<1>. QED BY <1>1, <1>2, PTL DEF Spec

\* The signal client in use counts as connected exactly when it has a channel
\* that works, and never has two, however timers, ends and refreshes mix, until
\* a listener that throws cuts a change of server short.
THEOREM AppOneChannel == Spec => []UpMeansOneChannelUnlessCut
<1>1. ClientInv => UpMeansOneChannelUnlessCut BY DEF ClientInv, UpMeansOneChannelUnlessCut, InUse
<1>. QED BY <1>1, ClientInvariant, PTL

\* The manager never goes on with a session whose signal connection is lost,
\* until a listener that throws cuts a change of server short.
THEOREM AppLossShown == Spec => []LossIsShownUnlessCut
<1>1. ClientInv => LossIsShownUnlessCut BY DEF ClientInv, LossIsShownUnlessCut, InUse
<1>. QED BY <1>1, ClientInvariant, PTL

\* A client that the app has dropped, and that has neither channel nor timer
\* left, stays so: no other callback makes it connect.
THEOREM AppQuiet == Spec => QuietLasts
<1>1. ASSUME [Next]_vars, gone, Quiet PROVE Quiet'
  <2>1. ~Refresh /\ ~TimerFires /\ ~OtherTimerFires /\ ~ServerUrlChanged
    <3>1. ~Refresh /\ ~ServerUrlChanged BY <1>1, Zenon DEF Refresh, ServerUrlChanged
    <3>2. ~TimerFires BY <1>1, Zenon DEF Quiet, TimerFires
    <3>3. ~(timers > 0) BY <1>1 DEF Quiet
    <3>4. ~OtherTimerFires BY <3>3, Zenon DEF OtherTimerFires
    <3>. QED BY <3>1, <3>2, <3>4
  <2>2. ASSUME NEW c \in Channels
        PROVE  ~RegisterAck(c) /\ ~ChannelDone(c) /\ ~ChannelFails(c)
    <3>1. c \notin Listening /\ c \notin Live
      BY <1>1 DEF Quiet, Live, Listening
    <3>2. ~RegisterAck(c) BY <3>1, Zenon DEF RegisterAck
    <3>3. ~ChannelDone(c) BY <3>1, Zenon DEF ChannelDone
    <3>4. ~ChannelFails(c) BY <3>1, Zenon DEF ChannelFails
    <3>. QED BY <3>2, <3>3, <3>4
  <2>3. ASSUME UNCHANGED <<status, timer, timers>> PROVE Quiet'
    BY <1>1, <2>3 DEF Quiet, Listening
  <2>4. CASE Setup \/ ServerError BY <2>3, <2>4 DEF Setup, ServerError, signal
  <2>5. ASSUME NEW s \in Screens,
               \/ OpenScreen(s) \/ CloseScreen(s)
               \/ Accepted(s) \/ Rejected(s) \/ Negotiate(s) \/ PeerDisconnects(s)
        PROVE  Quiet'
    <3>1. UNCHANGED signal
      BY <2>5, Zenon DEF OpenScreen, CloseScreen, Accepted, Rejected, Negotiate, PeerDisconnects
    <3>. QED BY <2>3, <3>1 DEF signal
  <2>6. ASSUME NEW r \in Relays, Dialed(r) \/ RelayEnds(r) PROVE Quiet'
    <3>1. UNCHANGED signal BY <2>6, Zenon DEF Dialed, RelayEnds
    <3>. QED BY <2>3, <3>1 DEF signal
  <2>7. CASE UNCHANGED vars BY <2>3, <2>7 DEF vars, signal
  <2>. QED BY <1>1, <2>1, <2>2, <2>4, <2>5, <2>6, <2>7 DEF Next
<1>2. [Next]_vars => [gone /\ Quiet => Quiet']_vars BY <1>1
<1>. QED BY <1>2, PTL DEF Spec, QuietLasts
=============================================================================
