---------------------------- MODULE RelayProofs ----------------------------
(***************************************************************************)
(* The relay server, for any number of connections and sessions, any limit *)
(* on the sessions and any number of chunks.                               *)
(***************************************************************************)
EXTENDS Relay, FiniteSetTheorems, SequenceTheorems, TLAPS

----------------------------------------------------------------------------
\* Types.

\* What a handler has at each of its places.
HandlerShape ==
    \A k \in Conns :
       /\ at[k] # "none" => sid[k] \in Sessions
       /\ at[k] \in {"none", "handshake", "lookup"} => joined[k] = Nil
       /\ at[k] \in {"add", "ack", "count"} => joined[k] \in Conns

\* A relay has a session with two peers, and a copier that writes has a chunk.
RelayShape ==
    \A k \in Conns : relay[k] # "none" =>
       at[k] = "done" /\ joined[k] \in Conns /\ Len(peers[joined[k]]) = 2

CopierShape ==
    \A k \in Conns, i \in Directions :
       copier[k][i].at = "write" => relay[k] = "run" /\ copier[k][i].hand \in Chunk

RelayInv == TypeOK /\ HandlerShape /\ RelayShape /\ CopierShape

Items == Chunk \cup {Ok, Error}

\* The two peers of a relayed session.
LEMMA PeersOfRelay ==
  ASSUME RelayInv, NEW r \in Conns, NEW i \in Directions, relay[r] # "none"
  PROVE  /\ joined[r] \in Conns
         /\ Source(r, i) \in Conns /\ Destination(r, i) \in Conns
         /\ i \in 1 .. Len(peers[joined[r]]) /\ 3 - i \in 1 .. Len(peers[joined[r]])
<1>1. joined[r] \in Conns /\ Len(peers[joined[r]]) = 2
  BY DEF RelayInv, RelayShape
<1>2. i \in 1 .. 2 /\ 3 - i \in 1 .. 2 BY DEF Directions
<1>3. peers[joined[r]] \in Seq(Conns)
  BY <1>1 DEF RelayInv, TypeOK, SessionTypeOK
<1>4. \A j \in 1 .. 2 : peers[joined[r]][j] \in Conns BY <1>1, <1>3
<1>. QED BY <1>1, <1>2, <1>4 DEF Source, Destination

\* What is put on its way to a client is added at the end, or lost.
LEMMA PutType ==
  ASSUME RelayInv, NEW k \in Conns, NEW x \in Items, Put(k, x)
  PROVE  /\ out' \in [Conns -> Seq(Items)]
         /\ \A j \in Conns : j # k => out'[j] = out[j]
         /\ out'[k] = IF hung[k] THEN out[k] ELSE Append(out[k], x)
<1>1. out \in [Conns -> Seq(Items)]
  BY DEF RelayInv, TypeOK, StreamTypeOK, Items
<1>2. Append(out[k], x) \in Seq(Items) BY <1>1
<1>. QED BY <1>1, <1>2 DEF Put

\* The acknowledgement and what the buffered reader takes with it is the
\* beginning of what was on its way.
LEMMA AckTaken ==
  ASSUME NEW s \in Seq(Items), NEW n \in 1 .. Len(s)
  PROVE  /\ SubSeq(s, n + 1, Len(s)) \in Seq(Items)
         /\ \A j \in 1 .. Len(SubSeq(s, n + 1, Len(s))) :
               \E i \in 1 .. Len(s) : SubSeq(s, n + 1, Len(s))[j] = s[i]
<1>1. CASE n = Len(s)
  <2>1. SubSeq(s, n + 1, Len(s)) = <<>> BY <1>1, SubSeqProperties
  <2>. QED BY <2>1
<1>2. CASE n < Len(s)
  <2>. DEFINE t == SubSeq(s, n + 1, Len(s))
  <2>1. /\ t \in Seq(Items) /\ Len(t) = Len(s) - n
        /\ \A j \in 1 .. Len(s) - n : t[j] = s[n + j]
    BY <1>2, SubSeqProperties
  <2>. QED BY <2>1
<1>. QED BY <1>1, <1>2

\* The clients' steps keep the types.
LEMMA ClientType ==
  ASSUME RelayInv, NEW k \in Conns,
         \/ \E s \in Sessions : Dial(k, s)
         \/ Send(k) \/ HangUp(k) \/ Client(k)
  PROVE  RelayInv'
<1>. USE DEF RelayInv, TypeOK, session, clientVars
<1>1. ASSUME NEW s \in Sessions, Dial(k, s) PROVE RelayInv'
  <2>1. HandlerTypeOK' /\ LinkTypeOK'
    BY <1>1 DEF Dial, Goto, HandlerTypeOK, LinkTypeOK
  <2>2. SessionTypeOK' /\ StreamTypeOK' /\ RelayTypeOK'
    BY <1>1 DEF Dial, SessionTypeOK, StreamTypeOK, RelayTypeOK
  <2>3. HandlerShape' BY <1>1 DEF Dial, Goto, HandlerTypeOK, HandlerShape
  <2>4. RelayShape' BY <1>1 DEF Dial, Goto, HandlerTypeOK, RelayShape
  <2>5. CopierShape' BY <1>1 DEF Dial, CopierShape
  <2>. QED BY <1>1, <2>1, <2>2, <2>3, <2>4, <2>5 DEF Dial
<1>2. ASSUME UNCHANGED <<at, sid, joined, session, relay, copier, down>>,
             LinkTypeOK', StreamTypeOK'
      PROVE  RelayInv'
  BY <1>2 DEF HandlerTypeOK, SessionTypeOK, RelayTypeOK, HandlerShape, RelayShape,
              CopierShape
<1>3. CASE Send(k)
  <2>1. LinkTypeOK' BY <1>3 DEF Send, LinkTypeOK
  <2>2. [from |-> k, n |-> sent[k] + 1] \in Chunk BY DEF LinkTypeOK, Chunk
  <2>3. StreamTypeOK' BY <1>3, <2>2 DEF Send, StreamTypeOK
  <2>. QED BY <1>2, <1>3, <2>1, <2>3 DEF Send
<1>4. CASE HangUp(k)
  <2>1. LinkTypeOK' BY <1>4 DEF HangUp, LinkTypeOK
  <2>2. StreamTypeOK' BY <1>4 DEF HangUp, StreamTypeOK
  <2>. QED BY <1>2, <1>4, <2>1, <2>2 DEF HangUp
<1>5. CASE Receive(k)
  <2>1. LinkTypeOK' BY <1>5 DEF Receive, LinkTypeOK
  <2>2. /\ out \in [Conns -> Seq(Items)] /\ got \in [Conns -> Seq(Items)]
        /\ out[k] # <<>>
    BY <1>5 DEF Receive, StreamTypeOK, Items
  <2>3. Head(out[k]) \in Items /\ Tail(out[k]) \in Seq(Items) BY <2>2
  <2>4. out' \in [Conns -> Seq(Items)] /\ got' \in [Conns -> Seq(Items)]
    BY <1>5, <2>2, <2>3 DEF Receive
  <2>5. StreamTypeOK' BY <1>5, <2>4 DEF Receive, StreamTypeOK, Items
  <2>. QED BY <1>2, <1>5, <2>1, <2>5 DEF Receive
<1>6. CASE ReadHandshakeAck(k)
  <2>1. LinkTypeOK' BY <1>6 DEF ReadHandshakeAck, LinkTypeOK
  <2>2. out \in [Conns -> Seq(Items)] BY DEF StreamTypeOK, Items
  <2>3. out' \in [Conns -> Seq(Items)]
    <3>1. CASE Head(out[k]) = Ok
      <4>1. PICK n \in 1 .. Len(out[k]) :
               out' = [out EXCEPT ![k] = SubSeq(out[k], n + 1, Len(out[k]))]
        BY <1>6, <3>1 DEF ReadHandshakeAck
      <4>2. SubSeq(out[k], n + 1, Len(out[k])) \in Seq(Items) BY <2>2, AckTaken
      <4>. QED BY <2>2, <4>1, <4>2
    <3>2. CASE Head(out[k]) # Ok
      <4>1. out' = [out EXCEPT ![k] = <<>>] BY <1>6, <3>2 DEF ReadHandshakeAck
      <4>. QED BY <2>2, <4>1
    <3>. QED BY <3>1, <3>2
  <2>4. StreamTypeOK' BY <1>6, <2>3 DEF ReadHandshakeAck, StreamTypeOK, Items
  <2>. QED BY <1>2, <1>6, <2>1, <2>4 DEF ReadHandshakeAck
<1>. QED BY <1>1, <1>3, <1>4, <1>5, <1>6 DEF Client

\* Steps of a handler that add to what is on its way to a client.
LEMMA HandlerFrame ==
  ASSUME RelayInv, out' \in [Conns -> Seq(Items)], HandlerTypeOK', SessionTypeOK',
         \A o \in Conns : Len(peers'[o]) <= 2,
         open' \in [Conns -> BOOLEAN],
         UNCHANGED <<clientVars, copier, down>>,
         relay' \in [Conns -> {"none", "run", "closing", "delete", "over"}]
  PROVE  TypeOK'
  BY DEF RelayInv, TypeOK, LinkTypeOK, StreamTypeOK, RelayTypeOK, clientVars, Items

\* A refused connection is closed and its handler done.
LEMMA RefuseType ==
  ASSUME RelayInv, NEW k \in Conns, Refuse(k)
  PROVE  /\ at' = [at EXCEPT ![k] = "done"]
         /\ open' = [open EXCEPT ![k] = FALSE]
         /\ open' \in [Conns -> BOOLEAN]
         /\ out' \in [Conns -> Seq(Items)]
<1>1. Error \in Items /\ Put(k, Error) BY DEF Items, Refuse
<1>2. out' \in [Conns -> Seq(Items)] BY <1>1, PutType
<1>. QED BY <1>2 DEF Refuse, Goto, RelayInv, TypeOK, LinkTypeOK

\* The handlers' steps keep the types.
LEMMA HandlerType ==
  ASSUME RelayInv, NEW k \in Conns, Handler(k)
  PROVE  RelayInv'
<1>1. /\ out \in [Conns -> Seq(Items)] /\ open \in [Conns -> BOOLEAN]
      /\ relay \in [Conns -> {"none", "run", "closing", "delete", "over"}]
      /\ HandlerTypeOK /\ SessionTypeOK /\ \A o \in Conns : Len(peers[o]) <= 2
  BY DEF RelayInv, TypeOK, LinkTypeOK, StreamTypeOK, RelayTypeOK, Items
<1>. USE DEF RelayInv, session
<1>2. at[k] \in {"handshake", "lookup", "add", "ack", "count"} /\ relay[k] = "none"
  BY <1>1 DEF Handler, ReadHandshake, BadHandshake, Lookup, AddPeer, Ack, Count,
              RelayShape, HandlerTypeOK
<1>3. ASSUME UNCHANGED <<joined, session, clientVars, relay, copier, down>>,
             NEW p \in {"lookup", "add", "ack", "count", "done"},
             at' = [at EXCEPT ![k] = p], p = "lookup" => at[k] = "handshake",
             p = "count" => at[k] = "ack", p \notin {"add", "ack"},
             open' \in [Conns -> BOOLEAN], out' \in [Conns -> Seq(Items)]
      PROVE  RelayInv'
  <2>1. HandlerTypeOK' BY <1>1, <1>3 DEF HandlerTypeOK, clientVars
  <2>2. SessionTypeOK' /\ (\A o \in Conns : Len(peers'[o]) <= 2)
    BY <1>1, <1>3 DEF SessionTypeOK
  <2>3. TypeOK' BY <1>1, <1>3, <2>1, <2>2, HandlerFrame
  <2>4. HandlerShape'
    BY <1>1, <1>2, <1>3 DEF HandlerShape, HandlerTypeOK, clientVars
  <2>5. RelayShape' BY <1>1, <1>2, <1>3 DEF RelayShape, HandlerTypeOK
  <2>6. CopierShape' BY <1>3 DEF CopierShape
  <2>. QED BY <2>3, <2>4, <2>5, <2>6
<1>4. CASE ReadHandshake(k)
  BY <1>1, <1>3, <1>4 DEF ReadHandshake, Goto
<1>5. CASE BadHandshake(k)
  BY <1>3, <1>5, RefuseType DEF BadHandshake
<1>6. CASE Ack(k)
  <2>1. CASE Put(k, Ok) /\ Goto(k, "count") /\ UNCHANGED open
    <3>1. Ok \in Items BY DEF Items
    <3>2. out' \in [Conns -> Seq(Items)] BY <2>1, <3>1, PutType
    <3>. QED BY <1>1, <1>3, <1>6, <2>1, <3>2 DEF Ack, Goto
  <2>2. CASE /\ open' = [open EXCEPT ![k] = FALSE]
             /\ Goto(k, "done") /\ UNCHANGED out
    BY <1>1, <1>3, <1>6, <2>2 DEF Ack, Goto
  <2>. QED BY <1>6, <2>1, <2>2 DEF Ack
<1>7. CASE Lookup(k)
  <2>1. sid[k] \in Sessions
    BY <1>7 DEF Lookup, HandlerShape
  <2>2. CASE Refuse(k) /\ UNCHANGED <<joined, sessions>>
    BY <1>3, <1>7, <2>2, RefuseType DEF Lookup
  <2>3. ASSUME NEW o \in Conns, joined' = [joined EXCEPT ![k] = o],
               sessions' \in [Sessions -> Conns \cup {Nil}],
               Goto(k, "add"), UNCHANGED <<open, out>>
        PROVE  RelayInv'
    <3>1. HandlerTypeOK' BY <1>1, <1>7, <2>3 DEF Lookup, Goto, HandlerTypeOK, clientVars
    <3>2. SessionTypeOK' /\ (\A q \in Conns : Len(peers'[q]) <= 2)
      BY <1>1, <1>7, <2>3 DEF Lookup, SessionTypeOK
    <3>3. TypeOK' BY <1>1, <1>7, <2>3, <3>1, <3>2, HandlerFrame DEF Lookup
    <3>4. HandlerShape'
      BY <1>1, <1>7, <2>1, <2>3 DEF Lookup, Goto, HandlerShape, HandlerTypeOK, clientVars
    <3>5. RelayShape'
      BY <1>1, <1>2, <1>7, <2>3 DEF Lookup, Goto, RelayShape, HandlerTypeOK
    <3>6. CopierShape' BY <1>7 DEF Lookup, CopierShape
    <3>. QED BY <3>3, <3>4, <3>5, <3>6
  <2>4. CASE /\ sessions[sid[k]] # Nil
             /\ joined' = [joined EXCEPT ![k] = sessions[sid[k]]]
             /\ Goto(k, "add") /\ UNCHANGED <<sessions, open, out>>
    BY <1>1, <2>1, <2>3, <2>4 DEF SessionTypeOK
  <2>5. CASE /\ joined' = [joined EXCEPT ![k] = k]
             /\ sessions' = [sessions EXCEPT ![sid[k]] = k]
             /\ Goto(k, "add") /\ UNCHANGED <<open, out>>
    BY <1>1, <2>1, <2>3, <2>5 DEF SessionTypeOK
  <2>. QED BY <1>7, <2>2, <2>4, <2>5 DEF Lookup
<1>8. CASE AddPeer(k)
  <2>1. joined[k] \in Conns
    BY <1>8 DEF AddPeer, HandlerShape
  <2>2. CASE Refuse(k) /\ UNCHANGED peers
    BY <1>3, <1>8, <2>2, RefuseType DEF AddPeer
  <2>3. CASE /\ Len(peers[joined[k]]) < 2
             /\ peers' = [peers EXCEPT ![joined[k]] = Append(@, k)]
             /\ Goto(k, "ack") /\ UNCHANGED <<open, out>>
    <3>1. peers[joined[k]] \in Seq(Conns) BY <1>1, <2>1 DEF SessionTypeOK
    <3>2. /\ peers' \in [Conns -> Seq(Conns)]
          /\ Len(peers'[joined[k]]) = Len(peers[joined[k]]) + 1
          /\ \A o \in Conns : o # joined[k] => peers'[o] = peers[o]
      BY <1>1, <2>1, <2>3, <3>1 DEF SessionTypeOK
    <3>3. Len(peers[joined[k]]) \in Nat BY <3>1
    <3>4. \A o \in Conns : Len(peers'[o]) <= 2
      BY <1>1, <2>1, <2>3, <3>2, <3>3
    <3>5. HandlerTypeOK' BY <1>1, <1>8, <2>3 DEF AddPeer, Goto, HandlerTypeOK, clientVars
    <3>6. SessionTypeOK' BY <1>1, <1>8, <3>2 DEF AddPeer, SessionTypeOK
    <3>7. TypeOK' BY <1>1, <1>8, <2>3, <3>4, <3>5, <3>6, HandlerFrame DEF AddPeer
    <3>8. HandlerShape'
      BY <1>1, <1>8, <2>1, <2>3 DEF AddPeer, Goto, HandlerShape, HandlerTypeOK, clientVars
    <3>9. \A r \in Conns : relay[r] # "none" => joined[r] # joined[k]
      <4>1. Len(peers[joined[k]]) < 2 BY <2>3, Zenon
      <4>2. ASSUME NEW n \in Nat, n < 2 PROVE n # 2 BY <4>2
      <4>3. Len(peers[joined[k]]) # 2 BY <3>3, <4>1, <4>2
      <4>. QED BY <4>3, Zenon DEF RelayShape
    <3>10. RelayShape'
      BY <1>1, <1>2, <1>8, <2>3, <3>2, <3>9 DEF AddPeer, Goto, RelayShape, HandlerTypeOK
    <3>11. CopierShape' BY <1>8 DEF AddPeer, CopierShape
    <3>. QED BY <3>7, <3>8, <3>10, <3>11
  <2>. QED BY <1>8, <2>2, <2>3 DEF AddPeer
<1>9. CASE Count(k)
  <2>1. HandlerTypeOK' BY <1>1, <1>9 DEF Count, Goto, HandlerTypeOK, clientVars
  <2>2. SessionTypeOK' /\ (\A o \in Conns : Len(peers'[o]) <= 2)
    BY <1>1, <1>9 DEF Count, SessionTypeOK
  <2>3. relay' \in [Conns -> {"none", "run", "closing", "delete", "over"}]
    BY <1>1, <1>9 DEF Count
  <2>4. TypeOK' BY <1>1, <1>9, <2>1, <2>2, <2>3, HandlerFrame DEF Count
  <2>5. HandlerShape'
    BY <1>1, <1>9 DEF Count, Goto, HandlerShape, HandlerTypeOK, clientVars
  <2>6. joined[k] \in Conns BY <1>9 DEF Count, HandlerShape
  <2>7. RelayShape'
    BY <1>1, <1>2, <1>9, <2>6 DEF Count, Goto, RelayShape, HandlerTypeOK
  <2>8. CopierShape' BY <1>1, <1>2, <1>9 DEF Count, CopierShape
  <2>. QED BY <2>4, <2>5, <2>7, <2>8
<1>. QED BY <1>4, <1>5, <1>6, <1>7, <1>8, <1>9 DEF Handler

\* A copier and its fields.
LEMMA CopierFields ==
  ASSUME RelayInv, NEW r \in Conns, NEW i \in Directions
  PROVE  /\ copier[r][i] \in Copier
         /\ copier[r][i].at \in {"read", "write", "close", "over"}
         /\ copier[r][i].hand \in Chunk \cup {Nil} /\ copier[r][i].n \in Nat
<1>1. copier[r][i] \in Copier BY DEF RelayInv, TypeOK, RelayTypeOK
<1>. QED BY <1>1 DEF Copier

\* A step of a copier sets that copier and no other.
LEMMA SetCopierType ==
  ASSUME RelayInv, NEW r \in Conns, NEW i \in Directions, NEW c \in Copier,
         SetCopier(r, i, c)
  PROVE  /\ copier' \in [Conns -> [Directions -> Copier]]
         /\ copier'[r][i] = c
         /\ \A q \in Conns, j \in Directions :
               q # r \/ j # i => copier'[q][j] = copier[q][j]
<1>1. copier \in [Conns -> [Directions -> Copier]] BY DEF RelayInv, TypeOK, RelayTypeOK
<1>. QED BY <1>1 DEF SetCopier

\* The copiers' steps keep the types.
LEMMA CopyType ==
  ASSUME RelayInv, NEW r \in Conns, NEW i \in Directions, Copy(r, i)
  PROVE  RelayInv'
<1>1. relay[r] = "run"
  BY DEF Copy, CopyRead, CopyEOF, CopyWrite, CopyClose
<1>2. /\ joined[r] \in Conns /\ Source(r, i) \in Conns /\ Destination(r, i) \in Conns
  BY <1>1, PeersOfRelay
<1>3. PICK k \in Conns : k = Source(r, i) BY <1>2
<1>4. PICK d \in Conns : d = Destination(r, i) BY <1>2
<1>5. PICK c \in Copier : c = copier[r][i] BY CopierFields
<1>6. c.at \in {"read", "write", "close", "over"} /\ c.hand \in Chunk \cup {Nil} /\ c.n \in Nat
  BY <1>5, CopierFields
<1>7. /\ inbuf \in [Conns -> Seq(Chunk)] /\ open \in [Conns -> BOOLEAN]
      /\ bytes \in [Conns -> Nat] /\ out \in [Conns -> Seq(Items)]
  BY DEF RelayInv, TypeOK, SessionTypeOK, LinkTypeOK, StreamTypeOK, Items
<1>8. ASSUME UNCHANGED <<at, sid, joined, sessions, peers, closed, hung, client, sent,
                         got, relay, down>>,
             inbuf' \in [Conns -> Seq(Chunk)], out' \in [Conns -> Seq(Items)],
             bytes' \in [Conns -> Nat], open' \in [Conns -> BOOLEAN],
             NEW e \in Copier, SetCopier(r, i, e), e.at = "write" => e.hand \in Chunk
      PROVE  RelayInv'
  <2>1. HandlerTypeOK' /\ SessionTypeOK' /\ LinkTypeOK' /\ StreamTypeOK'
        /\ \A o \in Conns : Len(peers'[o]) <= 2
    BY <1>8 DEF RelayInv, TypeOK, HandlerTypeOK, SessionTypeOK, LinkTypeOK, StreamTypeOK, Items
  <2>2. /\ copier' \in [Conns -> [Directions -> Copier]]
        /\ copier'[r][i] = e
        /\ \A q \in Conns, j \in Directions :
              q # r \/ j # i => copier'[q][j] = copier[q][j]
    BY <1>8, SetCopierType
  <2>3. RelayTypeOK' BY <1>8, <2>2 DEF RelayInv, TypeOK, RelayTypeOK
  <2>4. HandlerShape' BY <1>8 DEF RelayInv, HandlerShape
  <2>5. RelayShape' BY <1>8 DEF RelayInv, RelayShape
  <2>6. CopierShape'
    <3>. SUFFICES ASSUME NEW q \in Conns, NEW j \in Directions, copier'[q][j].at = "write"
                  PROVE  relay[q] = "run" /\ copier'[q][j].hand \in Chunk
      BY <1>8 DEF CopierShape
    <3>1. CASE q = r /\ j = i BY <1>1, <1>8, <2>2, <3>1
    <3>2. CASE q # r \/ j # i
      <4>1. copier'[q][j] = copier[q][j] BY <2>2, <3>2
      <4>. QED BY <4>1 DEF RelayInv, CopierShape
    <3>. QED BY <3>1, <3>2
  <2>. QED BY <2>1, <2>3, <2>4, <2>5, <2>6 DEF RelayInv, TypeOK
<1>9. CASE CopyRead(r, i)
  <2>1. inbuf[k] # <<>> /\ inbuf[k] \in Seq(Chunk)
    BY <1>3, <1>7, <1>9 DEF CopyRead
  <2>2. Head(inbuf[k]) \in Chunk /\ Tail(inbuf[k]) \in Seq(Chunk) BY <2>1
  <2>3. PICK e : e = [c EXCEPT !.at = "write", !.hand = Head(inbuf[k])] OBVIOUS
  <2>4. e \in Copier /\ e.hand \in Chunk BY <2>2, <2>3 DEF Copier
  <2>5. inbuf' \in [Conns -> Seq(Chunk)]
    BY <1>3, <1>7, <1>9, <2>2 DEF CopyRead
  <2>6. SetCopier(r, i, e) BY <1>3, <1>5, <1>9, <2>3 DEF CopyRead
  <2>7. UNCHANGED <<at, sid, joined, sessions, peers, closed, bytes, hung, client, sent,
                    got, relay, down, open, out>>
    BY <1>9 DEF CopyRead, session
  <2>. QED BY <1>7, <1>8, <2>4, <2>5, <2>6, <2>7
<1>10. CASE CopyEOF(r, i)
  <2>1. PICK e : e = [c EXCEPT !.at = "close"] OBVIOUS
  <2>2. e \in Copier /\ e.at # "write" BY <2>1 DEF Copier
  <2>3. SetCopier(r, i, e) BY <1>5, <1>10, <2>1 DEF CopyEOF
  <2>4. UNCHANGED <<at, sid, joined, sessions, peers, closed, bytes, hung, client, sent,
                    got, relay, down, open, out, inbuf>>
    BY <1>10 DEF CopyEOF, session, clientVars
  <2>. QED BY <1>7, <1>8, <2>2, <2>3, <2>4
<1>11. CASE CopyWrite(r, i)
  <2>1. UNCHANGED <<at, sid, joined, sessions, peers, closed, bytes, hung, client, sent,
                    got, relay, down, open, inbuf>>
    BY <1>11 DEF CopyWrite, session, clientVars
  <2>2. c.hand \in Items
    BY <1>5, <1>11 DEF CopyWrite, RelayInv, CopierShape, Items
  <2>3. CASE /\ Put(d, c.hand)
             /\ SetCopier(r, i, [at |-> "read", hand |-> Nil, n |-> c.n + 1])
    <3>1. out' \in [Conns -> Seq(Items)] BY <2>2, <2>3, PutType
    <3>2. PICK e : e = [at |-> "read", hand |-> Nil, n |-> c.n + 1] OBVIOUS
    <3>3. e \in Copier /\ e.at # "write" BY <1>6, <3>2 DEF Copier
    <3>. QED BY <1>7, <1>8, <2>1, <2>3, <3>1, <3>2, <3>3
  <2>4. CASE SetCopier(r, i, [c EXCEPT !.at = "close", !.hand = Nil]) /\ UNCHANGED out
    <3>1. PICK e : e = [c EXCEPT !.at = "close", !.hand = Nil] OBVIOUS
    <3>2. e \in Copier /\ e.at # "write" BY <3>1 DEF Copier
    <3>. QED BY <1>7, <1>8, <2>1, <2>4, <3>1, <3>2
  <2>. QED BY <1>4, <1>5, <1>11, <2>3, <2>4 DEF CopyWrite
<1>12. CASE CopyClose(r, i)
  <2>1. PICK e : e = [c EXCEPT !.at = "over", !.n = 0] OBVIOUS
  <2>2. e \in Copier /\ e.at # "write" BY <2>1 DEF Copier
  <2>3. SetCopier(r, i, e) BY <1>5, <1>12, <2>1 DEF CopyClose
  <2>4. UNCHANGED <<at, sid, joined, sessions, peers, closed, hung, client, sent,
                    got, relay, down, out, inbuf>>
    BY <1>12 DEF CopyClose, clientVars
  <2>5. bytes' = [bytes EXCEPT ![joined[r]] = @ + c.n]
    BY <1>5, <1>12 DEF CopyClose
  <2>6. bytes' \in [Conns -> Nat]
    <3>1. c.n \in Nat /\ bytes[joined[r]] \in Nat BY <1>2, <1>6, <1>7
    <3>2. PICK m : m = bytes[joined[r]] + c.n OBVIOUS
    <3>3. m \in Nat BY <3>1, <3>2
    <3>4. bytes' = [bytes EXCEPT ![joined[r]] = m] BY <2>5, <3>2
    <3>. QED BY <1>7, <3>3, <3>4
  <2>7. open' \in [Conns -> BOOLEAN] BY <1>7, <1>12 DEF CopyClose
  <2>. QED BY <1>7, <1>8, <2>2, <2>3, <2>4, <2>6, <2>7
<1>. QED BY <1>9, <1>10, <1>11, <1>12 DEF Copy

\* The end of a relay and of the server keep the types.
LEMMA EndType ==
  ASSUME RelayInv, (\E r \in Conns : Relay(r)) \/ Close
  PROVE  RelayInv'
<1>1. /\ at' = at /\ joined' = joined /\ sid' = sid /\ peers' = peers /\ bytes' = bytes
      /\ copier' = copier /\ UNCHANGED <<hung, client, sent, inbuf, got, out>>
  BY DEF Relay, RelayWait, CloseSession, Delete, Close, session, clientVars
<1>2. HandlerTypeOK' /\ StreamTypeOK' /\ HandlerShape' /\ \A o \in Conns : Len(peers'[o]) <= 2
  BY <1>1 DEF RelayInv, TypeOK, HandlerTypeOK, StreamTypeOK, HandlerShape
<1>3. ASSUME sessions' \in [Sessions -> Conns \cup {Nil}], closed' \in [Conns -> BOOLEAN],
             open' \in [Conns -> BOOLEAN], down' \in BOOLEAN,
             relay' \in [Conns -> {"none", "run", "closing", "delete", "over"}],
             \A q \in Conns : relay'[q] # "none" => relay[q] # "none",
             \A q \in Conns : relay[q] = "run" /\ relay'[q] # "run" =>
                \A i \in Directions : copier[q][i].at # "write"
      PROVE  RelayInv'
  <2>1. SessionTypeOK' /\ LinkTypeOK' /\ RelayTypeOK'
    BY <1>1, <1>3 DEF RelayInv, TypeOK, SessionTypeOK, LinkTypeOK, RelayTypeOK
  <2>2. RelayShape' BY <1>1, <1>3 DEF RelayInv, RelayShape
  <2>3. CopierShape' BY <1>1, <1>3 DEF RelayInv, CopierShape
  <2>. QED BY <1>2, <2>1, <2>2, <2>3 DEF RelayInv, TypeOK
<1>4. /\ sessions \in [Sessions -> Conns \cup {Nil}] /\ closed \in [Conns -> BOOLEAN]
      /\ open \in [Conns -> BOOLEAN] /\ down \in BOOLEAN
      /\ relay \in [Conns -> {"none", "run", "closing", "delete", "over"}]
  BY DEF RelayInv, TypeOK, SessionTypeOK, LinkTypeOK, RelayTypeOK
<1>5. ASSUME NEW r \in Conns, RelayWait(r) PROVE RelayInv'
  BY <1>3, <1>4, <1>5 DEF RelayWait, session
<1>6. ASSUME NEW r \in Conns, CloseSession(r) PROVE RelayInv'
  <2>1. closed' \in [Conns -> BOOLEAN] BY <1>4, <1>6 DEF CloseSession, ClosePeers
  <2>2. open' \in [Conns -> BOOLEAN] BY <1>4, <1>6 DEF CloseSession, ClosePeers
  <2>3. relay' = [relay EXCEPT ![r] = "delete"] /\ relay[r] = "closing"
        /\ UNCHANGED <<sessions, down>>
    BY <1>6 DEF CloseSession
  <2>. QED BY <1>3, <1>4, <2>1, <2>2, <2>3
<1>7. ASSUME NEW r \in Conns, Delete(r) PROVE RelayInv'
  BY <1>3, <1>4, <1>7 DEF Delete
<1>8. ASSUME Close PROVE RelayInv'
  <2>1. closed' \in [Conns -> BOOLEAN] BY <1>4, <1>8 DEF Close, ClosePeers
  <2>2. open' \in [Conns -> BOOLEAN] BY <1>4, <1>8 DEF Close, ClosePeers
  <2>3. sessions' = [s \in Sessions |-> Nil] /\ down' = TRUE /\ relay' = relay
    BY <1>8 DEF Close
  <2>. QED BY <1>3, <1>4, <2>1, <2>2, <2>3
<1>. QED BY <1>5, <1>6, <1>7, <1>8 DEF Relay

\* The types and shapes are an inductive invariant.
LEMMA RelayInvariant == Spec => []RelayInv
<1>1. Init => RelayInv
  <2>. SUFFICES ASSUME Init PROVE RelayInv OBVIOUS
  <2>1. HandlerTypeOK /\ LinkTypeOK BY DEF Init, HandlerTypeOK, LinkTypeOK
  <2>2. SessionTypeOK /\ StreamTypeOK /\ \A o \in Conns : Len(peers[o]) <= 2
    BY DEF Init, SessionTypeOK, StreamTypeOK
  <2>3. NewCopier \in Copier /\ NewCopier.at = "read" BY DEF NewCopier, Copier
  <2>4. RelayTypeOK BY <2>3 DEF Init, RelayTypeOK
  <2>5. HandlerShape /\ RelayShape BY DEF Init, HandlerShape, RelayShape
  <2>6. CopierShape BY <2>3 DEF Init, CopierShape
  <2>. QED BY <2>1, <2>2, <2>4, <2>5, <2>6 DEF RelayInv, TypeOK
<1>2. RelayInv /\ [Next]_vars => RelayInv'
  <2>. SUFFICES ASSUME RelayInv, [Next]_vars PROVE RelayInv' OBVIOUS
  <2>1. CASE Next BY <2>1, ClientType, HandlerType, CopyType, EndType DEF Next
  <2>2. CASE UNCHANGED vars
    BY <2>2 DEF vars, session, clientVars, RelayInv, TypeOK, HandlerTypeOK, SessionTypeOK,
       LinkTypeOK, StreamTypeOK, RelayTypeOK, HandlerShape, RelayShape, CopierShape
  <2>. QED BY <2>1, <2>2
<1>. QED BY <1>1, <1>2, PTL DEF Spec

\* The variables of the relay server have their types, and a session never has
\* more than two peers, whatever handlers, copiers and clients do at once.
THEOREM RelayTypeCorrect == Spec => []TypeOK
<1>1. RelayInv => TypeOK BY DEF RelayInv
<1>. QED BY <1>1, RelayInvariant, PTL

----------------------------------------------------------------------------
\* The number of sessions.

\* The limit, with the finiteness that makes Cardinality meaningful.
CountInv ==
    /\ IsFiniteSet({s \in Sessions : sessions[s] # Nil})
    /\ SessionCount <= MaxSessions

\* A handler finds the session of its ID in the map ...
Finds(k) ==
    /\ at[k] = "lookup" /\ sid[k] \in Sessions /\ sessions[sid[k]] # Nil
    /\ joined' = [joined EXCEPT ![k] = sessions[sid[k]]]
    /\ UNCHANGED <<sid, sessions, relay, down>>

\* ... or adds one, having checked the limit in the same critical section.
Creates(k) ==
    /\ at[k] = "lookup" /\ sid[k] \in Sessions /\ sessions[sid[k]] = Nil
    /\ SessionCount < MaxSessions
    /\ sessions' = [sessions EXCEPT ![sid[k]] = k]
    /\ joined' = [joined EXCEPT ![k] = k]
    /\ UNCHANGED <<sid, relay, down>>

\* The relay that ends clears the entry of its session's ID.
Clears(r) ==
    /\ relay[r] = "delete" /\ sid[r] \in Sessions
    /\ sessions' = [sessions EXCEPT ![sid[r]] = Nil]
    /\ relay' = [relay EXCEPT ![r] = "over"]
    /\ UNCHANGED <<at, sid, joined, down>>

\* No other step than these and Server.Close touches the map.
LEMMA SessionsSource ==
  ASSUME RelayInv, [Next]_vars
  PROVE  \/ \E k \in Conns : Finds(k) \/ Creates(k) \/ Clears(k)
         \/ Close
         \/ UNCHANGED <<sessions, joined>>
<1>1. ASSUME NEW k \in Conns, Lookup(k)
      PROVE  Finds(k) \/ Creates(k) \/ UNCHANGED <<sessions, joined>>
  BY <1>1, Zenon DEF Lookup, Finds, Creates, clientVars, RelayInv, HandlerShape
<1>2. ASSUME NEW r \in Conns, Delete(r) PROVE Clears(r)
  BY <1>2 DEF Delete, Clears, clientVars, RelayInv, RelayShape, HandlerShape
<1>3. ASSUME NEW k \in Conns, (\E s \in Sessions : Dial(k, s)) \/ Send(k) \/ HangUp(k) \/ Client(k)
      PROVE  UNCHANGED <<sessions, joined>>
  BY <1>3 DEF Dial, Send, HangUp, Client, ReadHandshakeAck, Receive, session
<1>4. ASSUME NEW k \in Conns,
             ReadHandshake(k) \/ BadHandshake(k) \/ AddPeer(k) \/ Ack(k) \/ Count(k)
      PROVE  UNCHANGED <<sessions, joined>>
  BY <1>4 DEF ReadHandshake, BadHandshake, AddPeer, Ack, Count, session
<1>5. ASSUME NEW r \in Conns, (\E i \in Directions : Copy(r, i)) \/ RelayWait(r) \/ CloseSession(r)
      PROVE  UNCHANGED <<sessions, joined>>
  BY <1>5 DEF Copy, CopyRead, CopyEOF, CopyWrite, CopyClose, RelayWait, CloseSession, session
<1>6. CASE UNCHANGED vars BY <1>6 DEF vars, session
<1>. QED BY <1>1, <1>2, <1>3, <1>4, <1>5, <1>6, Zenon DEF Next, Handler, Relay

\* ServerConfig.MaxSessions bounds the sessions in the map.
THEOREM SessionsLimited == Spec => []SessionsBounded
<1>. DEFINE Live == {s \in Sessions : sessions[s] # Nil}
<1>1. Init => CountInv
  <2>. SUFFICES ASSUME Init PROVE CountInv OBVIOUS
  <2>1. Live = {} BY DEF Init
  <2>. QED BY <2>1, FS_EmptySet, RelayBounds DEF CountInv, SessionCount
<1>2. RelayInv /\ CountInv /\ [Next]_vars => CountInv'
  <2>. SUFFICES ASSUME RelayInv, CountInv, [Next]_vars PROVE CountInv' OBVIOUS
  <2>1. sessions \in [Sessions -> Conns \cup {Nil}]
    BY DEF RelayInv, TypeOK, SessionTypeOK
  <2>2. /\ IsFiniteSet(Live) /\ Cardinality(Live) <= MaxSessions
        /\ Cardinality(Live) \in Nat
    BY FS_CardinalityType DEF CountInv, SessionCount
  <2>3. ASSUME Live' \subseteq Live PROVE CountInv'
    <3>1. IsFiniteSet(Live') /\ Cardinality(Live') <= Cardinality(Live)
      BY <2>2, <2>3, FS_Subset
    <3>2. Cardinality(Live') \in Nat BY <3>1, FS_CardinalityType
    <3>3. Cardinality(Live') <= MaxSessions
      <4>. HIDE DEF Live
      <4>. QED BY <2>2, <3>1, <3>2, RelayBounds
    <3>. QED BY <3>1, <3>3 DEF CountInv, SessionCount
  <2>4. ASSUME NEW k \in Conns, Creates(k) PROVE CountInv'
    <3>1. Live' = Live \cup {sid[k]} BY <2>1, <2>4, RelayNil DEF Creates
    <3>2. PICK x : x = sid[k] OBVIOUS
    <3>3. /\ IsFiniteSet(Live \cup {x})
          /\ \/ Cardinality(Live \cup {x}) = Cardinality(Live)
             \/ Cardinality(Live \cup {x}) = Cardinality(Live) + 1
      BY <2>2, FS_AddElement
    <3>4. Cardinality(Live) < MaxSessions BY <2>4 DEF Creates, SessionCount
    <3>5. Cardinality(Live \cup {x}) <= MaxSessions
      <4>. HIDE DEF Live
      <4>. QED BY <2>2, <3>3, <3>4, RelayBounds
    <3>. QED BY <3>1, <3>2, <3>3, <3>5 DEF CountInv, SessionCount
  <2>5. ASSUME NEW r \in Conns, Clears(r) PROVE Live' \subseteq Live
    BY <2>1, <2>5 DEF Clears
  <2>6. CASE Close BY <2>3, <2>6 DEF Close
  <2>7. CASE UNCHANGED sessions BY <2>3, <2>7
  <2>8. ASSUME NEW k \in Conns, Finds(k) PROVE UNCHANGED sessions BY <2>8 DEF Finds
  <2>. QED BY <2>3, <2>4, <2>5, <2>6, <2>7, <2>8, SessionsSource
<1>3. CountInv => SessionsBounded BY DEF CountInv, SessionsBounded
<1>. QED BY <1>1, <1>2, <1>3, RelayInvariant, PTL DEF Spec

----------------------------------------------------------------------------
\* Handlers, peers and relays only go forward.

Late == {"ack", "count", "done"}

\* The session ID is set once, the session is looked up once, a connection
\* that has been added stays so, and a relay that has started is never undone.
Forward(k) ==
    /\ at[k] # "none" => sid'[k] = sid[k] /\ at'[k] # "none"
    /\ at[k] # "lookup" => joined'[k] = joined[k]
    /\ at[k] \in Late => at'[k] \in Late
    /\ relay[k] # "none" => relay'[k] # "none"
    /\ relay[k] = "over" => relay'[k] = "over"
    /\ relay'[k] # "none" /\ relay[k] = "none" => at[k] = "count"

\* Every step takes every handler and every relay forward.
LEMMA ForwardSteps ==
  ASSUME RelayInv, [Next]_vars
  PROVE  \A k \in Conns : Forward(k)
<1>. SUFFICES ASSUME NEW k \in Conns PROVE Forward(k) BY DEF Forward
<1>0. /\ at \in [Conns -> {"none", "handshake", "lookup", "add", "ack", "count", "done"}]
      /\ sid \in [Conns -> Sessions \cup {Nil}]
      /\ joined \in [Conns -> Conns \cup {Nil}]
      /\ relay \in [Conns -> {"none", "run", "closing", "delete", "over"}]
  BY DEF RelayInv, TypeOK, HandlerTypeOK, RelayTypeOK
<1>. USE DEF Late, Forward
<1>1. ASSUME NEW q \in Conns, NEW s \in Sessions, Dial(q, s) PROVE Forward(k)
  BY <1>0, <1>1 DEF Dial, Goto
<1>2. ASSUME NEW q \in Conns, Send(q) \/ HangUp(q) \/ Client(q) PROVE Forward(k)
  BY <1>2 DEF Send, HangUp, Client, ReadHandshakeAck, Receive
<1>3. ASSUME NEW q \in Conns, ReadHandshake(q) \/ BadHandshake(q) \/ Ack(q) PROVE Forward(k)
  BY <1>0, <1>3 DEF ReadHandshake, BadHandshake, Ack, Refuse, Goto, clientVars
<1>4. ASSUME NEW q \in Conns, Lookup(q) PROVE Forward(k)
  BY <1>0, <1>4 DEF Lookup, Refuse, Goto, clientVars
<1>5. ASSUME NEW q \in Conns, AddPeer(q) PROVE Forward(k)
  BY <1>0, <1>5 DEF AddPeer, Refuse, Goto, clientVars
<1>6. ASSUME NEW q \in Conns, Count(q) PROVE Forward(k)
  <2>1. relay[q] = "none" BY <1>0, <1>6 DEF Count, RelayInv, RelayShape
  <2>. QED BY <1>0, <1>6, <2>1 DEF Count, Goto, clientVars
<1>7. ASSUME NEW q \in Conns, NEW i \in Directions, Copy(q, i) PROVE Forward(k)
  BY <1>7 DEF Copy, CopyRead, CopyEOF, CopyWrite, CopyClose, clientVars
<1>8. ASSUME NEW q \in Conns, Relay(q) PROVE Forward(k)
  <2>1. UNCHANGED <<at, sid, joined>>
    BY <1>8 DEF Relay, RelayWait, CloseSession, Delete, clientVars
  <2>2. \E p \in {"closing", "delete", "over"} : relay' = [relay EXCEPT ![q] = p]
        /\ relay[q] \in {"run", "closing", "delete"}
    BY <1>8 DEF Relay, RelayWait, CloseSession, Delete
  <2>. QED BY <1>0, <2>1, <2>2
<1>10. CASE Close BY <1>10 DEF Close, clientVars
<1>9. CASE UNCHANGED vars BY <1>9 DEF vars, clientVars
<1>. QED BY <1>1, <1>2, <1>3, <1>4, <1>5, <1>6, <1>7, <1>8, <1>9, <1>10 DEF Next, Handler

----------------------------------------------------------------------------
\* The clean-up at the end of a relay.

\* An entry of the map, and what a handler has looked up, is a session object
\* with that ID.
OwnEntry ==
    /\ \A s \in Sessions : sessions[s] # Nil =>
          joined[sessions[s]] = sessions[s] /\ sid[sessions[s]] = s
    /\ \A k \in Conns : joined[k] # Nil =>
          joined[joined[k]] = joined[k] /\ sid[joined[k]] = sid[k]

\* As long as no session has had two relays and the server runs, a session
\* stays in the map until its own relay has deleted it.
Listed ==
    SingleRelays /\ ~down =>
       \A o \in Conns :
          joined[o] = o /\ (\A r \in Conns : joined[r] = o => relay[r] # "over")
             => sessions[sid[o]] = o

\* The IDs of sessions stay true.
LEMMA OwnEntryInductive ==
  ASSUME RelayInv, OwnEntry, [Next]_vars
  PROVE  OwnEntry'
<1>1. /\ sessions \in [Sessions -> Conns \cup {Nil}] /\ joined \in [Conns -> Conns \cup {Nil}]
      /\ sid \in [Conns -> Sessions \cup {Nil}]
  BY DEF RelayInv, TypeOK, SessionTypeOK, HandlerTypeOK
<1>2. \A k \in Conns : joined[k] # Nil =>
         at[k] # "lookup" /\ sid'[k] = sid[k] /\ joined'[k] = joined[k]
  BY ForwardSteps DEF Forward, RelayInv, HandlerShape
<1>3. \A o \in Conns : joined[o] = o =>
         joined'[o] = o /\ sid'[o] = sid[o] /\ at[o] # "lookup"
  BY <1>2, RelayNil
<1>4. \A s \in Sessions : sessions[s] # Nil =>
         /\ sessions[s] \in Conns
         /\ joined'[sessions[s]] = sessions[s] /\ sid'[sessions[s]] = s
  BY <1>1, <1>3 DEF OwnEntry
<1>5. \A k \in Conns : joined[k] # Nil =>
         joined'[joined'[k]] = joined'[k] /\ sid'[joined'[k]] = sid'[k]
  BY <1>1, <1>2, <1>3 DEF OwnEntry
<1>6. ASSUME NEW k \in Conns, Finds(k) PROVE OwnEntry'
  <2>1. \A q \in Conns : q # k => joined'[q] = joined[q] BY <1>1, <1>6 DEF Finds
  <2>2. joined'[k] = sessions[sid[k]] /\ sid' = sid /\ sessions' = sessions
        /\ sessions[sid[k]] # Nil /\ sid[k] \in Sessions
    BY <1>1, <1>6 DEF Finds
  <2>3. joined'[joined'[k]] = joined'[k] /\ sid'[joined'[k]] = sid'[k] BY <1>4, <2>2
  <2>. QED BY <1>4, <1>5, <2>1, <2>2, <2>3 DEF OwnEntry
<1>7. ASSUME NEW k \in Conns, Creates(k) PROVE OwnEntry'
  <2>1. \A q \in Conns : q # k => joined'[q] = joined[q] BY <1>1, <1>7 DEF Creates
  <2>2. joined'[k] = k /\ sid' = sid BY <1>1, <1>7 DEF Creates
  <2>3. /\ sessions'[sid[k]] = k /\ sid[k] \in Sessions
        /\ \A s \in Sessions : s # sid[k] => sessions'[s] = sessions[s]
    BY <1>1, <1>7 DEF Creates
  <2>. QED BY <1>4, <1>5, <2>1, <2>2, <2>3 DEF OwnEntry
<1>8. ASSUME UNCHANGED joined, \A s \in Sessions : sessions'[s] \in {sessions[s], Nil}
      PROVE  OwnEntry'
  BY <1>4, <1>5, <1>8 DEF OwnEntry
<1>9. ASSUME NEW r \in Conns, Clears(r) PROVE OwnEntry'
  BY <1>1, <1>8, <1>9 DEF Clears
<1>10. CASE Close BY <1>8, <1>10 DEF Close
<1>11. CASE UNCHANGED <<sessions, joined>> BY <1>8, <1>11
<1>. QED BY <1>6, <1>7, <1>9, <1>10, <1>11, SessionsSource

\* Only Server.Close takes the server down.
LEMMA DownSource == ASSUME [Next]_vars PROVE Close \/ UNCHANGED down
<1>1. ASSUME NEW k \in Conns, (\E s \in Sessions : Dial(k, s)) \/ Send(k) \/ HangUp(k) \/ Client(k)
      PROVE  UNCHANGED down
  BY <1>1 DEF Dial, Send, HangUp, Client, ReadHandshakeAck, Receive
<1>2. ASSUME NEW k \in Conns, Handler(k) PROVE UNCHANGED down
  BY <1>2 DEF Handler, ReadHandshake, BadHandshake, Lookup, AddPeer, Ack, Count
<1>3. ASSUME NEW r \in Conns, (\E i \in Directions : Copy(r, i)) \/ Relay(r)
      PROVE  UNCHANGED down
  BY <1>3 DEF Copy, CopyRead, CopyEOF, CopyWrite, CopyClose, Relay, RelayWait,
     CloseSession, Delete
<1>4. CASE UNCHANGED vars BY <1>4 DEF vars
<1>. QED BY <1>1, <1>2, <1>3, <1>4 DEF Next

\* A session that no two relays ever had stays listed.
LEMMA ListedInductive ==
  ASSUME RelayInv, OwnEntry, Listed, [Next]_vars
  PROVE  Listed'
<1>1. /\ sessions \in [Sessions -> Conns \cup {Nil}] /\ joined \in [Conns -> Conns \cup {Nil}]
      /\ relay \in [Conns -> {"none", "run", "closing", "delete", "over"}]
  BY DEF RelayInv, TypeOK, SessionTypeOK, HandlerTypeOK, RelayTypeOK
<1>. SUFFICES ASSUME SingleRelays', ~down', NEW o \in Conns, joined'[o] = o,
                     \A r \in Conns : joined'[r] = o => relay'[r] # "over"
              PROVE  sessions'[sid'[o]] = o
  BY DEF Listed
<1>2. ~Close BY DEF Close
<1>3. ~down BY <1>2, DownSource
<1>4. \A r \in Conns : relay[r] # "none" =>
         relay'[r] # "none" /\ joined'[r] = joined[r] /\ at[r] = "done"
  BY ForwardSteps DEF Forward, RelayInv, RelayShape
<1>5. SingleRelays BY <1>4 DEF SingleRelays
<1>6. ASSUME NEW p \in Conns, joined[p] = p,
             \A r \in Conns : joined[r] = p => relay[r] # "over"
      PROVE  sessions[sid[p]] = p
  BY <1>3, <1>5, <1>6 DEF Listed
<1>7. \A r \in Conns : relay[r] = "over" => relay'[r] = "over"
  BY ForwardSteps DEF Forward
<1>8. \A r \in Conns : joined[r] = o => relay[r] # "over"
  BY <1>4, <1>7
<1>9. ASSUME joined[o] = o
      PROVE  sessions[sid[o]] = o /\ sid'[o] = sid[o] /\ sid[o] \in Sessions
  <2>1. sessions[sid[o]] = o BY <1>6, <1>8, <1>9
  <2>2. at[o] # "none" /\ at[o] # "lookup"
    BY <1>9, RelayNil DEF RelayInv, HandlerShape
  <2>. QED BY <2>1, <2>2, ForwardSteps DEF Forward, RelayInv, HandlerShape
<1>10. ASSUME NEW k \in Conns, Finds(k) PROVE sessions'[sid'[o]] = o
  <2>1. CASE o = k
    <3>1. sessions[sid[k]] = k /\ UNCHANGED <<sid, sessions>>
      BY <1>1, <1>10, <2>1 DEF Finds
    <3>. QED BY <2>1, <3>1
  <2>2. CASE o # k
    <3>1. joined[o] = o BY <1>1, <1>10, <2>2 DEF Finds
    <3>. QED BY <1>9, <1>10, <3>1 DEF Finds
  <2>. QED BY <2>1, <2>2
<1>11. ASSUME NEW k \in Conns, Creates(k) PROVE sessions'[sid'[o]] = o
  <2>1. CASE o = k BY <1>1, <1>11, <2>1 DEF Creates
  <2>2. CASE o # k
    <3>1. joined[o] = o BY <1>1, <1>11, <2>2 DEF Creates
    <3>2. sid[o] # sid[k] BY <1>9, <1>11, <3>1, RelayNil DEF Creates
    <3>. QED BY <1>1, <1>9, <1>11, <3>1, <3>2 DEF Creates
  <2>. QED BY <2>1, <2>2
<1>12. ASSUME NEW r \in Conns, Clears(r) PROVE sessions'[sid'[o]] = o
  <2>1. joined[o] = o BY <1>12 DEF Clears
  <2>2. PICK p \in Conns : p = joined[r]
    BY <1>12 DEF Clears, RelayInv, RelayShape
  <2>3. joined[p] = p /\ sid[p] = sid[r] BY <2>2, RelayNil DEF OwnEntry
  <2>4. p # o BY <1>1, <1>12, <2>2 DEF Clears
  <2>5. \A q \in Conns : joined[q] = p => relay[q] # "over"
    BY <1>5, <1>12, <2>2 DEF Clears, SingleRelays
  <2>6. sessions[sid[r]] = p BY <1>6, <2>3, <2>5
  <2>7. sid[o] # sid[r] BY <1>9, <2>1, <2>4, <2>6
  <2>. QED BY <1>1, <1>9, <1>12, <2>1, <2>7 DEF Clears
<1>13. CASE UNCHANGED <<sessions, joined>> BY <1>9, <1>13
<1>. QED BY <1>2, <1>10, <1>11, <1>12, <1>13, SessionsSource

\* The two together are an inductive invariant of the map.
LEMMA MapInvariant == Spec => [](RelayInv /\ OwnEntry /\ Listed)
<1>1. Init => OwnEntry /\ Listed
  BY RelayNil DEF Init, OwnEntry, Listed
<1>2. RelayInv /\ (OwnEntry /\ Listed) /\ [Next]_vars => (OwnEntry /\ Listed)'
  BY OwnEntryInductive, ListedInductive
<1>. QED BY <1>1, <1>2, RelayInvariant, PTL DEF Spec

\* The relay that ends deletes its own session from the map and none that came
\* after it under the same ID, unless some session has had two relays.
THEOREM CleanupSafe == Spec => CleanupOwn
<1>1. RelayInv /\ OwnEntry /\ Listed /\ [Next]_vars =>
         [\A r \in Conns :
            Delete(r) /\ ~down /\ SingleRelays => sessions[sid[r]] = joined[r]]_vars
  <2>. SUFFICES ASSUME RelayInv, OwnEntry, Listed, NEW r \in Conns, Delete(r), ~down,
                       SingleRelays
                PROVE  sessions[sid[r]] = joined[r]
    OBVIOUS
  <2>1. relay[r] = "delete" BY DEF Delete
  <2>2. PICK p \in Conns : p = joined[r] BY <2>1 DEF RelayInv, RelayShape
  <2>3. joined[p] = p /\ sid[p] = sid[r] BY <2>2, RelayNil DEF OwnEntry
  <2>4. \A q \in Conns : joined[q] = p => relay[q] # "over"
    BY <2>1, <2>2 DEF SingleRelays
  <2>. QED BY <2>2, <2>3, <2>4 DEF Listed
<1>. QED BY <1>1, MapInvariant, PTL DEF Spec, CleanupOwn

----------------------------------------------------------------------------
\* The peers of a session.

\* A peer has joined the session, no connection is a peer twice.
PeersOK ==
    \A o \in Conns :
       /\ \A j \in 1 .. Len(peers[o]) :
             at[peers[o][j]] \in Late /\ joined[peers[o][j]] = o
       /\ Len(peers[o]) = 2 => peers[o][1] # peers[o][2]

\* Session.AddPeer has succeeded for k.
Adds(k) ==
    /\ at[k] = "add" /\ joined[k] \in Conns /\ Len(peers[joined[k]]) < 2
    /\ peers' = [peers EXCEPT ![joined[k]] = Append(@, k)]
    /\ at' = [at EXCEPT ![k] = "ack"]

\* No other step changes a session's peers.
LEMMA PeersSource ==
  ASSUME RelayInv, [Next]_vars
  PROVE  (\E k \in Conns : Adds(k)) \/ UNCHANGED peers
<1>1. ASSUME NEW k \in Conns, AddPeer(k) PROVE Adds(k) \/ UNCHANGED peers
  <2>1. joined[k] \in Conns BY <1>1 DEF AddPeer, RelayInv, HandlerShape
  <2>. QED BY <1>1, <2>1, Zenon DEF AddPeer, Goto, Adds
<1>2. ASSUME NEW k \in Conns, (\E s \in Sessions : Dial(k, s)) \/ Send(k) \/ HangUp(k) \/ Client(k)
      PROVE  UNCHANGED peers
  BY <1>2 DEF Dial, Send, HangUp, Client, ReadHandshakeAck, Receive, session
<1>3. ASSUME NEW k \in Conns,
             ReadHandshake(k) \/ BadHandshake(k) \/ Lookup(k) \/ Ack(k) \/ Count(k)
      PROVE  UNCHANGED peers
  BY <1>3 DEF ReadHandshake, BadHandshake, Lookup, Ack, Count, session
<1>4. ASSUME NEW r \in Conns, (\E i \in Directions : Copy(r, i)) \/ Relay(r)
      PROVE  UNCHANGED peers
  BY <1>4 DEF Copy, CopyRead, CopyEOF, CopyWrite, CopyClose, Relay, RelayWait, CloseSession,
     Delete, session
<1>5. CASE Close \/ UNCHANGED vars BY <1>5 DEF Close, vars, session
<1>. QED BY <1>1, <1>2, <1>3, <1>4, <1>5, Zenon DEF Next, Handler

\* A peer keeps its place.
LEMMA PeersKept ==
  ASSUME RelayInv, [Next]_vars, NEW o \in Conns
  PROVE  /\ \A j \in 1 .. Len(peers[o]) :
               j \in 1 .. Len(peers'[o]) /\ peers'[o][j] = peers[o][j]
         /\ Len(peers[o]) = 2 => peers'[o] = peers[o]
<1>1. peers \in [Conns -> Seq(Conns)] BY DEF RelayInv, TypeOK, SessionTypeOK
<1>2. ASSUME NEW k \in Conns, Adds(k), o = joined[k]
      PROVE  /\ \A j \in 1 .. Len(peers[o]) :
                   j \in 1 .. Len(peers'[o]) /\ peers'[o][j] = peers[o][j]
             /\ Len(peers[o]) # 2
  <2>1. PICK t \in Seq(Conns) : t = peers[o] BY <1>1
  <2>2. Len(t) \in Nat /\ Len(t) < 2 BY <1>2, <2>1 DEF Adds
  <2>3. peers'[o] = Append(t, k) BY <1>1, <1>2, <2>1 DEF Adds
  <2>4. \A j \in 1 .. Len(t) : j \in 1 .. Len(Append(t, k)) /\ Append(t, k)[j] = t[j]
    OBVIOUS
  <2>5. Len(t) # 2 BY <2>2
  <2>. QED BY <2>1, <2>3, <2>4, <2>5
<1>3. ASSUME NEW k \in Conns, Adds(k), o # joined[k] PROVE peers'[o] = peers[o]
  BY <1>1, <1>3 DEF Adds
<1>. QED BY <1>2, <1>3, PeersSource

\* Peers stay what they are: two different connections that joined.
LEMMA PeersInductive ==
  ASSUME RelayInv, PeersOK, [Next]_vars
  PROVE  PeersOK'
<1>1. peers \in [Conns -> Seq(Conns)] /\ at \in [Conns -> {"none", "handshake", "lookup",
        "add", "ack", "count", "done"}]
  BY DEF RelayInv, TypeOK, SessionTypeOK, HandlerTypeOK
<1>2. \A o \in Conns : \A j \in 1 .. Len(peers[o]) :
         /\ peers[o][j] \in Conns
         /\ at'[peers[o][j]] \in Late /\ joined'[peers[o][j]] = o
  <2>. SUFFICES ASSUME NEW o \in Conns, NEW j \in 1 .. Len(peers[o])
                PROVE  /\ peers[o][j] \in Conns
                       /\ at'[peers[o][j]] \in Late /\ joined'[peers[o][j]] = o
    OBVIOUS
  <2>1. PICK q \in Conns : q = peers[o][j] BY <1>1
  <2>2. at[q] \in Late /\ joined[q] = o BY <2>1 DEF PeersOK
  <2>. QED BY <2>1, <2>2, ForwardSteps DEF Forward, Late
<1>3. CASE UNCHANGED peers BY <1>2, <1>3 DEF PeersOK
<1>4. ASSUME NEW k \in Conns, Adds(k) PROVE PeersOK'
  <2>1. at'[k] \in Late /\ joined'[k] = joined[k] /\ joined[k] \in Conns
    BY <1>1, <1>4, ForwardSteps DEF Adds, Forward, Late
  <2>2. PICK p \in Conns : p = joined[k] BY <2>1
  <2>3. PICK t \in Seq(Conns) : t = peers[p] BY <1>1
  <2>4. peers'[p] = Append(t, k) /\ \A o \in Conns : o # p => peers'[o] = peers[o]
    BY <1>1, <1>4, <2>2, <2>3 DEF Adds
  <2>5. \A j \in 1 .. Len(t) : t[j] # k
    BY <1>4, <2>2, <2>3 DEF PeersOK, Adds, Late
  <2>6. \A j \in 1 .. Len(Append(t, k)) :
           Append(t, k)[j] = k \/ (j \in 1 .. Len(t) /\ Append(t, k)[j] = t[j])
    OBVIOUS
  <2>7. Len(Append(t, k)) = 2 => Append(t, k)[1] # Append(t, k)[2]
    <3>. SUFFICES ASSUME Len(Append(t, k)) = 2 PROVE Append(t, k)[1] # Append(t, k)[2]
      OBVIOUS
    <3>0. PICK n \in Nat : n = Len(t) OBVIOUS
    <3>1. Len(t) = 1
      <4>1. Len(Append(t, k)) = n + 1 BY <3>0
      <4>2. n + 1 = 2 BY <4>1
      <4>3. n = 1 BY <4>2
      <4>. QED BY <3>0, <4>3
    <3>2. Append(t, k)[1] = t[1] /\ Append(t, k)[2] = k BY <3>1
    <3>. QED BY <2>5, <3>1, <3>2
  <2>8. \A j \in 1 .. Len(peers'[p]) :
           at'[peers'[p][j]] \in Late /\ joined'[peers'[p][j]] = p
    BY <1>2, <2>1, <2>2, <2>3, <2>4, <2>6
  <2>9. ASSUME NEW o \in Conns, o # p
        PROVE  /\ \A j \in 1 .. Len(peers'[o]) :
                     at'[peers'[o][j]] \in Late /\ joined'[peers'[o][j]] = o
               /\ Len(peers'[o]) = 2 => peers'[o][1] # peers'[o][2]
    BY <1>2, <2>4, <2>9 DEF PeersOK
  <2>. QED BY <2>4, <2>7, <2>8, <2>9 DEF PeersOK
<1>. QED BY <1>3, <1>4, PeersSource

----------------------------------------------------------------------------
\* Whose chunks reach a client.

\* The two are the peers of one session.
Paired(a, b) ==
    \E o \in Conns : /\ Len(peers[o]) = 2
                     /\ \E i \in Directions : peers[o][i] = a /\ peers[o][3 - i] = b

\* A chunk is the sender's own until a copier has it, which reads for its source.
SourcesTrue ==
    /\ \A k \in Conns : \A j \in 1 .. Len(inbuf[k]) : inbuf[k][j].from = k
    /\ \A r \in Conns, i \in Directions :
          copier[r][i].at = "write" => copier[r][i].hand.from = Source(r, i)

\* All chunks of the sequence, on its way to k or read by it, come from a peer.
Arrived(s, k) == \A j \in 1 .. Len(s) : s[j].from # Nil => Paired(s[j].from, k)

ArrivedOK == \A k \in Conns : Arrived(out[k], k) /\ Arrived(got[k], k)

FlowInv == RelayInv /\ PeersOK /\ SourcesTrue /\ ArrivedOK

\* Two peers stay paired.
LEMMA PairedKept ==
  ASSUME RelayInv, [Next]_vars, NEW a, NEW b, Paired(a, b)
  PROVE  Paired(a, b)'
<1>1. PICK o \in Conns : /\ Len(peers[o]) = 2
                         /\ \E i \in Directions : peers[o][i] = a /\ peers[o][3 - i] = b
  BY DEF Paired
<1>2. peers'[o] = peers[o] BY <1>1, PeersKept
<1>. QED BY <1>1, <1>2 DEF Paired

\* What a relay's copier reads comes from a peer of the one it writes to.
LEMMA EndsPaired ==
  ASSUME RelayInv, NEW r \in Conns, NEW i \in Directions, relay[r] # "none"
  PROVE  Paired(Source(r, i), Destination(r, i))
  BY DEF RelayInv, RelayShape, Paired, Source, Destination

\* A relay's source stays its source.
LEMMA SourceKept ==
  ASSUME RelayInv, [Next]_vars, NEW r \in Conns, NEW i \in Directions, relay[r] # "none"
  PROVE  Source(r, i)' = Source(r, i)
<1>1. at[r] = "done" /\ joined[r] \in Conns /\ Len(peers[joined[r]]) = 2
  BY DEF RelayInv, RelayShape
<1>2. joined'[r] = joined[r] BY <1>1, ForwardSteps DEF Forward
<1>3. peers'[joined[r]] = peers[joined[r]] BY <1>1, PeersKept
<1>. QED BY <1>2, <1>3 DEF Source

\* The streams of the clients and the copiers change in few ways.
LEMMA StreamSteps ==
  ASSUME RelayInv, [Next]_vars
  PROVE  \/ \E k \in Conns : Send(k)
         \/ \E r \in Conns, i \in Directions : Copy(r, i)
         \/ UNCHANGED <<inbuf, copier>>
<1>1. ASSUME NEW k \in Conns, (\E s \in Sessions : Dial(k, s)) \/ HangUp(k) \/ Client(k)
      PROVE  UNCHANGED <<inbuf, copier>>
  BY <1>1 DEF Dial, HangUp, Client, ReadHandshakeAck, Receive
<1>2. ASSUME NEW k \in Conns, Handler(k) PROVE UNCHANGED <<inbuf, copier>>
  BY <1>2 DEF Handler, ReadHandshake, BadHandshake, Lookup, AddPeer, Ack, Count, clientVars
<1>3. ASSUME (\E r \in Conns : Relay(r)) \/ Close PROVE UNCHANGED <<inbuf, copier>>
  BY <1>3 DEF Relay, RelayWait, CloseSession, Delete, Close, clientVars
<1>4. CASE UNCHANGED vars BY <1>4 DEF vars, clientVars
<1>. QED BY <1>1, <1>2, <1>3, <1>4, Zenon DEF Next

\* Chunks stay where they come from.
LEMMA SourcesInductive ==
  ASSUME RelayInv, SourcesTrue, [Next]_vars
  PROVE  SourcesTrue'
<1>1. inbuf \in [Conns -> Seq(Chunk)] BY DEF RelayInv, TypeOK, StreamTypeOK
<1>2. \A r \in Conns, i \in Directions :
         copier[r][i].at = "write" => copier[r][i].hand.from = Source(r, i)'
  <2>. SUFFICES ASSUME NEW r \in Conns, NEW i \in Directions, copier[r][i].at = "write"
                PROVE  copier[r][i].hand.from = Source(r, i)'
    OBVIOUS
  <2>1. relay[r] # "none" BY DEF RelayInv, CopierShape
  <2>2. Source(r, i)' = Source(r, i) BY <2>1, SourceKept
  <2>. QED BY <2>2 DEF SourcesTrue
<1>3. \A k \in Conns : \A j \in 1 .. Len(inbuf[k]) : inbuf[k][j].from = k
  BY DEF SourcesTrue
<1>4. CASE UNCHANGED <<inbuf, copier>> BY <1>2, <1>3, <1>4 DEF SourcesTrue
<1>5. ASSUME NEW k \in Conns, Send(k) PROVE SourcesTrue'
  <2>1. PICK x : x = [from |-> k, n |-> sent[k] + 1] OBVIOUS
  <2>2. x.from = k BY <2>1
  <2>3. PICK t \in Seq(Chunk) : t = inbuf[k] BY <1>1
  <2>4. inbuf'[k] = Append(t, x) /\ \A q \in Conns : q # k => inbuf'[q] = inbuf[q]
    BY <1>1, <1>5, <2>1, <2>3 DEF Send
  <2>5. \A j \in 1 .. Len(Append(t, x)) :
           Append(t, x)[j] = x \/ (j \in 1 .. Len(t) /\ Append(t, x)[j] = t[j])
    OBVIOUS
  <2>6. \A j \in 1 .. Len(inbuf'[k]) : inbuf'[k][j].from = k
    BY <1>3, <2>2, <2>3, <2>4, <2>5
  <2>7. copier' = copier BY <1>5 DEF Send
  <2>. QED BY <1>2, <1>3, <2>4, <2>6, <2>7 DEF SourcesTrue
<1>6. ASSUME NEW r \in Conns, NEW i \in Directions, NEW e \in Copier, SetCopier(r, i, e),
             e.at = "write" => e.hand.from = Source(r, i)'
      PROVE  \A q \in Conns, j \in Directions :
                copier'[q][j].at = "write" => copier'[q][j].hand.from = Source(q, j)'
  <2>1. /\ copier'[r][i] = e
        /\ \A q \in Conns, j \in Directions :
              q # r \/ j # i => copier'[q][j] = copier[q][j]
    BY <1>6, SetCopierType
  <2>. SUFFICES ASSUME NEW q \in Conns, NEW j \in Directions, copier'[q][j].at = "write"
                PROVE  copier'[q][j].hand.from = Source(q, j)'
    OBVIOUS
  <2>2. CASE q = r /\ j = i BY <1>6, <2>1, <2>2
  <2>3. CASE q # r \/ j # i
    <3>1. copier'[q][j] = copier[q][j] BY <2>1, <2>3
    <3>. QED BY <1>2, <3>1
  <2>. QED BY <2>2, <2>3
<1>7. ASSUME NEW r \in Conns, NEW i \in Directions, Copy(r, i) PROVE SourcesTrue'
  <2>1. relay[r] = "run" /\ relay[r] # "none"
    BY <1>7 DEF Copy, CopyRead, CopyEOF, CopyWrite, CopyClose
  <2>2. PICK k \in Conns : k = Source(r, i) BY <2>1, PeersOfRelay
  <2>3. Source(r, i)' = k BY <2>1, <2>2, SourceKept
  <2>4. PICK c \in Copier : c = copier[r][i] BY CopierFields
  <2>5. CASE CopyRead(r, i)
    <3>1. PICK t \in Seq(Chunk) : t = inbuf[k] BY <1>1
    <3>2. t # <<>> BY <2>2, <2>5, <3>1 DEF CopyRead
    <3>3. Head(t) \in Chunk /\ Head(t) = t[1] /\ 1 \in 1 .. Len(t) BY <3>2
    <3>4. Head(t).from = k BY <1>3, <3>1, <3>3
    <3>5. PICK e : e = [c EXCEPT !.at = "write", !.hand = Head(t)] OBVIOUS
    <3>6. e \in Copier /\ e.hand = Head(t) BY <3>3, <3>5 DEF Copier
    <3>7. SetCopier(r, i, e) BY <2>2, <2>4, <2>5, <3>1, <3>5 DEF CopyRead
    <3>8. inbuf'[k] = Tail(t) /\ \A q \in Conns : q # k => inbuf'[q] = inbuf[q]
      BY <1>1, <2>2, <2>5, <3>1 DEF CopyRead
    <3>9. \A j \in 1 .. Len(Tail(t)) : j + 1 \in 1 .. Len(t) /\ Tail(t)[j] = t[j + 1]
      BY <3>2
    <3>10. \A j \in 1 .. Len(inbuf'[k]) : inbuf'[k][j].from = k
      BY <1>3, <3>1, <3>8, <3>9
    <3>11. \A q \in Conns, j \in Directions :
              copier'[q][j].at = "write" => copier'[q][j].hand.from = Source(q, j)'
      BY <1>6, <2>3, <3>4, <3>6, <3>7
    <3>. QED BY <1>3, <3>8, <3>10, <3>11 DEF SourcesTrue
  <2>6. ASSUME UNCHANGED inbuf, NEW e \in Copier, SetCopier(r, i, e), e.at # "write"
        PROVE  SourcesTrue'
    <3>1. \A q \in Conns, j \in Directions :
             copier'[q][j].at = "write" => copier'[q][j].hand.from = Source(q, j)'
      BY <1>6, <2>6
    <3>. QED BY <1>3, <2>6, <3>1 DEF SourcesTrue
  <2>7. CASE CopyEOF(r, i)
    <3>1. PICK e : e = [c EXCEPT !.at = "close"] OBVIOUS
    <3>2. e \in Copier /\ e.at # "write" BY <3>1 DEF Copier
    <3>3. SetCopier(r, i, e) /\ UNCHANGED inbuf
      BY <2>4, <2>7, <3>1 DEF CopyEOF, clientVars
    <3>. QED BY <2>6, <3>2, <3>3
  <2>8. CASE CopyWrite(r, i)
    <3>1. UNCHANGED inbuf BY <2>8 DEF CopyWrite, clientVars
    <3>2. CASE SetCopier(r, i, [at |-> "read", hand |-> Nil, n |-> c.n + 1])
      <4>1. PICK e : e = [at |-> "read", hand |-> Nil, n |-> c.n + 1] OBVIOUS
      <4>2. c.n \in Nat BY <2>4, CopierFields
      <4>3. e \in Copier /\ e.at # "write" BY <4>1, <4>2 DEF Copier
      <4>. QED BY <2>6, <3>1, <3>2, <4>1, <4>3
    <3>3. CASE SetCopier(r, i, [c EXCEPT !.at = "close", !.hand = Nil])
      <4>1. PICK e : e = [c EXCEPT !.at = "close", !.hand = Nil] OBVIOUS
      <4>2. e \in Copier /\ e.at # "write" BY <4>1 DEF Copier
      <4>. QED BY <2>6, <3>1, <3>3, <4>1, <4>2
    <3>. QED BY <2>4, <2>8, <3>2, <3>3 DEF CopyWrite
  <2>9. CASE CopyClose(r, i)
    <3>1. PICK e : e = [c EXCEPT !.at = "over", !.n = 0] OBVIOUS
    <3>2. e \in Copier /\ e.at # "write" BY <3>1 DEF Copier
    <3>3. SetCopier(r, i, e) /\ UNCHANGED inbuf
      BY <2>4, <2>9, <3>1 DEF CopyClose, clientVars
    <3>. QED BY <2>6, <3>2, <3>3
  <2>. QED BY <1>7, <2>5, <2>7, <2>8, <2>9 DEF Copy
<1>. QED BY <1>4, <1>5, <1>7, StreamSteps

\* What the steps do to the streams that reach a client.
LEMMA ArrivalSteps ==
  ASSUME RelayInv, [Next]_vars
  PROVE  \/ UNCHANGED <<out, got>>
         \/ \E k \in Conns : HangUp(k) \/ ReadHandshakeAck(k) \/ Receive(k)
         \/ \E k \in Conns : (Put(k, Ok) \/ Put(k, Error)) /\ UNCHANGED got
         \/ \E r \in Conns, i \in Directions :
               /\ CopyWrite(r, i) /\ relay[r] = "run" /\ copier[r][i].at = "write"
               /\ Put(Destination(r, i), copier[r][i].hand)
               /\ UNCHANGED got
<1>1. ASSUME NEW k \in Conns, (\E s \in Sessions : Dial(k, s)) \/ Send(k)
      PROVE  UNCHANGED <<out, got>>
  BY <1>1 DEF Dial, Send
<1>2. ASSUME NEW k \in Conns, ReadHandshake(k) \/ BadHandshake(k) \/ Ack(k) \/ Count(k)
      PROVE  (UNCHANGED out \/ Put(k, Ok) \/ Put(k, Error)) /\ UNCHANGED got
  BY <1>2, Zenon DEF ReadHandshake, BadHandshake, Ack, Count, Refuse, clientVars
<1>3. ASSUME NEW k \in Conns, Lookup(k) \/ AddPeer(k)
      PROVE  (UNCHANGED out \/ Put(k, Error)) /\ UNCHANGED got
  BY <1>3, Zenon DEF Lookup, AddPeer, Refuse, clientVars
<1>4. ASSUME NEW r \in Conns, NEW i \in Directions, CopyWrite(r, i)
      PROVE  \/ UNCHANGED <<out, got>>
             \/ /\ relay[r] = "run" /\ copier[r][i].at = "write"
                /\ Put(Destination(r, i), copier[r][i].hand)
                /\ UNCHANGED got
  BY <1>4, Zenon DEF CopyWrite, clientVars
<1>5. ASSUME NEW r \in Conns, NEW i \in Directions,
             CopyRead(r, i) \/ CopyEOF(r, i) \/ CopyClose(r, i)
      PROVE  UNCHANGED <<out, got>>
  BY <1>5 DEF CopyRead, CopyEOF, CopyClose, clientVars
<1>6. ASSUME (\E r \in Conns : Relay(r)) \/ Close PROVE UNCHANGED <<out, got>>
  BY <1>6 DEF Relay, RelayWait, CloseSession, Delete, Close, clientVars
<1>7. CASE UNCHANGED vars BY <1>7 DEF vars, clientVars
<1>. QED BY <1>1, <1>2, <1>3, <1>4, <1>5, <1>6, <1>7, Zenon DEF Next, Handler, Client, Copy

\* Whatever is on its way to a client comes from a peer of it.
LEMMA ArrivedInductive ==
  ASSUME RelayInv, SourcesTrue, ArrivedOK, [Next]_vars
  PROVE  ArrivedOK'
<1>0. PICK P : P = {p \in Conns \X Conns : Paired(p[1], p[2])'} OBVIOUS
<1>. DEFINE After(s, k) == \A j \in 1 .. Len(s) : s[j].from # Nil => <<s[j].from, k>> \in P
<1>1. out \in [Conns -> Seq(Items)] /\ got \in [Conns -> Seq(Items)]
  BY DEF RelayInv, TypeOK, StreamTypeOK, Items
<1>2. \A k \in Conns : After(out[k], k) /\ After(got[k], k)
  <2>1. ASSUME NEW a, NEW k \in Conns, Paired(a, k) PROVE <<a, k>> \in P
    <3>1. a \in Conns
      <4>1. PICK o \in Conns, i \in Directions : Len(peers[o]) = 2 /\ peers[o][i] = a
        BY <2>1 DEF Paired
      <4>2. i \in 1 .. 2 BY DEF Directions
      <4>3. peers[o] \in Seq(Conns) BY DEF RelayInv, TypeOK, SessionTypeOK
      <4>. QED BY <4>1, <4>2, <4>3
    <3>2. Paired(a, k)' BY <2>1, PairedKept
    <3>. QED BY <1>0, <3>1, <3>2
  <2>. QED BY <2>1 DEF ArrivedOK, Arrived
<1>3. ASSUME NEW s \in Seq(Items), NEW k \in Conns, NEW x, After(s, k),
             x.from # Nil => <<x.from, k>> \in P
      PROVE  After(Append(s, x), k)
  <2>1. \A j \in 1 .. Len(Append(s, x)) :
           Append(s, x)[j] = x \/ (j \in 1 .. Len(s) /\ Append(s, x)[j] = s[j])
    OBVIOUS
  <2>. QED BY <1>3, <2>1
<1>4. ASSUME NEW s, NEW t, NEW k \in Conns, After(s, k),
             \A j \in 1 .. Len(t) : \E i \in 1 .. Len(s) : t[j] = s[i]
      PROVE  After(t, k)
  BY <1>4
<1>a. \A a, k : <<a, k>> \in P =>
          \E o \in Conns : /\ Len(peers'[o]) = 2
                           /\ \E i \in Directions : peers'[o][i] = a /\ peers'[o][3 - i] = k
  BY <1>0 DEF Paired
<1>b. ASSUME NEW k \in Conns, After(out'[k], k) PROVE Arrived(out[k], k)'
  <2>. SUFFICES ASSUME NEW j \in 1 .. Len(out'[k]), out'[k][j].from # Nil
                PROVE  Paired(out[k][j].from, k)'
    BY DEF Arrived
  <2>1. PICK a : a = out'[k][j].from OBVIOUS
  <2>2. <<a, k>> \in P BY <1>b, <2>1
  <2>. QED BY <1>a, <2>1, <2>2 DEF Paired
<1>c. ASSUME NEW k \in Conns, After(got'[k], k) PROVE Arrived(got[k], k)'
  <2>. SUFFICES ASSUME NEW j \in 1 .. Len(got'[k]), got'[k][j].from # Nil
                PROVE  Paired(got[k][j].from, k)'
    BY DEF Arrived
  <2>1. PICK a : a = got'[k][j].from OBVIOUS
  <2>2. <<a, k>> \in P BY <1>c, <2>1
  <2>. QED BY <1>a, <2>1, <2>2 DEF Paired
<1>. HIDE DEF After
<1>. SUFFICES \A k \in Conns : After(out'[k], k) /\ After(got'[k], k)
  BY <1>b, <1>c, Zenon DEF ArrivedOK
<1>5. CASE UNCHANGED <<out, got>> BY <1>2, <1>5
<1>6. ASSUME NEW q \in Conns, HangUp(q), NEW k \in Conns
      PROVE  After(out'[k], k) /\ After(got'[k], k)
  <2>1. After(<<>>, k) BY DEF After
  <2>. QED BY <1>1, <1>2, <1>6, <2>1 DEF HangUp
<1>7. ASSUME NEW q \in Conns, ReadHandshakeAck(q), NEW k \in Conns
      PROVE  After(out'[k], k) /\ After(got'[k], k)
  <2>1. got' = got /\ (k # q => out'[k] = out[k])
    BY <1>1, <1>7 DEF ReadHandshakeAck
  <2>2. After(<<>>, q) BY DEF After
  <2>3. CASE Head(out[q]) = Ok
    <3>1. PICK n \in 1 .. Len(out[q]) :
             out' = [out EXCEPT ![q] = SubSeq(out[q], n + 1, Len(out[q]))]
      BY <1>7, <2>3 DEF ReadHandshakeAck
    <3>2. PICK s \in Seq(Items) : s = out[q] BY <1>1
    <3>3. PICK t : t = SubSeq(s, n + 1, Len(s)) OBVIOUS
    <3>4. \A j \in 1 .. Len(t) : \E i \in 1 .. Len(s) : t[j] = s[i]
      BY <3>2, <3>3, AckTaken
    <3>5. After(t, q) BY <1>2, <1>4, <3>2, <3>4
    <3>6. out'[q] = t BY <1>1, <3>1, <3>2, <3>3
    <3>. QED BY <1>2, <2>1, <3>5, <3>6
  <2>4. CASE Head(out[q]) # Ok
    <3>1. out' = [out EXCEPT ![q] = <<>>] BY <1>7, <2>4 DEF ReadHandshakeAck
    <3>. QED BY <1>1, <1>2, <2>1, <2>2, <3>1
  <2>. QED BY <2>3, <2>4
<1>8. ASSUME NEW q \in Conns, Receive(q), NEW k \in Conns
      PROVE  After(out'[k], k) /\ After(got'[k], k)
  <2>1. PICK s \in Seq(Items) : s = out[q] BY <1>1
  <2>2. PICK g \in Seq(Items) : g = got[q] BY <1>1
  <2>3. s # <<>> BY <1>8, <2>1 DEF Receive
  <2>4. /\ out'[q] = Tail(s) /\ got'[q] = Append(g, Head(s))
        /\ k # q => out'[k] = out[k] /\ got'[k] = got[k]
    BY <1>1, <1>8, <2>1, <2>2 DEF Receive
  <2>5. \A j \in 1 .. Len(Tail(s)) : j + 1 \in 1 .. Len(s) /\ Tail(s)[j] = s[j + 1]
    BY <2>3
  <2>6. After(Tail(s), q)
    <3>1. PICK t : t = Tail(s) OBVIOUS
    <3>2. \A j \in 1 .. Len(t) : \E i \in 1 .. Len(s) : t[j] = s[i] BY <2>5, <3>1
    <3>3. After(s, q) BY <1>2, <2>1
    <3>4. After(t, q) BY <1>4, <3>2, <3>3, Zenon
    <3>. QED BY <3>1, <3>4
  <2>7. PICK x : x = Head(s) OBVIOUS
  <2>8. x = s[1] /\ 1 \in 1 .. Len(s) BY <2>3, <2>7
  <2>9. x.from # Nil => <<x.from, q>> \in P BY <1>2, <2>1, <2>8 DEF After
  <2>10. After(Append(g, x), q) BY <1>2, <1>3, <2>2, <2>9
  <2>. QED BY <1>2, <2>4, <2>6, <2>7, <2>10
<1>9. ASSUME NEW q \in Conns, NEW x \in Items, Put(q, x), UNCHANGED got,
             x.from # Nil => <<x.from, q>> \in P, NEW k \in Conns
      PROVE  After(out'[k], k) /\ After(got'[k], k)
  <2>1. /\ k # q => out'[k] = out[k]
        /\ out'[q] = IF hung[q] THEN out[q] ELSE Append(out[q], x)
    BY <1>9, PutType
  <2>2. PICK s \in Seq(Items) : s = out[q] BY <1>1
  <2>3. After(Append(s, x), q) BY <1>2, <1>3, <1>9, <2>2
  <2>. QED BY <1>2, <1>9, <2>1, <2>2, <2>3
<1>10. Ok \in Items /\ Error \in Items /\ Ok.from = Nil /\ Error.from = Nil
  BY DEF Items, Ok, Error
<1>11. ASSUME NEW r \in Conns, NEW i \in Directions, relay[r] = "run",
              copier[r][i].at = "write", Put(Destination(r, i), copier[r][i].hand),
              UNCHANGED got
       PROVE  \A k \in Conns : After(out'[k], k) /\ After(got'[k], k)
  <2>1. relay[r] # "none" BY <1>11
  <2>2. PICK d \in Conns : d = Destination(r, i) BY <2>1, PeersOfRelay
  <2>3. PICK x : x = copier[r][i].hand OBVIOUS
  <2>4. x \in Items BY <1>11, <2>3 DEF RelayInv, CopierShape, Items
  <2>5. PICK a : a = Source(r, i) OBVIOUS
  <2>6. x.from = a BY <1>11, <2>3, <2>5 DEF SourcesTrue
  <2>7. Paired(a, d) BY <2>1, <2>2, <2>5, EndsPaired
  <2>8. <<a, d>> \in P
    <3>1. Paired(a, d)' BY <2>7, PairedKept
    <3>2. a \in Conns BY <2>1, <2>5, PeersOfRelay
    <3>. QED BY <1>0, <3>1, <3>2
  <2>. QED BY <1>9, <1>11, <2>2, <2>3, <2>4, <2>6, <2>8
<1>12. ASSUME NEW q \in Conns, Put(q, Ok) \/ Put(q, Error), UNCHANGED got
       PROVE  \A k \in Conns : After(out'[k], k) /\ After(got'[k], k)
  BY <1>9, <1>10, <1>12
<1>. QED BY <1>5, <1>6, <1>7, <1>8, <1>11, <1>12, ArrivalSteps, Zenon

\* The flow of chunks is an inductive invariant.
LEMMA FlowInvariant == Spec => []FlowInv
<1>1. Init => PeersOK /\ SourcesTrue /\ ArrivedOK
  <2>. SUFFICES ASSUME Init PROVE PeersOK /\ SourcesTrue /\ ArrivedOK OBVIOUS
  <2>1. NewCopier.at = "read" BY DEF NewCopier
  <2>2. SourcesTrue BY <2>1 DEF Init, SourcesTrue
  <2>. QED BY <2>2 DEF Init, PeersOK, ArrivedOK, Arrived
<1>2. RelayInv /\ (PeersOK /\ SourcesTrue /\ ArrivedOK) /\ [Next]_vars
         => (PeersOK /\ SourcesTrue /\ ArrivedOK)'
  BY PeersInductive, SourcesInductive, ArrivedInductive
<1>. QED BY <1>1, <1>2, RelayInvariant, PTL DEF Spec, FlowInv

\* A client gets chunks of the other peer of its session and of no one else,
\* whoever relays and however many sessions of one ID there have been.
THEOREM RelayIsolation == Spec => []Isolation
<1>1. FlowInv => Isolation
  <2>. SUFFICES ASSUME FlowInv, NEW k \in Conns, NEW s \in Seq(Items), Arrived(s, k),
                       NEW c \in Range(s), c.from # Nil
                PROVE  \E o \in Conns : Peers(o) = {c.from, k} /\ c.from # k
    BY DEF Isolation, FlowInv, ArrivedOK, RelayInv, TypeOK, StreamTypeOK, Items
  <2>1. PICK j \in 1 .. Len(s) : c = s[j] BY DEF Range
  <2>2. Paired(c.from, k) BY <2>1 DEF Arrived
  <2>3. PICK o \in Conns, i \in Directions :
           Len(peers[o]) = 2 /\ peers[o][i] = c.from /\ peers[o][3 - i] = k
    BY <2>2 DEF Paired
  <2>4. peers[o][1] # peers[o][2] BY <2>3 DEF FlowInv, PeersOK
  <2>5. Peers(o) = {peers[o][1], peers[o][2]} BY <2>3 DEF Peers
  <2>. QED BY <2>3, <2>4, <2>5 DEF Directions
<1>. QED BY <1>1, FlowInvariant, PTL

----------------------------------------------------------------------------
\* The acknowledgement and the data.

OtherRelay(k) == \E r \in Conns : r # k /\ relay[r] # "none" /\ joined[r] = joined[k]

\* A connection whose handler is past the acknowledgement has it on its way as
\* long as the client waits; what is first there is the acknowledgement, unless
\* another connection's handler relays in the session.
AckInv ==
    \A k \in Conns :
       /\ at[k] = "none" => out[k] = <<>>
       /\ client[k] = "wait" /\ ~hung[k] /\ (at[k] = "count" \/ relay[k] # "none")
             => out[k] # <<>>
       /\ client[k] = "wait" /\ out[k] # <<>> => Head(out[k]).from = Nil \/ OtherRelay(k)

\* A step adds to what is on its way to k an acknowledgement, or a chunk from a
\* relay of its session, ...
Grows(k) ==
    \E x \in Items :
       /\ ~hung[k] /\ out'[k] = Append(out[k], x) /\ at[k] # "none"
       /\ x.from = Nil \/ \E r \in Conns : relay[r] = "run" /\ joined[r] = joined[k]

\* ... leaves it alone, and the acknowledgement is not written either, ...
Same(k) == out'[k] = out[k] /\ (at'[k] = "count" => at[k] = "count" \/ hung[k])

\* ... or takes from it, and the client does not wait any longer.
Taken(k) ==
    /\ out'[k] = <<>> \/ out[k] # <<>>
    /\ client'[k] # "wait" \/ (hung'[k] /\ out'[k] = <<>>)

OutStep(k) ==
    /\ client'[k] = "wait" => client[k] = "wait" \/ at[k] = "none"
    /\ hung[k] => hung'[k]
    /\ Grows(k) \/ Same(k) \/ Taken(k)

\* Every step is one of these for every connection.
LEMMA OutSteps ==
  ASSUME RelayInv, PeersOK, [Next]_vars, NEW k \in Conns
  PROVE  OutStep(k)
<1>1. /\ out \in [Conns -> Seq(Items)] /\ hung \in [Conns -> BOOLEAN]
      /\ client \in [Conns -> {"none", "wait", "up"}]
      /\ at \in [Conns -> {"none", "handshake", "lookup", "add", "ack", "count", "done"}]
  BY DEF RelayInv, TypeOK, StreamTypeOK, LinkTypeOK, HandlerTypeOK, Items
<1>2. ASSUME UNCHANGED <<client, hung, out>>, at'[k] = "count" => at[k] = "count" \/ hung[k]
      PROVE  OutStep(k)
  BY <1>2 DEF OutStep, Same
<1>3. ASSUME NEW q \in Conns, NEW s \in Sessions, Dial(q, s) PROVE OutStep(k)
  <2>1. UNCHANGED <<out, hung>> /\ (k # q => client'[k] = client[k] /\ at'[k] = at[k])
    BY <1>1, <1>3 DEF Dial, Goto
  <2>2. at[q] = "none" /\ at'[q] = "handshake" BY <1>1, <1>3 DEF Dial, Goto
  <2>. QED BY <2>1, <2>2 DEF OutStep, Same
<1>4. ASSUME NEW q \in Conns, Send(q) PROVE OutStep(k)
  BY <1>2, <1>4 DEF Send
<1>5. ASSUME NEW q \in Conns, HangUp(q) \/ ReadHandshakeAck(q) \/ Receive(q) PROVE OutStep(k)
  <2>1. at' = at BY <1>5 DEF HangUp, ReadHandshakeAck, Receive
  <2>2. CASE k # q
    <3>1. out'[k] = out[k] /\ client'[k] = client[k] /\ hung'[k] = hung[k]
      BY <1>1, <1>5, <2>2 DEF HangUp, ReadHandshakeAck, Receive
    <3>. QED BY <2>1, <3>1 DEF OutStep, Same
  <2>3. CASE k = q
    <3>1. CASE HangUp(q)
      BY <1>1, <2>3, <3>1 DEF HangUp, OutStep, Taken
    <3>2. CASE ReadHandshakeAck(q)
      <4>1. out[k] # <<>> /\ client[k] = "wait" /\ (hung[k] => hung'[k])
        BY <1>1, <2>3, <3>2 DEF ReadHandshakeAck
      <4>2. client'[k] # "wait" \/ (hung'[k] /\ out'[k] = <<>>)
        BY <1>1, <2>3, <3>2 DEF ReadHandshakeAck
      <4>. QED BY <4>1, <4>2 DEF OutStep, Taken
    <3>3. CASE Receive(q)
      BY <1>1, <2>3, <3>3 DEF Receive, OutStep, Taken
    <3>. QED BY <1>5, <3>1, <3>2, <3>3
  <2>. QED BY <2>2, <2>3
<1>6. ASSUME NEW q \in Conns, NEW x \in Items, Put(q, x), UNCHANGED <<client, hung>>,
             k # q => at'[k] = at[k], at[q] # "none",
             x.from = Nil \/ \E r \in Conns : relay[r] = "run" /\ joined[r] = joined[q]
      PROVE  OutStep(k)
  <2>1. /\ k # q => out'[k] = out[k]
        /\ out'[q] = IF hung[q] THEN out[q] ELSE Append(out[q], x)
    BY <1>6, PutType
  <2>2. CASE k # q BY <1>6, <2>1, <2>2 DEF OutStep, Same
  <2>3. CASE k = q /\ hung[q] BY <1>6, <2>1, <2>3 DEF OutStep, Same
  <2>4. CASE k = q /\ ~hung[q]
    <3>1. Grows(k) BY <1>6, <2>1, <2>4 DEF Grows
    <3>. QED BY <1>6, <3>1 DEF OutStep
  <2>. QED BY <2>2, <2>3, <2>4
<1>7. Ok \in Items /\ Error \in Items /\ Ok.from = Nil /\ Error.from = Nil
  BY DEF Items, Ok, Error
<1>8. ASSUME NEW q \in Conns, Refuse(q), at[q] # "none", UNCHANGED <<client, hung>>
      PROVE  OutStep(k)
  <2>1. Put(q, Error) /\ (k # q => at'[k] = at[k])
    BY <1>1, <1>8 DEF Refuse, Goto
  <2>. QED BY <1>6, <1>7, <1>8, <2>1
<1>9. ASSUME NEW q \in Conns, Handler(q) PROVE OutStep(k)
  <2>1. UNCHANGED <<client, hung>> /\ at[q] # "none"
    BY <1>9 DEF Handler, ReadHandshake, BadHandshake, Lookup, AddPeer, Ack, Count, clientVars
  <2>2. CASE ReadHandshake(q) \/ Count(q)
    BY <1>1, <1>2, <2>1, <2>2 DEF ReadHandshake, Count, Goto
  <2>3. CASE BadHandshake(q) BY <1>8, <2>1, <2>3 DEF BadHandshake
  <2>4. CASE Lookup(q)
    <3>1. Refuse(q) \/ (Goto(q, "add") /\ UNCHANGED out)
      BY <2>4, Zenon DEF Lookup
    <3>. QED BY <1>1, <1>2, <1>8, <2>1, <3>1 DEF Goto
  <2>5. CASE AddPeer(q)
    <3>1. Refuse(q) \/ (Goto(q, "ack") /\ UNCHANGED out)
      BY <2>5, Zenon DEF AddPeer
    <3>. QED BY <1>1, <1>2, <1>8, <2>1, <3>1 DEF Goto
  <2>6. CASE Ack(q)
    <3>1. CASE Put(q, Ok) /\ Goto(q, "count")
      <4>1. k # q => at'[k] = at[k] BY <1>1, <3>1 DEF Goto
      <4>. QED BY <1>1, <1>6, <1>7, <2>1, <3>1, <4>1
    <3>2. CASE Goto(q, "done") /\ UNCHANGED out
      BY <1>1, <1>2, <2>1, <3>2 DEF Goto
    <3>. QED BY <2>6, <3>1, <3>2, Zenon DEF Ack
  <2>. QED BY <1>9, <2>2, <2>3, <2>4, <2>5, <2>6 DEF Handler
<1>10. ASSUME NEW r \in Conns, NEW i \in Directions, Copy(r, i) PROVE OutStep(k)
  <2>1. UNCHANGED <<at, client, hung>> /\ relay[r] = "run"
    BY <1>10 DEF Copy, CopyRead, CopyEOF, CopyWrite, CopyClose, clientVars
  <2>2. CASE UNCHANGED out BY <1>2, <2>1, <2>2
  <2>3. CASE copier[r][i].at = "write" /\ Put(Destination(r, i), copier[r][i].hand)
    <3>1. PICK x : x = copier[r][i].hand OBVIOUS
    <3>2. x \in Items BY <2>3, <3>1 DEF RelayInv, CopierShape, Items
    <3>3. /\ Destination(r, i) \in Conns /\ joined[r] \in Conns
          /\ 3 - i \in 1 .. Len(peers[joined[r]])
      BY <2>1, PeersOfRelay
    <3>4. PICK d \in Conns : d = Destination(r, i) BY <3>3
    <3>5. at[d] \in Late /\ joined[d] = joined[r]
      BY <3>3, <3>4 DEF PeersOK, Destination
    <3>. QED BY <1>1, <1>6, <2>1, <2>3, <3>1, <3>2, <3>4, <3>5 DEF Late
  <2>. QED BY <1>10, <2>2, <2>3, Zenon DEF Copy, CopyRead, CopyEOF, CopyWrite, CopyClose
<1>11. ASSUME (\E r \in Conns : Relay(r)) \/ Close PROVE OutStep(k)
  BY <1>2, <1>11 DEF Relay, RelayWait, CloseSession, Delete, Close, clientVars
<1>12. CASE UNCHANGED vars BY <1>2, <1>12 DEF vars, clientVars
<1>. QED BY <1>3, <1>4, <1>5, <1>9, <1>10, <1>11, <1>12 DEF Next, Client

\* A relay of another handler stays one.
LEMMA OtherRelayKept ==
  ASSUME RelayInv, [Next]_vars, NEW k \in Conns, OtherRelay(k)
  PROVE  OtherRelay(k)'
<1>1. PICK r \in Conns : r # k /\ relay[r] # "none" /\ joined[r] = joined[k]
  BY DEF OtherRelay
<1>2. at[r] = "done" /\ joined[r] \in Conns BY <1>1 DEF RelayInv, RelayShape
<1>3. at[k] # "lookup" BY <1>1, <1>2, RelayNil DEF RelayInv, HandlerShape
<1>4. relay'[r] # "none" /\ joined'[r] = joined[r] /\ joined'[k] = joined[k]
  BY <1>1, <1>2, <1>3, ForwardSteps DEF Forward
<1>. QED BY <1>1, <1>4 DEF OtherRelay

\* The acknowledgement stays first.
LEMMA AckInductive ==
  ASSUME RelayInv, PeersOK, AckInv, [Next]_vars
  PROVE  AckInv'
<1>. SUFFICES ASSUME NEW k \in Conns
              PROVE  /\ at'[k] = "none" => out'[k] = <<>>
                     /\ client'[k] = "wait" /\ ~hung'[k] /\ (at'[k] = "count" \/ relay'[k] # "none")
                           => out'[k] # <<>>
                     /\ client'[k] = "wait" /\ out'[k] # <<>> =>
                           Head(out'[k]).from = Nil \/ OtherRelay(k)'
  BY DEF AckInv
<1>1. PICK s \in Seq(Items) : s = out[k]
  BY DEF RelayInv, TypeOK, StreamTypeOK, Items
<1>2. OutStep(k) /\ Forward(k) BY OutSteps, ForwardSteps
<1>3. /\ at[k] = "none" => s = <<>>
      /\ client[k] = "wait" /\ ~hung[k] /\ (at[k] = "count" \/ relay[k] # "none") => s # <<>>
      /\ client[k] = "wait" /\ s # <<>> => Head(s).from = Nil \/ OtherRelay(k)'
  BY <1>1, OtherRelayKept DEF AckInv
<1>4. relay[k] # "none" => at[k] = "done" BY DEF RelayInv, RelayShape
<1>5. CASE Taken(k)
  <2>1. at'[k] = "none" => out'[k] = <<>>
    BY <1>1, <1>2, <1>3, <1>5, Zenon DEF Taken, Forward
  <2>2. ~(client'[k] = "wait" /\ ~hung'[k]) BY <1>5, Zenon DEF Taken
  <2>3. client'[k] = "wait" => out'[k] = <<>> BY <1>5, Zenon DEF Taken
  <2>. QED BY <2>1, <2>2, <2>3, Zenon
<1>6. CASE Same(k)
  <2>1. out'[k] = s BY <1>1, <1>6 DEF Same
  <2>2. at'[k] = "none" => out'[k] = <<>> BY <1>2, <1>3, <2>1, Zenon DEF Forward
  <2>3. client'[k] = "wait" /\ s # <<>> => Head(s).from = Nil \/ OtherRelay(k)'
    BY <1>2, <1>3, Zenon DEF OutStep
  <2>4. ASSUME client'[k] = "wait", ~hung'[k], at'[k] = "count" \/ relay'[k] # "none"
        PROVE  s # <<>>
    <3>1. ~hung[k] BY <1>2, <2>4, Zenon DEF OutStep
    <3>2. at[k] = "count" \/ relay[k] # "none"
      BY <1>2, <1>6, <2>4, <3>1, Zenon DEF Same, Forward
    <3>3. at[k] # "none" BY <1>4, <3>2
    <3>4. client[k] = "wait" BY <1>2, <2>4, <3>3, Zenon DEF OutStep
    <3>. QED BY <1>3, <3>1, <3>2, <3>4, Zenon
  <2>. QED BY <2>1, <2>2, <2>3, <2>4, Zenon
<1>7. CASE Grows(k)
  <2>1. PICK x \in Items :
           /\ ~hung[k] /\ out'[k] = Append(s, x) /\ at[k] # "none"
           /\ x.from = Nil \/ \E r \in Conns : relay[r] = "run" /\ joined[r] = joined[k]
    BY <1>1, <1>7 DEF Grows
  <2>2. Append(s, x) # <<>> BY AppendProperties
  <2>3. s = <<>> => Head(Append(s, x)) = x OBVIOUS
  <2>4. s # <<>> => Head(Append(s, x)) = Head(s) OBVIOUS
  <2>5. client'[k] = "wait" => client[k] = "wait" BY <1>2, <2>1 DEF OutStep
  <2>6. ASSUME s = <<>>, client[k] = "wait", x.from # Nil PROVE OtherRelay(k)'
    <3>1. PICK r \in Conns : relay[r] = "run" /\ joined[r] = joined[k] BY <2>1, <2>6
    <3>2. r # k BY <1>3, <2>1, <2>6, <3>1
    <3>3. OtherRelay(k) BY <3>1, <3>2 DEF OtherRelay
    <3>. QED BY <3>3, OtherRelayKept
  <2>7. at'[k] # "none" BY <1>2, <2>1 DEF Forward
  <2>8. client'[k] = "wait" => Head(out'[k]).from = Nil \/ OtherRelay(k)'
    BY <1>3, <2>1, <2>3, <2>4, <2>5, <2>6
  <2>. QED BY <2>1, <2>2, <2>7, <2>8, Zenon
<1>. QED BY <1>2, <1>5, <1>6, <1>7, Zenon DEF OutStep

\* Relayed data never overtakes the acknowledgement in a connection's own
\* relay: where only its own handler relays, the acknowledgement is first.
THEOREM AckBeforeData == Spec => []AckFirstIfOwnRelay
<1>1. Init => AckInv BY DEF Init, AckInv
<1>2. FlowInv /\ AckInv /\ [Next]_vars => AckInv'
  BY AckInductive DEF FlowInv
<1>3. AckInv => AckFirstIfOwnRelay
  BY DEF AckInv, AckFirstIfOwnRelay, OtherRelay, Relays
<1>. QED BY <1>1, <1>2, <1>3, FlowInvariant, PTL DEF Spec

----------------------------------------------------------------------------
\* With a single relay a stream arrives without gap.

\* The last chunk in s, if there is one, has number v.
LastIs(s, v) ==
    \A i \in 1 .. Len(s) :
       s[i].from # Nil /\ (\A m \in i + 1 .. Len(s) : s[m].from = Nil) => s[i].n = v

\* How many chunks the copiers have read of what k sent.
Fetched(k) == sent[k] - Len(inbuf[k])

\* No other handler relays the session of r.
Alone(r) == \A q \in Conns : relay[q] # "none" /\ joined[q] = joined[r] => q = r

\* The chunks in a buffer are numbered, up to the last one that was sent.
NumbersOK ==
    \A k \in Conns : \A j \in 1 .. Len(inbuf[k]) : inbuf[k][j].n = Fetched(k) + j

\* Nothing is read before the acknowledgement.
QuietOK ==
    \A k \in Conns : /\ at[k] = "none" => client[k] = "none"
                     /\ client[k] # "up" => got[k] = <<>>

\* There is no chunk in s.
Blank(s) == \A j \in 1 .. Len(s) : s[j].from = Nil

\* Only a relay of its session sends chunks to a client.
RelayedOK ==
    \A k \in Conns :
       Blank(Stream(k)) \/ \E r \in Conns : relay[r] # "none" /\ joined[r] = joined[k]

\* A copier c from a client of which v chunks have been read to one with the
\* stream s, which has hung up or not, has written all it has read, except for
\* what it has in its hand, as long as it goes on.
Copied(c, v, s, h) ==
    /\ c.at = "write" => c.hand.n = v
    /\ Unbroken(s)
    /\ c.at = "read" /\ ~h => LastIs(s, v)
    /\ c.at = "write" /\ ~h => LastIs(s, v - 1)

CopiedOK(r, i) ==
    Copied(copier[r][i], Fetched(Source(r, i)), Stream(Destination(r, i)),
           hung[Destination(r, i)])

\* So do the copiers of a relay that is the only one of its session.
ChainOK ==
    \A r \in Conns : relay[r] # "none" /\ Alone(r) => \A i \in Directions : CopiedOK(r, i)

ChainInv == NumbersOK /\ QuietOK /\ RelayedOK /\ ChainOK

\* Another item at the end: a chunk that follows the last one, or none.
LEMMA UnbrokenAppend ==
  ASSUME NEW s \in Seq(Items), NEW x \in Items, NEW v \in Int, Unbroken(s),
         x.from # Nil => x.n = v + 1 /\ LastIs(s, v)
  PROVE  Unbroken(Append(s, x))
<1>1. PICK t : t = Append(s, x) OBVIOUS
<1>2. /\ Len(t) = Len(s) + 1 /\ Len(s) \in Nat /\ t[Len(s) + 1] = x
      /\ \A i \in 1 .. Len(s) : t[i] = s[i]
  BY <1>1
<1>3. ASSUME NEW i \in 1 .. Len(t), NEW j \in 1 .. Len(t), i < j,
             t[i].from # Nil, t[j].from # Nil, \A m \in i + 1 .. j - 1 : t[m].from = Nil
      PROVE  t[j].n = t[i].n + 1
  <2>1. i \in 1 .. Len(s) /\ t[i] = s[i] BY <1>2, <1>3
  <2>2. CASE j \in 1 .. Len(s)
    <3>1. \A m \in i + 1 .. j - 1 : m \in 1 .. Len(s) BY <1>2, <2>1, <2>2
    <3>. QED BY <1>2, <1>3, <2>1, <2>2, <3>1 DEF Unbroken
  <2>3. CASE j = Len(s) + 1
    <3>1. \A m \in i + 1 .. Len(s) : m \in 1 .. Len(s) /\ m \in i + 1 .. j - 1
      BY <1>2, <2>1, <2>3
    <3>2. \A m \in i + 1 .. Len(s) : s[m].from = Nil BY <1>2, <1>3, <3>1
    <3>3. LastIs(s, v) /\ x.n = v + 1 BY <1>2, <1>3, <2>3
    <3>4. s[i].n = v BY <1>3, <2>1, <3>2, <3>3 DEF LastIs
    <3>. QED BY <1>2, <2>1, <2>3, <3>3, <3>4
  <2>. QED BY <1>2, <2>2, <2>3
<1>. QED BY <1>1, <1>3 DEF Unbroken

\* It is the last chunk, if it is a chunk.
LEMMA LastAppend ==
  ASSUME NEW s \in Seq(Items), NEW x \in Items, NEW v,
         IF x.from # Nil THEN x.n = v ELSE LastIs(s, v)
  PROVE  LastIs(Append(s, x), v)
<1>1. PICK t : t = Append(s, x) OBVIOUS
<1>2. /\ Len(t) = Len(s) + 1 /\ Len(s) \in Nat /\ t[Len(s) + 1] = x
      /\ \A i \in 1 .. Len(s) : t[i] = s[i]
  BY <1>1
<1>3. ASSUME NEW i \in 1 .. Len(t), t[i].from # Nil,
             \A m \in i + 1 .. Len(t) : t[m].from = Nil
      PROVE  t[i].n = v
  <2>1. CASE i = Len(s) + 1 BY <1>2, <1>3, <2>1
  <2>2. CASE i \in 1 .. Len(s)
    <3>1. Len(s) + 1 \in i + 1 .. Len(t) BY <1>2, <2>2
    <3>2. x.from = Nil BY <1>2, <1>3, <3>1
    <3>3. \A m \in i + 1 .. Len(s) : m \in 1 .. Len(s) /\ m \in i + 1 .. Len(t)
      BY <1>2, <2>2
    <3>4. \A m \in i + 1 .. Len(s) : s[m].from = Nil BY <1>2, <1>3, <3>3
    <3>. QED BY <1>2, <1>3, <2>2, <3>2, <3>4 DEF LastIs
  <2>. QED BY <1>2, <2>1, <2>2
<1>. QED BY <1>1, <1>3 DEF LastIs

\* A beginning may be missing ...
LEMMA UnbrokenRest ==
  ASSUME NEW s \in Seq(Items), NEW n \in 1 .. Len(s), Unbroken(s)
  PROVE  /\ Unbroken(SubSeq(s, n + 1, Len(s)))
         /\ \A v : LastIs(s, v) => LastIs(SubSeq(s, n + 1, Len(s)), v)
<1>1. PICK t : t = SubSeq(s, n + 1, Len(s)) OBVIOUS
<1>2. /\ Len(t) = Len(s) - n /\ Len(s) \in Nat /\ n \in Nat
      /\ \A i \in 1 .. Len(t) : n + i \in 1 .. Len(s) /\ t[i] = s[n + i]
  BY <1>1
<1>3. ASSUME NEW i \in 1 .. Len(t), NEW j \in 1 .. Len(t), i < j,
             t[i].from # Nil, t[j].from # Nil, \A m \in i + 1 .. j - 1 : t[m].from = Nil
      PROVE  t[j].n = t[i].n + 1
  <2>1. n + i \in 1 .. Len(s) /\ n + j \in 1 .. Len(s) /\ n + i < n + j
        /\ t[i] = s[n + i] /\ t[j] = s[n + j]
    BY <1>2, <1>3
  <2>2. PICK a, b : a = n + i /\ b = n + j OBVIOUS
  <2>3. ASSUME NEW m \in a + 1 .. b - 1 PROVE s[m].from = Nil
    <3>1. m - n \in i + 1 .. j - 1 /\ m - n \in 1 .. Len(t) /\ n + (m - n) = m
      BY <1>2, <1>3, <2>2, <2>3
    <3>. QED BY <1>2, <1>3, <3>1
  <2>4. a \in 1 .. Len(s) /\ b \in 1 .. Len(s) /\ a < b /\ t[i] = s[a] /\ t[j] = s[b]
    BY <2>1, <2>2
  <2>5. s[b].n = s[a].n + 1 BY <1>3, <2>3, <2>4 DEF Unbroken
  <2>. QED BY <2>4, <2>5
<1>4. ASSUME NEW v, LastIs(s, v), NEW i \in 1 .. Len(t), t[i].from # Nil,
             \A m \in i + 1 .. Len(t) : t[m].from = Nil
      PROVE  t[i].n = v
  <2>1. n + i \in 1 .. Len(s) /\ t[i] = s[n + i] BY <1>2, <1>4
  <2>2. ASSUME NEW m \in n + i + 1 .. Len(s) PROVE s[m].from = Nil
    <3>1. m - n \in i + 1 .. Len(t) /\ m - n \in 1 .. Len(t) /\ n + (m - n) = m
      BY <1>2, <1>4, <2>2
    <3>. QED BY <1>2, <1>4, <3>1
  <2>. QED BY <1>4, <2>1, <2>2 DEF LastIs
<1>5. Unbroken(t) BY <1>3 DEF Unbroken
<1>6. ASSUME NEW v, LastIs(s, v) PROVE LastIs(t, v)
  <2>. SUFFICES ASSUME NEW i \in 1 .. Len(t), t[i].from # Nil,
                       \A m \in i + 1 .. Len(t) : t[m].from = Nil
                PROVE  t[i].n = v
    BY DEF LastIs
  <2>. QED BY <1>4, <1>6
<1>. QED BY <1>1, <1>5, <1>6, Zenon

\* ... or an end.
LEMMA UnbrokenStart ==
  ASSUME NEW g \in Seq(Items), NEW t \in Seq(Items), Unbroken(g \o t)
  PROVE  Unbroken(g)
<1>1. PICK s : s = g \o t OBVIOUS
<1>2. /\ Len(g) \in Nat /\ Len(s) = Len(g) + Len(t) /\ Len(t) \in Nat
      /\ \A i \in 1 .. Len(g) : i \in 1 .. Len(s) /\ s[i] = g[i]
  BY <1>1
<1>3. ASSUME NEW i \in 1 .. Len(g), NEW j \in 1 .. Len(g), i < j,
             g[i].from # Nil, g[j].from # Nil, \A m \in i + 1 .. j - 1 : g[m].from = Nil
      PROVE  g[j].n = g[i].n + 1
  <2>1. \A m \in i + 1 .. j - 1 : m \in 1 .. Len(g) BY <1>2, <1>3
  <2>2. \A m \in i + 1 .. j - 1 : s[m].from = Nil BY <1>2, <1>3, <2>1
  <2>. QED BY <1>1, <1>2, <1>3, <2>2 DEF Unbroken
<1>. QED BY <1>3 DEF Unbroken

\* The items of a stream, when one is added, is read, or is all there is.
LEMMA StreamParts ==
  ASSUME NEW g \in Seq(Items), NEW t \in Seq(Items)
  PROVE  /\ g \o t \in Seq(Items)
         /\ <<>> \o t = t /\ g \o <<>> = g
         /\ \A x \in Items : g \o Append(t, x) = Append(g \o t, x)
         /\ t # <<>> => Append(g, Head(t)) \o Tail(t) = g \o t
<1>1. g \o t \in Seq(Items) /\ <<>> \o t = t /\ g \o <<>> = g
  BY ConcatProperties, ConcatEmptySeq
<1>2. ASSUME NEW x \in Items PROVE g \o Append(t, x) = Append(g \o t, x)
  OBVIOUS
<1>3. ASSUME t # <<>> PROVE Append(g, Head(t)) \o Tail(t) = g \o t
  BY <1>3
<1>. QED BY <1>1, <1>2, <1>3

----------------------------------------------------------------------------
\* The ends of a single relay's copiers are its own: no other copier reads from
\* the same client or writes to it.
LEMMA EndsOwn ==
  ASSUME RelayInv, PeersOK, NEW r \in Conns, NEW i \in Directions,
         relay[r] # "none", Alone(r),
         NEW q \in Conns, NEW j \in Directions, relay[q] # "none", q # r \/ j # i
  PROVE  Source(q, j) # Source(r, i) /\ Destination(q, j) # Destination(r, i)
<1>1. /\ joined[r] \in Conns /\ i \in 1 .. Len(peers[joined[r]])
      /\ 3 - i \in 1 .. Len(peers[joined[r]])
  BY PeersOfRelay, Zenon
<1>2. /\ joined[q] \in Conns /\ j \in 1 .. Len(peers[joined[q]])
      /\ 3 - j \in 1 .. Len(peers[joined[q]])
  BY PeersOfRelay, Zenon
<1>3. joined[Source(r, i)] = joined[r] /\ joined[Destination(r, i)] = joined[r]
  BY <1>1 DEF PeersOK, Source, Destination
<1>4. joined[Source(q, j)] = joined[q] /\ joined[Destination(q, j)] = joined[q]
  BY <1>2 DEF PeersOK, Source, Destination
<1>5. CASE q # r
  <2>1. joined[q] # joined[r] BY <1>5 DEF Alone
  <2>. QED BY <1>3, <1>4, <2>1
<1>6. CASE q = r /\ j # i
  <2>1. Len(peers[joined[r]]) = 2 BY DEF RelayInv, RelayShape
  <2>2. peers[joined[r]][1] # peers[joined[r]][2] BY <1>1, <2>1 DEF PeersOK
  <2>3. (i = 1 /\ j = 2) \/ (i = 2 /\ j = 1) BY <1>6 DEF Directions
  <2>4. 3 - 1 = 2 /\ 3 - 2 = 1 OBVIOUS
  <2>. QED BY <1>6, <2>2, <2>3, <2>4 DEF Source, Destination
<1>. QED BY <1>5, <1>6

\* A relay that is single was so before, and keeps its ends.
LEMMA AloneBefore ==
  ASSUME RelayInv, [Next]_vars, NEW r \in Conns, relay[r] # "none", Alone(r)'
  PROVE  /\ Alone(r)
         /\ \A i \in Directions : /\ Source(r, i)' = Source(r, i)
                                  /\ Destination(r, i)' = Destination(r, i)
<1>1. \A q \in Conns : relay[q] # "none" => relay'[q] # "none" /\ joined'[q] = joined[q]
  <2>1. \A q \in Conns : relay[q] # "none" => at[q] = "done" BY DEF RelayInv, RelayShape
  <2>. QED BY <2>1, ForwardSteps DEF Forward
<1>2. Alone(r) BY <1>1 DEF Alone
<1>3. joined[r] \in Conns /\ Len(peers[joined[r]]) = 2 BY DEF RelayInv, RelayShape
<1>4. peers'[joined[r]] = peers[joined[r]] BY <1>3, PeersKept
<1>5. joined'[r] = joined[r] BY <1>1
<1>6. ASSUME NEW i \in Directions
      PROVE  Source(r, i)' = Source(r, i) /\ Destination(r, i)' = Destination(r, i)
  BY <1>4, <1>5 DEF Source, Destination
<1>. QED BY <1>2, <1>6

\* What a step that is none of this copier's reads or writes does to the stream
\* to k: nothing, or it ends, loses a beginning, or gets an acknowledgement.
Mild(k) ==
    /\ hung[k] => hung'[k]
    /\ \/ Stream(k)' = Stream(k)
       \/ hung'[k] /\ Stream(k)' = got[k]
       \/ \E n \in 1 .. Len(Stream(k)) : Stream(k)' = SubSeq(Stream(k), n + 1, Len(Stream(k)))
       \/ \E x \in {Ok, Error} : Stream(k)' = Append(Stream(k), x)

\* The streams are sequences of items.
LEMMA StreamTyped ==
  ASSUME RelayInv, NEW k \in Conns
  PROVE  /\ got[k] \in Seq(Items) /\ out[k] \in Seq(Items) /\ Stream(k) \in Seq(Items)
         /\ hung[k] \in BOOLEAN
<1>1. got[k] \in Seq(Items) /\ out[k] \in Seq(Items) /\ hung[k] \in BOOLEAN
  BY DEF RelayInv, TypeOK, StreamTypeOK, LinkTypeOK, Items
<1>. QED BY <1>1, StreamParts DEF Stream

\* A client hangs up once.
LEMMA HungStays ==
  ASSUME RelayInv, [Next]_vars, NEW k \in Conns, hung[k]
  PROVE  hung'[k]
<1>1. hung \in [Conns -> BOOLEAN] BY DEF RelayInv, TypeOK, LinkTypeOK
<1>2. ASSUME NEW q \in Conns,
             (\E s \in Sessions : Dial(q, s)) \/ Send(q) \/ HangUp(q) \/ Client(q)
      PROVE  hung'[k]
  BY <1>1, <1>2 DEF Dial, Send, HangUp, Client, ReadHandshakeAck, Receive
<1>3. ASSUME NEW q \in Conns, Handler(q) PROVE UNCHANGED hung
  BY <1>3 DEF Handler, ReadHandshake, BadHandshake, Lookup, AddPeer, Ack, Count, clientVars
<1>4. ASSUME NEW q \in Conns, NEW i \in Directions, Copy(q, i) PROVE UNCHANGED hung
  BY <1>4 DEF Copy, CopyRead, CopyEOF, CopyWrite, CopyClose, clientVars
<1>5. ASSUME (\E r \in Conns : Relay(r)) \/ Close PROVE UNCHANGED hung
  BY <1>5 DEF Relay, RelayWait, CloseSession, Delete, Close, clientVars
<1>6. CASE UNCHANGED vars BY <1>6 DEF vars, clientVars
<1>. QED BY <1>2, <1>3, <1>4, <1>5, <1>6, Zenon DEF Next

\* Only a copier that writes to k does more.
LEMMA MildSteps ==
  ASSUME RelayInv, QuietOK, [Next]_vars, NEW k \in Conns,
         \A r \in Conns, i \in Directions : CopyWrite(r, i) => Destination(r, i) # k
  PROVE  Mild(k)
<1>1. PICK g, t, s : g = got[k] /\ t = out[k] /\ s = Stream(k) OBVIOUS
<1>2. /\ g \in Seq(Items) /\ t \in Seq(Items) /\ s \in Seq(Items) /\ s = g \o t
      /\ hung[k] \in BOOLEAN
  BY <1>1, StreamTyped DEF Stream
<1>3. hung[k] => hung'[k] BY HungStays
<1>4. Stream(k)' = got'[k] \o out'[k] BY DEF Stream
<1>5. ASSUME got'[k] = g, out'[k] = t PROVE Mild(k)
  BY <1>1, <1>2, <1>3, <1>4, <1>5 DEF Mild
<1>6. ASSUME NEW q \in Conns, HangUp(q) PROVE Mild(k)
  <2>1. CASE q # k
    <3>1. got'[k] = g /\ out'[k] = t
      BY <1>1, <1>6, <2>1 DEF HangUp, RelayInv, TypeOK, StreamTypeOK
    <3>. QED BY <1>5, <3>1
  <2>2. CASE q = k
    <3>1. got'[k] = g /\ out'[k] = <<>> /\ hung'[k]
      BY <1>1, <1>6, <2>2 DEF HangUp, RelayInv, TypeOK, StreamTypeOK, LinkTypeOK
    <3>2. Stream(k)' = g BY <1>2, <1>4, <3>1, StreamParts
    <3>. QED BY <1>1, <3>1, <3>2 DEF Mild
  <2>. QED BY <2>1, <2>2
<1>7. ASSUME NEW q \in Conns, Receive(q) PROVE Mild(k)
  <2>1. CASE q # k
    <3>1. got'[k] = g /\ out'[k] = t
      BY <1>1, <1>7, <2>1 DEF Receive, RelayInv, TypeOK, StreamTypeOK
    <3>. QED BY <1>5, <3>1
  <2>2. CASE q = k
    <3>1. got'[k] = Append(g, Head(t)) /\ out'[k] = Tail(t) /\ t # <<>>
      BY <1>1, <1>7, <2>2 DEF Receive, RelayInv, TypeOK, StreamTypeOK
    <3>2. Stream(k)' = s BY <1>2, <1>4, <3>1, StreamParts
    <3>. QED BY <1>1, <1>3, <3>2 DEF Mild
  <2>. QED BY <2>1, <2>2
<1>8. ASSUME NEW q \in Conns, ReadHandshakeAck(q) PROVE Mild(k)
  <2>1. CASE q # k
    <3>1. got'[k] = g /\ out'[k] = t
      BY <1>1, <1>8, <2>1 DEF ReadHandshakeAck, RelayInv, TypeOK, StreamTypeOK
    <3>. QED BY <1>5, <3>1
  <2>2. CASE q = k
    <3>1. got'[k] = g /\ g = <<>>
      BY <1>1, <1>8, <2>2 DEF ReadHandshakeAck, QuietOK
    <3>2. s = t BY <1>2, <3>1, StreamParts
    <3>3. \/ hung'[k] /\ out'[k] = <<>>
          \/ \E n \in 1 .. Len(t) : out'[k] = SubSeq(t, n + 1, Len(t))
      BY <1>1, <1>8, <2>2 DEF ReadHandshakeAck, RelayInv, TypeOK, StreamTypeOK, LinkTypeOK
    <3>4. CASE hung'[k] /\ out'[k] = <<>>
      <4>1. Stream(k)' = g BY <1>2, <1>4, <3>1, <3>4, StreamParts
      <4>. QED BY <1>1, <3>4, <4>1 DEF Mild
    <3>5. ASSUME NEW n \in 1 .. Len(t), out'[k] = SubSeq(t, n + 1, Len(t)) PROVE Mild(k)
      <4>1. SubSeq(t, n + 1, Len(t)) \in Seq(Items) BY <1>2, AckTaken
      <4>2. Stream(k)' = SubSeq(s, n + 1, Len(s))
        BY <1>2, <1>4, <3>1, <3>2, <3>5, <4>1, StreamParts
      <4>. QED BY <1>1, <1>3, <3>2, <4>2 DEF Mild
    <3>. QED BY <3>3, <3>4, <3>5
  <2>. QED BY <2>1, <2>2
<1>9. ASSUME NEW q \in Conns, NEW x \in {Ok, Error}, Put(q, x), UNCHANGED got PROVE Mild(k)
  <2>1. x \in Items BY DEF Items
  <2>2. CASE q # k \/ hung[q]
    <3>1. got'[k] = g /\ out'[k] = t BY <1>1, <1>9, <2>1, <2>2, PutType
    <3>. QED BY <1>5, <3>1
  <2>3. CASE q = k /\ ~hung[k]
    <3>1. got'[k] = g /\ out'[k] = Append(t, x) BY <1>1, <1>9, <2>1, <2>3, PutType
    <3>2. Stream(k)' = Append(s, x) BY <1>2, <1>4, <2>1, <3>1, StreamParts
    <3>. QED BY <1>1, <1>3, <3>2 DEF Mild
  <2>. QED BY <2>2, <2>3
<1>10. ASSUME NEW r \in Conns, NEW i \in Directions,
              CopyWrite(r, i), relay[r] = "run", copier[r][i].at = "write",
              Put(Destination(r, i), copier[r][i].hand), UNCHANGED got
       PROVE  Mild(k)
  <2>1. copier[r][i].hand \in Items BY <1>10 DEF RelayInv, CopierShape, Items
  <2>2. Destination(r, i) \in Conns BY <1>10, PeersOfRelay
  <2>3. Destination(r, i) # k BY <1>10
  <2>4. got'[k] = g /\ out'[k] = t BY <1>1, <1>10, <2>1, <2>2, <2>3, PutType
  <2>. QED BY <1>5, <2>4
<1>11. CASE UNCHANGED <<out, got>> BY <1>1, <1>5, <1>11
<1>. QED BY <1>6, <1>7, <1>8, <1>9, <1>10, <1>11, ArrivalSteps, Zenon

\* What a copier does when it reads ...
LEMMA ReadEffect ==
  ASSUME RelayInv, NumbersOK, NEW r \in Conns, NEW i \in Directions, CopyRead(r, i)
  PROVE  LET k == Source(r, i) IN
         /\ k \in Conns /\ copier[r][i].at = "read"
         /\ copier'[r][i].at = "write" /\ copier'[r][i].hand.n = Fetched(k) + 1
         /\ sent' = sent /\ inbuf' = [inbuf EXCEPT ![k] = Tail(inbuf[k])] /\ inbuf[k] # <<>>
         /\ \A q \in Conns, j \in Directions : q # r \/ j # i => copier'[q][j] = copier[q][j]
<1>1. PICK k \in Conns : k = Source(r, i) BY PeersOfRelay DEF CopyRead
<1>2. PICK c \in Copier : c = copier[r][i] BY CopierFields
<1>3. inbuf[k] \in Seq(Chunk) /\ inbuf[k] # <<>>
  BY <1>1 DEF CopyRead, RelayInv, TypeOK, StreamTypeOK
<1>4. PICK h \in Chunk : h = Head(inbuf[k]) BY <1>3
<1>5. PICK e : e = [c EXCEPT !.at = "write", !.hand = h] OBVIOUS
<1>6. e \in Copier /\ e.at = "write" /\ e.hand = h BY <1>4, <1>5 DEF Copier
<1>7. SetCopier(r, i, e) BY <1>1, <1>2, <1>4, <1>5 DEF CopyRead
<1>8. /\ copier'[r][i] = e
      /\ \A q \in Conns, j \in Directions : q # r \/ j # i => copier'[q][j] = copier[q][j]
  BY <1>6, <1>7, SetCopierType
<1>9. h.n = Fetched(k) + 1
  <2>1. h = inbuf[k][1] /\ 1 \in 1 .. Len(inbuf[k]) BY <1>3, <1>4
  <2>. QED BY <2>1 DEF NumbersOK
<1>10. sent' = sent /\ inbuf' = [inbuf EXCEPT ![k] = Tail(inbuf[k])] /\ copier[r][i].at = "read"
  BY <1>1 DEF CopyRead
<1>. QED BY <1>1, <1>3, <1>6, <1>8, <1>9, <1>10

\* ... and when it writes.
LEMMA WriteEffect ==
  ASSUME RelayInv, NEW r \in Conns, NEW i \in Directions, CopyWrite(r, i)
  PROVE  LET k == Destination(r, i) IN
         /\ k \in Conns /\ copier[r][i].at = "write" /\ copier[r][i].hand \in Chunk
         /\ sent' = sent /\ inbuf' = inbuf /\ got' = got /\ hung' = hung
         /\ \/ copier'[r][i].at = "read" /\ Put(k, copier[r][i].hand)
            \/ copier'[r][i].at = "close" /\ out' = out
         /\ \A q \in Conns, j \in Directions : q # r \/ j # i => copier'[q][j] = copier[q][j]
<1>1. PICK k \in Conns : k = Destination(r, i) BY PeersOfRelay DEF CopyWrite
<1>2. PICK c \in Copier : c = copier[r][i] BY CopierFields
<1>3. copier[r][i].at = "write" /\ copier[r][i].hand \in Chunk
  BY DEF CopyWrite, RelayInv, CopierShape
<1>4. sent' = sent /\ inbuf' = inbuf /\ got' = got /\ hung' = hung
  BY DEF CopyWrite, clientVars
<1>5. ASSUME Put(k, c.hand), SetCopier(r, i, [at |-> "read", hand |-> Nil, n |-> c.n + 1])
      PROVE  /\ copier'[r][i].at = "read"
             /\ \A q \in Conns, j \in Directions : q # r \/ j # i => copier'[q][j] = copier[q][j]
  <2>1. PICK e : e = [at |-> "read", hand |-> Nil, n |-> c.n + 1] OBVIOUS
  <2>2. e \in Copier /\ e.at = "read" BY <2>1 DEF Copier
  <2>3. SetCopier(r, i, e) BY <1>5, <2>1
  <2>. QED BY <2>2, <2>3, SetCopierType
<1>6. ASSUME SetCopier(r, i, [c EXCEPT !.at = "close", !.hand = Nil])
      PROVE  /\ copier'[r][i].at = "close"
             /\ \A q \in Conns, j \in Directions : q # r \/ j # i => copier'[q][j] = copier[q][j]
  <2>1. PICK e : e = [c EXCEPT !.at = "close", !.hand = Nil] OBVIOUS
  <2>2. e \in Copier /\ e.at = "close" BY <2>1 DEF Copier
  <2>3. SetCopier(r, i, e) BY <1>6, <2>1
  <2>. QED BY <2>2, <2>3, SetCopierType
<1>7. \/ Put(k, c.hand) /\ SetCopier(r, i, [at |-> "read", hand |-> Nil, n |-> c.n + 1])
      \/ SetCopier(r, i, [c EXCEPT !.at = "close", !.hand = Nil]) /\ out' = out
  BY <1>1, <1>2, Zenon DEF CopyWrite
<1>. QED BY <1>1, <1>2, <1>3, <1>4, <1>5, <1>6, <1>7, Zenon

\* Any other step leaves a copier alone or brings it to its end.
LEMMA OtherCopier ==
  ASSUME RelayInv, NumbersOK, [Next]_vars, NEW r \in Conns, NEW i \in Directions,
         ~CopyRead(r, i), ~CopyWrite(r, i)
  PROVE  copier'[r][i] = copier[r][i] \/ copier'[r][i].at \in {"close", "over"}
<1>1. ASSUME NEW q \in Conns, NEW j \in Directions, CopyEOF(q, j)
      PROVE  copier'[r][i] = copier[r][i] \/ copier'[r][i].at \in {"close", "over"}
  <2>1. PICK c \in Copier : c = copier[q][j] BY CopierFields
  <2>2. PICK e : e = [c EXCEPT !.at = "close"] OBVIOUS
  <2>3. e \in Copier /\ e.at = "close" BY <2>2 DEF Copier
  <2>4. SetCopier(q, j, e) BY <1>1, <2>1, <2>2 DEF CopyEOF
  <2>. QED BY <2>3, <2>4, SetCopierType
<1>2. ASSUME NEW q \in Conns, NEW j \in Directions, CopyClose(q, j)
      PROVE  copier'[r][i] = copier[r][i] \/ copier'[r][i].at \in {"close", "over"}
  <2>1. PICK c \in Copier : c = copier[q][j] BY CopierFields
  <2>2. PICK e : e = [c EXCEPT !.at = "over", !.n = 0] OBVIOUS
  <2>3. e \in Copier /\ e.at = "over" BY <2>2 DEF Copier
  <2>4. SetCopier(q, j, e) BY <1>2, <2>1, <2>2 DEF CopyClose
  <2>. QED BY <2>3, <2>4, SetCopierType
<1>3. ASSUME NEW q \in Conns, NEW j \in Directions, CopyRead(q, j) \/ CopyWrite(q, j)
      PROVE  copier'[r][i] = copier[r][i]
  <2>1. q # r \/ j # i BY <1>3
  <2>. QED BY <1>3, <2>1, ReadEffect, WriteEffect
<1>4. ASSUME NEW k \in Conns, Send(k) PROVE UNCHANGED copier BY <1>4 DEF Send
<1>. QED BY <1>1, <1>2, <1>3, <1>4, StreamSteps DEF Copy

\* Chunks enter the buffers by Send and leave them by CopyRead.
LEMMA BufferSteps ==
  ASSUME [Next]_vars
  PROVE  \/ \E k \in Conns : Send(k)
         \/ \E r \in Conns, i \in Directions : CopyRead(r, i)
         \/ UNCHANGED <<sent, inbuf>>
<1>1. ASSUME NEW k \in Conns, (\E s \in Sessions : Dial(k, s)) \/ HangUp(k) \/ Client(k)
      PROVE  UNCHANGED <<sent, inbuf>>
  BY <1>1 DEF Dial, HangUp, Client, ReadHandshakeAck, Receive
<1>2. ASSUME NEW k \in Conns, Handler(k) PROVE UNCHANGED <<sent, inbuf>>
  BY <1>2 DEF Handler, ReadHandshake, BadHandshake, Lookup, AddPeer, Ack, Count, clientVars
<1>3. ASSUME (\E r \in Conns : Relay(r)) \/ Close PROVE UNCHANGED <<sent, inbuf>>
  BY <1>3 DEF Relay, RelayWait, CloseSession, Delete, Close, clientVars
<1>4. ASSUME NEW r \in Conns, NEW i \in Directions,
             CopyEOF(r, i) \/ CopyWrite(r, i) \/ CopyClose(r, i)
      PROVE  UNCHANGED <<sent, inbuf>>
  BY <1>4 DEF CopyEOF, CopyWrite, CopyClose, clientVars
<1>5. CASE UNCHANGED vars BY <1>5 DEF vars, clientVars
<1>. QED BY <1>1, <1>2, <1>3, <1>4, <1>5, Zenon DEF Next, Copy

\* So the numbers stay right, and a copier that reads counts one more.
LEMMA NumberSteps ==
  ASSUME RelayInv, NumbersOK, [Next]_vars
  PROVE  /\ NumbersOK'
         /\ \A k \in Conns :
               Fetched(k)' = IF \E r \in Conns, i \in Directions : CopyRead(r, i) /\ Source(r, i) = k
                             THEN Fetched(k) + 1 ELSE Fetched(k)
<1>1. /\ inbuf \in [Conns -> Seq(Chunk)] /\ sent \in [Conns -> Nat]
  BY DEF RelayInv, TypeOK, StreamTypeOK, LinkTypeOK
<1>2. \A k \in Conns : Len(inbuf[k]) \in Nat /\ sent[k] \in Nat /\ Fetched(k) \in Int
  BY <1>1 DEF Fetched
<1>3. CASE UNCHANGED <<sent, inbuf>>
  <2>1. NumbersOK' BY <1>3 DEF NumbersOK, Fetched
  <2>2. \A k \in Conns : Fetched(k)' = Fetched(k) BY <1>3 DEF Fetched
  <2>3. \A r \in Conns, i \in Directions : ~CopyRead(r, i)
    <3>. SUFFICES ASSUME NEW r \in Conns, NEW i \in Directions, CopyRead(r, i) PROVE FALSE OBVIOUS
    <3>1. PICK k \in Conns : inbuf' = [inbuf EXCEPT ![k] = Tail(inbuf[k])] /\ inbuf[k] # <<>>
      BY ReadEffect
    <3>2. inbuf[k] = Tail(inbuf[k]) BY <1>1, <1>3, <3>1
    <3>3. PICK n \in Nat : n = Len(inbuf[k]) BY <1>2
    <3>4. PICK t \in Seq(Chunk) : t = inbuf[k] BY <1>1
    <3>5. Len(Tail(t)) = Len(t) - 1 BY <3>1, <3>4
    <3>6. n = n - 1 BY <3>2, <3>3, <3>4, <3>5
    <3>. QED BY <3>6
  <2>. QED BY <2>1, <2>2, <2>3
<1>4. ASSUME NEW q \in Conns, Send(q)
      PROVE  /\ NumbersOK' /\ \A k \in Conns : Fetched(k)' = Fetched(k)
             /\ \A r \in Conns, i \in Directions : ~CopyRead(r, i)
  <2>1. PICK x : x = [from |-> q, n |-> sent[q] + 1] OBVIOUS
  <2>2. x.n = sent[q] + 1 /\ x \in Chunk BY <1>2, <2>1 DEF Chunk
  <2>3. /\ inbuf' = [inbuf EXCEPT ![q] = Append(inbuf[q], x)]
        /\ sent' = [sent EXCEPT ![q] = sent[q] + 1]
    BY <1>4, <2>1 DEF Send
  <2>4. ASSUME NEW k \in Conns
        PROVE  /\ Fetched(k)' = Fetched(k)
               /\ \A j \in 1 .. Len(inbuf'[k]) : inbuf'[k][j].n = Fetched(k) + j
    <3>1. CASE k # q
      <4>1. inbuf'[k] = inbuf[k] /\ sent'[k] = sent[k] BY <1>1, <2>3, <3>1
      <4>. QED BY <4>1 DEF Fetched, NumbersOK
    <3>2. CASE k = q
      <4>1. inbuf'[k] = Append(inbuf[k], x) /\ sent'[k] = sent[k] + 1 BY <1>1, <2>3, <3>2
      <4>2. inbuf[k] \in Seq(Chunk) BY <1>1
      <4>3. /\ Len(inbuf'[k]) = Len(inbuf[k]) + 1 /\ inbuf'[k][Len(inbuf[k]) + 1] = x
            /\ \A j \in 1 .. Len(inbuf[k]) : inbuf'[k][j] = inbuf[k][j]
        BY <2>2, <4>1, <4>2
      <4>4. Fetched(k)' = Fetched(k)
        <5>1. PICK m \in Nat, n \in Nat : m = sent[k] /\ n = Len(inbuf[k]) BY <1>2
        <5>2. sent'[k] = m + 1 /\ Len(inbuf'[k]) = n + 1 BY <4>1, <4>3, <5>1
        <5>3. (m + 1) - (n + 1) = m - n OBVIOUS
        <5>. QED BY <5>1, <5>2, <5>3 DEF Fetched
      <4>5. x.n = Fetched(k) + (Len(inbuf[k]) + 1) BY <1>2, <2>2, <3>2 DEF Fetched
      <4>6. ASSUME NEW j \in 1 .. Len(inbuf'[k]) PROVE inbuf'[k][j].n = Fetched(k) + j
        <5>1. j = Len(inbuf[k]) + 1 \/ j \in 1 .. Len(inbuf[k]) BY <1>2, <4>3
        <5>. QED BY <4>3, <4>5, <5>1 DEF NumbersOK
      <4>. QED BY <4>4, <4>6
    <3>. QED BY <3>1, <3>2
  <2>5. NumbersOK' BY <2>4 DEF NumbersOK
  <2>6. \A r \in Conns, i \in Directions : ~CopyRead(r, i)
    <3>1. sent' # sent BY <1>1, <1>2, <2>3
    <3>. QED BY <3>1 DEF CopyRead
  <2>. QED BY <2>4, <2>5, <2>6
<1>5. ASSUME NEW r \in Conns, NEW i \in Directions, CopyRead(r, i)
      PROVE  /\ NumbersOK'
             /\ \A k \in Conns : Fetched(k)' = IF k = Source(r, i) THEN Fetched(k) + 1 ELSE Fetched(k)
             /\ \A q \in Conns, j \in Directions : CopyRead(q, j) => Source(q, j) = Source(r, i)
  <2>1. PICK p \in Conns : p = Source(r, i) /\ sent' = sent /\ inbuf[p] # <<>>
                           /\ inbuf' = [inbuf EXCEPT ![p] = Tail(inbuf[p])]
    BY <1>5, ReadEffect
  <2>2. inbuf[p] \in Seq(Chunk) BY <1>1
  <2>3. /\ inbuf'[p] = Tail(inbuf[p]) /\ Len(inbuf'[p]) = Len(inbuf[p]) - 1
        /\ \A j \in 1 .. Len(inbuf'[p]) : j + 1 \in 1 .. Len(inbuf[p])
                                          /\ inbuf'[p][j] = inbuf[p][j + 1]
    BY <1>1, <2>1, <2>2
  <2>4. ASSUME NEW k \in Conns, k # p
        PROVE  inbuf'[k] = inbuf[k] /\ Fetched(k)' = Fetched(k)
    BY <1>1, <2>1, <2>4 DEF Fetched
  <2>5. Fetched(p)' = Fetched(p) + 1 BY <1>2, <2>1, <2>3 DEF Fetched
  <2>6. ASSUME NEW k \in Conns, NEW j \in 1 .. Len(inbuf'[k])
        PROVE  inbuf'[k][j].n = Fetched(k)' + j
    <3>1. CASE k # p BY <2>4, <2>6, <3>1 DEF NumbersOK
    <3>2. CASE k = p
      <4>1. inbuf'[k][j].n = Fetched(k) + (j + 1) BY <2>3, <2>6, <3>2 DEF NumbersOK
      <4>2. j \in Int BY <2>3, <3>2
      <4>3. Fetched(k) + (j + 1) = (Fetched(k) + 1) + j BY <1>2, <4>2
      <4>. QED BY <2>5, <3>2, <4>1, <4>3
    <3>. QED BY <3>1, <3>2
  <2>7. NumbersOK' BY <2>6 DEF NumbersOK
  <2>8. ASSUME NEW q \in Conns, NEW j \in Directions, CopyRead(q, j) PROVE Source(q, j) = p
    <3>1. PICK k \in Conns : k = Source(q, j) /\ inbuf' = [inbuf EXCEPT ![k] = Tail(inbuf[k])]
                             /\ inbuf[k] # <<>>
      BY <2>8, ReadEffect
    <3>2. PICK n \in Nat : n = Len(inbuf[k]) BY <1>2
    <3>3. Len(inbuf'[k]) = n - 1 /\ n - 1 # n BY <1>1, <3>1, <3>2
    <3>. QED BY <2>4, <3>1, <3>2, <3>3
  <2>. QED BY <2>1, <2>4, <2>5, <2>7, <2>8
<1>. QED BY <1>3, <1>4, <1>5, BufferSteps

----------------------------------------------------------------------------
\* The invariant.

\* Only Receive of a client that has its acknowledgement reads anything.
LEMMA QuietInductive ==
  ASSUME RelayInv, QuietOK, [Next]_vars
  PROVE  QuietOK'
<1>. SUFFICES ASSUME NEW k \in Conns
              PROVE  /\ at'[k] = "none" => client'[k] = "none"
                     /\ client'[k] # "up" => got'[k] = <<>>
  BY DEF QuietOK
<1>1. /\ client \in [Conns -> {"none", "wait", "up"}]
      /\ got \in [Conns -> Seq(Items)]
      /\ at \in [Conns -> {"none", "handshake", "lookup", "add", "ack", "count", "done"}]
  BY DEF RelayInv, TypeOK, LinkTypeOK, StreamTypeOK, HandlerTypeOK, Items
<1>2. /\ at[k] = "none" => client[k] = "none"
      /\ client[k] # "up" => got[k] = <<>>
  BY DEF QuietOK
<1>3. at'[k] = "none" => at[k] = "none" BY ForwardSteps DEF Forward
<1>4. ASSUME NEW q \in Conns, NEW s \in Sessions, Dial(q, s)
      PROVE  /\ at'[k] = "none" => client'[k] = "none"
             /\ client'[k] # "up" => got'[k] = <<>>
  BY <1>1, <1>2, <1>4 DEF Dial, Goto
<1>5. ASSUME NEW q \in Conns, ReadHandshakeAck(q)
      PROVE  /\ at'[k] = "none" => client'[k] = "none"
             /\ client'[k] # "up" => got'[k] = <<>>
  <2>1. UNCHANGED <<at, got>> /\ client[q] = "wait" BY <1>5 DEF ReadHandshakeAck
  <2>2. client'[k] = client[k] \/ (client'[k] = "up" /\ q = k)
    BY <1>1, <1>5 DEF ReadHandshakeAck
  <2>. QED BY <1>2, <2>1, <2>2
<1>6. ASSUME NEW q \in Conns, Receive(q)
      PROVE  /\ at'[k] = "none" => client'[k] = "none"
             /\ client'[k] # "up" => got'[k] = <<>>
  <2>1. UNCHANGED <<at, client>> /\ client[q] = "up" /\ (k # q => got'[k] = got[k])
    BY <1>1, <1>6 DEF Receive
  <2>. QED BY <1>2, <2>1
<1>7. ASSUME UNCHANGED <<client, got>>
      PROVE  /\ at'[k] = "none" => client'[k] = "none"
             /\ client'[k] # "up" => got'[k] = <<>>
  BY <1>2, <1>3, <1>7
<1>8. ASSUME NEW q \in Conns, Send(q) \/ HangUp(q) PROVE UNCHANGED <<client, got>>
  BY <1>8 DEF Send, HangUp
<1>9. ASSUME NEW q \in Conns, Handler(q) PROVE UNCHANGED <<client, got>>
  BY <1>9 DEF Handler, ReadHandshake, BadHandshake, Lookup, AddPeer, Ack, Count, clientVars
<1>10. ASSUME NEW q \in Conns, NEW i \in Directions, Copy(q, i) PROVE UNCHANGED <<client, got>>
  BY <1>10 DEF Copy, CopyRead, CopyEOF, CopyWrite, CopyClose, clientVars
<1>11. ASSUME (\E r \in Conns : Relay(r)) \/ Close PROVE UNCHANGED <<client, got>>
  BY <1>11 DEF Relay, RelayWait, CloseSession, Delete, Close, clientVars
<1>12. CASE UNCHANGED vars BY <1>7, <1>12 DEF vars, clientVars
<1>. QED BY <1>4, <1>5, <1>6, <1>7, <1>8, <1>9, <1>10, <1>11, <1>12, Zenon DEF Next, Client

\* A stream without chunks gets none but from a copier.
LEMMA MildBlank ==
  ASSUME RelayInv, NEW k \in Conns, Mild(k), Blank(Stream(k))
  PROVE  Blank(Stream(k)')
<1>1. PICK s \in Seq(Items), g \in Seq(Items), t \in Seq(Items) :
         s = Stream(k) /\ g = got[k] /\ t = out[k] /\ s = g \o t
  BY StreamTyped DEF Stream
<1>2. \A j \in 1 .. Len(s) : s[j].from = Nil BY <1>1 DEF Blank
<1>3. Blank(g)
  <2>0. s = g \o t BY <1>1
  <2>1. /\ Len(g) \in Nat /\ Len(s) = Len(g) + Len(t) /\ Len(t) \in Nat
        /\ \A j \in 1 .. Len(g) : j \in 1 .. Len(s) /\ s[j] = g[j]
    BY <2>0
  <2>. QED BY <1>2, <2>1 DEF Blank
<1>4. ASSUME NEW n \in 1 .. Len(s) PROVE Blank(SubSeq(s, n + 1, Len(s)))
  BY <1>2, AckTaken DEF Blank
<1>5. ASSUME NEW x \in {Ok, Error} PROVE Blank(Append(s, x))
  <2>1. x \in Items /\ x.from = Nil BY DEF Items, Ok, Error
  <2>2. PICK u : u = Append(s, x) OBVIOUS
  <2>3. /\ Len(u) = Len(s) + 1 /\ Len(s) \in Nat /\ u[Len(s) + 1] = x
        /\ \A j \in 1 .. Len(s) : u[j] = s[j]
    BY <2>1, <2>2
  <2>4. \A j \in 1 .. Len(u) : j = Len(s) + 1 \/ j \in 1 .. Len(s) BY <2>3
  <2>5. \A j \in 1 .. Len(u) : u[j].from = Nil BY <1>2, <2>1, <2>3, <2>4
  <2>. QED BY <2>2, <2>5 DEF Blank
<1>. QED BY <1>1, <1>3, <1>4, <1>5 DEF Mild

\* A relay stays one of the client's session.
LEMMA RelayStays ==
  ASSUME RelayInv, [Next]_vars, NEW r \in Conns, NEW k \in Conns,
         relay[r] # "none", joined[r] = joined[k]
  PROVE  relay'[r] # "none" /\ joined'[r] = joined'[k]
<1>1. at[r] = "done" /\ joined[r] \in Conns BY DEF RelayInv, RelayShape
<1>2. at[k] # "lookup" BY <1>1, RelayNil DEF RelayInv, HandlerShape
<1>. QED BY <1>1, <1>2, ForwardSteps DEF Forward

\* Chunks come from a relay of the session.
LEMMA RelayedInductive ==
  ASSUME RelayInv, PeersOK, QuietOK, RelayedOK, [Next]_vars
  PROVE  RelayedOK'
<1>. SUFFICES ASSUME NEW k \in Conns
              PROVE  Blank(Stream(k)') \/ \E r \in Conns : relay'[r] # "none" /\ joined'[r] = joined'[k]
  BY DEF RelayedOK
<1>1. ASSUME NEW r \in Conns, relay[r] # "none", joined[r] = joined[k]
      PROVE  \E q \in Conns : relay'[q] # "none" /\ joined'[q] = joined'[k]
  BY <1>1, RelayStays
<1>2. ASSUME NEW r \in Conns, NEW i \in Directions, CopyWrite(r, i), Destination(r, i) = k
      PROVE  relay[r] # "none" /\ joined[r] = joined[k]
  <2>1. relay[r] # "none" BY <1>2 DEF CopyWrite
  <2>2. joined[r] \in Conns /\ 3 - i \in 1 .. Len(peers[joined[r]])
    BY <2>1, PeersOfRelay
  <2>. QED BY <1>2, <2>1, <2>2 DEF PeersOK, Destination
<1>3. CASE \A r \in Conns, i \in Directions : CopyWrite(r, i) => Destination(r, i) # k
  <2>1. Mild(k) BY <1>3, MildSteps
  <2>2. Blank(Stream(k)) => Blank(Stream(k)') BY <2>1, MildBlank
  <2>. QED BY <1>1, <2>2 DEF RelayedOK
<1>. QED BY <1>1, <1>2, <1>3

\* What is no write of a copier leaves no gap.
LEMMA MildKeeps ==
  ASSUME RelayInv, NEW k \in Conns, Mild(k), Unbroken(Stream(k))
  PROVE  /\ Unbroken(Stream(k)')
         /\ \A v \in Int : ~hung'[k] /\ LastIs(Stream(k), v) => ~hung[k] /\ LastIs(Stream(k)', v)
<1>1. PICK s \in Seq(Items), g \in Seq(Items), t \in Seq(Items) :
         s = Stream(k) /\ g = got[k] /\ s = g \o t
  BY StreamTyped DEF Stream
<1>2. PICK u : u = Stream(k)' OBVIOUS
<1>3. Unbroken(s) BY <1>1
<1>4. ~hung'[k] => ~hung[k] BY DEF Mild
<1>5. CASE u = s BY <1>1, <1>2, <1>3, <1>4, <1>5
<1>6. CASE hung'[k] /\ u = g
  <2>1. Unbroken(g) BY <1>1, <1>3, UnbrokenStart
  <2>. QED BY <1>2, <1>6, <2>1
<1>7. ASSUME NEW n \in 1 .. Len(s), u = SubSeq(s, n + 1, Len(s))
      PROVE  Unbroken(u) /\ \A v \in Int : LastIs(s, v) => LastIs(u, v)
  BY <1>3, <1>7, UnbrokenRest
<1>8. ASSUME NEW x \in {Ok, Error}, u = Append(s, x)
      PROVE  Unbroken(u) /\ \A v \in Int : LastIs(s, v) => LastIs(u, v)
  <2>1. x \in Items /\ ~(x.from # Nil) BY DEF Items, Ok, Error
  <2>2. 0 \in Int OBVIOUS
  <2>3. Unbroken(u) BY <1>3, <1>8, <2>1, <2>2, UnbrokenAppend
  <2>4. ASSUME NEW v \in Int, LastIs(s, v) PROVE LastIs(u, v)
    BY <1>8, <2>1, <2>4, LastAppend
  <2>. QED BY <2>3, <2>4
<1>9. \/ u = s \/ (hung'[k] /\ u = g)
      \/ \E n \in 1 .. Len(s) : u = SubSeq(s, n + 1, Len(s))
      \/ \E x \in {Ok, Error} : u = Append(s, x)
  BY <1>1, <1>2 DEF Mild
<1>. QED BY <1>1, <1>2, <1>4, <1>5, <1>6, <1>7, <1>8, <1>9

\* A relay begins with Count.
LEMMA RelayStart ==
  ASSUME RelayInv, [Next]_vars, NEW r \in Conns, relay[r] = "none", relay'[r] # "none"
  PROVE  Count(r)
<1>1. relay \in [Conns -> {"none", "run", "closing", "delete", "over"}]
  BY DEF RelayInv, TypeOK, RelayTypeOK
<1>2. ASSUME NEW q \in Conns, (\E s \in Sessions : Dial(q, s)) \/ Send(q) \/ HangUp(q) \/ Client(q)
      PROVE  UNCHANGED relay
  BY <1>2 DEF Dial, Send, HangUp, Client, ReadHandshakeAck, Receive
<1>3. ASSUME NEW q \in Conns, Handler(q), ~Count(q) PROVE UNCHANGED relay
  BY <1>3 DEF Handler, ReadHandshake, BadHandshake, Lookup, AddPeer, Ack
<1>4. ASSUME NEW q \in Conns, NEW i \in Directions, Copy(q, i) PROVE UNCHANGED relay
  BY <1>4 DEF Copy, CopyRead, CopyEOF, CopyWrite, CopyClose
<1>5. ASSUME NEW q \in Conns, Relay(q) PROVE relay'[r] = relay[r]
  BY <1>1, <1>5 DEF Relay, RelayWait, CloseSession, Delete
<1>6. ASSUME NEW q \in Conns, Count(q) PROVE q = r
  BY <1>1, <1>6 DEF Count
<1>7. CASE Close BY <1>7 DEF Close
<1>8. CASE UNCHANGED vars BY <1>8 DEF vars
<1>. QED BY <1>2, <1>3, <1>4, <1>5, <1>6, <1>7, <1>8, Zenon DEF Next

\* A relay that begins finds no chunk in the streams of its clients.
LEMMA ChainStart ==
  ASSUME RelayInv, PeersOK, RelayedOK, [Next]_vars,
         NEW r \in Conns, relay[r] = "none", relay'[r] # "none", Alone(r)',
         NEW i \in Directions
  PROVE  CopiedOK(r, i)'
<1>1. Count(r) BY RelayStart
<1>2. /\ UNCHANGED <<joined, peers, copier, out, got, inbuf, sent, hung>>
      /\ at[r] = "count" /\ Len(peers[joined[r]]) = 2
      /\ \A q \in Conns : relay[q] # "none" => relay'[q] # "none"
  <2>1. UNCHANGED <<joined, peers, copier, out, got, inbuf, sent, hung>> /\ at[r] = "count"
    BY <1>1 DEF Count, clientVars, session
  <2>2. Len(peers[joined[r]]) = 2 BY <1>1 DEF Count
  <2>3. \A q \in Conns : relay[q] # "none" => relay'[q] # "none" BY ForwardSteps DEF Forward
  <2>. QED BY <2>1, <2>2, <2>3
<1>3. joined[r] \in Conns BY <1>2 DEF RelayInv, HandlerShape
<1>4. peers[joined[r]] \in Seq(Conns) BY <1>3 DEF RelayInv, TypeOK, SessionTypeOK
<1>5. 3 - i \in 1 .. Len(peers[joined[r]]) BY <1>2 DEF Directions
<1>6. PICK k \in Conns : k = Destination(r, i) BY <1>4, <1>5 DEF Destination
<1>7. joined[k] = joined[r] BY <1>3, <1>5, <1>6 DEF PeersOK, Destination
<1>8. ASSUME NEW q \in Conns, relay[q] # "none", joined[q] = joined[k] PROVE FALSE
  <2>1. q = r BY <1>2, <1>7, <1>8 DEF Alone
  <2>. QED BY <1>8, <2>1
<1>9. Blank(Stream(k)) BY <1>8 DEF RelayedOK
<1>10. PICK s : s = Stream(k) OBVIOUS
<1>11. \A j \in 1 .. Len(s) : s[j].from = Nil BY <1>9, <1>10 DEF Blank
<1>12. Unbroken(s) BY <1>11 DEF Unbroken
<1>13. \A v : LastIs(s, v) BY <1>11 DEF LastIs
<1>14. Stream(k)' = s BY <1>2, <1>10 DEF Stream
<1>15. Destination(r, i)' = k BY <1>2, <1>6 DEF Destination
<1>16. copier'[r][i].at # "write"
  <2>1. copier[r][i].at # "write" BY DEF RelayInv, CopierShape
  <2>. QED BY <1>2, <2>1
<1>. QED BY <1>12, <1>13, <1>14, <1>15, <1>16 DEF CopiedOK, Copied

\* The copiers of a single relay leave no gap.
LEMMA ChainInductive ==
  ASSUME RelayInv, PeersOK, ChainInv, [Next]_vars
  PROVE  ChainOK'
<1>. SUFFICES ASSUME NEW r \in Conns, relay'[r] # "none", Alone(r)', NEW i \in Directions
              PROVE  CopiedOK(r, i)'
  BY DEF ChainOK
<1>. USE DEF ChainInv
<1>1. CASE relay[r] = "none" BY <1>1, ChainStart
<1>2. CASE relay[r] # "none"
  <2>1. /\ Alone(r)
        /\ Source(r, i)' = Source(r, i) /\ Destination(r, i)' = Destination(r, i)
    BY <1>2, AloneBefore
  <2>2. PICK a \in Conns, k \in Conns : a = Source(r, i) /\ k = Destination(r, i)
    BY <1>2, PeersOfRelay
  <2>3. PICK c, d, v, w, s, t :
           /\ c = copier[r][i] /\ d = copier'[r][i] /\ v = Fetched(a) /\ w = Fetched(a)'
           /\ s = Stream(k) /\ t = Stream(k)'
    OBVIOUS
  <2>4. Copied(c, v, s, hung[k])
    BY <1>2, <2>1, <2>2, <2>3 DEF ChainOK, CopiedOK, Copied
  <2>5. SUFFICES Copied(d, w, t, hung'[k])
    BY <2>1, <2>2, <2>3 DEF CopiedOK, Copied
  <2>6. v \in Int /\ s \in Seq(Items) /\ hung[k] \in BOOLEAN
    <3>1. sent[a] \in Nat /\ inbuf[a] \in Seq(Chunk)
      BY DEF RelayInv, TypeOK, LinkTypeOK, StreamTypeOK
    <3>2. Fetched(a) \in Int BY <3>1 DEF Fetched
    <3>. QED BY <2>3, <3>2, StreamTyped
  <2>7. CASE CopyRead(r, i)
    <3>1. c.at = "read" /\ d.at = "write" /\ d.hand.n = v + 1
      BY <2>2, <2>3, <2>7, ReadEffect
    <3>2. w = v + 1 BY <2>2, <2>3, <2>7, NumberSteps
    <3>3. t = s /\ hung'[k] = hung[k] BY <2>3, <2>7 DEF CopyRead, Stream
    <3>4. (v + 1) - 1 = v BY <2>6
    <3>. QED BY <2>4, <3>1, <3>2, <3>3, <3>4 DEF Copied
  <2>8. CASE CopyWrite(r, i)
    <3>1. /\ c.at = "write" /\ c.hand \in Chunk
          /\ sent' = sent /\ inbuf' = inbuf /\ got' = got /\ hung' = hung
          /\ \/ d.at = "read" /\ Put(k, c.hand)
             \/ d.at = "close" /\ out' = out
      BY <2>2, <2>3, <2>8, WriteEffect
    <3>2. w = v BY <2>3, <3>1 DEF Fetched
    <3>3. PICK x \in Items : x = c.hand BY <3>1 DEF Items
    <3>4. x.n = v /\ x.from # Nil BY <2>4, <3>1, <3>3, RelayNil DEF Copied, Chunk
    <3>5. CASE out' = out /\ (d.at = "close" \/ (d.at = "read" /\ hung[k]))
      <4>1. t = s BY <2>3, <3>1, <3>5 DEF Stream
      <4>. QED BY <2>4, <3>1, <3>5, <4>1 DEF Copied
    <3>6. CASE d.at = "read" /\ ~hung[k] /\ Put(k, x)
      <4>1. out'[k] = Append(out[k], x) BY <3>6, PutType
      <4>2. PICK g \in Seq(Items), y \in Seq(Items) : g = got[k] /\ y = out[k]
        BY StreamTyped
      <4>3. t = g \o Append(y, x) /\ s = g \o y BY <2>3, <3>1, <4>1, <4>2 DEF Stream
      <4>4. t = Append(s, x) BY <4>3, StreamParts
      <4>5. Unbroken(s) /\ LastIs(s, v - 1) BY <2>4, <3>1, <3>6 DEF Copied
      <4>6. v - 1 \in Int /\ x.n = (v - 1) + 1 BY <2>6, <3>4
      <4>7. Unbroken(t) BY <2>6, <4>4, <4>5, <4>6, UnbrokenAppend
      <4>8. LastIs(t, v) BY <2>6, <3>4, <4>4, LastAppend
      <4>. QED BY <3>2, <3>6, <4>7, <4>8 DEF Copied
    <3>7. hung[k] /\ Put(k, x) => out' = out BY DEF Put
    <3>. QED BY <2>6, <3>1, <3>3, <3>5, <3>6, <3>7
  <2>9. CASE ~CopyRead(r, i) /\ ~CopyWrite(r, i)
    <3>1. d = c \/ d.at \in {"close", "over"} BY <2>3, <2>9, OtherCopier
    <3>2. ASSUME NEW q \in Conns, NEW j \in Directions, CopyRead(q, j) \/ CopyWrite(q, j)
          PROVE  Source(q, j) # a /\ Destination(q, j) # k
      <4>1. relay[q] # "none" /\ (q # r \/ j # i) BY <2>9, <3>2 DEF CopyRead, CopyWrite
      <4>. QED BY <1>2, <2>1, <2>2, <4>1, EndsOwn
    <3>3. w = v BY <2>3, <3>2, NumberSteps
    <3>4. Mild(k) BY <3>2, MildSteps
    <3>5. Unbroken(s) BY <2>4 DEF Copied
    <3>6. Unbroken(t) /\ \A n \in Int : ~hung'[k] /\ LastIs(s, n) => ~hung[k] /\ LastIs(t, n)
      BY <2>3, <3>4, <3>5, MildKeeps
    <3>7. ~hung'[k] => ~hung[k] BY <3>4 DEF Mild
    <3>8. v - 1 \in Int BY <2>6
    <3>. QED BY <2>4, <2>6, <3>1, <3>3, <3>6, <3>7, <3>8 DEF Copied
  <2>. QED BY <2>7, <2>8, <2>9
<1>. QED BY <1>1, <1>2

\* Numbers, streams and copiers fit together at all times.
LEMMA ChainInvariant == Spec => [](FlowInv /\ ChainInv)
<1>1. Init => ChainInv
  <2>. SUFFICES ASSUME Init PROVE ChainInv OBVIOUS
  <2>1. NumbersOK /\ QuietOK BY DEF Init, NumbersOK, QuietOK
  <2>2. \A k \in Conns : Stream(k) = <<>> BY DEF Init, Stream
  <2>3. RelayedOK BY <2>2 DEF RelayedOK, Blank
  <2>4. ChainOK BY DEF Init, ChainOK
  <2>. QED BY <2>1, <2>3, <2>4 DEF ChainInv
<1>2. FlowInv /\ ChainInv /\ [Next]_vars => ChainInv'
  BY NumberSteps, QuietInductive, RelayedInductive, ChainInductive DEF FlowInv, ChainInv
<1>. QED BY <1>1, <1>2, FlowInvariant, PTL DEF Spec

\* In a session with a single relay no chunk is reordered, repeated or skipped,
\* for any number of connections, sessions and chunks.
THEOREM StreamUnbroken == Spec => []UnbrokenIfSingle
<1>1. FlowInv /\ ChainInv => UnbrokenIfSingle
  <2>. SUFFICES ASSUME FlowInv, ChainInv, NEW o \in Conns, \A q, r \in Relays(o) : q = r,
                       NEW k \in Peers(o)
                PROVE  Unbroken(Stream(k))
    BY DEF UnbrokenIfSingle
  <2>1. PICK j \in 1 .. Len(peers[o]) : k = peers[o][j] BY DEF Peers
  <2>2. peers[o] \in Seq(Conns) BY DEF FlowInv, RelayInv, TypeOK, SessionTypeOK
  <2>3. k \in Conns /\ joined[k] = o BY <2>1, <2>2 DEF FlowInv, PeersOK
  <2>4. CASE Blank(Stream(k))
    <3>1. PICK s : s = Stream(k) OBVIOUS
    <3>2. \A m \in 1 .. Len(s) : s[m].from = Nil BY <2>4, <3>1 DEF Blank
    <3>3. Unbroken(s) BY <3>2 DEF Unbroken
    <3>. QED BY <3>1, <3>3
  <2>5. ASSUME NEW r \in Conns, relay[r] # "none", joined[r] = joined[k]
        PROVE  Unbroken(Stream(k))
    <3>1. joined[r] = o /\ r \in Relays(o) BY <2>3, <2>5 DEF Relays
    <3>2. Alone(r) BY <3>1 DEF Alone, Relays
    <3>3. Len(peers[o]) = 2 BY <2>5, <3>1 DEF FlowInv, RelayInv, RelayShape
    <3>4. 3 - j \in Directions /\ 3 - (3 - j) = j BY <2>1, <3>3 DEF Directions
    <3>5. PICK i \in Directions : i = 3 - j BY <3>4
    <3>6. Destination(r, i) = k BY <2>1, <3>1, <3>4, <3>5 DEF Destination
    <3>7. CopiedOK(r, i) BY <2>5, <3>2 DEF ChainInv, ChainOK
    <3>. QED BY <3>6, <3>7 DEF CopiedOK, Copied
  <2>. QED BY <2>3, <2>4, <2>5 DEF ChainInv, RelayedOK
<1>. QED BY <1>1, ChainInvariant, PTL

----------------------------------------------------------------------------
\* Bytes.

\* Who is about to be acknowledged, counts the peers or has started a relay is
\* a peer of its session.
MembersOK ==
    \A k \in Conns : at[k] \in {"ack", "count"} \/ relay[k] # "none" => k \in Peers(joined[k])

\* Where the chunks are in a stream.
Positions(s) == {j \in 1 .. Len(s) : s[j].from # Nil}

\* How many chunks are in the stream to k.
Arrivals(k) == Cardinality(Chunks(k))

\* The bytes of a session with two peers.
AccountOK ==
    \A o \in Conns : Len(peers[o]) = 2 =>
       Arrivals(peers[o][1]) + Arrivals(peers[o][2])
          <= bytes[o] + (Held(peers[o][1]) + Held(peers[o][2]))

\* A handler becomes a peer of its session before it goes on.
LEMMA MemberSteps ==
  ASSUME RelayInv, [Next]_vars, NEW k \in Conns, at'[k] \in {"ack", "count"}
  PROVE  at[k] \in {"ack", "count"} \/ Adds(k)
<1>0. at \in [Conns -> {"none", "handshake", "lookup", "add", "ack", "count", "done"}]
  BY DEF RelayInv, TypeOK, HandlerTypeOK
<1>1. ASSUME NEW q \in Conns, NEW s \in Sessions, Dial(q, s) PROVE at[k] \in {"ack", "count"}
  BY <1>0, <1>1 DEF Dial, Goto
<1>2. ASSUME NEW q \in Conns, Send(q) \/ HangUp(q) \/ Client(q) PROVE at[k] \in {"ack", "count"}
  BY <1>2 DEF Send, HangUp, Client, ReadHandshakeAck, Receive
<1>3. ASSUME NEW q \in Conns, ReadHandshake(q) \/ BadHandshake(q) \/ Ack(q) \/ Count(q)
      PROVE  at[k] \in {"ack", "count"}
  BY <1>0, <1>3 DEF ReadHandshake, BadHandshake, Ack, Count, Refuse, Goto
<1>4. ASSUME NEW q \in Conns, Lookup(q) PROVE at[k] \in {"ack", "count"}
  BY <1>0, <1>4 DEF Lookup, Refuse, Goto
<1>5. ASSUME NEW q \in Conns, AddPeer(q) PROVE at[k] \in {"ack", "count"} \/ Adds(k)
  <2>1. joined[q] \in Conns /\ at[q] = "add" BY <1>5 DEF AddPeer, RelayInv, HandlerShape
  <2>2. CASE Refuse(q) BY <1>0, <2>2 DEF Refuse, Goto
  <2>3. CASE /\ Len(peers[joined[q]]) < 2
             /\ peers' = [peers EXCEPT ![joined[q]] = Append(@, q)] /\ Goto(q, "ack")
    <3>1. Adds(q) BY <2>1, <2>3 DEF Adds, Goto
    <3>2. q = k \/ at'[k] = at[k] BY <1>0, <2>3 DEF Goto
    <3>. QED BY <3>1, <3>2
  <2>. QED BY <1>5, <2>2, <2>3, Zenon DEF AddPeer
<1>6. ASSUME NEW q \in Conns, NEW i \in Directions, Copy(q, i) PROVE at[k] \in {"ack", "count"}
  BY <1>6 DEF Copy, CopyRead, CopyEOF, CopyWrite, CopyClose
<1>7. ASSUME (\E q \in Conns : Relay(q)) \/ Close PROVE at[k] \in {"ack", "count"}
  BY <1>7 DEF Relay, RelayWait, CloseSession, Delete, Close
<1>8. CASE UNCHANGED vars BY <1>8 DEF vars
<1>. QED BY <1>1, <1>2, <1>3, <1>4, <1>5, <1>6, <1>7, <1>8, Zenon DEF Next, Handler

\* A session keeps its peers.
LEMMA PeersStay ==
  ASSUME RelayInv, [Next]_vars, NEW o \in Conns, NEW k, k \in Peers(o)
  PROVE  k \in Peers(o)'
<1>1. PICK j \in 1 .. Len(peers[o]) : k = peers[o][j] BY DEF Peers
<1>2. j \in 1 .. Len(peers'[o]) /\ peers'[o][j] = k BY <1>1, PeersKept
<1>. QED BY <1>2 DEF Peers

\* Whoever has a relay is a peer of the session.
LEMMA MembersInductive ==
  ASSUME RelayInv, MembersOK, [Next]_vars
  PROVE  MembersOK'
<1>. SUFFICES ASSUME NEW k \in Conns, at'[k] \in {"ack", "count"} \/ relay'[k] # "none"
              PROVE  k \in Peers(joined[k])'
  BY DEF MembersOK, Peers
<1>1. CASE at[k] \in {"ack", "count"} \/ relay[k] # "none"
  <2>1. PICK o \in Conns : o = joined[k] /\ at[k] # "lookup"
    BY <1>1 DEF RelayInv, HandlerShape, RelayShape
  <2>2. k \in Peers(o) BY <1>1, <2>1 DEF MembersOK
  <2>3. k \in Peers(o)' BY <2>2, PeersStay
  <2>4. joined'[k] = o BY <2>1, ForwardSteps DEF Forward
  <2>. QED BY <2>3, <2>4 DEF Peers
<1>2. CASE Adds(k)
  <2>1. PICK o \in Conns : o = joined[k] BY <1>2 DEF Adds
  <2>2. joined'[k] = o BY <1>2, <2>1, ForwardSteps DEF Adds, Forward
  <2>3. PICK t \in Seq(Conns) : t = peers[o] BY DEF RelayInv, TypeOK, SessionTypeOK
  <2>4. peers'[o] = Append(t, k)
    BY <1>2, <2>1, <2>3 DEF Adds, RelayInv, TypeOK, SessionTypeOK
  <2>5. /\ Len(t) + 1 \in 1 .. Len(Append(t, k)) /\ Append(t, k)[Len(t) + 1] = k
    OBVIOUS
  <2>6. k \in {peers'[o][j] : j \in 1 .. Len(peers'[o])} BY <2>4, <2>5
  <2>. QED BY <2>2, <2>6 DEF Peers
<1>3. at'[k] \in {"ack", "count"} => at[k] \in {"ack", "count"} \/ Adds(k) BY MemberSteps
<1>4. relay'[k] # "none" /\ relay[k] = "none" => at[k] = "count" BY ForwardSteps DEF Forward
<1>. QED BY <1>1, <1>2, <1>3, <1>4

\* The chunks of a stream are finitely many.
LEMMA PositionsFinite ==
  ASSUME NEW s \in Seq(Items)
  PROVE  IsFiniteSet(Positions(s)) /\ Cardinality(Positions(s)) \in Nat
<1>1. Len(s) \in Int /\ 1 \in Int OBVIOUS
<1>2. IsFiniteSet(1 .. Len(s)) BY <1>1, FS_Interval
<1>3. Positions(s) \in SUBSET (1 .. Len(s)) BY DEF Positions
<1>4. IsFiniteSet(Positions(s)) BY <1>2, <1>3, FS_Subset
<1>. QED BY <1>4, FS_CardinalityType

\* A stream that loses its beginning has no more chunks than before, ...
LEMMA PositionsRest ==
  ASSUME NEW s \in Seq(Items), NEW n \in 1 .. Len(s)
  PROVE  Cardinality(Positions(SubSeq(s, n + 1, Len(s)))) <= Cardinality(Positions(s))
<1>1. PICK t : t = SubSeq(s, n + 1, Len(s)) OBVIOUS
<1>2. /\ Len(s) \in Nat /\ Len(t) = Len(s) - n
      /\ \A j \in 1 .. Len(t) : n + j \in 1 .. Len(s) /\ t[j] = s[n + j]
  <2>1. CASE n = Len(s)
    <3>1. t = <<>> BY <1>1, <2>1, SubSeqProperties
    <3>. QED BY <2>1, <3>1
  <2>2. CASE n < Len(s)
    <3>1. t \in Seq(Items) /\ Len(t) = Len(s) - n /\ \A j \in 1 .. Len(s) - n : t[j] = s[n + j]
      BY <1>1, <2>2, SubSeqProperties
    <3>. QED BY <3>1
  <2>. QED BY <2>1, <2>2
<1>3. PICK f : f = [j \in Positions(t) |-> n + j] OBVIOUS
<1>4. \A j \in Positions(t) : j \in Int /\ f[j] = n + j /\ n + j \in Positions(s)
  BY <1>2, <1>3 DEF Positions
<1>5. \A i, j \in Positions(t) : f[i] = f[j] => i = j BY <1>4
<1>6. f \in [Positions(t) -> Positions(s)] BY <1>3, <1>4
<1>7. f \in Injection(Positions(t), Positions(s)) BY <1>5, <1>6 DEF Injection, IsInjective
<1>8. IsFiniteSet(Positions(s)) BY PositionsFinite
<1>9. Cardinality(Positions(t)) <= Cardinality(Positions(s)) BY <1>7, <1>8, FS_Injection
<1>. QED BY <1>1, <1>9

\* ... nor has one that loses its end, ...
LEMMA PositionsStart ==
  ASSUME NEW g \in Seq(Items), NEW t \in Seq(Items)
  PROVE  Cardinality(Positions(g)) <= Cardinality(Positions(g \o t))
<1>1. PICK s \in Seq(Items) : s = g \o t BY StreamParts
<1>2. \A j \in 1 .. Len(g) : j \in 1 .. Len(s) /\ s[j] = g[j] BY <1>1
<1>3. Positions(g) \in SUBSET Positions(s) BY <1>2 DEF Positions
<1>4. IsFiniteSet(Positions(s)) BY PositionsFinite
<1>5. Cardinality(Positions(g)) <= Cardinality(Positions(s)) BY <1>3, <1>4, FS_Subset
<1>. QED BY <1>1, <1>5

\* ... and one item adds at most one chunk.
LEMMA PositionsAppend ==
  ASSUME NEW s \in Seq(Items), NEW x \in Items
  PROVE  /\ Cardinality(Positions(Append(s, x))) <= Cardinality(Positions(s)) + 1
         /\ x.from = Nil => Cardinality(Positions(Append(s, x))) <= Cardinality(Positions(s))
<1>1. PICK t : t = Append(s, x) OBVIOUS
<1>2. PICK m \in Nat : m = Len(s) + 1 OBVIOUS
<1>3. /\ t \in Seq(Items) /\ t[m] = x
      /\ \A j \in 1 .. Len(t) : j = m \/ (j \in 1 .. Len(s) /\ t[j] = s[j])
  BY <1>1, <1>2
<1>4. Positions(t) \in SUBSET (Positions(s) \cup {m}) BY <1>3 DEF Positions
<1>5. IsFiniteSet(Positions(s)) /\ Cardinality(Positions(s)) \in Nat BY PositionsFinite
<1>6. /\ IsFiniteSet(Positions(s) \cup {m})
      /\ \/ Cardinality(Positions(s) \cup {m}) = Cardinality(Positions(s))
         \/ Cardinality(Positions(s) \cup {m}) = Cardinality(Positions(s)) + 1
  BY <1>5, FS_AddElement
<1>7. Cardinality(Positions(t)) <= Cardinality(Positions(s) \cup {m}) BY <1>4, <1>6, FS_Subset
<1>8. Cardinality(Positions(t)) \in Nat BY <1>3, PositionsFinite
<1>9. Cardinality(Positions(t)) <= Cardinality(Positions(s)) + 1
  BY <1>5, <1>6, <1>7, <1>8
<1>10. ASSUME x.from = Nil PROVE Cardinality(Positions(t)) <= Cardinality(Positions(s))
  <2>1. Positions(t) \in SUBSET Positions(s) BY <1>3, <1>10 DEF Positions
  <2>. QED BY <1>5, <2>1, FS_Subset
<1>. QED BY <1>1, <1>9, <1>10

\* What counts for the chunks of a stream.
LEMMA ArrivalsTyped ==
  ASSUME RelayInv, NEW k \in Conns
  PROVE  /\ Arrivals(k) = Cardinality(Positions(Stream(k))) /\ Arrivals(k) \in Nat
         /\ Arrivals(k)' = Cardinality(Positions(Stream(k)'))
         /\ Held(k) \in Nat
<1>1. Arrivals(k) = Cardinality(Positions(Stream(k))) BY DEF Arrivals, Chunks, Positions
<1>2. Arrivals(k)' = Cardinality(Positions(Stream(k)')) BY DEF Arrivals, Chunks, Positions
<1>3. Arrivals(k) \in Nat BY <1>1, StreamTyped, PositionsFinite
<1>4. 1 \in Directions /\ 2 \in Directions BY DEF Directions
<1>5. copier[k][1].n \in Nat /\ copier[k][2].n \in Nat BY <1>4, CopierFields
<1>6. Held(k) \in Nat BY <1>5 DEF Held
<1>. QED BY <1>1, <1>2, <1>3, <1>6

\* The same after a step.
LEMMA NextCounts ==
  ASSUME RelayInv', NEW k \in Conns
  PROVE  Arrivals(k)' \in Nat /\ Held(k)' \in Nat
<1>1. got'[k] \in Seq(Items) /\ out'[k] \in Seq(Items)
  BY DEF RelayInv, TypeOK, StreamTypeOK, Items
<1>2. PICK u \in Seq(Items) : u = Stream(k)' BY <1>1, StreamParts DEF Stream
<1>3. Arrivals(k)' = Cardinality(Positions(u)) BY <1>2 DEF Arrivals, Chunks, Positions
<1>4. copier'[k] \in [{1, 2} -> Copier] BY DEF RelayInv, TypeOK, RelayTypeOK, Directions
<1>5. copier'[k][1] \in Copier /\ copier'[k][2] \in Copier BY <1>4
<1>6. Held(k)' \in Nat BY <1>5 DEF Held, Copier
<1>. QED BY <1>3, <1>6, PositionsFinite

\* No step but a copier's write adds to the chunks in a stream.
LEMMA MildCount ==
  ASSUME RelayInv, NEW k \in Conns, Mild(k)
  PROVE  Arrivals(k)' <= Arrivals(k)
<1>1. PICK s \in Seq(Items), g \in Seq(Items), t \in Seq(Items) :
         s = Stream(k) /\ g = got[k] /\ s = g \o t
  BY StreamTyped DEF Stream
<1>2. PICK u : u = Stream(k)' OBVIOUS
<1>3. Arrivals(k) = Cardinality(Positions(s)) /\ Arrivals(k)' = Cardinality(Positions(u))
  BY <1>1, <1>2, ArrivalsTyped
<1>4. SUFFICES Cardinality(Positions(u)) <= Cardinality(Positions(s)) BY <1>3
<1>5. CASE u = s BY <1>5, PositionsFinite
<1>6. CASE u = g BY <1>1, <1>6, PositionsStart
<1>7. ASSUME NEW n \in 1 .. Len(s), u = SubSeq(s, n + 1, Len(s))
      PROVE  Cardinality(Positions(u)) <= Cardinality(Positions(s))
  BY <1>7, PositionsRest
<1>8. ASSUME NEW x \in {Ok, Error}, u = Append(s, x)
      PROVE  Cardinality(Positions(u)) <= Cardinality(Positions(s))
  <2>1. x \in Items /\ x.from = Nil BY DEF Items, Ok, Error
  <2>. QED BY <1>8, <2>1, PositionsAppend
<1>9. \/ u = s \/ u = g
      \/ \E n \in 1 .. Len(s) : u = SubSeq(s, n + 1, Len(s))
      \/ \E x \in {Ok, Error} : u = Append(s, x)
  BY <1>1, <1>2 DEF Mild
<1>. QED BY <1>5, <1>6, <1>7, <1>8, <1>9

\* A copier that is set changes what its relay holds by its own count.
LEMMA HeldSet ==
  ASSUME RelayInv, NEW r \in Conns, NEW i \in Directions, NEW e \in Copier, SetCopier(r, i, e)
  PROVE  /\ Held(r)' + copier[r][i].n = Held(r) + e.n
         /\ \A q \in Conns : q # r => Held(q)' = Held(q)
<1>0. 1 \in Directions /\ 2 \in Directions /\ i \in {1, 2} BY DEF Directions
<1>1. /\ copier'[r][i] = e
      /\ \A q \in Conns, j \in Directions : q # r \/ j # i => copier'[q][j] = copier[q][j]
  BY SetCopierType
<1>2. \A q \in Conns : q # r => Held(q)' = Held(q) BY <1>0, <1>1 DEF Held
<1>3. PICK a \in Nat, b \in Nat : a = copier[r][1].n /\ b = copier[r][2].n
  BY <1>0, CopierFields
<1>4. PICK x \in Nat : x = e.n BY DEF Copier
<1>5. CASE i = 1
  <2>1. copier'[r][1].n = x /\ copier'[r][2].n = b BY <1>0, <1>1, <1>3, <1>4, <1>5
  <2>2. Held(r)' = x + b /\ Held(r) = a + b BY <1>3, <2>1 DEF Held
  <2>3. x + b + a = a + b + x OBVIOUS
  <2>. QED BY <1>2, <1>3, <1>4, <1>5, <2>2, <2>3
<1>6. CASE i = 2
  <2>1. copier'[r][2].n = x /\ copier'[r][1].n = a BY <1>0, <1>1, <1>3, <1>4, <1>6
  <2>2. Held(r)' = a + x /\ Held(r) = a + b BY <1>3, <2>1 DEF Held
  <2>3. a + x + b = a + b + x OBVIOUS
  <2>. QED BY <1>2, <1>3, <1>4, <1>6, <2>2, <2>3
<1>. QED BY <1>0, <1>5, <1>6

\* A copier that keeps its count keeps what its relay holds.
LEMMA HeldSame ==
  ASSUME RelayInv, NEW r \in Conns, NEW i \in Directions, NEW e \in Copier, SetCopier(r, i, e),
         e.n = copier[r][i].n
  PROVE  \A q \in Conns : Held(q)' = Held(q)
<1>0. 1 \in Directions /\ 2 \in Directions BY DEF Directions
<1>1. /\ copier'[r][i] = e
      /\ \A q \in Conns, j \in Directions : q # r \/ j # i => copier'[q][j] = copier[q][j]
  BY SetCopierType
<1>2. \A q \in Conns, j \in Directions : copier'[q][j].n = copier[q][j].n BY <1>1
<1>. QED BY <1>0, <1>2 DEF Held

\* Only AddBytes changes the bytes of a session.
LEMMA BytesSteps ==
  ASSUME RelayInv, [Next]_vars
  PROVE  UNCHANGED bytes \/ \E r \in Conns, i \in Directions : CopyClose(r, i)
<1>1. ASSUME NEW k \in Conns, \/ (\E s \in Sessions : Dial(k, s)) \/ Send(k) \/ HangUp(k)
                              \/ Client(k)
      PROVE  UNCHANGED bytes
  BY <1>1 DEF Dial, Send, HangUp, Client, ReadHandshakeAck, Receive, session
<1>2. ASSUME NEW k \in Conns, Handler(k) PROVE UNCHANGED bytes
  BY <1>2 DEF Handler, ReadHandshake, BadHandshake, Lookup, AddPeer, Ack, Count, session
<1>3. ASSUME NEW r \in Conns, NEW i \in Directions,
             CopyRead(r, i) \/ CopyEOF(r, i) \/ CopyWrite(r, i)
      PROVE  UNCHANGED bytes
  BY <1>3 DEF CopyRead, CopyEOF, CopyWrite, session
<1>4. ASSUME (\E r \in Conns : Relay(r)) \/ Close PROVE UNCHANGED bytes
  BY <1>4 DEF Relay, RelayWait, CloseSession, Delete, Close, session
<1>5. CASE UNCHANGED vars BY <1>5 DEF vars, session
<1>. QED BY <1>1, <1>2, <1>3, <1>4, <1>5, Zenon DEF Next, Copy

\* A step adds no chunk to a stream.
NoArrival(k) == Arrivals(k)' <= Arrivals(k)

\* A step leaves the counts as they are, ...
Keeps ==
    /\ \A k \in Conns : NoArrival(k) /\ Held(k)' = Held(k)
    /\ UNCHANGED bytes

\* ... or a relay of the session of d writes a chunk to d, and counts it, ...
Counts(r, d) ==
    /\ relay[r] # "none" /\ joined[d] = joined[r]
    /\ Arrivals(d)' <= Arrivals(d) + 1
    /\ \A k \in Conns : k # d => NoArrival(k)
    /\ Held(r)' = Held(r) + 1
    /\ \A k \in Conns : k # r => Held(k)' = Held(k)
    /\ UNCHANGED bytes

\* ... or a relay adds what one of its copiers has counted to its session.
Reports(r, n) ==
    /\ relay[r] # "none"
    /\ \A k \in Conns : NoArrival(k)
    /\ Held(r)' + n = Held(r)
    /\ \A k \in Conns : k # r => Held(k)' = Held(k)
    /\ bytes'[joined[r]] = bytes[joined[r]] + n
    /\ \A o \in Conns : o # joined[r] => bytes'[o] = bytes[o]

\* A write of a copier.
LEMMA WriteCounts ==
  ASSUME RelayInv, PeersOK, QuietOK, [Next]_vars,
         NEW r \in Conns, NEW i \in Directions, CopyWrite(r, i)
  PROVE  Keeps \/ \E d \in Conns : Counts(r, d)
<1>1. relay[r] = "run" BY DEF CopyWrite
<1>2. PICK d \in Conns : d = Destination(r, i) BY <1>1, PeersOfRelay
<1>3. joined[d] = joined[r]
  <2>1. joined[r] \in Conns /\ 3 - i \in 1 .. Len(peers[joined[r]]) BY <1>1, PeersOfRelay
  <2>. QED BY <1>2, <2>1 DEF PeersOK, Destination
<1>4. PICK c \in Copier : c = copier[r][i] BY CopierFields
<1>5. c.n \in Nat /\ c.hand \in Chunk
  BY <1>1, <1>4, CopierFields DEF CopyWrite, RelayInv, CopierShape
<1>6. UNCHANGED bytes /\ got' = got BY DEF CopyWrite, session, clientVars
<1>7. CASE Put(d, c.hand) /\ SetCopier(r, i, [at |-> "read", hand |-> Nil, n |-> c.n + 1])
  <2>1. PICK e : e = [at |-> "read", hand |-> Nil, n |-> c.n + 1] OBVIOUS
  <2>2. e \in Copier /\ e.n = c.n + 1 BY <1>5, <2>1 DEF Copier
  <2>3. SetCopier(r, i, e) BY <1>7, <2>1
  <2>4. /\ Held(r)' + c.n = Held(r) + (c.n + 1)
        /\ \A q \in Conns : q # r => Held(q)' = Held(q)
    BY <1>4, <2>2, <2>3, HeldSet
  <2>5. Held(r)' = Held(r) + 1
    <3>1. Held(r) \in Nat BY ArrivalsTyped
    <3>2. RelayInv' BY CopyType DEF Copy
    <3>3. Held(r)' \in Nat BY <3>2, NextCounts
    <3>. QED BY <1>5, <2>4, <3>1, <3>3
  <2>6. PICK x \in Items : x = c.hand BY <1>5 DEF Items
  <2>7. Put(d, x) BY <1>7, <2>6
  <2>8. /\ \A k \in Conns : k # d => out'[k] = out[k]
        /\ out'[d] = IF hung[d] THEN out[d] ELSE Append(out[d], x)
    BY <2>7, PutType
  <2>9. ASSUME NEW k \in Conns, out'[k] = out[k] PROVE NoArrival(k)
    <3>1. Stream(k)' = Stream(k) BY <1>6, <2>9 DEF Stream
    <3>2. Arrivals(k)' = Arrivals(k) /\ Arrivals(k) \in Nat BY <3>1, ArrivalsTyped
    <3>. QED BY <3>2 DEF NoArrival
  <2>10. Arrivals(d)' <= Arrivals(d) + 1
    <3>1. CASE out'[d] = out[d]
      <4>1. Stream(d)' = Stream(d) BY <1>6, <3>1 DEF Stream
      <4>2. Arrivals(d)' = Arrivals(d) /\ Arrivals(d) \in Nat BY <4>1, ArrivalsTyped
      <4>. QED BY <4>2
    <3>2. CASE out'[d] = Append(out[d], x)
      <4>1. PICK g \in Seq(Items), y \in Seq(Items) : g = got[d] /\ y = out[d]
        BY StreamTyped
      <4>2. PICK s \in Seq(Items) : s = g \o y BY StreamParts
      <4>3. Stream(d)' = g \o Append(y, x) /\ Stream(d) = s
        BY <1>6, <3>2, <4>1, <4>2 DEF Stream
      <4>4. Stream(d)' = Append(s, x) BY <4>2, <4>3, StreamParts
      <4>5. Cardinality(Positions(Append(s, x))) <= Cardinality(Positions(s)) + 1
        BY PositionsAppend
      <4>. QED BY <4>3, <4>4, <4>5, ArrivalsTyped
    <3>. QED BY <2>8, <3>1, <3>2
  <2>11. \A k \in Conns : k # d => NoArrival(k) BY <2>8, <2>9
  <2>. QED BY <1>1, <1>3, <1>6, <2>4, <2>5, <2>10, <2>11 DEF Counts
<1>8. CASE SetCopier(r, i, [c EXCEPT !.at = "close", !.hand = Nil]) /\ out' = out
  <2>1. PICK e : e = [c EXCEPT !.at = "close", !.hand = Nil] OBVIOUS
  <2>2. e \in Copier /\ e.n = c.n BY <2>1 DEF Copier
  <2>3. SetCopier(r, i, e) BY <1>8, <2>1
  <2>4. \A k \in Conns : Held(k)' = Held(k)  BY <1>4, <2>2, <2>3, HeldSame
  <2>5. \A k \in Conns : Stream(k)' = Stream(k) BY <1>6, <1>8 DEF Stream
  <2>6. \A k \in Conns : Arrivals(k)' = Arrivals(k) /\ Arrivals(k) \in Nat
    BY <2>5, ArrivalsTyped
  <2>7. \A k \in Conns : NoArrival(k) BY <2>6 DEF NoArrival
  <2>. QED BY <1>6, <2>4, <2>7 DEF Keeps
<1>9. \/ Put(d, c.hand) /\ SetCopier(r, i, [at |-> "read", hand |-> Nil, n |-> c.n + 1])
      \/ SetCopier(r, i, [c EXCEPT !.at = "close", !.hand = Nil]) /\ out' = out
  BY <1>2, <1>4, Zenon DEF CopyWrite
<1>. QED BY <1>7, <1>8, <1>9

\* What a step does to the counts.
LEMMA CountSteps ==
  ASSUME RelayInv, PeersOK, QuietOK, [Next]_vars
  PROVE  \/ Keeps
         \/ \E r, d \in Conns : Counts(r, d)
         \/ \E r \in Conns, n \in Nat : Reports(r, n)
<1>1. ASSUME NEW r \in Conns, NEW i \in Directions, CopyWrite(r, i)
      PROVE  Keeps \/ \E q, d \in Conns : Counts(q, d)
  BY <1>1, WriteCounts
<1>2. ASSUME \A r \in Conns, i \in Directions : ~CopyWrite(r, i), NEW k \in Conns
      PROVE  NoArrival(k)
  <2>1. Mild(k) BY <1>2, MildSteps
  <2>. QED BY <2>1, MildCount DEF NoArrival
<1>3. ASSUME \A r \in Conns, i \in Directions : ~CopyWrite(r, i),
             NEW r \in Conns, NEW i \in Directions, CopyClose(r, i)
      PROVE  \E n \in Nat : Reports(r, n)
  <2>1. relay[r] = "run" BY <1>3 DEF CopyClose
  <2>2. PICK c \in Copier : c = copier[r][i] BY CopierFields
  <2>3. c.n \in Nat /\ joined[r] \in Conns BY <2>1, <2>2, CopierFields, PeersOfRelay
  <2>4. PICK e : e = [c EXCEPT !.at = "over", !.n = 0] OBVIOUS
  <2>5. e \in Copier /\ e.n = 0 BY <2>4 DEF Copier
  <2>6. SetCopier(r, i, e) BY <1>3, <2>2, <2>4 DEF CopyClose
  <2>7. /\ Held(r)' + c.n = Held(r) + 0
        /\ \A q \in Conns : q # r => Held(q)' = Held(q)
    BY <2>2, <2>5, <2>6, HeldSet
  <2>8. Held(r) + 0 = Held(r) BY ArrivalsTyped
  <2>9. /\ bytes'[joined[r]] = bytes[joined[r]] + c.n
        /\ \A o \in Conns : o # joined[r] => bytes'[o] = bytes[o]
    BY <1>3, <2>2, <2>3 DEF CopyClose, RelayInv, TypeOK, SessionTypeOK
  <2>10. Reports(r, c.n) BY <1>2, <1>3, <2>1, <2>7, <2>8, <2>9 DEF Reports
  <2>. QED BY <2>3, <2>10
<1>4. ASSUME \A r \in Conns, i \in Directions : ~CopyWrite(r, i) /\ ~CopyClose(r, i)
      PROVE  Keeps
  <2>1. UNCHANGED bytes BY <1>4, BytesSteps
  <2>2. ASSUME UNCHANGED copier PROVE \A k \in Conns : Held(k)' = Held(k) BY <2>2 DEF Held
  <2>3. ASSUME NEW r \in Conns, NEW i \in Directions, CopyRead(r, i) \/ CopyEOF(r, i)
        PROVE  \A k \in Conns : Held(k)' = Held(k)
    <3>1. relay[r] = "run" BY <2>3 DEF CopyRead, CopyEOF
    <3>2. PICK c \in Copier : c = copier[r][i] BY CopierFields
    <3>3. CASE CopyRead(r, i)
      <4>1. PICK a \in Conns : a = Source(r, i) BY <3>1, PeersOfRelay
      <4>2. inbuf[a] \in Seq(Chunk) /\ inbuf[a] # <<>>
        BY <3>3, <4>1 DEF CopyRead, RelayInv, TypeOK, StreamTypeOK
      <4>3. PICK h \in Chunk : h = Head(inbuf[a]) BY <4>2
      <4>4. PICK e : e = [c EXCEPT !.at = "write", !.hand = h] OBVIOUS
      <4>5. e \in Copier /\ e.n = c.n BY <4>3, <4>4 DEF Copier
      <4>6. SetCopier(r, i, e) BY <3>2, <3>3, <4>1, <4>3, <4>4 DEF CopyRead
      <4>. QED BY <3>2, <4>5, <4>6, HeldSame
    <3>4. CASE CopyEOF(r, i)
      <4>1. PICK e : e = [c EXCEPT !.at = "close"] OBVIOUS
      <4>2. e \in Copier /\ e.n = c.n BY <4>1 DEF Copier
      <4>3. SetCopier(r, i, e) BY <3>2, <3>4, <4>1 DEF CopyEOF
      <4>. QED BY <3>2, <4>2, <4>3, HeldSame
    <3>. QED BY <2>3, <3>3, <3>4
  <2>4. ASSUME NEW k \in Conns, Send(k) PROVE UNCHANGED copier BY <2>4 DEF Send
  <2>5. \A k \in Conns : Held(k)' = Held(k) BY <1>4, <2>2, <2>3, <2>4, StreamSteps DEF Copy
  <2>. QED BY <1>2, <1>4, <2>1, <2>5 DEF Keeps
<1>5. ASSUME NEW r \in Conns, NEW i \in Directions, CopyClose(r, i)
      PROVE  \A q \in Conns, j \in Directions : ~CopyWrite(q, j)
  <2>1. PICK c \in Copier : c = copier[r][i] BY CopierFields
  <2>2. PICK e : e = [c EXCEPT !.at = "over", !.n = 0] OBVIOUS
  <2>3. e \in Copier /\ e.at = "over" /\ c.at = "close" BY <1>5, <2>1, <2>2 DEF Copier, CopyClose
  <2>4. SetCopier(r, i, e) BY <1>5, <2>1, <2>2 DEF CopyClose
  <2>5. copier'[r][i].at = "over" BY <2>3, <2>4, SetCopierType
  <2>6. ASSUME NEW q \in Conns, NEW j \in Directions, CopyWrite(q, j) PROVE FALSE
    <3>1. (q = r /\ j = i) \/ copier'[r][i] = copier[r][i] BY <2>6, WriteEffect
    <3>2. copier[q][j].at = "write" BY <2>6, WriteEffect
    <3>. QED BY <2>1, <2>3, <2>5, <3>1, <3>2
  <2>. QED BY <2>6
<1>. QED BY <1>1, <1>3, <1>4, <1>5

\* A session without two peers has no relay.
LEMMA NoRelayYet ==
  ASSUME RelayInv, PeersOK, RelayedOK, NEW k \in Conns,
         \A r \in Conns : relay[r] # "none" => joined[r] # joined[k]
  PROVE  Chunks(k) = {}
<1>1. Blank(Stream(k)) BY DEF RelayedOK
<1>. QED BY <1>1 DEF Blank, Chunks

\* The counts of a session with two peers, after any step.
LEMMA AccountKept ==
  ASSUME RelayInv, PeersOK, QuietOK, MembersOK, AccountOK, [Next]_vars, RelayInv',
         NEW o \in Conns, Len(peers[o]) = 2,
         NEW a \in Conns, NEW b \in Conns, a = peers[o][1], b = peers[o][2]
  PROVE  Arrivals(a)' + Arrivals(b)' <= bytes'[o] + (Held(a)' + Held(b)')
<1>2. 1 \in 1 .. Len(peers[o]) /\ 2 \in 1 .. Len(peers[o]) OBVIOUS
<1>4. joined[a] = o /\ joined[b] = o /\ a # b BY <1>2 DEF PeersOK
<1>5. PICK x \in Nat, y \in Nat, h \in Nat, g \in Nat, m \in Nat :
         /\ x = Arrivals(a) /\ y = Arrivals(b) /\ h = Held(a) /\ g = Held(b) /\ m = bytes[o]
  BY ArrivalsTyped DEF RelayInv, TypeOK, SessionTypeOK
<1>6. x + y <= m + (h + g) BY <1>5 DEF AccountOK
<1>7. PICK x2 \in Nat, y2 \in Nat, h2 \in Nat, g2 \in Nat, m2 \in Nat :
         /\ x2 = Arrivals(a)' /\ y2 = Arrivals(b)' /\ h2 = Held(a)' /\ g2 = Held(b)'
         /\ m2 = bytes'[o]
  <2>1. \A k \in Conns : Arrivals(k)' \in Nat /\ Held(k)' \in Nat BY NextCounts
  <2>2. bytes'[o] \in Nat BY DEF RelayInv, TypeOK, SessionTypeOK
  <2>. QED BY <2>1, <2>2
<1>8. \A r \in Conns : relay[r] # "none" /\ joined[r] = o => r = a \/ r = b
  <2>. SUFFICES ASSUME NEW r \in Conns, relay[r] # "none", joined[r] = o PROVE r = a \/ r = b
    OBVIOUS
  <2>1. r \in Peers(o) BY DEF MembersOK
  <2>2. PICK j \in 1 .. Len(peers[o]) : r = peers[o][j] BY <2>1 DEF Peers
  <2>3. j = 1 \/ j = 2 OBVIOUS
  <2>. QED BY <2>2, <2>3
<1>9. x2 + y2 <= m2 + (h2 + g2)
  <2>1. CASE Keeps
    <3>1. x2 <= x /\ y2 <= y /\ h2 = h /\ g2 = g /\ m2 = m
      BY <1>5, <1>7, <2>1 DEF Keeps, NoArrival
    <3>. QED BY <1>6, <3>1
  <2>2. ASSUME NEW r \in Conns, NEW d \in Conns, Counts(r, d) PROVE x2 + y2 <= m2 + (h2 + g2)
    <3>1. m2 = m BY <1>5, <1>7, <2>2 DEF Counts
    <3>2. /\ d = a => x2 <= x + 1 /\ y2 <= y
          /\ d = b => x2 <= x /\ y2 <= y + 1
          /\ d # a /\ d # b => x2 <= x /\ y2 <= y
      BY <1>4, <1>5, <1>7, <2>2 DEF Counts, NoArrival
    <3>3. /\ r = a => h2 = h + 1 /\ g2 = g
          /\ r = b => h2 = h /\ g2 = g + 1
          /\ r # a /\ r # b => h2 = h /\ g2 = g
      BY <1>4, <1>5, <1>7, <2>2 DEF Counts
    <3>4. d = a \/ d = b => r = a \/ r = b BY <1>4, <1>8, <2>2 DEF Counts
    <3>5. x2 + y2 <= x + y \/ (x2 + y2 <= x + y + 1 /\ (d = a \/ d = b))
      BY <3>2
    <3>6. (h2 + g2 = h + g + 1 /\ (r = a \/ r = b)) \/ (h2 + g2 = h + g /\ ~(r = a \/ r = b))
      BY <3>3
    <3>. QED BY <1>6, <3>1, <3>4, <3>5, <3>6
  <2>3. ASSUME NEW r \in Conns, NEW n \in Nat, Reports(r, n) PROVE x2 + y2 <= m2 + (h2 + g2)
    <3>1. x2 <= x /\ y2 <= y BY <1>5, <1>7, <2>3 DEF Reports, NoArrival
    <3>2. /\ r = a => h2 + n = h /\ g2 = g
          /\ r = b => h2 = h /\ g2 + n = g
          /\ r # a /\ r # b => h2 = h /\ g2 = g
      BY <1>4, <1>5, <1>7, <2>3 DEF Reports
    <3>3. (joined[r] = o /\ m2 = m + n) \/ (joined[r] # o /\ m2 = m)
      BY <1>5, <1>7, <2>3 DEF Reports
    <3>4. joined[r] = o <=> r = a \/ r = b BY <1>4, <1>8, <2>3 DEF Reports
    <3>5. \/ (r = a \/ r = b) /\ h2 + g2 + n = h + g
          \/ ~(r = a \/ r = b) /\ h2 + g2 = h + g
      BY <3>2
    <3>. QED BY <1>6, <3>1, <3>3, <3>4, <3>5
  <2>. QED BY <2>1, <2>2, <2>3, CountSteps
<1>. QED BY <1>7, <1>9

\* The counts of a session that gets its second peer are nil.
LEMMA AccountBegins ==
  ASSUME RelayInv, [Next]_vars, RelayInv', PeersOK', RelayedOK',
         NEW o \in Conns, Len(peers[o]) # 2, Len(peers'[o]) = 2,
         NEW j \in 1 .. 2, NEW k \in Conns, k = peers'[o][j]
  PROVE  Arrivals(k)' = 0
<1>3. joined'[k] = o BY DEF PeersOK
<1>4. \A r \in Conns : relay'[r] # "none" => joined'[r] # o
  <2>. SUFFICES ASSUME NEW r \in Conns, relay'[r] # "none", joined'[r] = o PROVE FALSE
    OBVIOUS
  <2>1. CASE relay[r] # "none"
    <3>1. at[r] = "done" /\ Len(peers[joined[r]]) = 2 BY <2>1 DEF RelayInv, RelayShape
    <3>2. joined'[r] = joined[r] BY <3>1, ForwardSteps DEF Forward
    <3>. QED BY <3>1, <3>2
  <2>2. CASE relay[r] = "none"
    <3>1. Count(r) BY <2>2, RelayStart
    <3>2. UNCHANGED peers BY <3>1 DEF Count, session
    <3>. QED BY <3>2
  <2>. QED BY <2>1, <2>2
<1>5. Blank(Stream(k)') BY <1>3, <1>4 DEF RelayedOK
<1>6. PICK u : u = Stream(k)' OBVIOUS
<1>7. Positions(u) = {} BY <1>5, <1>6 DEF Blank, Positions
<1>8. Cardinality(Positions(u)) = 0 BY <1>7, FS_EmptySet
<1>. QED BY <1>6, <1>8, ArrivalsTyped

\* Every chunk is counted, after every step.
LEMMA AccountInductive ==
  ASSUME FlowInv, ChainInv, MembersOK, AccountOK, [Next]_vars, FlowInv', ChainInv'
  PROVE  AccountOK'
<1>. SUFFICES ASSUME NEW o \in Conns, Len(peers'[o]) = 2
              PROVE  Arrivals(peers[o][1])' + Arrivals(peers[o][2])'
                        <= bytes'[o] + (Held(peers[o][1])' + Held(peers[o][2])')
  BY DEF AccountOK
<1>. USE DEF FlowInv, ChainInv
<1>1. CASE Len(peers[o]) = 2
  <2>1. peers'[o] = peers[o] BY <1>1, PeersKept
  <2>2. peers[o] \in Seq(Conns) BY DEF RelayInv, TypeOK, SessionTypeOK
  <2>3. PICK a \in Conns, b \in Conns : a = peers[o][1] /\ b = peers[o][2] BY <1>1, <2>2
  <2>4. Arrivals(a)' + Arrivals(b)' <= bytes'[o] + (Held(a)' + Held(b)')
    BY <1>1, <2>3, AccountKept
  <2>. QED BY <2>1, <2>3, <2>4
<1>2. CASE Len(peers[o]) # 2
  <2>1. PICK a \in Conns, b \in Conns : a = peers'[o][1] /\ b = peers'[o][2]
    <3>1. peers'[o] \in Seq(Conns) BY DEF RelayInv, TypeOK, SessionTypeOK
    <3>. QED BY <3>1
  <2>2. Arrivals(a)' = 0 /\ Arrivals(b)' = 0 BY <1>2, <2>1, AccountBegins
  <2>3. bytes'[o] \in Nat BY DEF RelayInv, TypeOK, SessionTypeOK
  <2>4. \A k \in Conns : Held(k)' \in Nat BY NextCounts
  <2>5. PICK h \in Nat, g \in Nat, m \in Nat : h = Held(a)' /\ g = Held(b)' /\ m = bytes'[o]
    BY <2>3, <2>4
  <2>6. 0 + 0 <= m + (h + g) OBVIOUS
  <2>. QED BY <2>1, <2>2, <2>5, <2>6
<1>. QED BY <1>1, <1>2

\* Session.AddBytes loses no chunk, whoever hangs up or closes when and with one
\* relay or two, for any number of connections, sessions and chunks.
THEOREM BytesCounted == Spec => []BytesAccounted
<1>1. Init => MembersOK /\ AccountOK
  BY DEF Init, MembersOK, AccountOK
<1>2. FlowInv /\ ChainInv /\ (MembersOK /\ AccountOK) /\ [Next]_vars /\ FlowInv' /\ ChainInv'
         => (MembersOK /\ AccountOK)'
  BY MembersInductive, AccountInductive DEF FlowInv
<1>3. FlowInv /\ ChainInv /\ AccountOK => BytesAccounted
  <2>. SUFFICES ASSUME FlowInv, ChainInv, AccountOK, NEW o \in Conns
                PROVE  /\ Len(peers[o]) < 2 => \A k \in Peers(o) : Chunks(k) = {}
                       /\ Len(peers[o]) = 2 =>
                             Cardinality(Chunks(peers[o][1])) + Cardinality(Chunks(peers[o][2]))
                                <= bytes[o] + Held(peers[o][1]) + Held(peers[o][2])
    BY DEF BytesAccounted
  <2>. USE DEF FlowInv, ChainInv
  <2>1. peers[o] \in Seq(Conns) BY DEF RelayInv, TypeOK, SessionTypeOK
  <2>2. ASSUME Len(peers[o]) < 2, NEW k \in Peers(o) PROVE Chunks(k) = {}
    <3>1. PICK j \in 1 .. Len(peers[o]) : k = peers[o][j] BY DEF Peers
    <3>2. k \in Conns /\ joined[k] = o BY <2>1, <3>1 DEF PeersOK
    <3>3. PICK n \in Nat : n = Len(peers[o]) BY <2>1
    <3>4. n # 2 BY <2>2, <3>3
    <3>5. \A r \in Conns : relay[r] # "none" => joined[r] # o
      BY <3>3, <3>4 DEF RelayInv, RelayShape
    <3>. QED BY <3>2, <3>5, NoRelayYet
  <2>3. ASSUME Len(peers[o]) = 2
        PROVE  Cardinality(Chunks(peers[o][1])) + Cardinality(Chunks(peers[o][2]))
                  <= bytes[o] + Held(peers[o][1]) + Held(peers[o][2])
    <3>1. PICK a \in Conns, b \in Conns : a = peers[o][1] /\ b = peers[o][2] BY <2>1, <2>3
    <3>2. PICK x \in Nat, y \in Nat, h \in Nat, g \in Nat, m \in Nat :
             /\ x = Arrivals(a) /\ y = Arrivals(b) /\ h = Held(a) /\ g = Held(b) /\ m = bytes[o]
      BY ArrivalsTyped DEF RelayInv, TypeOK, SessionTypeOK
    <3>3. x + y <= m + (h + g) BY <2>3, <3>1, <3>2 DEF AccountOK
    <3>4. x + y <= m + h + g BY <3>3
    <3>. QED BY <3>1, <3>2, <3>4 DEF Arrivals
  <2>. QED BY <2>2, <2>3
<1>. QED BY <1>1, <1>2, <1>3, ChainInvariant, PTL DEF Spec
============================================================================
