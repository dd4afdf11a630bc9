------------------------ MODULE AgentSessionsProofs ------------------------
(***************************************************************************)
(* The agent's table of tunnel sessions, for any number of goroutines,     *)
(* session IDs and sessions, and any way in which answers come in pieces.  *)
(***************************************************************************)
EXTENDS AgentSessions, SequenceTheorems, TLAPS

-----------------------------------------------------------------------------
\* The bytes of the handshake.

Octet == 0 .. 255

\* A length that fits into 16 bits and its two bytes.
LEMMA LengthBytes ==
  ASSUME NEW v \in Int, v >= 0, v <= 65535
  PROVE  /\ v \div 256 \in Octet /\ v % 256 \in Octet
         /\ (v \div 256) % 256 = v \div 256
         /\ 256 * (v \div 256) + (v % 256) = v
<1>1. v = 256 * (v \div 256) + (v % 256) /\ v \div 256 \in 0 .. 255 /\ v % 256 \in 0 .. 255
  BY SMT
<1>2. v \div 256 \in Octet /\ v % 256 \in Octet BY <1>1, SMT DEF Octet
<1>3. 256 * (v \div 256) + (v % 256) = v BY <1>1, SMT
<1>4. (v \div 256) % 256 = v \div 256 BY SMT
<1>. QED BY <1>2, <1>3, <1>4, SMT

\* The seven bytes before the session ID.
LEMMA HeaderBytes ==
  ASSUME NEW h \in Octet, NEW l \in Octet
  PROVE  \E x \in Seq(Octet) : /\ x = Magic \o <<Version>> \o <<h, l>>
                               /\ Len(x) = 7 /\ x[6] = h /\ x[7] = l
<1>1. PICK m : m = <<67, 66, 76, 68>> OBVIOUS
<1>2. m \in Seq(Octet) /\ Len(m) = 4 BY <1>1, SMTT(20) DEF Octet
<1>3. PICK v : v = <<1>> OBVIOUS
<1>4. v \in Seq(Octet) /\ Len(v) = 1 BY <1>3, SMTT(20) DEF Octet
<1>5. PICK n : n = <<h, l>> OBVIOUS
<1>6. n \in Seq(Octet) /\ Len(n) = 2 /\ n[1] = h /\ n[2] = l BY <1>5, SMTT(20)
<1>7. PICK y : y = m \o v OBVIOUS
<1>8. y \in Seq(Octet) /\ Len(y) = 5
  <2>1. m \o v \in Seq(Octet) /\ Len(m \o v) = Len(m) + Len(v)
    BY <1>2, <1>4, ConcatProperties, Zenon
  <2>2. Len(m) + Len(v) = 5 BY <1>2, <1>4
  <2>. QED BY <1>7, <2>1, <2>2, Zenon
<1>9. PICK x : x = y \o n OBVIOUS
<1>10. x \in Seq(Octet) /\ Len(x) = 7 /\ x[6] = h /\ x[7] = l
  <2>1. /\ y \o n \in Seq(Octet) /\ Len(y \o n) = Len(y) + Len(n)
        /\ \A i \in 1 .. Len(y) + Len(n) :
              (y \o n)[i] = IF i <= Len(y) THEN y[i] ELSE n[i - Len(y)]
    BY <1>6, <1>8, ConcatProperties, Zenon
  <2>2. Len(x) = 7 /\ \A i \in 1 .. 7 : x[i] = IF i <= 5 THEN y[i] ELSE n[i - 5]
    BY <1>6, <1>8, <1>9, <2>1
  <2>. QED BY <1>6, <1>9, <2>1, <2>2
<1>11. x = Magic \o <<Version>> \o <<h, l>>
  BY <1>1, <1>3, <1>5, <1>7, <1>9, Zenon DEF Magic, Version
<1>. QED BY <1>10, <1>11

\* What WriteHandshake writes of a session ID, ReadHandshake reads.
LEMMA HandshakeKeepsID ==
  ASSUME NEW id \in Seq(Octet), CanWrite(id), NEW t \in Octet
  PROVE  HandshakeID(WriteHandshake(id, t)) = id
<1>1. Len(id) \in Int /\ Len(id) >= 0 /\ Len(id) <= 65535 BY DEF CanWrite, MaxUint16
<1>2. PICK n \in Nat : n = Len(id) /\ n <= 65535 BY <1>1
<1>3. PICK h \in Octet, l \in Octet : PutUint16(n) = <<h, l>> /\ 256 * h + l = n
  <2>1. ASSUME NEW v \in Int, v >= 0, v <= 65535
        PROVE  \E h, l \in Octet : PutUint16(v) = <<h, l>> /\ 256 * h + l = v
    <3>1. /\ v \div 256 \in Octet /\ v % 256 \in Octet
          /\ (v \div 256) % 256 = v \div 256
          /\ 256 * (v \div 256) + (v % 256) = v
      BY <2>1, LengthBytes, SMT
    <3>2. PutUint16(v) = <<v \div 256, v % 256>> BY <3>1, Zenon DEF PutUint16
    <3>. QED BY <3>1, <3>2, SMT
  <2>. QED BY <1>2, <2>1, SMT
<1>4. PICK x \in Seq(Octet) : /\ x = Magic \o <<Version>> \o <<h, l>>
                              /\ Len(x) = 7 /\ x[6] = h /\ x[7] = l
  BY HeaderBytes
<1>5. PICK y : y = x \o id OBVIOUS
<1>6. /\ y \in Seq(Octet) /\ Len(y) = 7 + n
      /\ \A i \in 1 .. 7 + n : y[i] = IF i <= 7 THEN x[i] ELSE id[i - 7]
  <2>1. /\ x \o id \in Seq(Octet) /\ Len(x \o id) = Len(x) + Len(id)
        /\ \A i \in 1 .. Len(x) + Len(id) :
              (x \o id)[i] = IF i <= Len(x) THEN x[i] ELSE id[i - Len(x)]
    BY ConcatProperties, Zenon
  <2>2. Len(x) = 7 /\ Len(id) = n BY <1>2, <1>4
  <2>. QED BY <1>5, <2>1, <2>2
<1>7. PICK e : e = <<t>> OBVIOUS
<1>e. e \in Seq(Octet) /\ Len(e) = 1 BY <1>7
<1>8. PICK b : b = y \o e OBVIOUS
<1>9. /\ b \in Seq(Octet) /\ Len(b) = 8 + n
      /\ \A i \in 1 .. 7 + n : b[i] = y[i]
  <2>1. /\ y \o e \in Seq(Octet) /\ Len(y \o e) = Len(y) + Len(e)
        /\ \A i \in 1 .. Len(y) + Len(e) :
              (y \o e)[i] = IF i <= Len(y) THEN y[i] ELSE e[i - Len(y)]
    BY <1>6, <1>e, ConcatProperties, Zenon
  <2>2. Len(y) + Len(e) = 8 + n BY <1>6, <1>e
  <2>3. \A i \in 1 .. 7 + n : i \in 1 .. Len(y) + Len(e) /\ i <= Len(y)
    <3>1. Len(y) = 7 + n BY <1>6, Zenon
    <3>. QED BY <2>2, <3>1
  <2>4. \A i \in 1 .. 7 + n : b[i] = y[i] BY <1>8, <2>1, <2>3, Zenon
  <2>. QED BY <1>8, <2>1, <2>2, <2>4, Zenon
<1>10. b = WriteHandshake(id, t)
  <2>1. PutUint16(Len(id)) = <<h, l>> BY <1>2, <1>3
  <2>. QED BY <1>4, <1>5, <1>7, <1>8, <2>1, Zenon DEF WriteHandshake
<1>11. b[6] = h /\ b[7] = l
  BY <1>4, <1>6, <1>9
<1>12. IDLength(b) = n
  <2>1. PICK f : f = SubSeq(b, 6, 7) OBVIOUS
  <2>2. \A i \in 6 .. 7 : b[i] \in Octet BY <1>9
  <2>3. \A i \in 1 .. 7 - 6 + 1 : SubSeq(b, 6, 7)[i] = b[6 + i - 1]
    BY <2>2, SubSeqProperties
  <2>4. f[1] = h /\ f[2] = l BY <1>11, <2>1, <2>3
  <2>5. IDLength(b) = 256 * f[1] + f[2] BY <2>1, Zenon DEF IDLength, Uint16
  <2>. QED BY <1>3, <2>4, <2>5
<1>13. SubSeq(b, 8, 7 + n) = id
  <2>1. \A i \in 8 .. 7 + n : b[i] \in Octet BY <1>9
  <2>2. PICK s : s = SubSeq(b, 8, 7 + n) OBVIOUS
  <2>3. /\ s \in Seq(Octet) /\ Len(s) = IF 8 <= 7 + n THEN 7 + n - 8 + 1 ELSE 0
        /\ \A i \in 1 .. 7 + n - 8 + 1 : s[i] = b[8 + i - 1]
    BY <2>1, <2>2, SubSeqProperties
  <2>4. Len(s) = n BY <2>3
  <2>5. ASSUME NEW i \in 1 .. n PROVE s[i] = id[i]
    <3>1. s[i] = b[7 + i] BY <2>3, <2>5
    <3>2. b[7 + i] = y[7 + i] BY <1>9, <2>5
    <3>3. y[7 + i] = id[i] BY <1>6, <2>5
    <3>. QED BY <3>1, <3>2, <3>3
  <2>. QED BY <1>2, <2>2, <2>3, <2>4, <2>5, SeqEqual
<1>. QED BY <1>10, <1>12, <1>13 DEF HandshakeID

\* The two answers of the relay.
Yes == WriteHandshakeAck(TRUE, <<>>)

No == WriteHandshakeAck(FALSE, <<110, 111>>)

\* The status is the fifth byte of a refusal.
LEMMA RefusalBytes == No \in Seq(Octet) /\ No[5] = 1
<1>1. PICK m : m = <<67, 66, 76, 68>> OBVIOUS
<1>2. m \in Seq(Octet) /\ Len(m) = 4 BY <1>1, SMTT(20) DEF Octet
<1>3. PICK w : w = <<110, 111>> OBVIOUS
<1>4. w \in Seq(Octet) /\ Len(w) = 2 BY <1>3, SMTT(20) DEF Octet
<1>5. PICK s : s = SubSeq(w, 1, 2) OBVIOUS
<1>6. s \in Seq(Octet)
  <2>1. \A i \in 1 .. 2 : w[i] \in Octet BY <1>4
  <2>. QED BY <1>5, <2>1, SubSeqProperties
<1>7. PICK o : o = <<1>> OBVIOUS
<1>8. o \in Seq(Octet) /\ Len(o) = 1 /\ o[1] = 1 BY <1>7, SMTT(20) DEF Octet
<1>9. PICK u : u = PutUint16(2) OBVIOUS
<1>10. u \in Seq(Octet)
  <2>1. 2 \div 256 \in Octet /\ 2 % 256 \in Octet /\ (2 \div 256) % 256 = 2 \div 256
    BY LengthBytes, SMT
  <2>2. u = <<2 \div 256, 2 % 256>> BY <1>9, <2>1, Zenon DEF PutUint16
  <2>3. ASSUME NEW x \in Octet, NEW y \in Octet PROVE <<x, y>> \in Seq(Octet) BY SMT
  <2>. QED BY <2>1, <2>2, <2>3, Zenon
<1>11. ASSUME NEW x \in Seq(Octet), NEW y \in Seq(Octet), NEW k \in 1 .. Len(x)
       PROVE  x \o y \in Seq(Octet) /\ (x \o y)[k] = x[k] /\ k \in 1 .. Len(x \o y)
  <2>1. /\ x \o y \in Seq(Octet) /\ Len(x \o y) = Len(x) + Len(y)
        /\ \A i \in 1 .. Len(x) + Len(y) :
              (x \o y)[i] = IF i <= Len(x) THEN x[i] ELSE y[i - Len(x)]
    BY ConcatProperties, Zenon
  <2>2. Len(x) \in Nat /\ Len(y) \in Nat /\ k \in 1 .. Len(x) + Len(y) /\ k <= Len(x)
    OBVIOUS
  <2>. QED BY <2>1, <2>2, Zenon
<1>12. PICK p : p = o \o u OBVIOUS
<1>13. p \in Seq(Octet) /\ p[1] = 1 /\ 1 \in 1 .. Len(p)
  <2>1. 1 \in 1 .. Len(o) BY <1>8
  <2>. QED BY <1>8, <1>10, <1>11, <1>12, <2>1, Zenon
<1>14. PICK q : q = p \o s OBVIOUS
<1>15. q \in Seq(Octet) /\ q[1] = 1 /\ 1 \in 1 .. Len(q)
  BY <1>6, <1>11, <1>13, <1>14, Zenon
<1>16. PICK r : r = m \o q OBVIOUS
<1>17. r \in Seq(Octet) /\ r[5] = 1
  <2>1. /\ m \o q \in Seq(Octet)
        /\ \A i \in 1 .. Len(m) + Len(q) :
              (m \o q)[i] = IF i <= Len(m) THEN m[i] ELSE q[i - Len(m)]
    BY <1>2, <1>15, ConcatProperties, Zenon
  <2>2. Len(q) \in Nat /\ Len(q) >= 1 BY <1>15
  <2>3. 5 \in 1 .. Len(m) + Len(q) /\ ~(5 <= Len(m)) /\ 5 - Len(m) = 1 BY <1>2, <2>2
  <2>. QED BY <1>15, <1>16, <2>1, <2>3, Zenon
<1>18. No = Magic \o (<<StatusError>> \o PutUint16(2) \o SubSeq(<<110, 111>>, 1, 2))
  <2>1. ~(Len(<<110, 111>>) > MaxUint16) /\ Len(<<110, 111>>) = 2
    BY <1>3, <1>4 DEF MaxUint16
  <2>. QED BY <2>1, Zenon DEF No, WriteHandshakeAck
<1>19. No = r
  BY <1>1, <1>3, <1>5, <1>7, <1>9, <1>12, <1>14, <1>16, <1>18, Zenon DEF Magic, StatusError
<1>. QED BY <1>17, <1>19, Zenon

\* However much of an answer has arrived, it is accepted only if the relay
\* has accepted.
LEMMA AckTells ==
  ASSUME NEW r \in {<<>>, Yes, No}, NEW n \in 0 .. Len(r), AckAccepted(SubSeq(r, 1, n))
  PROVE  r = Yes
<1>1. CASE r = <<>>
  <2>1. n = 0 BY <1>1
  <2>2. SubSeq(r, 1, n) = <<>> BY <2>1, SubSeqEmpty
  <2>. QED BY <2>2 DEF AckAccepted
<1>2. CASE r = No
  <2>1. r \in Seq(Octet) /\ r[5] = 1 BY <1>2, RefusalBytes, Zenon
  <2>2. PICK s : s = SubSeq(r, 1, n) OBVIOUS
  <2>3. \A i \in 1 .. n : r[i] \in Octet BY <2>1
  <2>4. /\ Len(s) = IF 1 <= n THEN n - 1 + 1 ELSE 0
        /\ \A i \in 1 .. n - 1 + 1 : s[i] = r[1 + i - 1]
    BY <2>2, <2>3, SubSeqProperties
  <2>5. Len(s) >= 5 /\ s[5] = 0 BY <2>2 DEF AckAccepted, StatusOK
  <2>6. n >= 5 BY <2>4, <2>5
  <2>7. s[5] = r[5] BY <2>4, <2>6
  <2>. QED BY <2>1, <2>5, <2>7
<1>. QED BY <1>1, <1>2

\* An answer has bytes.
LEMMA AnswersAreBytes ==
  /\ Yes \in Seq(Octet) /\ No \in Seq(Octet) /\ <<>> \in Seq(Octet)
  /\ Yes # <<>> /\ Yes # No
<1>1. PICK m : m = <<67, 66, 76, 68>> OBVIOUS
<1>2. m \in Seq(Octet) /\ Len(m) = 4 BY <1>1, SMTT(20) DEF Octet
<1>3. PICK o : o = <<0>> OBVIOUS
<1>4. o \in Seq(Octet) /\ Len(o) = 1 /\ o[1] = 0 BY <1>3, SMTT(20) DEF Octet
<1>5. PICK r : r = m \o o OBVIOUS
<1>6. r \in Seq(Octet) /\ r[5] = 0 /\ Len(r) = 5
  <2>1. /\ m \o o \in Seq(Octet) /\ Len(m \o o) = Len(m) + Len(o)
        /\ \A i \in 1 .. Len(m) + Len(o) :
              (m \o o)[i] = IF i <= Len(m) THEN m[i] ELSE o[i - Len(m)]
    BY <1>2, <1>4, ConcatProperties, Zenon
  <2>2. 5 \in 1 .. Len(m) + Len(o) /\ ~(5 <= Len(m)) /\ 5 - Len(m) = 1 /\ Len(m) + Len(o) = 5
    BY <1>2, <1>4
  <2>. QED BY <1>4, <1>5, <2>1, <2>2, Zenon
<1>7. Yes = r
  BY <1>1, <1>3, <1>5, Zenon DEF Yes, WriteHandshakeAck, Magic, StatusOK
<1>8. Yes \in Seq(Octet) /\ Yes[5] = 0 /\ Len(Yes) = 5 BY <1>6, <1>7, Zenon
<1>9. No \in Seq(Octet) /\ No[5] = 1 BY RefusalBytes, Zenon
<1>10. Yes # No BY <1>8, <1>9
<1>11. Yes # <<>> BY <1>8
<1>. QED BY <1>8, <1>9, <1>10, <1>11

-----------------------------------------------------------------------------
\* The inductive invariant.

\* The handshake that the agent writes for the session ID i.
Hello(i) == WriteHandshake(IDBytes[i], PeerTypeResponder)

Places == {"idle", "lock", "rlock", "dial", "ack", "closing", "wlock", "writing"}

Operations == {"none", "create", "remove", "get", "list", "close", "write"}

CallType == [op : Operations, id : IDs \cup {NoID}, obj : 0 .. MaxSessions]

AgentTypeOK ==
    /\ pc \in [Callers -> Places]
    /\ call \in [Callers -> CallType]
    /\ mu \in Callers \cup {Free}
    /\ table \in [IDs -> 0 .. MaxSessions]

SessionTypeOK ==
    /\ dialled \in 0 .. MaxSessions
    /\ sid \in [Sessions -> IDs \cup {NoID}]
    /\ conn \in [Sessions -> {"none", "open", "closed"}]
    /\ stored \subseteq Sessions /\ \A o \in stored : o <= dialled
    /\ done \subseteq stored

WireTypeOK ==
    /\ sent \in [Sessions -> {<<>>} \cup {Hello(i) : i \in IDs}]
    /\ reply \in [Sessions -> {<<>>, Yes, No}]
    /\ inbox \in [Sessions -> Seq(Octet)]
    /\ joined \in [Sessions -> IDs \cup {NoID}]

\* Where a goroutine is, it holds the lock that it needs and means the session
\* that it should.
PlaceOK ==
    \A c \in Callers :
       /\ pc[c] = "lock" => call[c].id \in IDs
       /\ pc[c] \in {"dial", "ack"} => mu = c /\ call[c].id \in IDs
       /\ pc[c] = "ack" => /\ call[c].obj = dialled /\ dialled # 0
                           /\ dialled \notin stored /\ sid[dialled] = call[c].id
       /\ pc[c] = "closing" => call[c].obj \in stored /\ sid[call[c].obj] = call[c].id
       /\ pc[c] = "closing" /\ call[c].op = "remove"
             => mu = c /\ table[call[c].id] = call[c].obj

\* The table holds sessions under their own IDs.
TableOK == \A i \in IDs : table[i] # 0 => table[i] \in stored /\ sid[table[i]] = i

\* A session that has been dialled has said its ID; another has no connection.
DialledOK ==
    \A o \in Sessions :
       /\ o > dialled => conn[o] = "none" /\ reply[o] = <<>>
       /\ o <= dialled => /\ sid[o] \in IDs /\ CanWrite(IDBytes[sid[o]])
                          /\ sent[o] = Hello(sid[o])

\* The relay accepts only after it has filed the connection under the ID that
\* the agent means, and only then does the agent think so.
AnswerOK ==
    /\ \A o \in Sessions : reply[o] = Yes => joined[o] = sid[o]
    /\ \A o \in Sessions : AckAccepted(inbox[o]) => reply[o] = Yes
    /\ \A o \in stored : reply[o] = Yes

\* Goroutine c is in RemoveSession and closes session o.
Removing(c, o) == pc[c] = "closing" /\ call[c].op = "remove" /\ call[c].obj = o

\* A closed session stays in the table only while RemoveSession closes it, or
\* because somebody else did.
DoneOK ==
    \A i \in IDs : table[i] # 0 /\ table[i] \in done
                     => table[i] \in direct \/ \E c \in Callers : Removing(c, table[i])

SessionInv ==
    /\ AgentTypeOK /\ SessionTypeOK /\ WireTypeOK
    /\ PlaceOK /\ TableOK /\ DialledOK /\ AnswerOK /\ DoneOK
    /\ LeakOnlyByReplacement /\ CrashNeedsClose

\* The calls that goroutines make are of their type.
LEMMA CallTyped ==
  /\ NoCall \in CallType
  /\ \A op \in Operations, i \in IDs \cup {NoID}, o \in 0 .. MaxSessions :
        [op |-> op, id |-> i, obj |-> o] \in CallType
  /\ \A k \in CallType, o \in 0 .. MaxSessions :
        /\ [k EXCEPT !.obj = o] \in CallType
        /\ [k EXCEPT !.obj = o].obj = o
        /\ [k EXCEPT !.obj = o].id = k.id
        /\ [k EXCEPT !.obj = o].op = k.op
  /\ \A k \in CallType : /\ k.op \in Operations /\ k.id \in IDs \cup {NoID}
                         /\ k.obj \in 0 .. MaxSessions
<1>1. 0 \in 0 .. MaxSessions BY SessionsAssumption
<1>2. "none" \in Operations BY DEF Operations
<1>3. NoCall \in CallType BY <1>1, <1>2 DEF NoCall, NoID, CallType
<1>4. \A op \in Operations, i \in IDs \cup {NoID}, o \in 0 .. MaxSessions :
         [op |-> op, id |-> i, obj |-> o] \in CallType
  BY DEF CallType
<1>5. \A k \in CallType, o \in 0 .. MaxSessions :
         /\ [k EXCEPT !.obj = o] \in CallType
         /\ [k EXCEPT !.obj = o].obj = o
         /\ [k EXCEPT !.obj = o].id = k.id
         /\ [k EXCEPT !.obj = o].op = k.op
  BY DEF CallType
<1>6. \A k \in CallType : /\ k.op \in Operations /\ k.id \in IDs \cup {NoID}
                          /\ k.obj \in 0 .. MaxSessions
  BY DEF CallType
<1>. QED BY <1>3, <1>4, <1>5, <1>6

\* A session that was put into the table was dialled, and has a number.
LEMMA StoredTyped ==
  ASSUME SessionInv
  PROVE  /\ 0 \notin Sessions /\ Sessions \subseteq 0 .. MaxSessions /\ 0 \in 0 .. MaxSessions
         /\ \A o \in stored : o \in Sessions /\ sid[o] \in IDs \cup {NoID}
         /\ \A i \in IDs : table[i] # 0 => /\ table[i] \in stored /\ table[i] \in Sessions
                                           /\ sid[table[i]] = i
         /\ \A c \in Callers : call[c] \in CallType /\ call[c].obj \in 0 .. MaxSessions
<1>1. 0 \notin Sessions /\ Sessions \subseteq 0 .. MaxSessions /\ 0 \in 0 .. MaxSessions
  BY SessionsAssumption DEF Sessions
<1>2. \A o \in stored : o \in Sessions /\ sid[o] \in IDs \cup {NoID}
  BY DEF SessionInv, SessionTypeOK
<1>3. \A i \in IDs : table[i] # 0 => /\ table[i] \in stored /\ table[i] \in Sessions
                                     /\ sid[table[i]] = i
  BY <1>2 DEF SessionInv, TableOK
<1>4. \A c \in Callers : call[c] \in CallType /\ call[c].obj \in 0 .. MaxSessions
  BY CallTyped DEF SessionInv, AgentTypeOK
<1>. QED BY <1>1, <1>2, <1>3, <1>4

\* An ID that the handshake of a session carries is the one that the relay files
\* the connection under: IDs differ in their bytes.
LEMMA HelloTells ==
  ASSUME NEW i \in IDs, CanWrite(IDBytes[i])
  PROVE  /\ IDBytes[i] = HandshakeID(Hello(i))
         /\ (CHOOSE j \in IDs : IDBytes[j] = HandshakeID(Hello(i))) = i
<1>1. IDBytes[i] \in Seq(Octet) BY IDsAssumption DEF Octet
<1>2. PeerTypeResponder \in Octet BY DEF PeerTypeResponder, Octet
<1>3. HandshakeID(Hello(i)) = IDBytes[i] BY <1>1, <1>2, HandshakeKeepsID DEF Hello
<1>4. \A j \in IDs : IDBytes[j] = IDBytes[i] => j = i BY IDsAssumption
<1>. QED BY <1>3, <1>4

\* A session with a connection has said its ID.
LEMMA DialledSaid ==
  ASSUME SessionInv, NEW o \in Sessions, conn[o] = "open"
  PROVE  \E i \in IDs : i = sid[o] /\ sent[o] = Hello(i) /\ CanWrite(IDBytes[i])
<1>1. o \in Int /\ dialled \in Int BY DEF Sessions, SessionInv, SessionTypeOK
<1>2. o > dialled \/ o <= dialled BY <1>1
<1>3. ~(o > dialled) BY DEF SessionInv, DialledOK
<1>. QED BY <1>2, <1>3 DEF SessionInv, DialledOK

\* What arrives is the beginning of the answer.
LEMMA DeliverPrefix ==
  ASSUME SessionInv, NEW o \in Sessions, Deliver(o)
  PROVE  \E n \in 0 .. Len(reply[o]) : inbox' = [inbox EXCEPT ![o] = SubSeq(reply[o], 1, n)]
<1>1. PICK n \in Cuts \cup {Len(reply[o])} :
         n <= Len(reply[o]) /\ inbox' = [inbox EXCEPT ![o] = SubSeq(reply[o], 1, n)]
  BY DEF Deliver
<1>2. reply[o] \in Seq(Octet) BY AnswersAreBytes DEF SessionInv, WireTypeOK
<1>3. n \in 0 .. Len(reply[o]) BY <1>1, <1>2, CutsAssumption
<1>. QED BY <1>1, <1>3

\* A session that is dialled is new.
LEMMA DialNumber ==
  ASSUME SessionInv, NEW c \in Callers, Dial(c)
  PROVE  /\ dialled + 1 \in Sessions /\ dialled + 1 \in 0 .. MaxSessions /\ dialled + 1 # 0
         /\ dialled + 1 \notin stored /\ reply[dialled + 1] = <<>>
         /\ \A o \in stored : o <= dialled + 1
<1>1. dialled \in 0 .. MaxSessions /\ dialled < MaxSessions /\ MaxSessions \in Nat
  BY SessionsAssumption DEF Dial, SessionInv, SessionTypeOK
<1>2. PICK n : n = dialled + 1 OBVIOUS
<1>3. n \in Sessions /\ n \in 0 .. MaxSessions /\ n # 0 /\ n > dialled /\ ~(n <= dialled)
  BY <1>1, <1>2 DEF Sessions
<1>4. n \notin stored BY <1>3 DEF SessionInv, SessionTypeOK
<1>5. reply[n] = <<>> BY <1>3 DEF SessionInv, DialledOK
<1>6. ASSUME NEW o \in stored PROVE o <= n
  <2>1. o \in Sessions /\ o <= dialled BY DEF SessionInv, SessionTypeOK
  <2>. QED BY <1>1, <1>2, <2>1 DEF Sessions
<1>. QED BY <1>2, <1>3, <1>4, <1>5, <1>6

\* A step keeps the types of the agent's own state.
LEMMA AgentTypeOKStep ==
  ASSUME SessionInv, Next
  PROVE  AgentTypeOK'
<1>. AgentTypeOK /\ SessionTypeOK /\ PlaceOK /\ TableOK BY DEF SessionInv
<1>1. ASSUME NEW c \in Callers, NEW i \in IDs,
              NEW op \in {"create", "remove", "get", "list"}, CallTable(c, op, i)
      PROVE  AgentTypeOK'
  <2>1. pc' \in [Callers -> Places] BY <1>1 DEF CallTable, Goto, AgentTypeOK, Places
  <2>2. call' \in [Callers -> CallType]
    BY <1>1, CallTyped, StoredTyped DEF CallTable, Goto, AgentTypeOK, Operations
  <2>3. mu' \in Callers \cup {Free} BY <1>1 DEF CallTable, Goto, AgentTypeOK
  <2>4. table' \in [IDs -> 0 .. MaxSessions]
    BY <1>1, StoredTyped DEF CallTable, Goto, AgentTypeOK, PlaceOK
  <2>. QED BY <2>1, <2>2, <2>3, <2>4 DEF AgentTypeOK
<1>2. ASSUME NEW c \in Callers, NEW o \in Sessions, CallWrite(c, o)
      PROVE  AgentTypeOK'
  <2>1. pc' \in [Callers -> Places] BY <1>2 DEF CallWrite, Goto, AgentTypeOK, Places
  <2>2. call' \in [Callers -> CallType]
    BY <1>2, CallTyped, StoredTyped DEF CallWrite, Goto, AgentTypeOK, Operations
  <2>3. mu' \in Callers \cup {Free} BY <1>2 DEF CallWrite, Goto, AgentTypeOK
  <2>4. table' \in [IDs -> 0 .. MaxSessions]
    BY <1>2, StoredTyped DEF CallWrite, Goto, AgentTypeOK, PlaceOK
  <2>. QED BY <2>1, <2>2, <2>3, <2>4 DEF AgentTypeOK
<1>3. ASSUME NEW c \in Callers, NEW o \in Sessions, CallClose(c, o)
      PROVE  AgentTypeOK'
  <2>1. pc' \in [Callers -> Places] BY <1>3 DEF CallClose, CloseDone, Goto, AgentTypeOK, Places
  <2>2. call' \in [Callers -> CallType]
    BY <1>3, CallTyped, StoredTyped DEF CallClose, CloseDone, Goto, AgentTypeOK,
       Operations
  <2>3. mu' \in Callers \cup {Free} BY <1>3 DEF CallClose, CloseDone, Goto, AgentTypeOK
  <2>4. table' \in [IDs -> 0 .. MaxSessions]
    BY <1>3, StoredTyped DEF CallClose, CloseDone, Goto, AgentTypeOK, PlaceOK
  <2>. QED BY <2>1, <2>2, <2>3, <2>4 DEF AgentTypeOK
<1>4. ASSUME NEW c \in Callers, Read(c)
      PROVE  AgentTypeOK'
  <2>1. pc' \in [Callers -> Places] BY <1>4 DEF Read, Return, Goto, AgentTypeOK, Places
  <2>2. call' \in [Callers -> CallType]
    BY <1>4, CallTyped, StoredTyped DEF Read, Return, Goto, AgentTypeOK, Operations
  <2>3. mu' \in Callers \cup {Free} BY <1>4 DEF Read, Return, Goto, AgentTypeOK
  <2>4. table' \in [IDs -> 0 .. MaxSessions]
    BY <1>4, StoredTyped DEF Read, Return, Goto, AgentTypeOK, PlaceOK
  <2>. QED BY <2>1, <2>2, <2>3, <2>4 DEF AgentTypeOK
<1>5. ASSUME NEW c \in Callers, LockCreate(c)
      PROVE  AgentTypeOK'
  <2>1. pc' \in [Callers -> Places] BY <1>5 DEF LockCreate, Goto, AgentTypeOK, Places
  <2>2. call' \in [Callers -> CallType]
    BY <1>5, CallTyped, StoredTyped DEF LockCreate, Goto, AgentTypeOK, Operations
  <2>3. mu' \in Callers \cup {Free} BY <1>5 DEF LockCreate, Goto, AgentTypeOK
  <2>4. table' \in [IDs -> 0 .. MaxSessions]
    BY <1>5, StoredTyped DEF LockCreate, Goto, AgentTypeOK, PlaceOK
  <2>. QED BY <2>1, <2>2, <2>3, <2>4 DEF AgentTypeOK
<1>6. ASSUME NEW c \in Callers, LockRemove(c)
      PROVE  AgentTypeOK'
  <2>1. pc' \in [Callers -> Places]
    BY <1>6 DEF LockRemove, CloseDone, Return, Goto, AgentTypeOK, Places
  <2>2. call' \in [Callers -> CallType]
    <3>1. call[c].id \in IDs BY <1>6 DEF LockRemove, PlaceOK
    <3>2. CASE table[call[c].id] = 0
      BY <1>6, <3>2, CallTyped DEF LockRemove, Return, AgentTypeOK
    <3>3. CASE table[call[c].id] # 0
      <4>1. PICK o : o = table[call[c].id] OBVIOUS
      <4>2. o \in 0 .. MaxSessions /\ sid[o] \in IDs \cup {NoID}
        BY <3>1, <3>3, <4>1, StoredTyped
      <4>3. [op |-> "remove", id |-> sid[o], obj |-> o] \in CallType
        BY <4>2, CallTyped DEF Operations
      <4>. QED BY <1>6, <3>3, <4>1, <4>3 DEF LockRemove, CloseDone, AgentTypeOK
    <3>. QED BY <3>2, <3>3
  <2>3. mu' \in Callers \cup {Free} BY <1>6 DEF LockRemove, AgentTypeOK
  <2>4. table' \in [IDs -> 0 .. MaxSessions] BY <1>6 DEF LockRemove, AgentTypeOK
  <2>. QED BY <2>1, <2>2, <2>3, <2>4 DEF AgentTypeOK
<1>7. ASSUME NEW c \in Callers, CloseConn(c)
      PROVE  AgentTypeOK'
  <2>1. pc' \in [Callers -> Places] BY <1>7 DEF CloseConn, Return, Goto, AgentTypeOK, Places
  <2>2. call' \in [Callers -> CallType]
    BY <1>7, CallTyped, StoredTyped DEF CloseConn, Return, Goto, AgentTypeOK, Operations
  <2>3. mu' \in Callers \cup {Free} BY <1>7 DEF CloseConn, Return, Goto, AgentTypeOK
  <2>4. table' \in [IDs -> 0 .. MaxSessions]
    BY <1>7, StoredTyped DEF CloseConn, Return, Goto, AgentTypeOK, PlaceOK
  <2>. QED BY <2>1, <2>2, <2>3, <2>4 DEF AgentTypeOK
<1>8. ASSUME NEW c \in Callers, DialFails(c)
      PROVE  AgentTypeOK'
  <2>1. pc' \in [Callers -> Places] BY <1>8 DEF DialFails, Return, Goto, AgentTypeOK, Places
  <2>2. call' \in [Callers -> CallType]
    BY <1>8, CallTyped, StoredTyped DEF DialFails, Return, Goto, AgentTypeOK, Operations
  <2>3. mu' \in Callers \cup {Free} BY <1>8 DEF DialFails, Return, Goto, AgentTypeOK
  <2>4. table' \in [IDs -> 0 .. MaxSessions]
    BY <1>8, StoredTyped DEF DialFails, Return, Goto, AgentTypeOK, PlaceOK
  <2>. QED BY <2>1, <2>2, <2>3, <2>4 DEF AgentTypeOK
<1>9. ASSUME NEW c \in Callers, Dial(c)
      PROVE  AgentTypeOK'
  <2>1. pc' \in [Callers -> Places] BY <1>9 DEF Dial, Goto, AgentTypeOK, Places
  <2>2. call' \in [Callers -> CallType]
    <3>1. dialled + 1 \in 0 .. MaxSessions BY <1>9, DialNumber
    <3>2. call[c] \in CallType BY DEF AgentTypeOK
    <3>3. [call[c] EXCEPT !.obj = dialled + 1] \in CallType BY <3>1, <3>2, CallTyped
    <3>. QED BY <1>9, <3>3 DEF Dial, AgentTypeOK
  <2>3. mu' \in Callers \cup {Free} BY <1>9 DEF Dial, AgentTypeOK
  <2>4. table' \in [IDs -> 0 .. MaxSessions] BY <1>9 DEF Dial, AgentTypeOK
  <2>. QED BY <2>1, <2>2, <2>3, <2>4 DEF AgentTypeOK
<1>10. ASSUME NEW c \in Callers, Acknowledged(c)
      PROVE  AgentTypeOK'
  <2>1. pc' \in [Callers -> Places] BY <1>10 DEF Acknowledged, Return, Goto, AgentTypeOK, Places
  <2>2. call' \in [Callers -> CallType]
    BY <1>10, CallTyped, StoredTyped DEF Acknowledged, Return, Goto, AgentTypeOK,
       Operations
  <2>3. mu' \in Callers \cup {Free} BY <1>10 DEF Acknowledged, Return, Goto, AgentTypeOK
  <2>4. table' \in [IDs -> 0 .. MaxSessions]
    BY <1>10, StoredTyped DEF Acknowledged, Return, Goto, AgentTypeOK, PlaceOK
  <2>. QED BY <2>1, <2>2, <2>3, <2>4 DEF AgentTypeOK
<1>11. ASSUME NEW c \in Callers, Refused(c)
      PROVE  AgentTypeOK'
  <2>1. pc' \in [Callers -> Places] BY <1>11 DEF Refused, Return, Goto, AgentTypeOK, Places
  <2>2. call' \in [Callers -> CallType]
    BY <1>11, CallTyped, StoredTyped DEF Refused, Return, Goto, AgentTypeOK, Operations
  <2>3. mu' \in Callers \cup {Free} BY <1>11 DEF Refused, Return, Goto, AgentTypeOK
  <2>4. table' \in [IDs -> 0 .. MaxSessions]
    BY <1>11, StoredTyped DEF Refused, Return, Goto, AgentTypeOK, PlaceOK
  <2>. QED BY <2>1, <2>2, <2>3, <2>4 DEF AgentTypeOK
<1>12. ASSUME NEW c \in Callers, LockWrite(c)
      PROVE  AgentTypeOK'
  <2>1. pc' \in [Callers -> Places] BY <1>12 DEF LockWrite, Goto, AgentTypeOK, Places
  <2>2. call' \in [Callers -> CallType]
    BY <1>12, CallTyped, StoredTyped DEF LockWrite, Goto, AgentTypeOK, Operations
  <2>3. mu' \in Callers \cup {Free} BY <1>12 DEF LockWrite, Goto, AgentTypeOK
  <2>4. table' \in [IDs -> 0 .. MaxSessions]
    BY <1>12, StoredTyped DEF LockWrite, Goto, AgentTypeOK, PlaceOK
  <2>. QED BY <2>1, <2>2, <2>3, <2>4 DEF AgentTypeOK
<1>13. ASSUME NEW c \in Callers, WriteReturns(c)
      PROVE  AgentTypeOK'
  <2>1. pc' \in [Callers -> Places] BY <1>13 DEF WriteReturns, Return, Goto, AgentTypeOK, Places
  <2>2. call' \in [Callers -> CallType]
    BY <1>13, CallTyped, StoredTyped DEF WriteReturns, Return, Goto, AgentTypeOK,
       Operations
  <2>3. mu' \in Callers \cup {Free} BY <1>13 DEF WriteReturns, Return, Goto, AgentTypeOK
  <2>4. table' \in [IDs -> 0 .. MaxSessions]
    BY <1>13, StoredTyped DEF WriteReturns, Return, Goto, AgentTypeOK, PlaceOK
  <2>. QED BY <2>1, <2>2, <2>3, <2>4 DEF AgentTypeOK
<1>14. ASSUME NEW o \in Sessions, Answer(o)
      PROVE  AgentTypeOK'
  BY <1>14 DEF Answer, session, agent, AgentTypeOK
<1>15. ASSUME NEW o \in Sessions, Deliver(o)
      PROVE  AgentTypeOK'
  BY <1>15 DEF Deliver, session, agent, AgentTypeOK
<1>. QED
  BY <1>1, <1>2, <1>3, <1>4, <1>5, <1>6, <1>7, <1>8, <1>9, <1>10, <1>11, <1>12, <1>13,
     <1>14, <1>15 DEF Next, Locked, Open

\* A step keeps the types of the sessions, and done within stored.
LEMMA SessionTypeOKStep ==
  ASSUME SessionInv, Next
  PROVE  SessionTypeOK'
<1>. AgentTypeOK /\ SessionTypeOK /\ PlaceOK /\ TableOK BY DEF SessionInv
<1>1. ASSUME NEW c \in Callers, NEW i \in IDs,
              NEW op \in {"create", "remove", "get", "list"}, CallTable(c, op, i)
      PROVE  SessionTypeOK'
  BY <1>1 DEF CallTable, session, wire, SessionTypeOK
<1>2. ASSUME NEW c \in Callers, NEW o \in Sessions, CallWrite(c, o)
      PROVE  SessionTypeOK'
  BY <1>2 DEF CallWrite, session, wire, SessionTypeOK
<1>3. ASSUME NEW c \in Callers, NEW o \in Sessions, CallClose(c, o)
      PROVE  SessionTypeOK'
  <2>1. done' \subseteq stored BY <1>3 DEF CallClose, CloseDone, SessionTypeOK
  <2>. QED BY <1>3, <2>1 DEF CallClose, SessionTypeOK
<1>4. ASSUME NEW c \in Callers, Read(c)
      PROVE  SessionTypeOK'
  BY <1>4 DEF Read, session, wire, SessionTypeOK
<1>5. ASSUME NEW c \in Callers, LockCreate(c)
      PROVE  SessionTypeOK'
  BY <1>5 DEF LockCreate, session, wire, SessionTypeOK
<1>6. ASSUME NEW c \in Callers, LockRemove(c)
      PROVE  SessionTypeOK'
  <2>1. call[c].id \in IDs BY <1>6 DEF LockRemove, PlaceOK
  <2>2. table[call[c].id] # 0 => table[call[c].id] \in stored BY <2>1, StoredTyped
  <2>3. done' \subseteq stored BY <1>6, <2>2 DEF LockRemove, CloseDone, SessionTypeOK
  <2>. QED BY <1>6, <2>3 DEF LockRemove, SessionTypeOK
<1>7. ASSUME NEW c \in Callers, CloseConn(c)
      PROVE  SessionTypeOK'
  BY <1>7 DEF CloseConn, Return, Goto, wire, SessionTypeOK
<1>8. ASSUME NEW c \in Callers, DialFails(c)
      PROVE  SessionTypeOK'
  BY <1>8 DEF DialFails, session, wire, SessionTypeOK
<1>9. ASSUME NEW c \in Callers, Dial(c)
      PROVE  SessionTypeOK'
  <2>1. call[c].id \in IDs BY <1>9 DEF Dial, PlaceOK
  <2>2. dialled' \in 0 .. MaxSessions /\ \A o \in stored : o <= dialled'
    BY <1>9, DialNumber DEF Dial
  <2>3. sid' \in [Sessions -> IDs \cup {NoID}] BY <1>9, <2>1 DEF Dial, SessionTypeOK
  <2>4. conn' \in [Sessions -> {"none", "open", "closed"}] BY <1>9 DEF Dial, SessionTypeOK
  <2>. QED BY <1>9, <2>2, <2>3, <2>4 DEF Dial, SessionTypeOK
<1>10. ASSUME NEW c \in Callers, Acknowledged(c)
      PROVE  SessionTypeOK'
  <2>1. call[c].obj = dialled /\ dialled # 0 BY <1>10 DEF Acknowledged, PlaceOK
  <2>2. dialled \in Sessions /\ dialled <= dialled BY <2>1 DEF SessionTypeOK, Sessions
  <2>3. stored' = stored \cup {dialled} BY <1>10, <2>1 DEF Acknowledged
  <2>. QED BY <1>10, <2>2, <2>3 DEF Acknowledged, SessionTypeOK
<1>11. ASSUME NEW c \in Callers, Refused(c)
      PROVE  SessionTypeOK'
  BY <1>11 DEF Refused, Return, Goto, wire, SessionTypeOK
<1>12. ASSUME NEW c \in Callers, LockWrite(c)
      PROVE  SessionTypeOK'
  BY <1>12 DEF LockWrite, wire, SessionTypeOK
<1>13. ASSUME NEW c \in Callers, WriteReturns(c)
      PROVE  SessionTypeOK'
  BY <1>13 DEF WriteReturns, wire, SessionTypeOK
<1>14. ASSUME NEW o \in Sessions, Answer(o)
      PROVE  SessionTypeOK'
  BY <1>14 DEF Answer, session, agent, SessionTypeOK
<1>15. ASSUME NEW o \in Sessions, Deliver(o)
      PROVE  SessionTypeOK'
  BY <1>15 DEF Deliver, session, agent, SessionTypeOK
<1>. QED
  BY <1>1, <1>2, <1>3, <1>4, <1>5, <1>6, <1>7, <1>8, <1>9, <1>10, <1>11, <1>12, <1>13,
     <1>14, <1>15 DEF Next, Locked, Open

\* A step keeps what can be on the wire.
LEMMA WireTypeOKStep ==
  ASSUME SessionInv, Next
  PROVE  WireTypeOK'
<1>. AgentTypeOK /\ SessionTypeOK /\ WireTypeOK /\ PlaceOK BY DEF SessionInv
<1>1. ASSUME NEW c \in Callers, NEW i \in IDs,
              NEW op \in {"create", "remove", "get", "list"}, CallTable(c, op, i)
      PROVE  WireTypeOK'
  BY <1>1 DEF CallTable, session, wire, WireTypeOK
<1>2. ASSUME NEW c \in Callers, NEW o \in Sessions, CallWrite(c, o)
      PROVE  WireTypeOK'
  BY <1>2 DEF CallWrite, session, wire, WireTypeOK
<1>3. ASSUME NEW c \in Callers, NEW o \in Sessions, CallClose(c, o)
      PROVE  WireTypeOK'
  BY <1>3 DEF CallClose, wire, WireTypeOK
<1>4. ASSUME NEW c \in Callers, Read(c)
      PROVE  WireTypeOK'
  BY <1>4 DEF Read, session, wire, WireTypeOK
<1>5. ASSUME NEW c \in Callers, LockCreate(c)
      PROVE  WireTypeOK'
  BY <1>5 DEF LockCreate, session, wire, WireTypeOK
<1>6. ASSUME NEW c \in Callers, LockRemove(c)
      PROVE  WireTypeOK'
  BY <1>6 DEF LockRemove, wire, WireTypeOK
<1>7. ASSUME NEW c \in Callers, CloseConn(c)
      PROVE  WireTypeOK'
  BY <1>7 DEF CloseConn, wire, WireTypeOK
<1>8. ASSUME NEW c \in Callers, DialFails(c)
      PROVE  WireTypeOK'
  BY <1>8 DEF DialFails, session, wire, WireTypeOK
<1>9. ASSUME NEW c \in Callers, Dial(c)
      PROVE  WireTypeOK'
  BY <1>9 DEF Dial, Goto, AgentTypeOK, SessionTypeOK, WireTypeOK, PlaceOK, Sessions,
     Hello
<1>10. ASSUME NEW c \in Callers, Acknowledged(c)
      PROVE  WireTypeOK'
  BY <1>10 DEF Acknowledged, wire, WireTypeOK
<1>11. ASSUME NEW c \in Callers, Refused(c)
      PROVE  WireTypeOK'
  BY <1>11 DEF Refused, wire, WireTypeOK
<1>12. ASSUME NEW c \in Callers, LockWrite(c)
      PROVE  WireTypeOK'
  BY <1>12 DEF LockWrite, wire, WireTypeOK
<1>13. ASSUME NEW c \in Callers, WriteReturns(c)
      PROVE  WireTypeOK'
  BY <1>13 DEF WriteReturns, wire, WireTypeOK
<1>14. ASSUME NEW o \in Sessions, Answer(o)
      PROVE  WireTypeOK'
  <2>1. reply' \in [Sessions -> {<<>>, Yes, No}]
    BY <1>14 DEF Answer, WireTypeOK, Yes, No
  <2>2. joined' \in [Sessions -> IDs \cup {NoID}]
    <3>1. CASE UNCHANGED joined BY <3>1 DEF WireTypeOK
    <3>2. CASE /\ HandshakeAccepted(sent[o])
               /\ joined' = [joined EXCEPT ![o] =
                               CHOOSE i \in IDs : IDBytes[i] = HandshakeID(sent[o])]
      <4>1. PICK i \in IDs : sent[o] = Hello(i) /\ CanWrite(IDBytes[i])
        BY <1>14, DialledSaid DEF Answer
      <4>2. \E j \in IDs : IDBytes[j] = HandshakeID(sent[o]) BY <4>1, HelloTells
      <4>. QED BY <3>2, <4>2 DEF WireTypeOK
    <3>. QED BY <1>14, <3>1, <3>2 DEF Answer
  <2>. QED BY <1>14, <2>1, <2>2 DEF Answer, WireTypeOK
<1>15. ASSUME NEW o \in Sessions, Deliver(o)
      PROVE  WireTypeOK'
  <2>1. PICK n \in 0 .. Len(reply[o]) : inbox' = [inbox EXCEPT ![o] = SubSeq(reply[o], 1, n)]
    BY <1>15, DeliverPrefix
  <2>2. SubSeq(reply[o], 1, n) \in Seq(Octet)
    <3>1. reply[o] \in Seq(Octet) BY AnswersAreBytes DEF WireTypeOK
    <3>2. \A k \in 1 .. n : reply[o][k] \in Octet BY <3>1
    <3>. QED BY <3>2, SubSeqProperties
  <2>. QED BY <1>15, <2>1, <2>2 DEF Deliver, WireTypeOK
<1>. QED
  BY <1>1, <1>2, <1>3, <1>4, <1>5, <1>6, <1>7, <1>8, <1>9, <1>10, <1>11, <1>12, <1>13,
     <1>14, <1>15 DEF Next, Locked, Open

\* A step keeps every goroutine where it may be: the lock excludes the others.
LEMMA PlaceOKStep ==
  ASSUME SessionInv, Next
  PROVE  PlaceOK'
<1>. AgentTypeOK /\ SessionTypeOK /\ PlaceOK /\ TableOK BY DEF SessionInv
<1>1. ASSUME NEW c \in Callers, NEW i \in IDs,
              NEW op \in {"create", "remove", "get", "list"}, CallTable(c, op, i)
      PROVE  PlaceOK'
  BY <1>1 DEF CallTable, Goto, session, wire, AgentTypeOK, PlaceOK, NoCall
<1>2. ASSUME NEW c \in Callers, NEW o \in Sessions, CallWrite(c, o)
      PROVE  PlaceOK'
  BY <1>2 DEF CallWrite, Goto, session, wire, AgentTypeOK, PlaceOK, NoCall
<1>3. ASSUME NEW c \in Callers, NEW o \in Sessions, CallClose(c, o)
      PROVE  PlaceOK'
  BY <1>3 DEF CallClose, CloseDone, Goto, wire, AgentTypeOK, PlaceOK, NoCall
<1>4. ASSUME NEW c \in Callers, Read(c)
      PROVE  PlaceOK'
  BY <1>4 DEF Read, Return, Goto, session, wire, AgentTypeOK, PlaceOK, NoCall
<1>5. ASSUME NEW c \in Callers, LockCreate(c)
      PROVE  PlaceOK'
  <2>1. \A d \in Callers : d # c => pc'[d] = pc[d]
    BY <1>5 DEF LockCreate, Goto, AgentTypeOK
  <2>2. pc'[c] = "dial" BY <1>5 DEF LockCreate, Goto, AgentTypeOK
  <2>3. call[c].id \in IDs BY <1>5 DEF LockCreate, PlaceOK
  <2>4. \A d \in Callers : mu # d BY <1>5, SessionsAssumption DEF LockCreate
  <2>5. mu' = c BY <1>5 DEF LockCreate
  <2>6. call' = call /\ table' = table /\ dialled' = dialled /\ sid' = sid /\ stored' = stored
    BY <1>5 DEF LockCreate, session
  <2>. QED BY <2>1, <2>2, <2>3, <2>4, <2>5, <2>6 DEF PlaceOK
<1>6. ASSUME NEW c \in Callers, LockRemove(c)
      PROVE  PlaceOK'
  <2>1. \A d \in Callers : d # c => pc'[d] = pc[d] /\ call'[d] = call[d]
    BY <1>6 DEF LockRemove, CloseDone, Return, Goto, AgentTypeOK
  <2>2. \A d \in Callers : mu # d BY <1>6, SessionsAssumption DEF LockRemove
  <2>3. table' = table /\ dialled' = dialled /\ sid' = sid /\ stored' = stored
    BY <1>6 DEF LockRemove
  <2>4. call[c].id \in IDs /\ pc[c] = "lock" BY <1>6 DEF LockRemove, PlaceOK
  <2>5. CASE table[call[c].id] = 0
    <3>1. pc'[c] = "idle" BY <1>6, <2>5 DEF LockRemove, Return, Goto, AgentTypeOK
    <3>. QED BY <2>1, <2>2, <2>3, <3>1 DEF PlaceOK
  <2>6. CASE table[call[c].id] # 0 /\ table[call[c].id] \in done
    <3>1. pc' = pc /\ call' = call BY <1>6, <2>6 DEF LockRemove, CloseDone
    <3>. QED BY <2>2, <2>3, <2>4, <3>1 DEF PlaceOK
  <2>7. CASE table[call[c].id] # 0 /\ table[call[c].id] \notin done
    <3>1. PICK o : o = table[call[c].id] OBVIOUS
    <3>2. o \in stored /\ sid[o] = call[c].id BY <2>4, <2>7, <3>1, StoredTyped
    <3>3. pc'[c] = "closing" /\ mu' = c
      BY <1>6, <2>7 DEF LockRemove, CloseDone, Goto, AgentTypeOK
    <3>4. call'[c] = [op |-> "remove", id |-> call[c].id, obj |-> o]
      BY <1>6, <2>7, <3>1, <3>2 DEF LockRemove, CloseDone, AgentTypeOK
    <3>5. call'[c].obj = o /\ call'[c].id = call[c].id BY <3>4
    <3>. QED BY <2>1, <2>2, <2>3, <3>1, <3>2, <3>3, <3>5 DEF PlaceOK
  <2>. QED BY <2>5, <2>6, <2>7
<1>7. ASSUME NEW c \in Callers, CloseConn(c)
      PROVE  PlaceOK'
  BY <1>7 DEF CloseConn, Return, Goto, wire, AgentTypeOK, PlaceOK, NoCall
<1>8. ASSUME NEW c \in Callers, DialFails(c)
      PROVE  PlaceOK'
  BY <1>8 DEF DialFails, Return, Goto, session, wire, AgentTypeOK, PlaceOK, NoCall
<1>9. ASSUME NEW c \in Callers, Dial(c)
      PROVE  PlaceOK'
  <2>1. \A d \in Callers : d # c => pc'[d] = pc[d] /\ call'[d] = call[d]
    BY <1>9 DEF Dial, Goto, AgentTypeOK
  <2>2. mu' = mu /\ table' = table /\ stored' = stored BY <1>9 DEF Dial
  <2>3. mu = c /\ call[c].id \in IDs /\ pc[c] = "dial" BY <1>9 DEF Dial, PlaceOK
  <2>4. pc'[c] = "ack" BY <1>9 DEF Dial, Goto, AgentTypeOK
  <2>5. PICK o : o = dialled + 1 OBVIOUS
  <2>6. dialled' = o /\ o \in Sessions /\ o # 0 /\ o \in 0 .. MaxSessions /\ o \notin stored
    BY <1>9, <2>5, DialNumber DEF Dial
  <2>7. sid' = [sid EXCEPT ![o] = call[c].id] BY <1>9, <2>5 DEF Dial
  <2>8. sid'[o] = call[c].id /\ \A p \in stored : sid'[p] = sid[p]
    BY <2>6, <2>7 DEF SessionTypeOK
  <2>9. call'[c].obj = o /\ call'[c].id = call[c].id
    <3>1. call'[c] = [call[c] EXCEPT !.obj = o] BY <1>9, <2>5 DEF Dial, AgentTypeOK
    <3>2. call[c] \in CallType BY DEF AgentTypeOK
    <3>. QED BY <2>6, <3>1, <3>2, CallTyped
  <2>10. ASSUME NEW d \in Callers, d # c PROVE pc[d] \notin {"dial", "ack"}
    BY <2>3, <2>10 DEF PlaceOK
  <2>. QED BY <2>1, <2>2, <2>3, <2>4, <2>6, <2>8, <2>9, <2>10 DEF PlaceOK
<1>10. ASSUME NEW c \in Callers, Acknowledged(c)
      PROVE  PlaceOK'
  BY <1>10 DEF Acknowledged, Return, Goto, wire, AgentTypeOK, PlaceOK, NoCall
<1>11. ASSUME NEW c \in Callers, Refused(c)
      PROVE  PlaceOK'
  BY <1>11 DEF Refused, Return, Goto, wire, AgentTypeOK, PlaceOK, NoCall
<1>12. ASSUME NEW c \in Callers, LockWrite(c)
      PROVE  PlaceOK'
  BY <1>12 DEF LockWrite, Goto, wire, AgentTypeOK, PlaceOK, NoCall
<1>13. ASSUME NEW c \in Callers, WriteReturns(c)
      PROVE  PlaceOK'
  BY <1>13 DEF WriteReturns, Return, Goto, wire, AgentTypeOK, PlaceOK, NoCall
<1>14. ASSUME NEW o \in Sessions, Answer(o)
      PROVE  PlaceOK'
  BY <1>14 DEF Answer, session, agent, PlaceOK
<1>15. ASSUME NEW o \in Sessions, Deliver(o)
      PROVE  PlaceOK'
  BY <1>15 DEF Deliver, session, agent, PlaceOK
<1>. QED
  BY <1>1, <1>2, <1>3, <1>4, <1>5, <1>6, <1>7, <1>8, <1>9, <1>10, <1>11, <1>12, <1>13,
     <1>14, <1>15 DEF Next, Locked, Open

\* A step keeps sessions under their own IDs.
LEMMA TableOKStep ==
  ASSUME SessionInv, Next
  PROVE  TableOK'
<1>. AgentTypeOK /\ SessionTypeOK /\ PlaceOK /\ TableOK BY DEF SessionInv
<1>1. ASSUME NEW c \in Callers, NEW i \in IDs,
              NEW op \in {"create", "remove", "get", "list"}, CallTable(c, op, i)
      PROVE  TableOK'
  BY <1>1 DEF CallTable, session, wire, TableOK
<1>2. ASSUME NEW c \in Callers, NEW o \in Sessions, CallWrite(c, o)
      PROVE  TableOK'
  BY <1>2 DEF CallWrite, session, wire, TableOK
<1>3. ASSUME NEW c \in Callers, NEW o \in Sessions, CallClose(c, o)
      PROVE  TableOK'
  BY <1>3 DEF CallClose, wire, TableOK
<1>4. ASSUME NEW c \in Callers, Read(c)
      PROVE  TableOK'
  BY <1>4 DEF Read, session, wire, TableOK
<1>5. ASSUME NEW c \in Callers, LockCreate(c)
      PROVE  TableOK'
  BY <1>5 DEF LockCreate, session, wire, TableOK
<1>6. ASSUME NEW c \in Callers, LockRemove(c)
      PROVE  TableOK'
  BY <1>6 DEF LockRemove, wire, TableOK
<1>7. ASSUME NEW c \in Callers, CloseConn(c)
      PROVE  TableOK'
  BY <1>7 DEF CloseConn, Return, Goto, wire, AgentTypeOK, TableOK
<1>8. ASSUME NEW c \in Callers, DialFails(c)
      PROVE  TableOK'
  BY <1>8 DEF DialFails, session, wire, TableOK
<1>9. ASSUME NEW c \in Callers, Dial(c)
      PROVE  TableOK'
  BY <1>9 DEF Dial, Goto, SessionTypeOK, AgentTypeOK, TableOK
<1>10. ASSUME NEW c \in Callers, Acknowledged(c)
      PROVE  TableOK'
  BY <1>10 DEF Acknowledged, Return, Goto, wire, AgentTypeOK, SessionTypeOK, PlaceOK,
     TableOK, Sessions
<1>11. ASSUME NEW c \in Callers, Refused(c)
      PROVE  TableOK'
  BY <1>11 DEF Refused, wire, TableOK
<1>12. ASSUME NEW c \in Callers, LockWrite(c)
      PROVE  TableOK'
  BY <1>12 DEF LockWrite, wire, TableOK
<1>13. ASSUME NEW c \in Callers, WriteReturns(c)
      PROVE  TableOK'
  BY <1>13 DEF WriteReturns, wire, TableOK
<1>14. ASSUME NEW o \in Sessions, Answer(o)
      PROVE  TableOK'
  BY <1>14 DEF Answer, session, agent, TableOK
<1>15. ASSUME NEW o \in Sessions, Deliver(o)
      PROVE  TableOK'
  BY <1>15 DEF Deliver, session, agent, TableOK
<1>. QED
  BY <1>1, <1>2, <1>3, <1>4, <1>5, <1>6, <1>7, <1>8, <1>9, <1>10, <1>11, <1>12, <1>13,
     <1>14, <1>15 DEF Next, Locked, Open

\* A step keeps what the sessions have said of themselves.
LEMMA DialledOKStep ==
  ASSUME SessionInv, Next
  PROVE  DialledOK'
<1>. AgentTypeOK /\ SessionTypeOK /\ WireTypeOK /\ PlaceOK /\ DialledOK
  BY DEF SessionInv
<1>1. ASSUME NEW c \in Callers, NEW i \in IDs,
              NEW op \in {"create", "remove", "get", "list"}, CallTable(c, op, i)
      PROVE  DialledOK'
  BY <1>1 DEF CallTable, session, wire, DialledOK
<1>2. ASSUME NEW c \in Callers, NEW o \in Sessions, CallWrite(c, o)
      PROVE  DialledOK'
  BY <1>2 DEF CallWrite, session, wire, DialledOK
<1>3. ASSUME NEW c \in Callers, NEW o \in Sessions, CallClose(c, o)
      PROVE  DialledOK'
  BY <1>3 DEF CallClose, wire, DialledOK
<1>4. ASSUME NEW c \in Callers, Read(c)
      PROVE  DialledOK'
  BY <1>4 DEF Read, session, wire, DialledOK
<1>5. ASSUME NEW c \in Callers, LockCreate(c)
      PROVE  DialledOK'
  BY <1>5 DEF LockCreate, session, wire, DialledOK
<1>6. ASSUME NEW c \in Callers, LockRemove(c)
      PROVE  DialledOK'
  BY <1>6 DEF LockRemove, wire, DialledOK
<1>7. ASSUME NEW c \in Callers, CloseConn(c)
      PROVE  DialledOK'
  BY <1>7 DEF CloseConn, Return, Goto, wire, AgentTypeOK, SessionTypeOK, WireTypeOK,
     PlaceOK, DialledOK, Sessions, Hello
<1>8. ASSUME NEW c \in Callers, DialFails(c)
      PROVE  DialledOK'
  BY <1>8 DEF DialFails, session, wire, DialledOK
<1>9. ASSUME NEW c \in Callers, Dial(c)
      PROVE  DialledOK'
  BY <1>9 DEF Dial, Goto, AgentTypeOK, SessionTypeOK, WireTypeOK, PlaceOK, DialledOK,
     Sessions, Hello
<1>10. ASSUME NEW c \in Callers, Acknowledged(c)
      PROVE  DialledOK'
  BY <1>10 DEF Acknowledged, wire, DialledOK
<1>11. ASSUME NEW c \in Callers, Refused(c)
      PROVE  DialledOK'
  BY <1>11 DEF Refused, Return, Goto, wire, AgentTypeOK, SessionTypeOK, WireTypeOK,
     PlaceOK, DialledOK, Sessions, Hello
<1>12. ASSUME NEW c \in Callers, LockWrite(c)
      PROVE  DialledOK'
  BY <1>12 DEF LockWrite, wire, DialledOK
<1>13. ASSUME NEW c \in Callers, WriteReturns(c)
      PROVE  DialledOK'
  BY <1>13 DEF WriteReturns, wire, DialledOK
<1>14. ASSUME NEW o \in Sessions, Answer(o)
      PROVE  DialledOK'
  BY <1>14 DEF Answer, session, agent, AgentTypeOK, SessionTypeOK, WireTypeOK, PlaceOK,
     DialledOK, Sessions, Hello
<1>15. ASSUME NEW o \in Sessions, Deliver(o)
      PROVE  DialledOK'
  BY <1>15 DEF Deliver, session, agent, DialledOK
<1>. QED
  BY <1>1, <1>2, <1>3, <1>4, <1>5, <1>6, <1>7, <1>8, <1>9, <1>10, <1>11, <1>12, <1>13,
     <1>14, <1>15 DEF Next, Locked, Open

\* A step keeps the relay's word: what it accepts it has filed.
LEMMA AnswerOKStep ==
  ASSUME SessionInv, Next
  PROVE  AnswerOK'
<1>. AgentTypeOK /\ SessionTypeOK /\ WireTypeOK /\ PlaceOK /\ DialledOK /\ AnswerOK
  BY DEF SessionInv
<1>1. ASSUME NEW c \in Callers, NEW i \in IDs,
              NEW op \in {"create", "remove", "get", "list"}, CallTable(c, op, i)
      PROVE  AnswerOK'
  BY <1>1 DEF CallTable, session, wire, AnswerOK
<1>2. ASSUME NEW c \in Callers, NEW o \in Sessions, CallWrite(c, o)
      PROVE  AnswerOK'
  BY <1>2 DEF CallWrite, session, wire, AnswerOK
<1>3. ASSUME NEW c \in Callers, NEW o \in Sessions, CallClose(c, o)
      PROVE  AnswerOK'
  BY <1>3 DEF CallClose, wire, AnswerOK
<1>4. ASSUME NEW c \in Callers, Read(c)
      PROVE  AnswerOK'
  BY <1>4 DEF Read, session, wire, AnswerOK
<1>5. ASSUME NEW c \in Callers, LockCreate(c)
      PROVE  AnswerOK'
  BY <1>5 DEF LockCreate, session, wire, AnswerOK
<1>6. ASSUME NEW c \in Callers, LockRemove(c)
      PROVE  AnswerOK'
  BY <1>6 DEF LockRemove, wire, AnswerOK
<1>7. ASSUME NEW c \in Callers, CloseConn(c)
      PROVE  AnswerOK'
  BY <1>7 DEF CloseConn, wire, AnswerOK
<1>8. ASSUME NEW c \in Callers, DialFails(c)
      PROVE  AnswerOK'
  BY <1>8 DEF DialFails, session, wire, AnswerOK
<1>9. ASSUME NEW c \in Callers, Dial(c)
      PROVE  AnswerOK'
  <2>1. reply[dialled + 1] = <<>> /\ dialled + 1 \in Sessions
    BY <1>9, DialNumber
  <2>2. \A p \in Sessions : p # dialled + 1 => sid'[p] = sid[p]
    BY <1>9 DEF Dial, SessionTypeOK
  <2>3. reply' = reply /\ joined' = joined /\ inbox' = inbox /\ stored' = stored
    BY <1>9 DEF Dial
  <2>. QED BY <2>1, <2>2, <2>3, AnswersAreBytes DEF AnswerOK
<1>10. ASSUME NEW c \in Callers, Acknowledged(c)
      PROVE  AnswerOK'
  BY <1>10 DEF Acknowledged, Return, Goto, wire, AgentTypeOK, SessionTypeOK, WireTypeOK,
     PlaceOK, DialledOK, AnswerOK, Sessions
<1>11. ASSUME NEW c \in Callers, Refused(c)
      PROVE  AnswerOK'
  BY <1>11 DEF Refused, wire, AnswerOK
<1>12. ASSUME NEW c \in Callers, LockWrite(c)
      PROVE  AnswerOK'
  BY <1>12 DEF LockWrite, wire, AnswerOK
<1>13. ASSUME NEW c \in Callers, WriteReturns(c)
      PROVE  AnswerOK'
  BY <1>13 DEF WriteReturns, wire, AnswerOK
<1>14. ASSUME NEW o \in Sessions, Answer(o)
      PROVE  AnswerOK'
  <2>1. PICK i \in IDs : i = sid[o] /\ sent[o] = Hello(i) /\ CanWrite(IDBytes[i])
    BY <1>14, DialledSaid DEF Answer
  <2>2. (CHOOSE j \in IDs : IDBytes[j] = HandshakeID(sent[o])) = i
    BY <2>1, HelloTells
  <2>3. sid' = sid /\ stored' = stored /\ inbox' = inbox BY <1>14 DEF Answer, session
  <2>4. reply[o] = <<>> BY <1>14 DEF Answer
  <2>5. o \notin stored /\ ~AckAccepted(inbox[o])
    BY <2>4, AnswersAreBytes DEF AnswerOK
  <2>6. \A p \in Sessions \ {o} : reply'[p] = reply[p] /\ joined'[p] = joined[p]
    BY <1>14 DEF Answer, WireTypeOK
  <2>7. reply'[o] = Yes => joined'[o] = i
    <3>1. CASE joined' = [joined EXCEPT ![o] = CHOOSE j \in IDs : IDBytes[j] = HandshakeID(sent[o])]
      BY <2>2, <3>1 DEF WireTypeOK
    <3>2. CASE reply' = [reply EXCEPT ![o] = No]
      BY <3>2, AnswersAreBytes DEF WireTypeOK
    <3>. QED BY <1>14, <3>1, <3>2 DEF Answer, No
  <2>. QED BY <2>1, <2>3, <2>5, <2>6, <2>7, StoredTyped DEF AnswerOK
<1>15. ASSUME NEW o \in Sessions, Deliver(o)
      PROVE  AnswerOK'
  <2>1. PICK n \in 0 .. Len(reply[o]) : inbox' = [inbox EXCEPT ![o] = SubSeq(reply[o], 1, n)]
    BY <1>15, DeliverPrefix
  <2>2. AckAccepted(SubSeq(reply[o], 1, n)) => reply[o] = Yes
    BY AckTells DEF WireTypeOK
  <2>3. ASSUME NEW p \in Sessions PROVE AckAccepted(inbox'[p]) => reply[p] = Yes
    BY <2>1, <2>2 DEF AnswerOK, WireTypeOK
  <2>. QED BY <1>15, <2>3 DEF Deliver, AnswerOK, session
<1>. QED
  BY <1>1, <1>2, <1>3, <1>4, <1>5, <1>6, <1>7, <1>8, <1>9, <1>10, <1>11, <1>12, <1>13,
     <1>14, <1>15 DEF Next, Locked, Open

\* A step closes no session of the table behind RemoveSession's back.
LEMMA DoneOKStep ==
  ASSUME SessionInv, Next
  PROVE  DoneOK'
<1>. AgentTypeOK /\ SessionTypeOK /\ PlaceOK /\ TableOK /\ DoneOK BY DEF SessionInv
<1>1. ASSUME NEW c \in Callers, NEW i \in IDs,
              NEW op \in {"create", "remove", "get", "list"}, CallTable(c, op, i)
      PROVE  DoneOK'
  BY <1>1 DEF CallTable, Goto, session, wire, AgentTypeOK, DoneOK, Removing, NoCall
<1>2. ASSUME NEW c \in Callers, NEW o \in Sessions, CallWrite(c, o)
      PROVE  DoneOK'
  BY <1>2 DEF CallWrite, Goto, session, wire, AgentTypeOK, DoneOK, Removing, NoCall
<1>3. ASSUME NEW c \in Callers, NEW o \in Sessions, CallClose(c, o)
      PROVE  DoneOK'
  BY <1>3 DEF CallClose, CloseDone, Goto, wire, AgentTypeOK, DoneOK, Removing, NoCall
<1>4. ASSUME NEW c \in Callers, Read(c)
      PROVE  DoneOK'
  BY <1>4 DEF Read, Return, Goto, session, wire, AgentTypeOK, DoneOK, Removing, NoCall
<1>5. ASSUME NEW c \in Callers, LockCreate(c)
      PROVE  DoneOK'
  BY <1>5 DEF LockCreate, Goto, session, wire, AgentTypeOK, DoneOK, Removing, NoCall
<1>6. ASSUME NEW c \in Callers, LockRemove(c)
      PROVE  DoneOK'
  BY <1>6 DEF LockRemove, CloseDone, Return, Goto, wire, AgentTypeOK, DoneOK, Removing,
     NoCall
<1>7. ASSUME NEW c \in Callers, CloseConn(c)
      PROVE  DoneOK'
  <2>1. \A d \in Callers : d # c => pc'[d] = pc[d] /\ call'[d] = call[d]
    BY <1>7 DEF CloseConn, Return, Goto, AgentTypeOK
  <2>2. done' = done /\ direct' = direct BY <1>7 DEF CloseConn
  <2>3. CASE call[c].op # "remove"
    <3>1. table' = table BY <1>7, <2>3 DEF CloseConn
    <3>2. \A o : ~Removing(c, o) BY <2>3 DEF Removing
    <3>. QED BY <2>1, <2>2, <3>1, <3>2 DEF DoneOK, Removing
  <2>4. CASE call[c].op = "remove"
    <3>1. PICK k : k = call[c].id OBVIOUS
    <3>2. table[k] = call[c].obj /\ call[c].obj \in stored /\ sid[call[c].obj] = k
      BY <1>7, <2>4, <3>1 DEF CloseConn, PlaceOK
    <3>3. table' = [table EXCEPT ![k] = 0] BY <1>7, <2>4, <3>1 DEF CloseConn
    <3>4. \A i \in IDs : table'[i] = IF i = k THEN 0 ELSE table[i]
      BY <3>3 DEF AgentTypeOK
    <3>5. ASSUME NEW i \in IDs, table'[i] # 0 PROVE table'[i] = table[i] /\ ~Removing(c, table[i])
      BY <3>2, <3>4, <3>5 DEF Removing, TableOK
    <3>. QED BY <2>1, <2>2, <3>5 DEF DoneOK, Removing
  <2>. QED BY <2>3, <2>4
<1>8. ASSUME NEW c \in Callers, DialFails(c)
      PROVE  DoneOK'
  BY <1>8 DEF DialFails, Return, Goto, session, wire, AgentTypeOK, DoneOK, Removing,
     NoCall
<1>9. ASSUME NEW c \in Callers, Dial(c)
      PROVE  DoneOK'
  BY <1>9 DEF Dial, Goto, AgentTypeOK, DoneOK, Removing, NoCall
<1>10. ASSUME NEW c \in Callers, Acknowledged(c)
      PROVE  DoneOK'
  BY <1>10 DEF Acknowledged, Return, Goto, wire, AgentTypeOK, SessionTypeOK, PlaceOK,
     TableOK, DoneOK, Removing, Sessions, NoCall
<1>11. ASSUME NEW c \in Callers, Refused(c)
      PROVE  DoneOK'
  BY <1>11 DEF Refused, Return, Goto, wire, AgentTypeOK, DoneOK, Removing, NoCall
<1>12. ASSUME NEW c \in Callers, LockWrite(c)
      PROVE  DoneOK'
  BY <1>12 DEF LockWrite, Goto, wire, AgentTypeOK, DoneOK, Removing, NoCall
<1>13. ASSUME NEW c \in Callers, WriteReturns(c)
      PROVE  DoneOK'
  BY <1>13 DEF WriteReturns, Return, Goto, wire, AgentTypeOK, DoneOK, Removing, NoCall
<1>14. ASSUME NEW o \in Sessions, Answer(o)
      PROVE  DoneOK'
  BY <1>14 DEF Answer, session, agent, DoneOK, Removing
<1>15. ASSUME NEW o \in Sessions, Deliver(o)
      PROVE  DoneOK'
  BY <1>15 DEF Deliver, session, agent, DoneOK, Removing
<1>. QED
  BY <1>1, <1>2, <1>3, <1>4, <1>5, <1>6, <1>7, <1>8, <1>9, <1>10, <1>11, <1>12, <1>13,
     <1>14, <1>15 DEF Next, Locked, Open

\* A step leaks no connection but by replacement.
LEMMA LeakOnlyByReplacementStep ==
  ASSUME SessionInv, Next
  PROVE  LeakOnlyByReplacement'
<1>. AgentTypeOK /\ SessionTypeOK /\ PlaceOK /\ TableOK /\ DialledOK /\ LeakOnlyByReplacement
  BY DEF SessionInv
<1>1. ASSUME NEW c \in Callers, NEW i \in IDs,
              NEW op \in {"create", "remove", "get", "list"}, CallTable(c, op, i)
      PROVE  LeakOnlyByReplacement'
  BY <1>1 DEF CallTable, Goto, session, wire, AgentTypeOK, LeakOnlyByReplacement,
     Creating, NoCall
<1>2. ASSUME NEW c \in Callers, NEW o \in Sessions, CallWrite(c, o)
      PROVE  LeakOnlyByReplacement'
  BY <1>2 DEF CallWrite, Goto, session, wire, AgentTypeOK, LeakOnlyByReplacement,
     Creating, NoCall
<1>3. ASSUME NEW c \in Callers, NEW o \in Sessions, CallClose(c, o)
      PROVE  LeakOnlyByReplacement'
  BY <1>3 DEF CallClose, CloseDone, Goto, wire, AgentTypeOK, LeakOnlyByReplacement,
     Creating, NoCall
<1>4. ASSUME NEW c \in Callers, Read(c)
      PROVE  LeakOnlyByReplacement'
  BY <1>4 DEF Read, Return, Goto, session, wire, AgentTypeOK, LeakOnlyByReplacement,
     Creating, NoCall
<1>5. ASSUME NEW c \in Callers, LockCreate(c)
      PROVE  LeakOnlyByReplacement'
  BY <1>5 DEF LockCreate, Goto, session, wire, AgentTypeOK, LeakOnlyByReplacement,
     Creating, NoCall
<1>6. ASSUME NEW c \in Callers, LockRemove(c)
      PROVE  LeakOnlyByReplacement'
  BY <1>6 DEF LockRemove, CloseDone, Return, Goto, wire, AgentTypeOK,
     LeakOnlyByReplacement, Creating, NoCall
<1>7. ASSUME NEW c \in Callers, CloseConn(c)
      PROVE  LeakOnlyByReplacement'
  BY <1>7 DEF CloseConn, Return, Goto, wire, AgentTypeOK, SessionTypeOK, PlaceOK,
     TableOK, DialledOK, LeakOnlyByReplacement, Creating, Sessions, NoCall
<1>8. ASSUME NEW c \in Callers, DialFails(c)
      PROVE  LeakOnlyByReplacement'
  BY <1>8 DEF DialFails, Return, Goto, session, wire, AgentTypeOK,
     LeakOnlyByReplacement, Creating, NoCall
<1>9. ASSUME NEW c \in Callers, Dial(c)
      PROVE  LeakOnlyByReplacement'
  BY <1>9 DEF Dial, Goto, SessionTypeOK, AgentTypeOK, LeakOnlyByReplacement, Creating,
     NoCall
<1>10. ASSUME NEW c \in Callers, Acknowledged(c)
      PROVE  LeakOnlyByReplacement'
  BY <1>10 DEF Acknowledged, Return, Goto, wire, AgentTypeOK, SessionTypeOK, PlaceOK,
     TableOK, DialledOK, LeakOnlyByReplacement, Creating, Sessions, NoCall
<1>11. ASSUME NEW c \in Callers, Refused(c)
      PROVE  LeakOnlyByReplacement'
  BY <1>11 DEF Refused, Return, Goto, wire, SessionTypeOK, AgentTypeOK,
     LeakOnlyByReplacement, Creating, NoCall
<1>12. ASSUME NEW c \in Callers, LockWrite(c)
      PROVE  LeakOnlyByReplacement'
  BY <1>12 DEF LockWrite, Goto, wire, AgentTypeOK, LeakOnlyByReplacement, Creating,
     NoCall
<1>13. ASSUME NEW c \in Callers, WriteReturns(c)
      PROVE  LeakOnlyByReplacement'
  BY <1>13 DEF WriteReturns, Return, Goto, wire, AgentTypeOK, LeakOnlyByReplacement,
     Creating, NoCall
<1>14. ASSUME NEW o \in Sessions, Answer(o)
      PROVE  LeakOnlyByReplacement'
  BY <1>14 DEF Answer, session, agent, LeakOnlyByReplacement, Creating
<1>15. ASSUME NEW o \in Sessions, Deliver(o)
      PROVE  LeakOnlyByReplacement'
  BY <1>15 DEF Deliver, session, agent, LeakOnlyByReplacement, Creating
<1>. QED
  BY <1>1, <1>2, <1>3, <1>4, <1>5, <1>6, <1>7, <1>8, <1>9, <1>10, <1>11, <1>12, <1>13,
     <1>14, <1>15 DEF Next, Locked, Open

\* A step closes a channel twice only after somebody called Close himself.
LEMMA CrashNeedsCloseStep ==
  ASSUME SessionInv, Next
  PROVE  CrashNeedsClose'
<1>. AgentTypeOK /\ SessionTypeOK /\ PlaceOK /\ TableOK /\ DoneOK /\ CrashNeedsClose
  BY DEF SessionInv
<1>1. ASSUME NEW c \in Callers, NEW i \in IDs,
              NEW op \in {"create", "remove", "get", "list"}, CallTable(c, op, i)
      PROVE  CrashNeedsClose'
  BY <1>1 DEF CallTable, session, wire, CrashNeedsClose, Removing
<1>2. ASSUME NEW c \in Callers, NEW o \in Sessions, CallWrite(c, o)
      PROVE  CrashNeedsClose'
  BY <1>2 DEF CallWrite, session, wire, CrashNeedsClose, Removing
<1>3. ASSUME NEW c \in Callers, NEW o \in Sessions, CallClose(c, o)
      PROVE  CrashNeedsClose'
  BY <1>3 DEF CallClose, CloseDone, Goto, wire, CrashNeedsClose, Removing
<1>4. ASSUME NEW c \in Callers, Read(c)
      PROVE  CrashNeedsClose'
  BY <1>4 DEF Read, session, wire, CrashNeedsClose, Removing
<1>5. ASSUME NEW c \in Callers, LockCreate(c)
      PROVE  CrashNeedsClose'
  BY <1>5 DEF LockCreate, session, wire, CrashNeedsClose, Removing
<1>6. ASSUME NEW c \in Callers, LockRemove(c)
      PROVE  CrashNeedsClose'
  <2>1. \A d \in Callers : mu # d BY <1>6, SessionsAssumption DEF LockRemove
  <2>2. \A d \in Callers, o \in Sessions : ~Removing(d, o) BY <2>1 DEF Removing, PlaceOK
  <2>3. call[c].id \in IDs BY <1>6 DEF LockRemove, PlaceOK
  <2>4. ASSUME table[call[c].id] # 0, table[call[c].id] \in done
        PROVE  table[call[c].id] \in direct
    BY <2>2, <2>3, <2>4, StoredTyped DEF DoneOK
  <2>. QED BY <1>6, <2>4 DEF LockRemove, CloseDone, CrashNeedsClose
<1>7. ASSUME NEW c \in Callers, CloseConn(c)
      PROVE  CrashNeedsClose'
  BY <1>7 DEF CloseConn, wire, CrashNeedsClose, Removing
<1>8. ASSUME NEW c \in Callers, DialFails(c)
      PROVE  CrashNeedsClose'
  BY <1>8 DEF DialFails, session, wire, CrashNeedsClose, Removing
<1>9. ASSUME NEW c \in Callers, Dial(c)
      PROVE  CrashNeedsClose'
  BY <1>9 DEF Dial, CrashNeedsClose, Removing
<1>10. ASSUME NEW c \in Callers, Acknowledged(c)
      PROVE  CrashNeedsClose'
  BY <1>10 DEF Acknowledged, wire, CrashNeedsClose, Removing
<1>11. ASSUME NEW c \in Callers, Refused(c)
      PROVE  CrashNeedsClose'
  BY <1>11 DEF Refused, wire, CrashNeedsClose, Removing
<1>12. ASSUME NEW c \in Callers, LockWrite(c)
      PROVE  CrashNeedsClose'
  BY <1>12 DEF LockWrite, wire, CrashNeedsClose, Removing
<1>13. ASSUME NEW c \in Callers, WriteReturns(c)
      PROVE  CrashNeedsClose'
  BY <1>13 DEF WriteReturns, wire, CrashNeedsClose, Removing
<1>14. ASSUME NEW o \in Sessions, Answer(o)
      PROVE  CrashNeedsClose'
  BY <1>14 DEF Answer, session, agent, CrashNeedsClose, Removing
<1>15. ASSUME NEW o \in Sessions, Deliver(o)
      PROVE  CrashNeedsClose'
  BY <1>15 DEF Deliver, session, agent, CrashNeedsClose, Removing
<1>. QED
  BY <1>1, <1>2, <1>3, <1>4, <1>5, <1>6, <1>7, <1>8, <1>9, <1>10, <1>11, <1>12, <1>13,
     <1>14, <1>15 DEF Next, Locked, Open

\* All of it, step by step.
LEMMA SessionInvStep ==
  ASSUME SessionInv, [Next]_vars
  PROVE  SessionInv'
<1>1. CASE Next
  BY <1>1, AgentTypeOKStep, SessionTypeOKStep, WireTypeOKStep, PlaceOKStep, TableOKStep,
     DialledOKStep, AnswerOKStep, DoneOKStep, LeakOnlyByReplacementStep, CrashNeedsCloseStep
     DEF SessionInv
<1>2. CASE UNCHANGED vars
  BY <1>2 DEF vars, agent, session, wire, SessionInv, AgentTypeOK, SessionTypeOK, WireTypeOK,
     PlaceOK, TableOK, DialledOK, AnswerOK, DoneOK, Removing, LeakOnlyByReplacement, Creating,
     CrashNeedsClose
<1>. QED BY <1>1, <1>2

\* Nothing has happened at first.
LEMMA SessionInvInit == Init => SessionInv
<1>. SUFFICES ASSUME Init PROVE SessionInv OBVIOUS
<1>1. AgentTypeOK
  <2>1. 0 \in 0 .. MaxSessions BY SessionsAssumption
  <2>. QED BY <2>1, CallTyped DEF Init, AgentTypeOK, Places
<1>2. SessionTypeOK
  <2>1. 0 \in 0 .. MaxSessions BY SessionsAssumption
  <2>. QED BY <2>1 DEF Init, SessionTypeOK
<1>3. WireTypeOK BY AnswersAreBytes DEF Init, WireTypeOK
<1>4. PlaceOK BY DEF Init, PlaceOK
<1>5. TableOK BY DEF Init, TableOK
<1>6. DialledOK BY DEF Init, DialledOK, Sessions
<1>7. AnswerOK
  <2>1. ~AckAccepted(<<>>) BY DEF AckAccepted
  <2>. QED BY <2>1, AnswersAreBytes DEF Init, AnswerOK
<1>8. DoneOK BY DEF Init, DoneOK
<1>9. LeakOnlyByReplacement BY DEF Init, LeakOnlyByReplacement
<1>10. CrashNeedsClose BY DEF Init, CrashNeedsClose
<1>. QED
  BY <1>1, <1>2, <1>3, <1>4, <1>5, <1>6, <1>7, <1>8, <1>9, <1>10 DEF SessionInv

\* So it holds always.
LEMMA SessionSafe == Spec => []SessionInv
BY SessionInvInit, SessionInvStep, PTL DEF Spec

-----------------------------------------------------------------------------
\* CreateSession lists a session only after the relay has filed its connection
\* under this very ID, whatever pieces the relay's answer comes in: the ID is
\* read back from the bytes of the handshake, and acceptance from those of the
\* answer that have arrived.
THEOREM ListedSafe == Spec => []ListedIsJoined
<1>1. SessionInv => ListedIsJoined
  <2>. SUFFICES ASSUME SessionInv, NEW i \in IDs, table[i] # 0 PROVE joined[table[i]] = i
    BY DEF ListedIsJoined
  <2>1. table[i] \in stored /\ table[i] \in Sessions /\ sid[table[i]] = i BY StoredTyped
  <2>. QED BY <2>1 DEF SessionInv, AnswerOK
<1>. QED BY <1>1, SessionSafe, PTL

\* However calls of CreateSession, RemoveSession, Close and WriteFrame overlap
\* and whichever of them fail, an open connection belongs to a session of the
\* table, to one that is being made, or to one that CreateSession replaced.
THEOREM LeakSafe == Spec => []LeakOnlyByReplacement
<1>1. SessionInv => LeakOnlyByReplacement BY DEF SessionInv
<1>. QED BY <1>1, SessionSafe, PTL

\* RemoveSession alone never closes a channel twice, however many goroutines
\* call it: it closes under sm.mu and deletes the session before it unlocks.
THEOREM CrashSafe == Spec => []CrashNeedsClose
<1>1. SessionInv => CrashNeedsClose BY DEF SessionInv
<1>. QED BY <1>1, SessionSafe, PTL
============================================================================
