---------------------------- MODULE TunnelProofs ----------------------------
(***************************************************************************)
(* The agent's data path, for any streams, any frames that the peer sends, *)
(* any portions in which bytes arrive, any window and any limit on         *)
(* payloads: its types, that the output of every shell arrives, and that a *)
(* proxy that is alone on its transport types what was sent to it.         *)
(***************************************************************************)
EXTENDS AgentTunnel, FrameProofs, FiniteSetTheorems

-----------------------------------------------------------------------------
(* What frames carry, and what the peer sends.                             *)

\* The frames that the peer sends can be written.
LEMMA PeerWritable == PeerFrames \subseteq Writable
  BY PeerAssumption, Zenon DEF Writable

\* What a frame that can be written carries.
LEMMA WritablePayload ==
  ASSUME NEW f \in Writable
  PROVE  f \in Frames /\ Len(f.payload) <= MaxLength /\ f.payload \in Seq(Byte)
<1>1. f \in Frames /\ Len(f.payload) <= MaxLength BY Zenon DEF Writable
<1>. QED BY <1>1, Fields, Zenon DEF Frames

\* What the peer sends, in either mode, as the bytes of a sequence of frames.
Code(m) == [f \in Writable |-> IF m = "frames" THEN MarshalBinary(f) ELSE f.payload]

BytesOf(m, fs) == FlattenSeq([i \in 1 .. Len(fs) |->
                      IF m = "frames" THEN MarshalBinary(fs[i]) ELSE fs[i].payload])

\* In either mode a frame becomes bytes.
LEMMA CodeType ==
  ASSUME NEW m
  PROVE  /\ Maps(Writable, Seq(Byte), Code(m))
         /\ \A f \in Writable : Code(m)[f] = IF m = "frames" THEN MarshalBinary(f) ELSE f.payload
<1>1. \A f \in Writable : MarshalBinary(f) \in Seq(Byte) /\ f.payload \in Seq(Byte)
  BY ShortWritable, WritablePayload
<1>2. \A f \in Writable : (IF m = "frames" THEN MarshalBinary(f) ELSE f.payload) \in Seq(Byte)
  BY <1>1, Zenon
<1>. QED BY <1>2, Zenon DEF Code, Maps

\* The bytes of frames are joined from those of each.
LEMMA BytesImage ==
  ASSUME NEW m, NEW fs \in Seq(Writable)
  PROVE  BytesOf(m, fs) = FlattenSeq(Image(fs, Code(m)))
<1>1. \A i \in 1 .. Len(fs) : fs[i] \in Writable OBVIOUS
<1>2. \A i \in 1 .. Len(fs) : (IF m = "frames" THEN MarshalBinary(fs[i]) ELSE fs[i].payload)
                                = Code(m)[fs[i]]
  BY <1>1, CodeType, Zenon
<1>3. [i \in 1 .. Len(fs) |-> IF m = "frames" THEN MarshalBinary(fs[i]) ELSE fs[i].payload]
        = [i \in 1 .. Len(fs) |-> Code(m)[fs[i]]]
  BY <1>2, Zenon
<1>. QED BY <1>3, Zenon DEF BytesOf, Image

\* One frame more adds its bytes, in either mode.
LEMMA BytesAppend ==
  ASSUME NEW m, NEW fs \in Seq(Writable), NEW f \in Writable
  PROVE  /\ BytesOf(m, fs) \in Seq(Byte) /\ Append(fs, f) \in Seq(Writable)
         /\ BytesOf(m, Append(fs, f)) = BytesOf(m, fs) \o Code(m)[f]
<1>1. PICK c : c = Code(m) OBVIOUS
<1>2. PICK gs : gs = Append(fs, f) OBVIOUS
<1>3. gs \in Seq(Writable) BY <1>2
<1>4. Maps(Writable, Seq(Byte), c) BY <1>1, CodeType
<1>5. /\ FlattenSeq(Image(fs, c)) \in Seq(Byte)
      /\ FlattenSeq(Image(Append(fs, f), c)) = FlattenSeq(Image(fs, c)) \o c[f]
  BY <1>4, FlattenImage
<1>6. BytesOf(m, fs) = FlattenSeq(Image(fs, c)) BY <1>1, BytesImage
<1>7. BytesOf(m, gs) = FlattenSeq(Image(gs, c)) BY <1>1, <1>3, BytesImage
<1>. QED BY <1>1, <1>2, <1>3, <1>5, <1>6, <1>7

\* No frames are no bytes.
LEMMA BytesEmpty == ASSUME NEW m PROVE BytesOf(m, <<>>) = <<>>
<1>1. [i \in 1 .. Len(<<>>) |-> IF m = "frames" THEN MarshalBinary(<<>>[i]) ELSE <<>>[i].payload] = <<>>
  OBVIOUS
<1>. QED BY <1>1, FlattenEmpty, Zenon DEF BytesOf

\* What frames carry for a stream.
Carries(s) == [f \in Writable |-> Payload(f, s)]

\* A frame carries bytes.
LEMMA CarriesType ==
  ASSUME NEW s
  PROVE  Maps(Writable, Seq(Byte), Carries(s)) /\ \A f \in Writable : Carries(s)[f] = Payload(f, s)
<1>1. <<>> \in Seq(Byte) OBVIOUS
<1>2. \A f \in Writable : Payload(f, s) \in Seq(Byte) BY <1>1, WritablePayload, Zenon DEF Payload
<1>. QED BY <1>2, Zenon DEF Carries, Maps

\* What frames carry is joined from what each carries.
LEMMA PayloadsImage ==
  ASSUME NEW s, NEW fs \in Seq(Writable)
  PROVE  Payloads(fs, s) = FlattenSeq(Image(fs, Carries(s)))
<1>1. \A i \in 1 .. Len(fs) : fs[i] \in Writable OBVIOUS
<1>2. \A i \in 1 .. Len(fs) : Payload(fs[i], s) = Carries(s)[fs[i]]
  BY <1>1, CarriesType, Zenon
<1>3. [i \in 1 .. Len(fs) |-> Payload(fs[i], s)] = [i \in 1 .. Len(fs) |-> Carries(s)[fs[i]]]
  BY <1>2, Zenon
<1>. QED BY <1>3, Zenon DEF Payloads, Image

\* One frame more adds what it carries.
LEMMA PayloadsAppend ==
  ASSUME NEW s, NEW fs \in Seq(Writable), NEW f \in Writable
  PROVE  /\ Payloads(fs, s) \in Seq(Byte)
         /\ Payload(f, s) \in Seq(Byte)
         /\ Payloads(Append(fs, f), s) = Payloads(fs, s) \o Payload(f, s)
<1>1. PICK c : c = Carries(s) OBVIOUS
<1>2. PICK gs : gs = Append(fs, f) OBVIOUS
<1>3. gs \in Seq(Writable) BY <1>2
<1>4. Maps(Writable, Seq(Byte), c) BY <1>1, CarriesType
<1>5. /\ FlattenSeq(Image(fs, c)) \in Seq(Byte)
      /\ FlattenSeq(Image(Append(fs, f), c)) = FlattenSeq(Image(fs, c)) \o c[f]
  BY <1>4, FlattenImage
<1>6. Payloads(fs, s) = FlattenSeq(Image(fs, c)) BY <1>1, PayloadsImage
<1>7. Payloads(gs, s) = FlattenSeq(Image(gs, c)) BY <1>1, <1>3, PayloadsImage
<1>8. c[f] = Payload(f, s) BY <1>1, CarriesType
<1>9. Payload(f, s) \in Seq(Byte) BY <1>4, <1>8 DEF Maps
<1>. QED BY <1>2, <1>5, <1>6, <1>7, <1>8, <1>9

\* No frames carry nothing.
LEMMA PayloadsEmpty == ASSUME NEW s PROVE Payloads(<<>>, s) = <<>>
<1>1. [i \in 1 .. Len(<<>>) |-> Payload(<<>>[i], s)] = <<>> OBVIOUS
<1>. QED BY <1>1, FlattenEmpty, Zenon DEF Payloads

\* The lesser of two numbers.
LEMMA MinOfTwo ==
  ASSUME NEW a \in Int, NEW b \in Int
  PROVE  /\ Min({a, b}) \in Int /\ Min({a, b}) <= a /\ Min({a, b}) <= b
         /\ Min({a, b}) = a \/ Min({a, b}) = b
<1>1. \E x \in {a, b} : \A y \in {a, b} : x <= y
  <2>1. CASE a <= b BY <2>1
  <2>2. CASE b <= a BY <2>2
  <2>. QED BY <2>1, <2>2
<1>2. Min({a, b}) \in {a, b} /\ \A y \in {a, b} : Min({a, b}) <= y BY <1>1 DEF Min
<1>. QED BY <1>2

\* A sequence cut in two.
LEMMA Cut ==
  ASSUME NEW S, NEW h \in Seq(S), NEW n \in 0 .. Len(h)
  PROVE  /\ SubSeq(h, 1, n) \in Seq(S) /\ Len(SubSeq(h, 1, n)) = n
         /\ SubSeq(h, n + 1, Len(h)) \in Seq(S)
         /\ Len(SubSeq(h, n + 1, Len(h))) = Len(h) - n
         /\ SubSeq(h, 1, n) \o SubSeq(h, n + 1, Len(h)) = h
<1>1. PICK l \in Nat : l = Len(h) OBVIOUS
<1>2. \A i \in 1 .. l : h[i] \in S BY <1>1
<1>3. n \in 0 .. l BY <1>1
<1>4. SubSeq(h, 1, n) \in Seq(S) /\ Len(SubSeq(h, 1, n)) = n
  <2>1. \A i \in 1 .. n : h[i] \in S BY <1>2, <1>3
  <2>2. 1 \in Int /\ n \in Int BY <1>3
  <2>3. SubSeq(h, 1, n) \in Seq(S) /\ Len(SubSeq(h, 1, n)) = IF 1 <= n THEN n - 1 + 1 ELSE 0
    BY <2>1, <2>2, SubSeqProperties
  <2>. QED BY <1>3, <2>3
<1>5. SubSeq(h, n + 1, l) \in Seq(S) /\ Len(SubSeq(h, n + 1, l)) = l - n
  <2>1. \A i \in n + 1 .. l : h[i] \in S BY <1>2, <1>3
  <2>2. n + 1 \in Int /\ l \in Int BY <1>3
  <2>3. SubSeq(h, n + 1, l) \in Seq(S) /\ Len(SubSeq(h, n + 1, l)) = IF n + 1 <= l THEN l - (n + 1) + 1 ELSE 0
    BY <2>1, <2>2, SubSeqProperties
  <2>. QED BY <1>3, <2>3
<1>6. SubSeq(h, 1, n) \o SubSeq(h, n + 1, l) = h
  <2>1. SubSeq(h, 1, n) \o SubSeq(h, n + 1, l) = SubSeq(h, 1, l)
    <3>1. 1 \in 1 .. Len(h) + 1 /\ n \in 1 - 1 .. Len(h) /\ l \in n .. Len(h) BY <1>1, <1>3
    <3>. QED BY <3>1, ConcatAdjacentSubSeq
  <2>2. SubSeq(h, 1, l) = h BY <1>1, SubSeqFull
  <2>. QED BY <2>1, <2>2
<1>. QED BY <1>1, <1>4, <1>5, <1>6

\* What a proxy has read of a shell's output, when it reads n more bytes ...
LEMMA ReadMore ==
  ASSUME NEW p \in Seq(Byte), NEW k \in 0 .. Len(p), NEW n \in 0 .. Len(p) - k
  PROVE  /\ SubSeq(p, k + 1, k + n) \in Seq(Byte) /\ Len(SubSeq(p, k + 1, k + n)) = n
         /\ SubSeq(p, 1, k) \in Seq(Byte)
         /\ SubSeq(p, 1, k) \o SubSeq(p, k + 1, k + n) = SubSeq(p, 1, k + n)
<1>1. PICK l \in Nat : l = Len(p) OBVIOUS
<1>2. k \in 0 .. l /\ n \in 0 .. l - k BY <1>1
<1>3. \A i \in 1 .. l : p[i] \in Byte BY <1>1
<1>4. SubSeq(p, k + 1, k + n) \in Seq(Byte) /\ Len(SubSeq(p, k + 1, k + n)) = n
  <2>1. \A i \in k + 1 .. k + n : p[i] \in Byte BY <1>2, <1>3
  <2>2. k + 1 \in Int /\ k + n \in Int BY <1>2
  <2>3. /\ SubSeq(p, k + 1, k + n) \in Seq(Byte)
        /\ Len(SubSeq(p, k + 1, k + n)) = IF k + 1 <= k + n THEN (k + n) - (k + 1) + 1 ELSE 0
    BY <2>1, <2>2, SubSeqProperties
  <2>. QED BY <1>2, <2>3
<1>5. SubSeq(p, 1, k) \o SubSeq(p, k + 1, k + n) = SubSeq(p, 1, k + n)
  <2>1. 1 \in 1 .. Len(p) + 1 /\ k \in 1 - 1 .. Len(p) /\ k + n \in k .. Len(p) BY <1>1, <1>2
  <2>. QED BY <2>1, ConcatAdjacentSubSeq
<1>6. SubSeq(p, 1, k) \in Seq(Byte) BY Cut
<1>. QED BY <1>4, <1>5, <1>6

\* ... and when the shell prints one.
LEMMA PrintMore ==
  ASSUME NEW p \in Seq(Byte), NEW x \in Byte, NEW k \in 0 .. Len(p)
  PROVE  SubSeq(Append(p, x), 1, k) = SubSeq(p, 1, k)
<1>1. PICK q : q = Append(p, x) OBVIOUS
<1>2. PICK l \in Nat : l = Len(p) OBVIOUS
<1>3. q \in Seq(Byte) /\ Len(q) = l + 1 /\ \A i \in 1 .. l : q[i] = p[i] BY <1>1, <1>2
<1>4. k \in 0 .. l /\ k \in Int BY <1>2
<1>5. \A i \in 1 .. k : p[i] \in Byte /\ q[i] \in Byte /\ p[i] = q[i] BY <1>2, <1>3, <1>4
<1>6. PICK a, b : a = SubSeq(p, 1, k) /\ b = SubSeq(q, 1, k) OBVIOUS
<1>7. a \in Seq(Byte) /\ Len(a) = k /\ \A i \in 1 .. k : a[i] = p[i]
  BY <1>4, <1>5, <1>6, SubSeqProperties
<1>8. b \in Seq(Byte) /\ Len(b) = k /\ \A i \in 1 .. k : b[i] = q[i]
  BY <1>4, <1>5, <1>6, SubSeqProperties
<1>9. a = b BY <1>5, <1>7, <1>8, SeqEqual
<1>. QED BY <1>1, <1>6, <1>9

\* Begins is IsPrefix of the community modules.
LEMMA BeginsPrefix ==
  ASSUME NEW S, NEW a \in Seq(S), NEW b \in Seq(S), Begins(a, b)
  PROVE  IsPrefix(a, b)
<1>1. PICK n \in Nat, m \in Nat : n = Len(a) /\ m = Len(b) OBVIOUS
<1>2. n <= m /\ \A i \in 1 .. n : b[i] = a[i] BY <1>1 DEF Begins
<1>3. PICK x, y : x = SubSeq(a, 1, n) /\ y = SubSeq(b, 1, n) OBVIOUS
<1>4. x \in Seq(S) /\ Len(x) = n /\ \A i \in 1 .. n : x[i] = a[i] BY <1>1, <1>3
<1>5. y \in Seq(S) /\ Len(y) = n /\ \A i \in 1 .. n : y[i] = b[i] BY <1>1, <1>2, <1>3
<1>6. x = y BY <1>2, <1>4, <1>5, SeqEqual
<1>. QED BY <1>1, <1>2, <1>3, <1>6 DEF IsPrefix

\* The beginning of a frame is no frame.
LEMMA PartOfFrame ==
  ASSUME NEW f \in Short, NEW x \in Seq(Byte), NEW y \in Seq(Byte),
         x \o y = MarshalBinary(f), y # <<>>
  PROVE  ~Unmarshals(x)
<1>1. f \in Frames /\ f \in Writable /\ Len(f.payload) <= MaxLength
  BY ShortWritable, Zenon DEF Short, Writable
<1>2. PICK b : b = MarshalBinary(f) OBVIOUS
<1>3. b \in Seq(Byte) /\ Len(b) = 7 + Len(f.payload) /\ LengthOf(b) = Len(f.payload) /\ Len(f.payload) \in Nat
  BY <1>1, <1>2, FrameParts
<1>4. PICK n \in Nat, m \in Nat, k \in Nat : n = Len(x) /\ m = Len(y) /\ k = Len(f.payload)
  BY <1>3
<1>5. m > 0 BY <1>4
<1>6. b = x \o y BY <1>2
<1>7. n + m = 7 + k /\ \A i \in 1 .. n : b[i] = x[i]
  <2>1. Len(x \o y) = Len(x) + Len(y) /\ \A i \in 1 .. n : (x \o y)[i] = x[i] BY <1>4
  <2>. QED BY <1>3, <1>4, <1>6, <2>1
<1>8. CASE n < 7 BY <1>4, <1>8 DEF Unmarshals, FrameHeaderSize
<1>9. CASE n >= 7
  <2>1. \A i \in 1 .. 7 : b[i] = x[i] BY <1>7, <1>9
  <2>2. LengthOf(x) = LengthOf(b) BY <2>1 DEF LengthOf
  <2>3. LengthOf(x) = k BY <1>3, <1>4, <2>2
  <2>4. ~(n >= 7 + k) BY <1>5, <1>7
  <2>. QED BY <1>4, <2>3, <2>4 DEF Unmarshals, FrameHeaderSize
<1>. QED BY <1>8, <1>9

\* The frame that a proxy makes of what it has read.
DataFrame(s, p) == [stream |-> s, type |-> FrameData, payload |-> p]

\* A proxy never makes a frame that MarshalBinary refuses.
LEMMA DataFrameShort ==
  ASSUME NEW s \in Streams, NEW p \in Seq(Byte), Len(p) <= MaxPayloadSize
  PROVE  DataFrame(s, p) \in Short
<1>1. s \in StreamId BY StreamsAssumption
<1>2. FrameData \in Byte BY DEF FrameData, Byte
<1>3. DataFrame(s, p) \in Frames BY <1>1, <1>2, Zenon DEF DataFrame, Frames
<1>4. DataFrame(s, p).payload = p BY Zenon DEF DataFrame
<1>. QED BY <1>3, <1>4, Zenon DEF Short, Marshals

\* Its frame carries data for its own stream only.
LEMMA DataFramePayload ==
  ASSUME NEW s, NEW p, NEW r
  PROVE  Payload(DataFrame(s, p), r) = IF s = r THEN p ELSE <<>>
  BY Zenon DEF Payload, DataFrame

-----------------------------------------------------------------------------
(* Types.                                                                  *)

\* What the peer has sent, before and after a step.
LEMMA InboundIs == Inbound = BytesOf(mode, sent) /\ Inbound' = BytesOf(mode', sent')
  BY Zenon DEF Inbound, Encoded, BytesOf

\* TypeOK in parts.
TransportOK ==
    /\ conn \in {"none", "open", "closed"} /\ ended \in BOOLEAN
    /\ mode \in {"frames", "raw"} /\ running \subseteq Streams
    /\ mu \in Streams \cup {Free} /\ closer \in {"idle", "want", "done"}

WireOK == wire \in Seq(Byte) /\ taken \in 0 .. Len(wire) /\ Len(wire) - taken <= Window

PeerOK == sent \in Seq(PeerFrames) /\ arrived \in 0 .. Len(Inbound) /\ pos \in 0 .. arrived

UpOK ==
    /\ up \in [Streams -> {"read", "lock", "write", "done"}]
    /\ hand \in [Streams -> Seq(Byte)]

DownOK ==
    /\ down \in [Streams -> {"read", "frame", "done"}]
    /\ got \in [Streams -> Seq(Byte)] /\ typed \in [Streams -> Seq(Byte)]

ShellOK ==
    /\ main \in [Streams -> {"wait", "returned"}]
    /\ alive \in [Streams -> BOOLEAN] /\ closed \in [Streams -> BOOLEAN]

PrintedOK ==
    /\ printed \in [Streams -> Seq(Byte)] /\ unread \in [Streams -> Nat]
    /\ \A s \in Streams : unread[s] <= Len(printed[s])

\* These are the parts.
LEMMA TypeParts ==
  TypeOK <=> TransportOK /\ WireOK /\ PeerOK /\ UpOK /\ DownOK /\ ShellOK /\ PrintedOK
  BY Zenon DEF TypeOK, TransportOK, WireOK, PeerOK, UpOK, DownOK, ShellOK, PrintedOK

\* Before Open all is as it was in the beginning.
Idle ==
    conn = "none" =>
        /\ ~ended /\ running = {} /\ mu = Free /\ closer = "idle"
        /\ wire = <<>> /\ taken = 0 /\ sent = <<>> /\ arrived = 0 /\ pos = 0
        /\ \A s \in Streams :
              /\ up[s] = "read" /\ hand[s] = <<>> /\ down[s] = "read" /\ got[s] = <<>>
              /\ printed[s] = <<>> /\ unread[s] = 0 /\ typed[s] = <<>>

\* Who waits for rt.mu has a frame; in mode "raw" nobody does.
Whole(s, p) == p \in Seq(Byte) /\ Len(p) <= MaxPayloadSize /\ hand[s] = MarshalBinary(DataFrame(s, p))

LockedOK == \A s \in Streams : up[s] = "lock" => mode = "frames" /\ \E p : Whole(s, p)

\* Who has read a frame has all of it.
Complete(g) == Len(g) >= 7 /\ LengthOf(g) \in Nat /\ Len(g) = 7 + LengthOf(g)

FrameOK == mode = "frames" => \A s \in Streams : down[s] = "frame" => Complete(got[s])

TypeInv == TypeOK /\ Idle /\ LockedOK /\ FrameOK
-----------------------------------------------------------------------------
\* Who changes the transport ...
LEMMA TransportSteps ==
  ASSUME Next
  PROVE  \/ UNCHANGED <<conn, ended, mode, running, mu, closer>>
         \/ \E S \in SUBSET Streams \ {{}}, m \in {"frames", "raw"} : Open(S, m)
         \/ CallClose \/ Close \/ End
         \/ \E s \in Streams : WriteFrame(s) \/ UpWrite(s) \/ UpWriteFails(s)
  BY ZenonT(90) DEF Next, Goroutines, transport, PeerTakes, PeerSends, Deliver, Prints, Exits,
     CallShellClose, UpRead, UpReadFails, DownRead, DownReadRaw, DownReadFails, DownDrop,
     DownWrite, ProxyReturns

\* ... what is written ...
LEMMA WireSteps ==
  ASSUME Next
  PROVE  \/ UNCHANGED <<wire, taken>> \/ PeerTakes \/ \E s \in Streams : UpWrite(s)
  BY ZenonT(90) DEF Next, Goroutines, peer, Open, CallClose, Close, PeerSends, Deliver, End, Prints, Exits,
     CallShellClose, UpRead, UpReadFails, WriteFrame, UpWriteFails, DownRead, DownReadRaw,
     DownReadFails, DownDrop, DownWrite, ProxyReturns

\* ... what is received ...
LEMMA PeerSteps ==
  ASSUME Next
  PROVE  \/ UNCHANGED <<mode, sent, arrived, pos>>
         \/ \E S \in SUBSET Streams \ {{}}, m \in {"frames", "raw"} : Open(S, m)
         \/ \E f \in PeerFrames : PeerSends(f)
         \/ \E n \in Portions : Deliver(n)
         \/ \E s \in Streams : DownRead(s) \/ DownReadRaw(s)
  BY ZenonT(90) DEF Next, Goroutines, transport, peer, CallClose, Close, PeerTakes, End, Prints, Exits,
     CallShellClose, UpRead, UpReadFails, WriteFrame, UpWrite, UpWriteFails,
     DownReadFails, DownDrop, DownWrite, ProxyReturns

\* ... the goroutines that write ...
LEMMA UpSteps ==
  ASSUME Next
  PROVE  \/ UNCHANGED <<mode, up, hand>>
         \/ \E S \in SUBSET Streams \ {{}}, m \in {"frames", "raw"} : Open(S, m)
         \/ \E s \in Streams : \/ UpRead(s) \/ UpReadFails(s) \/ WriteFrame(s) \/ UpWrite(s)
                               \/ UpWriteFails(s)
  BY ZenonT(90) DEF Next, Goroutines, transport, CallClose, Close, PeerSends, Deliver, PeerTakes, End, Prints,
     Exits, CallShellClose, DownRead, DownReadRaw, DownReadFails, DownDrop, DownWrite, ProxyReturns

\* ... those that read ...
LEMMA DownSteps ==
  ASSUME Next
  PROVE  \/ UNCHANGED <<mode, down, got, typed>>
         \/ \E S \in SUBSET Streams \ {{}}, m \in {"frames", "raw"} : Open(S, m)
         \/ \E s \in Streams : \/ DownRead(s) \/ DownReadRaw(s) \/ DownReadFails(s) \/ DownDrop(s)
                               \/ DownWrite(s)
  BY ZenonT(90) DEF Next, Goroutines, transport, shell, ShellClosed, CallClose, Close, PeerSends, Deliver, PeerTakes,
     End, Prints, Exits, CallShellClose, UpRead, UpReadFails, WriteFrame, UpWrite, UpWriteFails,
     ProxyReturns

\* ... the shells ...
LEMMA ShellSteps ==
  ASSUME Next
  PROVE  \/ UNCHANGED <<main, alive, closed>>
         \/ \E s \in Streams : Exits(s) \/ CallShellClose(s) \/ ProxyReturns(s)
  BY ZenonT(90) DEF Next, Goroutines, shell, Open, CallClose, Close, PeerSends, Deliver, PeerTakes,
     End, Prints, UpRead, UpReadFails, WriteFrame, UpWrite, UpWriteFails, DownRead, DownReadRaw,
     DownReadFails, DownDrop, DownWrite

\* ... and what they print.
LEMMA PrintedSteps ==
  ASSUME Next
  PROVE  \/ UNCHANGED <<printed, unread>> \/ \E s \in Streams : Prints(s) \/ UpRead(s)
  BY ZenonT(90) DEF Next, Goroutines, shell, ShellClosed, Open, CallClose, Close, PeerSends, Deliver, PeerTakes,
     End, Exits, CallShellClose, UpReadFails, WriteFrame, UpWrite, UpWriteFails, DownRead,
     DownReadRaw, DownReadFails, DownDrop, DownWrite, ProxyReturns
-----------------------------------------------------------------------------
\* Before Open nothing but Open happens.
LEMMA IdleNext ==
  ASSUME TypeInv, conn = "none", Next
  PROVE  \E S \in SUBSET Streams \ {{}}, m \in {"frames", "raw"} : Open(S, m)
<1>1. /\ ~ended /\ running = {} /\ mu = Free /\ closer = "idle" /\ wire = <<>> /\ taken = 0
      /\ sent = <<>> /\ arrived = 0
  BY Zenon DEF TypeInv, Idle
<1>2. \A s \in Streams : s \notin running BY <1>1
<1>3. ~CallClose BY DEF CallClose
<1>4. ~Close BY <1>1 DEF Close
<1>5. ~PeerTakes BY <1>1 DEF PeerTakes
<1>6. ~End BY DEF End
<1>7. \A f \in PeerFrames : ~PeerSends(f) BY DEF PeerSends
<1>8. \A n \in Portions : ~Deliver(n)
  <2>1. Inbound = <<>> BY <1>1, InboundIs, BytesEmpty
  <2>2. ~(arrived < Len(Inbound)) BY <1>1, <2>1
  <2>. QED BY <2>2, Zenon DEF Deliver
<1>9. \A s \in Streams : ~(Prints(s) \/ Exits(s) \/ CallShellClose(s) \/ Goroutines(s))
  BY <1>2, Zenon DEF Prints, Exits, CallShellClose, Goroutines, UpRead, UpReadFails, WriteFrame, UpWrite,
     UpWriteFails, DownRead, DownReadRaw, DownReadFails, DownDrop, DownWrite, ProxyReturns
<1>. QED BY <1>3, <1>4, <1>5, <1>6, <1>7, <1>8, <1>9, Zenon DEF Next

\* There is a connection after every step.
LEMMA ConnStep ==
  ASSUME TypeInv, Next
  PROVE  conn' # "none"
<1>1. CASE conn = "none"
  <2>1. PICK S \in SUBSET Streams \ {{}}, m \in {"frames", "raw"} : Open(S, m) BY <1>1, IdleNext
  <2>2. conn' = "open" BY <2>1 DEF Open
  <2>. QED BY <2>2
<1>2. CASE conn # "none"
  <2>1. conn' = conn \/ conn' = "open" \/ conn' = "closed"
    BY TransportSteps, Zenon DEF Open, CallClose, Close, End, WriteFrame, UpWrite, UpWriteFails, transport
  <2>. QED BY <1>2, <2>1
<1>. QED BY <1>1, <1>2

\* The value for nobody is no stream.
LEMMA FreeOK == Free \notin Streams
<1>1. \A s \in StreamId : s >= 0 BY DEF StreamId
<1>2. ~(Free >= 0) BY DEF Free
<1>. QED BY <1>1, <1>2, StreamsAssumption

\* The types hold in the beginning.
LEMMA TypeInit == Init => TypeInv
<1>. SUFFICES ASSUME Init PROVE TypeInv OBVIOUS
<1>1. TransportOK BY DEF Init, TransportOK
<1>2. WireOK
  <2>1. Window \in Nat BY WindowAssumption
  <2>2. wire = <<>> /\ taken = 0 BY DEF Init
  <2>3. <<>> \in Seq(Byte) /\ Len(<<>>) = 0 OBVIOUS
  <2>4. 0 \in 0 .. 0 /\ 0 - 0 <= Window BY <2>1
  <2>. QED BY <2>2, <2>3, <2>4 DEF WireOK
<1>3. PeerOK
  <2>1. sent = <<>> /\ arrived = 0 /\ pos = 0 BY DEF Init
  <2>2. Inbound = <<>> BY <2>1, InboundIs, BytesEmpty
  <2>3. <<>> \in Seq(PeerFrames) /\ Len(<<>>) = 0 OBVIOUS
  <2>. QED BY <2>1, <2>2, <2>3 DEF PeerOK
<1>4. <<>> \in Seq(Byte) /\ Len(<<>>) = 0 OBVIOUS
<1>5. UpOK BY <1>4, Zenon DEF Init, UpOK
<1>6. DownOK BY <1>4, Zenon DEF Init, DownOK
<1>7. ShellOK BY Zenon DEF Init, ShellOK
<1>8. PrintedOK
  <2>1. printed = [s \in Streams |-> <<>>] /\ unread = [s \in Streams |-> 0] BY DEF Init
  <2>2. \A s \in Streams : printed[s] = <<>> /\ unread[s] = 0 BY <2>1
  <2>3. printed \in [Streams -> Seq(Byte)] BY <1>4, <2>1, Zenon
  <2>4. unread \in [Streams -> Nat] BY <2>1
  <2>5. \A s \in Streams : unread[s] <= Len(printed[s]) BY <1>4, <2>2
  <2>. QED BY <2>3, <2>4, <2>5 DEF PrintedOK
<1>9. Idle
  <2>1. /\ ~ended /\ running = {} /\ mu = Free /\ closer = "idle"
        /\ wire = <<>> /\ taken = 0 /\ sent = <<>> /\ arrived = 0 /\ pos = 0
    BY Zenon DEF Init
  <2>2. \A s \in Streams :
              /\ up[s] = "read" /\ hand[s] = <<>> /\ down[s] = "read" /\ got[s] = <<>>
              /\ printed[s] = <<>> /\ unread[s] = 0 /\ typed[s] = <<>>
    BY Zenon DEF Init
  <2>. QED BY <2>1, <2>2 DEF Idle
<1>10. \A s \in Streams : up[s] = "read" /\ down[s] = "read" BY Zenon DEF Init
<1>11. LockedOK BY <1>10 DEF LockedOK
<1>12. FrameOK BY <1>10 DEF FrameOK
<1>. QED BY <1>1, <1>2, <1>3, <1>5, <1>6, <1>7, <1>8, <1>9, <1>11, <1>12, TypeParts, Zenon DEF TypeInv

\* Every step keeps the type of the transport.
LEMMA TransportType ==
  ASSUME TransportOK, Next
  PROVE  TransportOK'
<1>1. CASE UNCHANGED <<conn, ended, mode, running, mu, closer>> BY <1>1 DEF TransportOK
<1>2. ASSUME NEW S \in SUBSET Streams \ {{}}, NEW m \in {"frames", "raw"}, Open(S, m) PROVE TransportOK'
  BY <1>2 DEF Open, TransportOK
<1>3. CASE CallClose \/ Close \/ End
  <2>1. ended' \in BOOLEAN BY <1>3 DEF CallClose, Close, End, TransportOK, transport
  <2>. QED BY <1>3, <2>1 DEF CallClose, Close, End, TransportOK, transport
<1>4. ASSUME NEW s \in Streams, WriteFrame(s) \/ UpWrite(s) \/ UpWriteFails(s) PROVE TransportOK'
  <2>1. mu' \in Streams \cup {Free}
    BY <1>4, Zenon DEF WriteFrame, UpWrite, UpWriteFails, Unlock, TransportOK
  <2>2. UNCHANGED <<conn, ended, mode, running, closer>>
    BY <1>4, Zenon DEF WriteFrame, UpWrite, UpWriteFails, transport
  <2>. QED BY <2>1, <2>2 DEF TransportOK
<1>. QED BY <1>1, <1>2, <1>3, <1>4, TransportSteps, Zenon

\* What a write takes from hand[s], and what of it is left.
Room == Window - (Len(wire) - taken)

\* A write cuts what is at hand in two: what fits and the rest.
LEMMA WriteParts ==
  ASSUME TypeInv, NEW s \in Streams, UpWrite(s)
  PROVE  \E n \in Nat, x \in Seq(Byte), y \in Seq(Byte) :
            /\ 0 < n /\ n <= Len(hand[s]) /\ n <= Room /\ hand[s] \in Seq(Byte)
            /\ Len(x) = n /\ Len(y) = Len(hand[s]) - n /\ x \o y = hand[s]
            /\ wire' = (IF ended THEN wire ELSE wire \o x)
            /\ hand' = [hand EXCEPT ![s] = y]
            /\ IF y = <<>> THEN up' = [up EXCEPT ![s] = "read"] /\ Unlock(s) ELSE UNCHANGED <<up, mu>>
<1>1. WireOK /\ UpOK BY TypeParts, Zenon DEF TypeInv
<1>2. PICK h : h = hand[s] OBVIOUS
<1>3. h \in Seq(Byte) BY <1>1, <1>2 DEF UpOK
<1>4. PICK l \in Nat, r \in Int : l = Len(h) /\ r = Room
  <2>1. Room \in Int BY <1>1, WindowAssumption DEF WireOK, Room
  <2>2. Len(h) \in Nat BY <1>3
  <2>. QED BY <2>1, <2>2
<1>5. PICK n : n = Min({l, r}) OBVIOUS
<1>6. n \in Int /\ n <= l /\ n <= r BY <1>5, MinOfTwo
<1>7. PICK x, y : x = SubSeq(h, 1, n) /\ y = SubSeq(h, n + 1, l) OBVIOUS
<1>8. /\ n > 0 /\ wire' = (IF ended THEN wire ELSE wire \o x) /\ hand' = [hand EXCEPT ![s] = y]
      /\ IF y = <<>> THEN up' = [up EXCEPT ![s] = "read"] /\ Unlock(s) ELSE UNCHANGED <<up, mu>>
  BY <1>2, <1>4, <1>5, <1>7, Zenon DEF UpWrite, Room
<1>9. n \in Nat /\ n \in 0 .. l BY <1>6, <1>8
<1>10. x \in Seq(Byte) /\ Len(x) = n /\ y \in Seq(Byte) /\ Len(y) = l - n /\ x \o y = h
  <2>1. n \in 0 .. Len(h) BY <1>4, <1>9
  <2>. QED BY <1>3, <1>4, <1>7, <2>1, Cut
<1>11. 0 < n BY <1>8, <1>9
<1>. QED BY <1>2, <1>3, <1>4, <1>6, <1>8, <1>9, <1>10, <1>11, Zenon

\* Every step keeps the window and the type of what is written.
LEMMA WireType ==
  ASSUME TypeInv, Next
  PROVE  WireOK'
<1>0. WireOK BY TypeParts, Zenon DEF TypeInv
<1>1. CASE UNCHANGED <<wire, taken>> BY <1>0, <1>1 DEF WireOK
<1>2. CASE PeerTakes
  <2>1. wire' = wire /\ taken' = Len(wire) BY <1>2 DEF PeerTakes
  <2>. QED BY <1>0, <2>1, WindowAssumption DEF WireOK
<1>3. ASSUME NEW s \in Streams, UpWrite(s) PROVE WireOK'
  <2>1. PICK n \in Nat, x \in Seq(Byte) :
           n <= Room /\ Len(x) = n /\ wire' = (IF ended THEN wire ELSE wire \o x)
    BY <1>3, WriteParts, Zenon
  <2>2. taken' = taken BY <1>3 DEF UpWrite, peer
  <2>3. CASE ended BY <1>0, <2>1, <2>2, <2>3 DEF WireOK
  <2>4. CASE ~ended
    <3>1. PICK w, t : w = wire /\ t = taken OBVIOUS
    <3>2. w \in Seq(Byte) /\ t \in 0 .. Len(w) /\ Window - (Len(w) - t) >= n
      BY <1>0, <2>1, <3>1, WindowAssumption DEF WireOK, Room
    <3>3. PICK v : v = w \o x OBVIOUS
    <3>4. v \in Seq(Byte) /\ Len(v) = Len(w) + n BY <2>1, <3>2, <3>3, ConcatProperties
    <3>5. t \in 0 .. Len(v) /\ Len(v) - t <= Window
      <4>1. PICK l \in Nat, W \in Nat : l = Len(w) /\ W = Window BY <3>2, WindowAssumption
      <4>2. t \in 0 .. l /\ W - (l - t) >= n /\ Len(v) = l + n BY <3>2, <3>4, <4>1
      <4>3. t \in 0 .. l + n /\ (l + n) - t <= W BY <4>2
      <4>. QED BY <4>1, <4>2, <4>3
    <3>6. wire' = v /\ taken' = t BY <2>1, <2>2, <2>4, <3>1, <3>3
    <3>. QED BY <3>4, <3>5, <3>6 DEF WireOK
  <2>. QED BY <2>3, <2>4
<1>. QED BY <1>1, <1>2, <1>3, WireSteps, Zenon

\* What a goroutine reads from its shell.
LEMMA ReadParts ==
  ASSUME TypeInv, NEW s \in Streams, UpRead(s)
  PROVE  \E n \in Nat, p \in Seq(Byte) :
            /\ 0 < n /\ n <= unread[s] /\ Len(p) = n /\ Len(p) <= MaxPayloadSize
            /\ unread' = [unread EXCEPT ![s] = @ - n]
            /\ SubSeq(printed[s], 1, Len(printed[s]) - unread[s]) \in Seq(Byte)
            /\ SubSeq(printed[s], 1, Len(printed[s]) - unread[s]) \o p
                  = SubSeq(printed[s], 1, Len(printed[s]) - (unread[s] - n))
            /\ \/ /\ mode = "frames" /\ up' = [up EXCEPT ![s] = "lock"]
                  /\ hand' = [hand EXCEPT ![s] = MarshalBinary(DataFrame(s, p))]
               \/ /\ mode = "raw" /\ up' = [up EXCEPT ![s] = "write"]
                  /\ hand' = [hand EXCEPT ![s] = p]
<1>1. PrintedOK BY TypeParts, Zenon DEF TypeInv
<1>2. PICK q, u : q = printed[s] /\ u = unread[s] OBVIOUS
<1>3. q \in Seq(Byte) /\ u \in Nat /\ u <= Len(q) BY <1>1, <1>2 DEF PrintedOK
<1>4. PICK l \in Nat, M \in Nat : l = Len(q) /\ M = MaxPayloadSize BY <1>3, Limits
<1>5. PICK n : n = Min({u, M}) OBVIOUS
<1>6. n \in Int /\ n <= u /\ n <= M /\ (n = u \/ n = M)
  <2>1. u \in Int /\ M \in Int BY <1>3
  <2>. QED BY <1>5, <2>1, MinOfTwo
<1>7. u > 0 BY <1>2 DEF UpRead
<1>8. n > 0 /\ n \in Nat BY <1>3, <1>4, <1>6, <1>7, BufferAssumption
<1>9. PICK p : p = SubSeq(q, l - u + 1, l - u + n) OBVIOUS
<1>10. /\ unread' = [unread EXCEPT ![s] = @ - n]
       /\ \/ /\ mode = "frames" /\ up' = [up EXCEPT ![s] = "lock"]
             /\ hand' = [hand EXCEPT ![s] = MarshalBinary(DataFrame(s, p))]
          \/ /\ mode = "raw" /\ up' = [up EXCEPT ![s] = "write"]
             /\ hand' = [hand EXCEPT ![s] = p]
  BY <1>2, <1>4, <1>5, <1>9, Zenon DEF UpRead, DataFrame
<1>11. PICK k \in Nat : k = l - u
  <2>1. u \in Nat /\ u <= l BY <1>3, <1>4
  <2>2. l - u \in Nat BY <2>1
  <2>. QED BY <2>2
<1>12. k \in 0 .. Len(q) /\ n \in 0 .. Len(q) - k BY <1>3, <1>4, <1>6, <1>8, <1>11
<1>13. /\ SubSeq(q, k + 1, k + n) \in Seq(Byte) /\ Len(SubSeq(q, k + 1, k + n)) = n
       /\ SubSeq(q, 1, k) \in Seq(Byte)
       /\ SubSeq(q, 1, k) \o SubSeq(q, k + 1, k + n) = SubSeq(q, 1, k + n)
  BY <1>3, <1>12, ReadMore
<1>14. k + n = l - (u - n) BY <1>3, <1>4, <1>6, <1>11
<1>15. 0 < n BY <1>8
<1>16. p = SubSeq(q, k + 1, k + n) BY <1>9, <1>11
<1>17. p \in Seq(Byte) /\ Len(p) = n BY <1>13, <1>16
<1>18. /\ SubSeq(q, 1, l - u) \in Seq(Byte)
       /\ SubSeq(q, 1, l - u) \o p = SubSeq(q, 1, l - (u - n))
  BY <1>11, <1>13, <1>14, <1>16
<1>. QED BY <1>2, <1>4, <1>6, <1>8, <1>10, <1>15, <1>17, <1>18, Zenon

\* WriteFrame decodes and encodes the frame, which gives the same bytes.
LEMMA SameBytes ==
  ASSUME TypeInv, NEW s \in Streams, WriteFrame(s)
  PROVE  /\ hand' = hand /\ mode = "frames"
         /\ \E p : Whole(s, p)
<1>1. up[s] = "lock" /\ hand' = [hand EXCEPT ![s] = MarshalBinary(UnmarshalBinary(@))]
  BY DEF WriteFrame
<1>2. mode = "frames" /\ \E p : Whole(s, p) BY <1>1, Zenon DEF TypeInv, LockedOK
<1>3. PICK p : Whole(s, p) BY <1>2
<1>4. PICK f : f = DataFrame(s, p) OBVIOUS
<1>5. f \in Short BY <1>3, <1>4, DataFrameShort DEF Whole
<1>6. f \in Frames /\ f \in Writable /\ Len(f.payload) <= MaxLength
  BY <1>5, ShortWritable, Zenon DEF Short, Writable
<1>7. UnmarshalBinary(MarshalBinary(f)) = f BY <1>6, FrameParts
<1>8. hand[s] = MarshalBinary(f) BY <1>3, <1>4 DEF Whole
<1>9. MarshalBinary(UnmarshalBinary(hand[s])) = hand[s] BY <1>7, <1>8
<1>10. UpOK BY TypeParts, Zenon DEF TypeInv
<1>11. hand' = hand BY <1>1, <1>9, <1>10 DEF UpOK
<1>. QED BY <1>2, <1>11

\* Every step keeps the types of the goroutines that write, and what waits
\* for rt.mu a frame.
LEMMA UpType ==
  ASSUME TypeInv, Next
  PROVE  UpOK' /\ LockedOK'
<1>0. UpOK /\ LockedOK BY TypeParts, Zenon DEF TypeInv
<1>1. CASE UNCHANGED <<mode, up, hand>> BY <1>0, <1>1, Zenon DEF UpOK, LockedOK, Whole
<1>2. ASSUME NEW S \in SUBSET Streams \ {{}}, NEW m \in {"frames", "raw"}, Open(S, m)
      PROVE  UpOK' /\ LockedOK'
  <2>1. conn = "none" /\ up' = up /\ hand' = hand BY <1>2, Zenon DEF Open
  <2>2. \A s \in Streams : up[s] = "read" BY <2>1, Zenon DEF TypeInv, Idle
  <2>. QED BY <1>0, <2>1, <2>2 DEF UpOK, LockedOK
<1>3. ASSUME NEW s \in Streams, UpRead(s) PROVE UpOK' /\ LockedOK'
  <2>1. PICK p \in Seq(Byte) :
            /\ Len(p) <= MaxPayloadSize
            /\ \/ /\ mode = "frames" /\ up' = [up EXCEPT ![s] = "lock"]
                  /\ hand' = [hand EXCEPT ![s] = MarshalBinary(DataFrame(s, p))]
               \/ /\ mode = "raw" /\ up' = [up EXCEPT ![s] = "write"]
                  /\ hand' = [hand EXCEPT ![s] = p]
    BY <1>3, ReadParts, Zenon
  <2>2. mode' = mode BY <1>3, Zenon DEF UpRead, transport
  <2>3. MarshalBinary(DataFrame(s, p)) \in Seq(Byte) BY <2>1, DataFrameShort, ShortWritable
  <2>4. UpOK' BY <1>0, <2>1, <2>3 DEF UpOK
  <2>5. ASSUME NEW r \in Streams, up'[r] = "lock" PROVE mode' = "frames" /\ \E pp : Whole(r, pp)'
    <3>1. CASE r = s
      <4>1. mode = "frames" /\ hand'[s] = MarshalBinary(DataFrame(s, p))
        BY <1>0, <2>1, <2>5, <3>1 DEF UpOK
      <4>. QED BY <2>1, <2>2, <3>1, <4>1, Zenon DEF Whole
    <3>2. CASE r # s
      <4>1. up[r] = "lock" /\ hand'[r] = hand[r] BY <1>0, <2>1, <2>5, <3>2 DEF UpOK
      <4>. QED BY <1>0, <2>2, <4>1, Zenon DEF LockedOK, Whole
    <3>. QED BY <3>1, <3>2
  <2>6. LockedOK' BY <2>5, Zenon DEF LockedOK
  <2>. QED BY <2>4, <2>6
<1>4. ASSUME NEW s \in Streams, UpReadFails(s) \/ UpWriteFails(s) PROVE UpOK' /\ LockedOK'
  <2>1. mode' = mode /\ hand' = hand /\ up' = [up EXCEPT ![s] = "done"]
    BY <1>4, Zenon DEF UpReadFails, UpWriteFails, UpDone, transport
  <2>2. UpOK' BY <1>0, <2>1 DEF UpOK
  <2>3. \A r \in Streams : up'[r] = "lock" => up[r] = "lock" BY <1>0, <2>1 DEF UpOK
  <2>. QED BY <1>0, <2>1, <2>2, <2>3, Zenon DEF LockedOK, Whole
<1>5. ASSUME NEW s \in Streams, WriteFrame(s) PROVE UpOK' /\ LockedOK'
  <2>1. hand' = hand BY <1>5, SameBytes
  <2>2. mode' = mode /\ up' = [up EXCEPT ![s] = "write"] BY <1>5, Zenon DEF WriteFrame, transport
  <2>3. UpOK' BY <1>0, <2>1, <2>2 DEF UpOK
  <2>4. \A r \in Streams : up'[r] = "lock" => up[r] = "lock" BY <1>0, <2>2 DEF UpOK
  <2>. QED BY <1>0, <2>1, <2>2, <2>3, <2>4, Zenon DEF LockedOK, Whole
<1>6. ASSUME NEW s \in Streams, UpWrite(s) PROVE UpOK' /\ LockedOK'
  <2>1. PICK y \in Seq(Byte) :
            /\ hand' = [hand EXCEPT ![s] = y]
            /\ IF y = <<>> THEN up' = [up EXCEPT ![s] = "read"] /\ Unlock(s) ELSE UNCHANGED <<up, mu>>
    BY <1>6, WriteParts, Zenon
  <2>2. mode' = mode /\ up[s] = "write" BY <1>6, Zenon DEF UpWrite, transport
  <2>3. up' = [up EXCEPT ![s] = "read"] \/ up' = up BY <2>1, Zenon
  <2>4. UpOK' BY <1>0, <2>1, <2>3 DEF UpOK
  <2>5. \A r \in Streams : up'[r] = "lock" => up[r] = "lock" /\ hand'[r] = hand[r]
    BY <1>0, <2>1, <2>2, <2>3 DEF UpOK
  <2>. QED BY <1>0, <2>2, <2>4, <2>5, Zenon DEF LockedOK, Whole
<1>. QED BY <1>1, <1>2, <1>3, <1>4, <1>5, <1>6, UpSteps, Zenon

\* Every step keeps the types of the shells.
LEMMA ShellType ==
  ASSUME TypeInv, Next
  PROVE  ShellOK'
<1>0. ShellOK BY TypeParts, Zenon DEF TypeInv
<1>1. CASE UNCHANGED <<main, alive, closed>> BY <1>0, <1>1 DEF ShellOK
<1>2. ASSUME NEW s \in Streams, Exits(s) \/ CallShellClose(s) \/ ProxyReturns(s) PROVE ShellOK'
  <2>1. /\ main' = main \/ main' = [main EXCEPT ![s] = "returned"]
        /\ alive' = alive \/ alive' = [alive EXCEPT ![s] = FALSE]
        /\ closed' = closed \/ closed' = [closed EXCEPT ![s] = TRUE]
    BY <1>2, Zenon DEF Exits, CallShellClose, ProxyReturns, ShellClosed, shell
  <2>. QED BY <1>0, <2>1 DEF ShellOK
<1>. QED BY <1>1, <1>2, ShellSteps, Zenon

\* Every step keeps the type of what the shells print; no more of it waits
\* than was printed.
LEMMA PrintedType ==
  ASSUME TypeInv, Next
  PROVE  PrintedOK'
<1>0. PrintedOK BY TypeParts, Zenon DEF TypeInv
<1>1. CASE UNCHANGED <<printed, unread>> BY <1>0, <1>1, Zenon DEF PrintedOK
<1>2. ASSUME NEW s \in Streams, Prints(s) PROVE PrintedOK'
  <2>1. PICK x : x = (10 * s + Len(printed[s]) + 1) % 256 OBVIOUS
  <2>2. /\ printed' = [printed EXCEPT ![s] = Append(printed[s], x)]
        /\ unread' = [unread EXCEPT ![s] = unread[s] + 1]
    BY <1>2, <2>1, Zenon DEF Prints
  <2>3. PICK q, u : q = printed[s] /\ u = unread[s] OBVIOUS
  <2>4. q \in Seq(Byte) /\ u \in Nat /\ u <= Len(q) BY <1>0, <2>3 DEF PrintedOK
  <2>5. x \in Byte
    <3>1. s \in Nat
      <4>1. s \in StreamId BY StreamsAssumption
      <4>. QED BY <4>1 DEF StreamId
    <3>2. PICK k \in Nat : k = Len(printed[s]) BY <2>3, <2>4
    <3>3. x = (10 * s + k + 1) % 256 BY <2>1, <3>2
    <3>. QED BY <3>1, <3>3 DEF Byte
  <2>6. PICK v : v = Append(q, x) OBVIOUS
  <2>7. v \in Seq(Byte) /\ Len(v) = Len(q) + 1 BY <2>4, <2>5, <2>6
  <2>8. u + 1 \in Nat /\ u + 1 <= Len(v) BY <2>4, <2>7
  <2>9. printed' = [printed EXCEPT ![s] = v] /\ unread' = [unread EXCEPT ![s] = u + 1]
    BY <2>2, <2>3, <2>6
  <2>10. printed' \in [Streams -> Seq(Byte)] /\ unread' \in [Streams -> Nat]
    BY <1>0, <2>7, <2>8, <2>9 DEF PrintedOK
  <2>11. ASSUME NEW r \in Streams PROVE unread'[r] <= Len(printed'[r])
    <3>1. CASE r = s
      <4>1. printed'[r] = v /\ unread'[r] = u + 1 BY <1>0, <2>9, <3>1 DEF PrintedOK
      <4>. QED BY <2>8, <4>1
    <3>2. CASE r # s
      <4>1. printed'[r] = printed[r] /\ unread'[r] = unread[r] BY <1>0, <2>9, <3>2 DEF PrintedOK
      <4>. QED BY <1>0, <4>1 DEF PrintedOK
    <3>. QED BY <3>1, <3>2
  <2>. QED BY <2>10, <2>11 DEF PrintedOK
<1>3. ASSUME NEW s \in Streams, UpRead(s) PROVE PrintedOK'
  <2>1. PICK n \in Nat : n <= unread[s] /\ unread' = [unread EXCEPT ![s] = @ - n]
    BY <1>3, ReadParts, Zenon
  <2>2. printed' = printed BY <1>3, Zenon DEF UpRead, shell
  <2>3. PICK u \in Nat : u = unread[s] BY <1>0 DEF PrintedOK
  <2>4. PICK v \in Nat : v = u - n /\ v <= u BY <2>1, <2>3
  <2>5. unread' = [unread EXCEPT ![s] = v] BY <2>1, <2>3, <2>4
  <2>6. unread' \in [Streams -> Nat] BY <1>0, <2>5 DEF PrintedOK
  <2>7. ASSUME NEW r \in Streams PROVE unread'[r] <= Len(printed[r])
    <3>1. unread[r] \in Nat /\ unread[r] <= Len(printed[r]) /\ Len(printed[r]) \in Nat
      BY <1>0 DEF PrintedOK
    <3>2. unread'[r] \in Nat /\ unread'[r] <= unread[r] BY <1>0, <2>3, <2>4, <2>5 DEF PrintedOK
    <3>3. PICK a \in Nat, b \in Nat, c \in Nat : a = unread'[r] /\ b = unread[r] /\ c = Len(printed[r])
      BY <3>1, <3>2
    <3>4. a <= b /\ b <= c BY <3>1, <3>2, <3>3
    <3>. QED BY <3>3, <3>4
  <2>. QED BY <1>0, <2>2, <2>6, <2>7 DEF PrintedOK
<1>. QED BY <1>1, <1>2, <1>3, PrintedSteps, Zenon

\* What the peer sends can be written.
LEMMA SentWritable ==
  ASSUME NEW ss \in Seq(PeerFrames)
  PROVE  ss \in Seq(Writable)
<1>1. Len(ss) \in Nat /\ \A i \in 1 .. Len(ss) : ss[i] \in PeerFrames OBVIOUS
<1>2. \A i \in 1 .. Len(ss) : ss[i] \in Writable BY <1>1, PeerWritable
<1>. QED BY <1>1, <1>2

\* What the peer sends is a sequence of bytes, and more of them with every frame.
LEMMA BytesType ==
  ASSUME NEW m, NEW ss \in Seq(PeerFrames), NEW f \in PeerFrames
  PROVE  /\ BytesOf(m, ss) \in Seq(Byte) /\ Code(m)[f] \in Seq(Byte)
         /\ BytesOf(m, Append(ss, f)) = BytesOf(m, ss) \o Code(m)[f]
<1>1. ss \in Seq(Writable) BY SentWritable
<1>2. f \in Writable BY PeerWritable
<1>3. Code(m)[f] \in Seq(Byte)
  <2>1. PICK c : c = Code(m) OBVIOUS
  <2>2. Maps(Writable, Seq(Byte), c) BY <2>1, CodeType
  <2>. QED BY <1>2, <2>1, <2>2 DEF Maps
<1>. QED BY <1>1, <1>2, <1>3, BytesAppend

\* No frame is needed to know that.
LEMMA BytesSeq ==
  ASSUME NEW m, NEW ss \in Seq(Writable)
  PROVE  BytesOf(m, ss) \in Seq(Byte)
<1>1. PICK c : c = Code(m) OBVIOUS
<1>2. Maps(Writable, Seq(Byte), c) BY <1>1, CodeType
<1>3. Image(ss, c) \in Seq(Seq(Byte)) BY <1>2, ImageType
<1>4. PICK tt : tt = Image(ss, c) OBVIOUS
<1>5. tt \in Seq(Seq(Byte)) /\ <<>> \in Seq(Byte) BY <1>3, <1>4
<1>6. FlattenSeq(tt) \in Seq(Byte) BY <1>5, FlattenAppend
<1>. QED BY <1>1, <1>4, <1>6, BytesImage

\* What the peer has sent, what has arrived of it and what has been read of
\* that.
LEMMA InboundSeq ==
  ASSUME TypeInv
  PROVE  Inbound \in Seq(Byte) /\ Len(Inbound) \in Nat /\ arrived \in Nat /\ pos \in Nat
         /\ arrived <= Len(Inbound) /\ pos <= arrived
<1>1. PeerOK BY TypeParts, Zenon DEF TypeInv
<1>2. sent \in Seq(Writable) BY <1>1, SentWritable DEF PeerOK
<1>3. Inbound \in Seq(Byte) BY <1>2, InboundIs, BytesSeq
<1>4. Len(Inbound) \in Nat BY <1>3
<1>5. arrived \in 0 .. Len(Inbound) /\ pos \in 0 .. arrived BY <1>1 DEF PeerOK
<1>. QED BY <1>3, <1>4, <1>5

\* What a goroutine reads from the connection in mode "frames".
LEMMA DownParts ==
  ASSUME TypeInv, NEW s \in Streams, DownRead(s)
  PROVE  \E n \in Nat, x \in Seq(Byte), g \in Seq(Byte) :
            /\ 0 < n /\ n <= Wanted(got[s]) /\ pos + n <= arrived /\ pos' = pos + n
            /\ x = SubSeq(Inbound, pos + 1, pos + n) /\ Len(x) = n
            /\ SubSeq(Inbound, 1, pos) \in Seq(Byte)
            /\ SubSeq(Inbound, 1, pos) \o x = SubSeq(Inbound, 1, pos + n)
            /\ g = got[s] \o x /\ got' = [got EXCEPT ![s] = g]
            /\ down' = [down EXCEPT ![s] = IF Refuses(g) THEN "done"
                                           ELSE IF Wanted(g) = 0 THEN "frame" ELSE "read"]
<1>1. PICK w, a, p, h : w = Inbound /\ a = arrived /\ p = pos /\ h = got[s] OBVIOUS
<1>2. w \in Seq(Byte) /\ a \in Nat /\ p \in Nat /\ a <= Len(w) /\ p <= a BY <1>1, InboundSeq
<1>3. h \in Seq(Byte)
  <2>1. DownOK BY TypeParts, Zenon DEF TypeInv
  <2>. QED BY <1>1, <2>1 DEF DownOK
<1>4. PICK v \in Int : v = Wanted(h)
  <2>1. Len(h) \in Nat BY <1>3
  <2>2. CASE Len(h) < 7
    <3>1. Wanted(h) = 7 - Len(h) BY <2>2 DEF Wanted, FrameHeaderSize
    <3>2. Wanted(h) \in Int BY <2>1, <3>1
    <3>. QED BY <3>2
  <2>3. CASE ~(Len(h) < 7)
    <3>1. LengthOf(h) \in Nat BY <1>3, <2>1, <2>3, LengthType
    <3>2. Wanted(h) = 7 + LengthOf(h) - Len(h) BY <2>3 DEF Wanted, FrameHeaderSize
    <3>3. Wanted(h) \in Int BY <2>1, <3>1, <3>2
    <3>. QED BY <3>3
  <2>. QED BY <2>2, <2>3
<1>5. PICK n : n = Min({v, a - p}) OBVIOUS
<1>6. n \in Int /\ n <= v /\ n <= a - p
  <2>1. a - p \in Int BY <1>2
  <2>. QED BY <1>5, <2>1, MinOfTwo
<1>7. PICK x, g : x = SubSeq(w, p + 1, p + n) /\ g = h \o x OBVIOUS
<1>8. /\ n > 0 /\ pos' = p + n /\ got' = [got EXCEPT ![s] = g]
      /\ down' = [down EXCEPT ![s] = IF Refuses(g) THEN "done"
                                     ELSE IF Wanted(g) = 0 THEN "frame" ELSE "read"]
  BY <1>1, <1>4, <1>5, <1>7, Zenon DEF DownRead
<1>9. n \in Nat /\ 0 < n /\ p + n <= a BY <1>2, <1>6, <1>8
<1>10. PICK l \in Nat : l = Len(w) BY <1>2
<1>11. p \in 0 .. Len(w) /\ n \in 0 .. Len(w) - p
  <2>1. a <= l BY <1>2, <1>10
  <2>2. p \in 0 .. l /\ n \in 0 .. l - p BY <1>2, <1>9, <2>1
  <2>. QED BY <1>10, <2>2
<1>12. /\ x \in Seq(Byte) /\ Len(x) = n /\ SubSeq(w, 1, p) \in Seq(Byte)
       /\ SubSeq(w, 1, p) \o x = SubSeq(w, 1, p + n)
  BY <1>2, <1>7, <1>11, ReadMore
<1>13. g \in Seq(Byte) BY <1>3, <1>7, <1>12, ConcatProperties
<1>. QED BY <1>1, <1>4, <1>6, <1>7, <1>8, <1>9, <1>12, <1>13, Zenon

\* Every step keeps the type of what is received.
LEMMA PeerType ==
  ASSUME TypeInv, Next
  PROVE  PeerOK'
<1>0. PeerOK BY TypeParts, Zenon DEF TypeInv
<1>1. CASE UNCHANGED <<mode, sent, arrived, pos>>
  <2>1. Inbound' = Inbound BY <1>1, InboundIs
  <2>. QED BY <1>0, <1>1, <2>1 DEF PeerOK
<1>2. ASSUME NEW S \in SUBSET Streams \ {{}}, NEW m \in {"frames", "raw"}, Open(S, m)
      PROVE  PeerOK'
  <2>1. conn = "none" /\ sent' = sent /\ arrived' = arrived /\ pos' = pos BY <1>2, Zenon DEF Open, peer
  <2>2. sent = <<>> /\ arrived = 0 /\ pos = 0 BY <2>1, Zenon DEF TypeInv, Idle
  <2>3. Inbound' = <<>> BY <2>1, <2>2, InboundIs, BytesEmpty
  <2>4. Len(<<>>) = 0 /\ <<>> \in Seq(PeerFrames) OBVIOUS
  <2>. QED BY <2>1, <2>2, <2>3, <2>4 DEF PeerOK
<1>3. ASSUME NEW f \in PeerFrames, PeerSends(f) PROVE PeerOK'
  <2>1. sent' = Append(sent, f) /\ mode' = mode /\ arrived' = arrived /\ pos' = pos
    BY <1>3, Zenon DEF PeerSends, transport
  <2>2. PICK m, ss : m = mode /\ ss = sent OBVIOUS
  <2>3. ss \in Seq(PeerFrames) BY <1>0, <2>2 DEF PeerOK
  <2>4. PICK a, b : a = BytesOf(m, ss) /\ b = Code(m)[f] OBVIOUS
  <2>5. a \in Seq(Byte) /\ b \in Seq(Byte) /\ BytesOf(m, Append(ss, f)) = a \o b
    BY <2>3, <2>4, BytesType
  <2>6. Inbound = a /\ Inbound' = a \o b BY <2>1, <2>2, <2>4, <2>5, InboundIs
  <2>7. Len(a \o b) = Len(a) + Len(b) /\ Len(a) \in Nat /\ Len(b) \in Nat BY <2>5
  <2>8. arrived \in 0 .. Len(a) BY <1>0, <2>6 DEF PeerOK
  <2>9. arrived \in 0 .. Len(a \o b) BY <2>7, <2>8
  <2>10. Append(ss, f) \in Seq(PeerFrames) BY <2>3
  <2>. QED BY <1>0, <2>1, <2>2, <2>6, <2>9, <2>10 DEF PeerOK
<1>4. ASSUME NEW n \in Portions, Deliver(n) PROVE PeerOK'
  <2>1. sent' = sent /\ mode' = mode /\ pos' = pos /\ arrived' = Min({arrived + n, Len(Inbound)})
        /\ arrived < Len(Inbound)
    BY <1>4, Zenon DEF Deliver, transport
  <2>2. Inbound' = Inbound BY <2>1, InboundIs
  <2>3. PICK l, a, p : l = Len(Inbound) /\ a = arrived /\ p = pos OBVIOUS
  <2>4. l \in Nat /\ a \in Nat /\ p \in Nat /\ a <= l /\ p <= a BY <2>3, InboundSeq
  <2>5. n \in Nat /\ n > 0 BY PortionsAssumption
  <2>6. PICK q : q = Min({a + n, l}) OBVIOUS
  <2>7. q \in Int /\ q <= l /\ (q = a + n \/ q = l)
    <3>1. a + n \in Int /\ l \in Int BY <2>4, <2>5
    <3>. QED BY <2>6, <3>1, MinOfTwo
  <2>8. q \in 0 .. l /\ p \in 0 .. q BY <2>4, <2>5, <2>7
  <2>9. arrived' = q BY <2>1, <2>3, <2>6
  <2>. QED BY <1>0, <2>1, <2>2, <2>3, <2>8, <2>9 DEF PeerOK
<1>5. ASSUME NEW s \in Streams, DownRead(s) PROVE PeerOK'
  <2>1. PICK n \in Nat : pos + n <= arrived /\ pos' = pos + n BY <1>5, DownParts, Zenon
  <2>2. sent' = sent /\ mode' = mode /\ arrived' = arrived BY <1>5, Zenon DEF DownRead, transport, peer
  <2>3. Inbound' = Inbound BY <2>2, InboundIs
  <2>. QED BY <1>0, <2>1, <2>2, <2>3, InboundSeq DEF PeerOK
<1>6. ASSUME NEW s \in Streams, DownReadRaw(s) PROVE PeerOK'
  <2>1. sent' = sent /\ mode' = mode /\ arrived' = arrived /\ pos' = arrived
    BY <1>6, Zenon DEF DownReadRaw, transport, peer
  <2>2. Inbound' = Inbound BY <2>1, InboundIs
  <2>. QED BY <1>0, <2>1, <2>2, InboundSeq DEF PeerOK
<1>. QED BY <1>1, <1>2, <1>3, <1>4, <1>5, <1>6, PeerSteps, Zenon

\* ReadFrom has a whole frame when it wants no more.
LEMMA WantedNone ==
  ASSUME NEW g \in Seq(Byte), Wanted(g) = 0
  PROVE  Complete(g)
<1>1. Len(g) \in Nat OBVIOUS
<1>2. Len(g) >= 7
  <2>1. CASE Len(g) < 7
    <3>1. Wanted(g) = 7 - Len(g) BY <2>1 DEF Wanted, FrameHeaderSize
    <3>. QED BY <1>1, <2>1, <3>1
  <2>. QED BY <1>1, <2>1
<1>3. LengthOf(g) \in Nat BY <1>2, LengthType
<1>4. Wanted(g) = 7 + LengthOf(g) - Len(g) BY <1>1, <1>2 DEF Wanted, FrameHeaderSize
<1>. QED BY <1>1, <1>2, <1>3, <1>4 DEF Complete

\* The data of a frame, or of a read, are bytes.
LEMMA DataType ==
  ASSUME TypeInv, NEW s \in Streams, down[s] = "frame"
  PROVE  Data(s) \in Seq(Byte)
<1>1. TransportOK /\ DownOK BY TypeParts, Zenon DEF TypeInv
<1>2. PICK g : g = got[s] OBVIOUS
<1>3. g \in Seq(Byte) BY <1>1, <1>2 DEF DownOK
<1>4. CASE mode = "raw" BY <1>2, <1>3, <1>4 DEF Data
<1>5. CASE mode = "frames"
  <2>1. Complete(g) BY <1>2, <1>5, Zenon DEF TypeInv, FrameOK
  <2>2. 7 \in 0 .. Len(g) /\ 7 + LengthOf(g) = Len(g) BY <1>3, <2>1 DEF Complete
  <2>3. SubSeq(g, 7 + 1, Len(g)) \in Seq(Byte) BY <1>3, <2>2, Cut
  <2>4. UnmarshalBinary(g).payload = SubSeq(g, 7 + 1, 7 + LengthOf(g))
    BY Zenon DEF UnmarshalBinary, FrameHeaderSize
  <2>5. Data(s) = UnmarshalBinary(g).payload BY <1>2, <1>5 DEF Data
  <2>. QED BY <2>2, <2>3, <2>4, <2>5
<1>. QED BY <1>1, <1>4, <1>5 DEF TransportOK

\* Every step keeps the types of the goroutines that read, and what they pass
\* on a whole frame.
LEMMA DownType ==
  ASSUME TypeInv, Next
  PROVE  DownOK' /\ FrameOK'
<1>0. DownOK /\ FrameOK BY TypeParts, Zenon DEF TypeInv
<1>1. CASE UNCHANGED <<mode, down, got, typed>> BY <1>0, <1>1 DEF DownOK, FrameOK
<1>2. ASSUME NEW S \in SUBSET Streams \ {{}}, NEW m \in {"frames", "raw"}, Open(S, m)
      PROVE  DownOK' /\ FrameOK'
  <2>1. conn = "none" /\ down' = down /\ got' = got /\ typed' = typed BY <1>2, Zenon DEF Open, shell
  <2>2. \A s \in Streams : down[s] = "read" BY <2>1, Zenon DEF TypeInv, Idle
  <2>. QED BY <1>0, <2>1, <2>2 DEF DownOK, FrameOK
<1>3. ASSUME NEW s \in Streams, DownRead(s) PROVE DownOK' /\ FrameOK'
  <2>1. PICK g \in Seq(Byte) :
            /\ got' = [got EXCEPT ![s] = g]
            /\ down' = [down EXCEPT ![s] = IF Refuses(g) THEN "done"
                                           ELSE IF Wanted(g) = 0 THEN "frame" ELSE "read"]
    BY <1>3, DownParts, Zenon
  <2>2. mode' = mode /\ typed' = typed BY <1>3, Zenon DEF DownRead, transport, shell
  <2>3. PICK d \in {"read", "frame", "done"} :
            down' = [down EXCEPT ![s] = d] /\ (d = "frame" => Wanted(g) = 0)
    BY <2>1
  <2>4. DownOK' BY <1>0, <2>1, <2>2, <2>3 DEF DownOK
  <2>5. ASSUME mode = "frames", NEW r \in Streams, down'[r] = "frame" PROVE Complete(got'[r])
    <3>1. CASE r = s
      <4>1. got'[r] = g /\ d = "frame" BY <1>0, <2>1, <2>3, <2>5, <3>1 DEF DownOK
      <4>. QED BY <2>3, <4>1, WantedNone
    <3>2. CASE r # s
      <4>1. got'[r] = got[r] /\ down[r] = "frame" BY <1>0, <2>1, <2>3, <2>5, <3>2 DEF DownOK
      <4>. QED BY <1>0, <2>5, <4>1, Zenon DEF FrameOK
    <3>. QED BY <3>1, <3>2
  <2>6. FrameOK' BY <2>2, <2>5, Zenon DEF FrameOK
  <2>. QED BY <2>4, <2>6
<1>4. ASSUME NEW s \in Streams, DownReadRaw(s) PROVE DownOK' /\ FrameOK'
  <2>1. /\ mode = "raw" /\ mode' = mode /\ typed' = typed
        /\ got' = [got EXCEPT ![s] = SubSeq(Inbound, pos + 1, arrived)]
        /\ down' = [down EXCEPT ![s] = "frame"]
    BY <1>4, Zenon DEF DownReadRaw, transport, shell
  <2>2. SubSeq(Inbound, pos + 1, arrived) \in Seq(Byte)
    <3>1. PICK w, a, p : w = Inbound /\ a = arrived /\ p = pos OBVIOUS
    <3>2. w \in Seq(Byte) /\ a \in Nat /\ p \in Nat /\ a <= Len(w) BY <3>1, InboundSeq
    <3>3. \A i \in p + 1 .. a : w[i] \in Byte BY <3>2
    <3>4. SubSeq(w, p + 1, a) \in Seq(Byte) BY <3>2, <3>3, SubSeqProperties
    <3>. QED BY <3>1, <3>4
  <2>3. DownOK' BY <1>0, <2>1, <2>2 DEF DownOK
  <2>4. FrameOK' BY <2>1 DEF FrameOK
  <2>. QED BY <2>3, <2>4
<1>5. ASSUME NEW s \in Streams, DownReadFails(s) \/ DownDrop(s) PROVE DownOK' /\ FrameOK'
  <2>1. /\ mode' = mode /\ typed' = typed
        /\ got' = got \/ got' = [got EXCEPT ![s] = <<>>]
        /\ down' = [down EXCEPT ![s] = "read"] \/ down' = [down EXCEPT ![s] = "done"]
    BY <1>5, Zenon DEF DownReadFails, DownDrop, DownDone, transport, shell
  <2>2. <<>> \in Seq(Byte) OBVIOUS
  <2>3. DownOK' BY <1>0, <2>1, <2>2 DEF DownOK
  <2>4. \A r \in Streams : down'[r] = "frame" => down[r] = "frame" /\ got'[r] = got[r]
    BY <1>0, <2>1 DEF DownOK
  <2>. QED BY <1>0, <2>1, <2>3, <2>4, Zenon DEF FrameOK
<1>6. ASSUME NEW s \in Streams, DownWrite(s) PROVE DownOK' /\ FrameOK'
  <2>1. PICK x : x = Data(s) OBVIOUS
  <2>2. down[s] = "frame" BY <1>6 DEF DownWrite
  <2>3. x \in Seq(Byte) BY <2>1, <2>2, DataType
  <2>4. /\ mode' = mode
        /\ typed' = typed \/ typed' = [typed EXCEPT ![s] = typed[s] \o x]
        /\ got' = [got EXCEPT ![s] = <<>>]
        /\ down' = [down EXCEPT ![s] = "read"] \/ down' = [down EXCEPT ![s] = "done"]
    BY <1>6, <2>1, Zenon DEF DownWrite, DownDone, transport
  <2>5. <<>> \in Seq(Byte) /\ typed[s] \o x \in Seq(Byte)
    <3>1. PICK t \in Seq(Byte) : t = typed[s] BY <1>0 DEF DownOK
    <3>2. t \o x \in Seq(Byte) BY <2>3, <3>1, ConcatProperties
    <3>. QED BY <3>1, <3>2
  <2>6. DownOK'
    <3>1. PICK y \in Seq(Byte) : y = typed[s] \o x BY <2>5
    <3>2. typed' = typed \/ typed' = [typed EXCEPT ![s] = y] BY <2>4, <3>1
    <3>. QED BY <1>0, <2>4, <2>5, <3>2 DEF DownOK
  <2>7. \A r \in Streams : down'[r] = "frame" => down[r] = "frame" /\ got'[r] = got[r]
    BY <1>0, <2>4 DEF DownOK
  <2>. QED BY <1>0, <2>4, <2>6, <2>7, Zenon DEF FrameOK
<1>. QED BY <1>1, <1>2, <1>3, <1>4, <1>5, <1>6, DownSteps, Zenon

\* Every step keeps the types.
LEMMA TypeNext == TypeInv /\ [Next]_vars => TypeInv'
<1>. SUFFICES ASSUME TypeInv, [Next]_vars PROVE TypeInv' OBVIOUS
<1>1. CASE Next
  <2>1. TransportOK' BY <1>1, TransportType, TypeParts, Zenon DEF TypeInv
  <2>2. Idle' BY <1>1, ConnStep DEF Idle
  <2>3. WireOK' BY <1>1, WireType
  <2>4. PeerOK' BY <1>1, PeerType
  <2>5. UpOK' /\ LockedOK' BY <1>1, UpType
  <2>6. DownOK' /\ FrameOK' BY <1>1, DownType
  <2>7. ShellOK' /\ PrintedOK' BY <1>1, ShellType, PrintedType
  <2>8. TypeOK'
    BY <2>1, <2>3, <2>4, <2>5, <2>6, <2>7, Zenon
    DEF TypeOK, TransportOK, WireOK, PeerOK, UpOK, DownOK, ShellOK, PrintedOK
  <2>. QED BY <2>2, <2>5, <2>6, <2>8, Zenon DEF TypeInv
<1>2. CASE UNCHANGED vars
  <2>1. /\ UNCHANGED <<conn, ended, mode, running, mu, closer>> /\ UNCHANGED <<wire, taken>>
        /\ UNCHANGED <<sent, arrived, pos>> /\ UNCHANGED <<up, hand, down, got>>
        /\ UNCHANGED <<main, alive, closed>> /\ UNCHANGED <<printed, unread, typed>>
    BY <1>2, Zenon DEF vars, transport, peer, shell
  <2>2. Inbound' = Inbound BY <2>1, InboundIs
  <2>. QED BY <2>1, <2>2, Zenon DEF TypeInv, TypeOK, Idle, LockedOK, FrameOK, Whole
<1>. QED BY <1>1, <1>2

\* The state is what TypeOK says it is.
THEOREM TunnelTypes == Spec => []TypeOK
<1>1. TypeInv => TypeOK BY DEF TypeInv
<1>. QED BY <1>1, TypeInit, TypeNext, PTL DEF Spec

-----------------------------------------------------------------------------
(* Output: shell -> transport.                                             *)

\* The output of stream s: c has been written, p has been read and not yet
\* been written.
Stream(s, c, p) ==
    /\ c \in Seq(Byte) /\ p \in Seq(Byte) /\ Begins(c, Fetched(s))
    /\ up[s] = "read" => p = <<>>
    /\ up[s] # "done" /\ ~ended => c \o p = Fetched(s)
    /\ up[s] = "done" /\ ~closed[s] /\ conn = "open" /\ ~ended =>
           ~alive[s] /\ unread[s] = 0 /\ c = printed[s]

\* The writer of part of a frame holds rt.mu and has the rest of it.
Writer(s, part, p) ==
    /\ mu = s /\ p \in Seq(Byte) /\ Len(p) <= MaxPayloadSize
    /\ ~ended => part \o hand[s] = MarshalBinary(DataFrame(s, p))

\* In mode "frames" the frames fs and part of another have been written.
FramesOut(fs, part, pay) ==
    /\ fs \in Seq(Short) /\ part \in Seq(Byte) /\ ~Unmarshals(part)
    /\ wire = Written(fs) \o part
    /\ ~ended /\ (mu = Free \/ conn = "closed") => part = <<>>
    /\ \A s \in running :
          /\ Stream(s, Payloads(fs, s), pay[s])
          /\ up[s] = "lock" => Whole(s, pay[s])
          /\ up[s] = "write" => Writer(s, part, pay[s])

RawOut ==
    /\ \A s, r \in running : s = r
    /\ \A s \in running : Stream(s, wire, hand[s])

OutInv ==
    conn # "none" =>
        /\ mode = "frames" => \E fs, part, pay : FramesOut(fs, part, pay)
        /\ mode = "raw" => RawOut
-----------------------------------------------------------------------------
\* Steps that leave the output alone, but may end something.
Quiet ==
    /\ UNCHANGED <<mode, running, mu, wire, up, hand, printed, unread>>
    /\ \A s \in Streams : (alive'[s] => alive[s]) /\ (closed[s] => closed'[s])
    /\ ended => ended'
    /\ conn' = "open" => conn = "open"
    /\ conn' = "closed" => conn = "closed" \/ mode = "raw" \/ mu = Free

\* A step of which the output sees nothing.
LEMMA QuietOthers ==
  ASSUME UNCHANGED <<conn, ended, mode, running, mu, wire, up, hand, printed, unread, alive, closed>>
  PROVE  Quiet
  BY Zenon DEF Quiet

\* The steps that concern the output.
LEMMA OutSteps ==
  ASSUME TypeInv, Next, conn # "none"
  PROVE  Quiet \/ \E s \in Streams : \/ Prints(s) \/ UpRead(s) \/ UpReadFails(s) \/ WriteFrame(s)
                                     \/ UpWrite(s) \/ UpWriteFails(s)
<1>0. TransportOK /\ ShellOK BY TypeParts, Zenon DEF TypeInv
<1>1. ASSUME NEW S \in SUBSET Streams \ {{}}, NEW m \in {"frames", "raw"}, Open(S, m) PROVE FALSE
  BY <1>1 DEF Open
<1>2. CASE CallClose \/ PeerTakes
  BY <1>2, QuietOthers, Zenon DEF CallClose, PeerTakes, transport, peer, shell
<1>3. CASE Close
  <2>1. /\ UNCHANGED <<mode, running, mu, wire, up, hand, printed, unread, alive, closed, ended>>
        /\ conn' = "closed" /\ (mode = "frames" => mu = Free)
    BY <1>3, Zenon DEF Close, shell
  <2>. QED BY <1>0, <2>1 DEF Quiet, TransportOK
<1>4. CASE End
  <2>1. /\ UNCHANGED <<mode, running, mu, wire, up, hand, printed, unread, alive, closed, conn>>
        /\ ended'
    BY <1>4, Zenon DEF End, shell
  <2>. QED BY <2>1, Zenon DEF Quiet
<1>5. ASSUME NEW f \in PeerFrames, PeerSends(f) PROVE Quiet
  BY <1>5, QuietOthers, Zenon DEF PeerSends, transport, shell
<1>6. ASSUME NEW n \in Portions, Deliver(n) PROVE Quiet
  BY <1>6, QuietOthers, Zenon DEF Deliver, transport, shell
<1>7. ASSUME NEW s \in Streams, Exits(s) \/ CallShellClose(s) \/ ProxyReturns(s) PROVE Quiet
  <2>1. /\ UNCHANGED <<conn, ended, mode, running, mu, wire, up, hand, printed, unread>>
        /\ alive' = alive \/ alive' = [alive EXCEPT ![s] = FALSE]
        /\ closed' = closed \/ closed' = [closed EXCEPT ![s] = TRUE]
    BY <1>7, Zenon DEF Exits, CallShellClose, ProxyReturns, ShellClosed, shell, transport
  <2>2. \A r \in Streams : (alive'[r] => alive[r]) /\ (closed[r] => closed'[r])
    <3>. SUFFICES ASSUME NEW r \in Streams PROVE (alive'[r] => alive[r]) /\ (closed[r] => closed'[r])
      OBVIOUS
    <3>1. alive'[r] => alive[r] BY <1>0, <2>1, Zenon DEF ShellOK
    <3>2. closed[r] => closed'[r] BY <1>0, <2>1, Zenon DEF ShellOK
    <3>. QED BY <3>1, <3>2
  <2>. QED BY <2>1, <2>2, Zenon DEF Quiet
<1>8. ASSUME NEW s \in Streams,
             DownRead(s) \/ DownReadRaw(s) \/ DownReadFails(s) \/ DownDrop(s) \/ DownWrite(s)
      PROVE  Quiet
  <2>1. UNCHANGED <<conn, ended, mode, running, mu, wire, up, hand, printed, unread, alive, closed>>
    BY <1>8, Zenon DEF DownRead, DownReadRaw, DownReadFails, DownDrop, DownWrite, transport, shell
  <2>. QED BY <2>1, QuietOthers
<1>. QED BY <1>1, <1>2, <1>3, <1>4, <1>5, <1>6, <1>7, <1>8, Zenon DEF Next, Goroutines

\* A stream that the step leaves alone.
LEMMA StreamKept ==
  ASSUME NEW s \in Streams, NEW c, NEW p, Stream(s, c, p),
         up'[s] = up[s], printed'[s] = printed[s], unread'[s] = unread[s],
         alive'[s] => alive[s], closed[s] => closed'[s], ended => ended',
         conn' = "open" => conn = "open"
  PROVE  Stream(s, c, p)'
<1>1. Fetched(s)' = Fetched(s) BY Zenon DEF Fetched
<1>2. Stream(s, c, p)' <=>
          /\ c \in Seq(Byte) /\ p \in Seq(Byte) /\ Begins(c, Fetched(s)')
          /\ up'[s] = "read" => p = <<>>
          /\ up'[s] # "done" /\ ~ended' => c \o p = Fetched(s)'
          /\ up'[s] = "done" /\ ~closed'[s] /\ conn' = "open" /\ ~ended' =>
                 ~alive'[s] /\ unread'[s] = 0 /\ c = printed'[s]
  BY Zenon DEF Stream
<1>. QED BY <1>1, <1>2, Zenon DEF Stream

\* What a proxy has fetched.
LEMMA FetchedType ==
  ASSUME TypeInv, NEW s \in Streams
  PROVE  Fetched(s) \in Seq(Byte) /\ printed[s] \in Seq(Byte) /\ unread[s] \in Nat
         /\ Len(printed[s]) - unread[s] \in 0 .. Len(printed[s])
         /\ (unread[s] = 0 => Fetched(s) = printed[s])
<1>1. PrintedOK BY TypeParts, Zenon DEF TypeInv
<1>2. PICK q, u : q = printed[s] /\ u = unread[s] OBVIOUS
<1>3. q \in Seq(Byte) /\ u \in Nat /\ u <= Len(q) BY <1>1, <1>2 DEF PrintedOK
<1>4. Len(q) - u \in 0 .. Len(q) BY <1>3
<1>5. SubSeq(q, 1, Len(q) - u) \in Seq(Byte) BY <1>3, <1>4, Cut
<1>6. u = 0 => SubSeq(q, 1, Len(q) - u) = q
  <2>. SUFFICES ASSUME u = 0 PROVE SubSeq(q, 1, Len(q) - u) = q OBVIOUS
  <2>1. Len(q) - u = Len(q) BY <1>3
  <2>2. SubSeq(q, 1, Len(q)) = q BY <1>3, SubSeqFull
  <2>. QED BY <2>1, <2>2
<1>. QED BY <1>2, <1>3, <1>4, <1>5, <1>6 DEF Fetched

\* A sequence begins with itself.
LEMMA BeginsSelf ==
  ASSUME NEW S, NEW a \in Seq(S)
  PROVE  Begins(a, a)
  BY DEF Begins

\* The shell prints.
LEMMA StreamPrints ==
  ASSUME TypeInv, NEW s \in Streams, Prints(s), NEW r \in Streams, NEW c, NEW p, Stream(r, c, p)
  PROVE  Stream(r, c, p)' /\ Fetched(r)' = Fetched(r)
<1>0. PrintedOK BY TypeParts, Zenon DEF TypeInv
<1>1. UNCHANGED <<conn, ended, up, alive, closed>> /\ alive[s] BY Zenon DEF Prints, transport
<1>2. PICK x : x = (10 * s + Len(printed[s]) + 1) % 256 OBVIOUS
<1>3. /\ printed' = [printed EXCEPT ![s] = Append(printed[s], x)]
      /\ unread' = [unread EXCEPT ![s] = unread[s] + 1]
  BY <1>2, Zenon DEF Prints
<1>4. CASE r # s
  <2>1. printed'[r] = printed[r] /\ unread'[r] = unread[r] BY <1>0, <1>3, <1>4 DEF PrintedOK
  <2>2. Fetched(r)' = Fetched(r) BY <2>1, Zenon DEF Fetched
  <2>3. Stream(r, c, p)' BY <1>1, <2>1, StreamKept
  <2>. QED BY <2>2, <2>3
<1>5. CASE r = s
  <2>1. PICK q, u : q = printed[s] /\ u = unread[s] OBVIOUS
  <2>2. q \in Seq(Byte) /\ u \in Nat /\ u <= Len(q) BY <1>0, <2>1 DEF PrintedOK
  <2>3. x \in Byte
    <3>1. s \in Nat
      <4>1. s \in StreamId BY StreamsAssumption
      <4>. QED BY <4>1 DEF StreamId
    <3>2. PICK k \in Nat : k = Len(printed[s]) BY <2>1, <2>2
    <3>3. x = (10 * s + k + 1) % 256 BY <1>2, <3>2
    <3>. QED BY <3>1, <3>3 DEF Byte
  <2>4. PICK v : v = Append(q, x) OBVIOUS
  <2>5. Len(v) = Len(q) + 1 /\ Len(q) \in Nat BY <2>2, <2>3, <2>4
  <2>6. printed'[s] = v /\ unread'[s] = u + 1 BY <1>0, <1>3, <2>1, <2>4 DEF PrintedOK
  <2>7. PICK k : k = Len(q) - u OBVIOUS
  <2>8. k \in 0 .. Len(q) /\ Len(v) - (u + 1) = k BY <2>2, <2>5, <2>7
  <2>9. SubSeq(v, 1, k) = SubSeq(q, 1, k) BY <2>2, <2>3, <2>4, <2>8, PrintMore
  <2>10. Fetched(s)' = SubSeq(v, 1, Len(v) - (u + 1)) BY <2>6, Zenon DEF Fetched
  <2>11. Fetched(s) = SubSeq(q, 1, Len(q) - u) BY <2>1, Zenon DEF Fetched
  <2>12. Fetched(s)' = Fetched(s) BY <2>7, <2>8, <2>9, <2>10, <2>11
  <2>13. Stream(s, c, p)' BY <1>1, <1>5, <2>12, Zenon DEF Stream
  <2>. QED BY <1>5, <2>12, <2>13
<1>. QED BY <1>4, <1>5

\* A read of the shell: what is fetched grows by the payload p.
LEMMA FetchedMore ==
  ASSUME TypeInv, NEW s \in Streams, UpRead(s)
  PROVE  \E p \in Seq(Byte) :
            /\ Len(p) <= MaxPayloadSize
            /\ Fetched(s)' = Fetched(s) \o p
            /\ \A r \in Streams : r # s => unread'[r] = unread[r]
            /\ \/ /\ mode = "frames" /\ up' = [up EXCEPT ![s] = "lock"]
                  /\ hand' = [hand EXCEPT ![s] = MarshalBinary(DataFrame(s, p))]
               \/ /\ mode = "raw" /\ up' = [up EXCEPT ![s] = "write"]
                  /\ hand' = [hand EXCEPT ![s] = p]
<1>0. PrintedOK BY TypeParts, Zenon DEF TypeInv
<1>1. PICK n \in Nat, p \in Seq(Byte) :
            /\ 0 < n /\ n <= unread[s] /\ Len(p) = n /\ Len(p) <= MaxPayloadSize
            /\ unread' = [unread EXCEPT ![s] = @ - n]
            /\ SubSeq(printed[s], 1, Len(printed[s]) - unread[s]) \in Seq(Byte)
            /\ SubSeq(printed[s], 1, Len(printed[s]) - unread[s]) \o p
                  = SubSeq(printed[s], 1, Len(printed[s]) - (unread[s] - n))
            /\ \/ /\ mode = "frames" /\ up' = [up EXCEPT ![s] = "lock"]
                  /\ hand' = [hand EXCEPT ![s] = MarshalBinary(DataFrame(s, p))]
               \/ /\ mode = "raw" /\ up' = [up EXCEPT ![s] = "write"]
                  /\ hand' = [hand EXCEPT ![s] = p]
  BY ReadParts, Zenon
<1>2. printed' = printed BY Zenon DEF UpRead, shell
<1>3. unread'[s] = unread[s] - n BY <1>0, <1>1, Zenon DEF PrintedOK
<1>4. \A r \in Streams : r # s => unread'[r] = unread[r] BY <1>0, <1>1, Zenon DEF PrintedOK
<1>5. Fetched(s)' = SubSeq(printed[s], 1, Len(printed[s]) - (unread[s] - n))
  BY <1>2, <1>3, Zenon DEF Fetched
<1>6. Fetched(s)' = Fetched(s) \o p BY <1>1, <1>5, Zenon DEF Fetched
<1>. QED BY <1>1, <1>4, <1>6, Zenon

\* The stream after a read, ...
LEMMA StreamReads ==
  ASSUME TypeInv, NEW s \in Streams, NEW c, NEW o, NEW p \in Seq(Byte), Stream(s, c, o),
         up[s] = "read", Fetched(s)' = Fetched(s) \o p, ended' = ended,
         up'[s] = "lock" \/ up'[s] = "write"
  PROVE  Stream(s, c, p)'
<1>1. PICK f, g : f = Fetched(s) /\ g = Fetched(s)' OBVIOUS
<1>2. c \in Seq(Byte) /\ Begins(c, f) /\ (~ended => c \o o = f) /\ o = <<>> BY <1>1, Zenon DEF Stream
<1>3. f \in Seq(Byte) BY <1>1, FetchedType
<1>4. g = f \o p BY <1>1
<1>5. g \in Seq(Byte) /\ Begins(f, g) BY <1>3, <1>4, BeginsConcat, ConcatProperties
<1>6. Begins(c, g) BY <1>2, <1>3, <1>5, BeginsTransitive
<1>7. ~ended => c \o p = g
  <2>1. c \o <<>> = c BY <1>2, ConcatEmptySeq
  <2>. QED BY <1>2, <1>4, <2>1
<1>8. /\ c \in Seq(Byte) /\ p \in Seq(Byte) /\ Begins(c, Fetched(s)')
      /\ up'[s] # "read" /\ up'[s] # "done" /\ (~ended' => c \o p = Fetched(s)')
  BY <1>1, <1>2, <1>6, <1>7
<1>. QED BY <1>8, Zenon DEF Stream

\* ... when a part of what is at hand is written, ...
LEMMA StreamMoves ==
  ASSUME NEW s \in Streams, NEW c, NEW a \in Seq(Byte), NEW b \in Seq(Byte), Stream(s, c, a \o b),
         ~ended, ended' = ended, up[s] = "write", up'[s] # "done", up'[s] = "read" => b = <<>>,
         Fetched(s)' = Fetched(s)
  PROVE  Stream(s, c \o a, b)'
<1>1. PICK f : f = Fetched(s) OBVIOUS
<1>2. c \in Seq(Byte) /\ c \o (a \o b) = f BY <1>1, Zenon DEF Stream
<1>3. (c \o a) \o b = f
  <2>1. PICK d \in Seq(Byte) : d = c BY <1>2
  <2>2. (d \o a) \o b = d \o (a \o b) BY ConcatAssociative
  <2>. QED BY <1>2, <2>1, <2>2, Zenon
<1>4. c \o a \in Seq(Byte) BY <1>2, ConcatProperties
<1>5. Begins(c \o a, f)
  <2>1. PICK d \in Seq(Byte) : d = c \o a BY <1>4
  <2>2. Begins(d, d \o b) BY BeginsConcat
  <2>. QED BY <1>3, <2>1, <2>2
<1>6. /\ c \o a \in Seq(Byte) /\ Begins(c \o a, Fetched(s)') /\ (c \o a) \o b = Fetched(s)'
  BY <1>1, <1>3, <1>4, <1>5, Zenon
<1>. QED BY <1>6, Zenon DEF Stream

\* ... when it is written after the end and lost, ...
LEMMA StreamLoses ==
  ASSUME NEW s \in Streams, NEW c, NEW p, NEW b \in Seq(Byte), Stream(s, c, p),
         ended, ended' = ended, up'[s] # "done", up'[s] = "read" => b = <<>>,
         Fetched(s)' = Fetched(s)
  PROVE  Stream(s, c, b)'
  BY Zenon DEF Stream

\* ... and when a write has failed.
LEMMA StreamStops ==
  ASSUME NEW s \in Streams, NEW c, NEW p, Stream(s, c, p),
         conn' # "open" \/ ended', up'[s] = "done", Fetched(s)' = Fetched(s)
  PROVE  Stream(s, c, p)'
<1>1. c \in Seq(Byte) /\ p \in Seq(Byte) /\ Begins(c, Fetched(s)') BY Zenon DEF Stream
<1>2. up'[s] # "read" OBVIOUS
<1>. QED BY <1>1, <1>2, Zenon DEF Stream

\* Reading has failed.
LEMMA StreamFails ==
  ASSUME TypeInv, NEW s \in Streams, NEW c, NEW p, Stream(s, c, p), UpReadFails(s)
  PROVE  Stream(s, c, p)'
<1>0. UpOK BY TypeParts, Zenon DEF TypeInv
<1>1. /\ UNCHANGED <<conn, ended, printed, unread, alive, closed>> /\ up[s] = "read"
      /\ (closed[s] \/ (~alive[s] /\ unread[s] = 0)) /\ up' = [up EXCEPT ![s] = "done"]
  BY Zenon DEF UpReadFails, UpDone, transport, shell
<1>2. up'[s] = "done" BY <1>0, <1>1 DEF UpOK
<1>3. Fetched(s)' = Fetched(s) BY <1>1, Zenon DEF Fetched
<1>4. c \in Seq(Byte) /\ p = <<>> /\ Begins(c, Fetched(s)) /\ (~ended => c \o <<>> = Fetched(s))
  BY <1>1, Zenon DEF Stream
<1>5. ~ended => c = Fetched(s) BY <1>4, ConcatEmptySeq
<1>6. unread[s] = 0 => Fetched(s) = printed[s] BY FetchedType
<1>7. ~ended' /\ ~closed'[s] => ~alive'[s] /\ unread'[s] = 0 /\ c = printed'[s]
  BY <1>1, <1>5, <1>6, Zenon
<1>8. c \in Seq(Byte) /\ p \in Seq(Byte) /\ Begins(c, Fetched(s)')
  <2>1. <<>> \in Seq(Byte) OBVIOUS
  <2>. QED BY <1>3, <1>4, <2>1, Zenon
<1>9. up'[s] # "read" BY <1>2
<1>. QED BY <1>2, <1>7, <1>8, <1>9, Zenon DEF Stream

\* Mode "frames": steps that leave the output alone.
LEMMA FramesQuiet ==
  ASSUME TypeInv, mode = "frames", NEW fs, NEW part, NEW pay, FramesOut(fs, part, pay), Quiet
  PROVE  FramesOut(fs, part, pay)'
<1>0. running \subseteq Streams /\ conn \in {"none", "open", "closed"} BY TypeParts, Zenon DEF TypeInv, TransportOK
<1>1. UNCHANGED <<mode, running, mu, wire, up, hand, printed, unread>> BY Zenon DEF Quiet
<1>2. fs \in Seq(Short) /\ part \in Seq(Byte) /\ ~Unmarshals(part) /\ wire' = Written(fs) \o part
  BY <1>1, Zenon DEF FramesOut
<1>3. ~ended' /\ (mu' = Free \/ conn' = "closed") => part = <<>>
  BY <1>1, Zenon DEF Quiet, FramesOut
<1>4. ASSUME NEW s \in running'
      PROVE  /\ Stream(s, Payloads(fs, s), pay[s])'
             /\ up'[s] = "lock" => Whole(s, pay[s])'
             /\ up'[s] = "write" => Writer(s, part, pay[s])'
  <2>1. s \in running /\ s \in Streams BY <1>0, <1>1
  <2>2. PICK c, p : c = Payloads(fs, s) /\ p = pay[s] OBVIOUS
  <2>3. /\ Stream(s, c, p) /\ (up[s] = "lock" => Whole(s, p))
        /\ (up[s] = "write" => Writer(s, part, p))
    BY <2>1, <2>2, Zenon DEF FramesOut
  <2>4. Stream(s, c, p)'
    <3>1. /\ up'[s] = up[s] /\ printed'[s] = printed[s] /\ unread'[s] = unread[s]
          /\ (alive'[s] => alive[s]) /\ (closed[s] => closed'[s]) /\ (ended => ended')
          /\ (conn' = "open" => conn = "open")
      BY <1>1, <2>1, Zenon DEF Quiet
    <3>. QED BY <2>1, <2>3, <3>1, StreamKept
  <2>5. up'[s] = "lock" => Whole(s, p)' BY <1>1, <2>3, Zenon DEF Whole
  <2>6. up'[s] = "write" => Writer(s, part, p)' BY <1>1, <2>3, Zenon DEF Writer, Quiet
  <2>. QED BY <2>2, <2>4, <2>5, <2>6, Zenon
<1>. QED BY <1>2, <1>3, <1>4, Zenon DEF FramesOut

\* Mode "frames": a shell prints.
LEMMA FramesPrints ==
  ASSUME TypeInv, mode = "frames", NEW fs, NEW part, NEW pay, FramesOut(fs, part, pay),
         NEW s \in Streams, Prints(s)
  PROVE  FramesOut(fs, part, pay)'
<1>0. running \subseteq Streams BY TypeParts, Zenon DEF TypeInv, TransportOK
<1>1. UNCHANGED <<conn, ended, mode, running, mu, wire, up, hand>> BY Zenon DEF Prints, transport
<1>2. fs \in Seq(Short) /\ part \in Seq(Byte) /\ ~Unmarshals(part) /\ wire' = Written(fs) \o part
  BY <1>1, Zenon DEF FramesOut
<1>3. ~ended' /\ (mu' = Free \/ conn' = "closed") => part = <<>>
  BY <1>1, Zenon DEF FramesOut
<1>4. ASSUME NEW r \in running'
      PROVE  /\ Stream(r, Payloads(fs, r), pay[r])'
             /\ up'[r] = "lock" => Whole(r, pay[r])'
             /\ up'[r] = "write" => Writer(r, part, pay[r])'
  <2>1. r \in running /\ r \in Streams BY <1>0, <1>1
  <2>2. PICK c, p : c = Payloads(fs, r) /\ p = pay[r] OBVIOUS
  <2>3. /\ Stream(r, c, p) /\ (up[r] = "lock" => Whole(r, p))
        /\ (up[r] = "write" => Writer(r, part, p))
    BY <2>1, <2>2, Zenon DEF FramesOut
  <2>4. Stream(r, c, p)' BY <2>1, <2>3, StreamPrints
  <2>5. up'[r] = "lock" => Whole(r, p)' BY <1>1, <2>3, Zenon DEF Whole
  <2>6. up'[r] = "write" => Writer(r, part, p)' BY <1>1, <2>3, Zenon DEF Writer
  <2>. QED BY <2>2, <2>4, <2>5, <2>6, Zenon
<1>. QED BY <1>2, <1>3, <1>4, Zenon DEF FramesOut

\* A step of one proxy's goroutine: the other streams.
LEMMA OtherStreams ==
  ASSUME TypeInv, NEW fs, NEW part, NEW pay, FramesOut(fs, part, pay), NEW s \in Streams,
         UNCHANGED <<conn, ended, printed, alive, closed>>,
         NEW r \in running, r # s, unread'[r] = unread[r], hand'[r] = hand[r], up'[r] = up[r]
  PROVE  /\ Stream(r, Payloads(fs, r), pay[r])'
         /\ up'[r] = "lock" => Whole(r, pay[r])'
         /\ up[r] = "write" => Writer(r, part, pay[r])
<1>0. running \subseteq Streams BY TypeParts, Zenon DEF TypeInv, TransportOK
<1>1. r \in Streams BY <1>0
<1>2. PICK c, p : c = Payloads(fs, r) /\ p = pay[r] OBVIOUS
<1>3. /\ Stream(r, c, p) /\ (up[r] = "lock" => Whole(r, p))
      /\ (up[r] = "write" => Writer(r, part, p))
  BY <1>2, Zenon DEF FramesOut
<1>4. Stream(r, c, p)' BY <1>1, <1>3, StreamKept
<1>5. up'[r] = "lock" => Whole(r, p)' BY <1>3, Zenon DEF Whole
<1>. QED BY <1>2, <1>3, <1>4, <1>5, Zenon

\* Mode "frames": a proxy makes a frame of what it reads.
LEMMA FramesRead ==
  ASSUME TypeInv, mode = "frames", NEW fs, NEW part, NEW pay, FramesOut(fs, part, pay),
         NEW s \in Streams, UpRead(s)
  PROVE  \E pay2 : FramesOut(fs, part, pay2)'
<1>0. UpOK /\ running \subseteq Streams BY TypeParts, Zenon DEF TypeInv, TransportOK
<1>1. /\ UNCHANGED <<conn, ended, mode, running, mu, wire, printed, alive, closed>>
      /\ s \in running /\ up[s] = "read"
  BY Zenon DEF UpRead, transport, shell
<1>2. PICK p \in Seq(Byte) :
            /\ Len(p) <= MaxPayloadSize
            /\ Fetched(s)' = Fetched(s) \o p
            /\ \A r \in Streams : r # s => unread'[r] = unread[r]
            /\ \/ /\ mode = "frames" /\ up' = [up EXCEPT ![s] = "lock"]
                  /\ hand' = [hand EXCEPT ![s] = MarshalBinary(DataFrame(s, p))]
               \/ /\ mode = "raw" /\ up' = [up EXCEPT ![s] = "write"]
                  /\ hand' = [hand EXCEPT ![s] = p]
  BY FetchedMore
<1>3. /\ up' = [up EXCEPT ![s] = "lock"]
      /\ hand' = [hand EXCEPT ![s] = MarshalBinary(DataFrame(s, p))]
  BY <1>2
<1>4. up'[s] = "lock" /\ hand'[s] = MarshalBinary(DataFrame(s, p)) BY <1>0, <1>3 DEF UpOK
<1>5. \A r \in Streams : r # s => up'[r] = up[r] /\ hand'[r] = hand[r] BY <1>0, <1>3 DEF UpOK
<1>6. PICK pay2 : pay2 = [r \in Streams |-> IF r = s THEN p ELSE pay[r]] OBVIOUS
<1>7. pay2[s] = p /\ \A r \in Streams : r # s => pay2[r] = pay[r] BY <1>6
<1>8. fs \in Seq(Short) /\ part \in Seq(Byte) /\ ~Unmarshals(part) /\ wire' = Written(fs) \o part
  BY <1>1, Zenon DEF FramesOut
<1>9. ~ended' /\ (mu' = Free \/ conn' = "closed") => part = <<>>
  BY <1>1, Zenon DEF FramesOut
<1>10. /\ Stream(s, Payloads(fs, s), pay2[s])'
       /\ up'[s] = "lock" => Whole(s, pay2[s])'
       /\ up'[s] = "write" => Writer(s, part, pay2[s])'
  <2>1. PICK c, o : c = Payloads(fs, s) /\ o = pay[s] OBVIOUS
  <2>2. Stream(s, c, o) BY <1>1, <2>1, Zenon DEF FramesOut
  <2>3. Stream(s, c, p)' BY <1>1, <1>2, <1>4, <2>2, StreamReads
  <2>4. Whole(s, p)' BY <1>2, <1>4, Zenon DEF Whole
  <2>5. up'[s] # "write" BY <1>4
  <2>. QED BY <1>7, <2>1, <2>3, <2>4, <2>5, Zenon
<1>11. ASSUME NEW r \in running, r # s
       PROVE  /\ Stream(r, Payloads(fs, r), pay2[r])'
              /\ up'[r] = "lock" => Whole(r, pay2[r])'
              /\ up'[r] = "write" => Writer(r, part, pay2[r])'
  <2>1. r \in Streams BY <1>0
  <2>2. pay2[r] = pay[r] /\ up'[r] = up[r] /\ hand'[r] = hand[r] /\ unread'[r] = unread[r]
    BY <1>2, <1>5, <1>7, <1>11, <2>1
  <2>3. PICK q : q = pay[r] OBVIOUS
  <2>4. /\ Stream(r, Payloads(fs, r), pay[r])'
        /\ up'[r] = "lock" => Whole(r, pay[r])'
        /\ up[r] = "write" => Writer(r, part, pay[r])
    BY <1>1, <1>11, <2>2, OtherStreams, Zenon
  <2>5. up'[r] = "write" => Writer(r, part, q)' BY <1>1, <2>2, <2>3, <2>4, Zenon DEF Writer
  <2>. QED BY <2>2, <2>3, <2>4, <2>5, Zenon
<1>12. FramesOut(fs, part, pay2)' BY <1>1, <1>8, <1>9, <1>10, <1>11, Zenon DEF FramesOut
<1>. QED BY <1>12

\* Mode "frames": the read of a shell fails.
LEMMA FramesFails ==
  ASSUME TypeInv, mode = "frames", NEW fs, NEW part, NEW pay, FramesOut(fs, part, pay),
         NEW s \in Streams, UpReadFails(s)
  PROVE  FramesOut(fs, part, pay)'
<1>0. UpOK /\ running \subseteq Streams BY TypeParts, Zenon DEF TypeInv, TransportOK
<1>1. /\ UNCHANGED <<conn, ended, mode, running, mu, wire, hand, printed, unread, alive, closed>>
      /\ s \in running /\ up' = [up EXCEPT ![s] = "done"]
  BY Zenon DEF UpReadFails, UpDone, transport, shell
<1>2. fs \in Seq(Short) /\ part \in Seq(Byte) /\ ~Unmarshals(part) /\ wire' = Written(fs) \o part
  BY <1>1, Zenon DEF FramesOut
<1>3. ~ended' /\ (mu' = Free \/ conn' = "closed") => part = <<>>
  BY <1>1, Zenon DEF FramesOut
<1>4. up'[s] = "done" /\ \A r \in Streams : r # s => up'[r] = up[r] BY <1>0, <1>1 DEF UpOK
<1>5. /\ Stream(s, Payloads(fs, s), pay[s])'
      /\ up'[s] = "lock" => Whole(s, pay[s])'
      /\ up'[s] = "write" => Writer(s, part, pay[s])'
  <2>1. PICK c, p : c = Payloads(fs, s) /\ p = pay[s] OBVIOUS
  <2>2. Stream(s, c, p) BY <1>1, <2>1, Zenon DEF FramesOut
  <2>3. Stream(s, c, p)' BY <2>2, StreamFails
  <2>4. up'[s] # "lock" /\ up'[s] # "write" BY <1>4
  <2>. QED BY <2>1, <2>3, <2>4, Zenon
<1>6. ASSUME NEW r \in running, r # s
      PROVE  /\ Stream(r, Payloads(fs, r), pay[r])'
             /\ up'[r] = "lock" => Whole(r, pay[r])'
             /\ up'[r] = "write" => Writer(r, part, pay[r])'
  <2>1. r \in Streams BY <1>0
  <2>2. up'[r] = up[r] /\ hand'[r] = hand[r] /\ unread'[r] = unread[r] BY <1>1, <1>4, <1>6, <2>1
  <2>3. PICK q : q = pay[r] OBVIOUS
  <2>4. /\ Stream(r, Payloads(fs, r), pay[r])'
        /\ up'[r] = "lock" => Whole(r, pay[r])'
        /\ up[r] = "write" => Writer(r, part, pay[r])
    BY <1>1, <1>6, <2>2, OtherStreams, Zenon
  <2>5. up'[r] = "write" => Writer(r, part, q)' BY <1>1, <2>2, <2>3, <2>4, Zenon DEF Writer
  <2>. QED BY <2>3, <2>4, <2>5, Zenon
<1>. QED BY <1>1, <1>2, <1>3, <1>5, <1>6, Zenon DEF FramesOut

\* Mode "frames": WriteFrame gets rt.mu; no part of a frame has been written
\* then.
LEMMA FramesLock ==
  ASSUME TypeInv, mode = "frames", NEW fs, NEW part, NEW pay, FramesOut(fs, part, pay),
         NEW s \in Streams, WriteFrame(s)
  PROVE  FramesOut(fs, part, pay)'
<1>0. UpOK /\ running \subseteq Streams BY TypeParts, Zenon DEF TypeInv, TransportOK
<1>1. /\ UNCHANGED <<conn, ended, mode, running, wire, printed, unread, alive, closed>>
      /\ s \in running /\ up[s] = "lock" /\ mu = Free /\ mu' = s /\ up' = [up EXCEPT ![s] = "write"]
  BY Zenon DEF WriteFrame, transport, shell
<1>2. hand' = hand BY SameBytes
<1>3. fs \in Seq(Short) /\ part \in Seq(Byte) /\ ~Unmarshals(part) /\ wire' = Written(fs) \o part
  BY <1>1, Zenon DEF FramesOut
<1>4. ~ended => part = <<>> BY <1>1, Zenon DEF FramesOut
<1>5. up'[s] = "write" /\ \A r \in Streams : r # s => up'[r] = up[r] BY <1>0, <1>1 DEF UpOK
<1>6. /\ Stream(s, Payloads(fs, s), pay[s])'
      /\ up'[s] = "lock" => Whole(s, pay[s])'
      /\ up'[s] = "write" => Writer(s, part, pay[s])'
  <2>1. PICK c, p : c = Payloads(fs, s) /\ p = pay[s] OBVIOUS
  <2>2. Stream(s, c, p) /\ Whole(s, p) BY <1>1, <2>1, Zenon DEF FramesOut
  <2>3. Fetched(s)' = Fetched(s) BY <1>1, Zenon DEF Fetched
  <2>4. up[s] # "done" /\ up'[s] # "done" /\ up'[s] # "read" BY <1>1, <1>5
  <2>5. Stream(s, c, p)' BY <1>1, <2>2, <2>3, <2>4, Zenon DEF Stream
  <2>6. ~ended => part \o hand[s] = MarshalBinary(DataFrame(s, p))
    <3>. SUFFICES ASSUME ~ended PROVE part \o hand[s] = MarshalBinary(DataFrame(s, p)) OBVIOUS
    <3>1. PICK h \in Seq(Byte) : h = hand[s] BY <1>0 DEF UpOK
    <3>2. <<>> \o h = h BY ConcatEmptySeq
    <3>. QED BY <1>4, <2>2, <3>1, <3>2, Zenon DEF Whole
  <2>7. Writer(s, part, p)' BY <1>1, <1>2, <2>2, <2>6, Zenon DEF Writer, Whole
  <2>8. up'[s] # "lock" BY <1>5
  <2>. QED BY <2>1, <2>5, <2>7, <2>8, Zenon
<1>7. ASSUME NEW r \in running, r # s
      PROVE  /\ Stream(r, Payloads(fs, r), pay[r])'
             /\ up'[r] = "lock" => Whole(r, pay[r])'
             /\ up'[r] = "write" => Writer(r, part, pay[r])'
  <2>1. r \in Streams BY <1>0
  <2>2. up'[r] = up[r] /\ hand'[r] = hand[r] /\ unread'[r] = unread[r] BY <1>1, <1>2, <1>5, <1>7, <2>1
  <2>4. /\ Stream(r, Payloads(fs, r), pay[r])'
        /\ up'[r] = "lock" => Whole(r, pay[r])'
        /\ up[r] = "write" => Writer(r, part, pay[r])
    BY <1>1, <1>7, <2>2, OtherStreams, Zenon
  <2>5. up'[r] # "write"
    <3>1. up[r] = "write" => mu = r BY <2>4, Zenon DEF Writer
    <3>2. r # Free BY <2>1, FreeOK
    <3>. QED BY <1>1, <2>2, <3>1, <3>2
  <2>. QED BY <2>4, <2>5, Zenon
<1>8. ~ended' /\ (mu' = Free \/ conn' = "closed") => part = <<>> BY <1>1, <1>4
<1>. QED BY <1>1, <1>3, <1>6, <1>7, <1>8, Zenon DEF FramesOut

\* Mode "frames": a write fails; the connection has ended or is closed.
LEMMA FramesStop ==
  ASSUME TypeInv, mode = "frames", NEW fs, NEW part, NEW pay, FramesOut(fs, part, pay),
         NEW s \in Streams, UpWriteFails(s)
  PROVE  FramesOut(fs, part, pay)'
<1>0. UpOK /\ running \subseteq Streams BY TypeParts, Zenon DEF TypeInv, TransportOK
<1>1. /\ UNCHANGED <<conn, ended, mode, running, wire, hand, printed, unread, alive, closed>>
      /\ s \in running /\ up[s] = "write" /\ up' = [up EXCEPT ![s] = "done"]
      /\ conn = "closed" \/ ended
  BY Zenon DEF UpWriteFails, UpDone, transport, shell
<1>2. fs \in Seq(Short) /\ part \in Seq(Byte) /\ ~Unmarshals(part) /\ wire' = Written(fs) \o part
  BY <1>1, Zenon DEF FramesOut
<1>3. ~ended => part = <<>> BY <1>1, Zenon DEF FramesOut
<1>4. up'[s] = "done" /\ \A r \in Streams : r # s => up'[r] = up[r] BY <1>0, <1>1 DEF UpOK
<1>5. mu = s BY <1>1, Zenon DEF FramesOut, Writer
<1>6. /\ Stream(s, Payloads(fs, s), pay[s])'
      /\ up'[s] = "lock" => Whole(s, pay[s])'
      /\ up'[s] = "write" => Writer(s, part, pay[s])'
  <2>1. PICK c, p : c = Payloads(fs, s) /\ p = pay[s] OBVIOUS
  <2>2. Stream(s, c, p) BY <1>1, <2>1, Zenon DEF FramesOut
  <2>3. Fetched(s)' = Fetched(s) BY <1>1, Zenon DEF Fetched
  <2>4. conn' # "open" \/ ended' BY <1>1
  <2>5. Stream(s, c, p)' BY <1>4, <2>2, <2>3, <2>4, StreamStops
  <2>6. up'[s] # "lock" /\ up'[s] # "write" BY <1>4
  <2>. QED BY <2>1, <2>5, <2>6, Zenon
<1>7. ASSUME NEW r \in running, r # s
      PROVE  /\ Stream(r, Payloads(fs, r), pay[r])'
             /\ up'[r] = "lock" => Whole(r, pay[r])'
             /\ up'[r] = "write" => Writer(r, part, pay[r])'
  <2>1. r \in Streams BY <1>0
  <2>2. up'[r] = up[r] /\ hand'[r] = hand[r] /\ unread'[r] = unread[r] BY <1>1, <1>4, <1>7, <2>1
  <2>4. /\ Stream(r, Payloads(fs, r), pay[r])'
        /\ up'[r] = "lock" => Whole(r, pay[r])'
        /\ up[r] = "write" => Writer(r, part, pay[r])
    BY <1>1, <1>7, <2>2, OtherStreams, Zenon
  <2>5. up'[r] # "write"
    <3>1. up[r] = "write" => mu = r BY <2>4, Zenon DEF Writer
    <3>. QED BY <1>5, <1>7, <2>2, <3>1
  <2>. QED BY <2>4, <2>5, Zenon
<1>8. ~ended' /\ (mu' = Free \/ conn' = "closed") => part = <<>> BY <1>1, <1>3
<1>. QED BY <1>1, <1>2, <1>6, <1>7, <1>8, Zenon DEF FramesOut

\* Mode "frames": a part of a frame, or the last of it, is written.
LEMMA FramesWrite ==
  ASSUME TypeInv, mode = "frames", NEW fs, NEW part, NEW pay, FramesOut(fs, part, pay),
         NEW s \in Streams, UpWrite(s)
  PROVE  \E fs2, part2, pay2 : FramesOut(fs2, part2, pay2)'
<1>0. UpOK /\ running \subseteq Streams BY TypeParts, Zenon DEF TypeInv, TransportOK
<1>1. /\ UNCHANGED <<conn, ended, mode, running, printed, unread, alive, closed>>
      /\ s \in running /\ up[s] = "write" /\ conn = "open"
  BY Zenon DEF UpWrite, transport, shell
<1>2. PICK x \in Seq(Byte), y \in Seq(Byte) :
            /\ x \o y = hand[s]
            /\ wire' = (IF ended THEN wire ELSE wire \o x)
            /\ hand' = [hand EXCEPT ![s] = y]
            /\ IF y = <<>> THEN up' = [up EXCEPT ![s] = "read"] /\ Unlock(s) ELSE UNCHANGED <<up, mu>>
  BY WriteParts, Zenon
<1>3. PICK c, p : c = Payloads(fs, s) /\ p = pay[s] OBVIOUS
<1>4. Stream(s, c, p) /\ Writer(s, part, p) BY <1>1, <1>3, Zenon DEF FramesOut
<1>5. PICK F : F = DataFrame(s, p) OBVIOUS
<1>6. F \in Short /\ F \in Writable /\ p \in Seq(Byte) /\ mu = s
  <2>1. p \in Seq(Byte) /\ Len(p) <= MaxPayloadSize /\ mu = s BY <1>4, Zenon DEF Writer
  <2>2. F \in Short BY <1>5, <2>1, DataFrameShort
  <2>. QED BY <2>1, <2>2, ShortWritable
<1>7. fs \in Seq(Short) /\ part \in Seq(Byte) /\ ~Unmarshals(part) /\ wire = Written(fs) \o part
  BY Zenon DEF FramesOut
<1>8. ~ended => part \o (x \o y) = MarshalBinary(F) BY <1>2, <1>4, <1>5, Zenon DEF Writer
<1>9. Fetched(s)' = Fetched(s) BY <1>1, Zenon DEF Fetched
<1>10. hand'[s] = y /\ \A r \in Streams : r # s => hand'[r] = hand[r] BY <1>0, <1>2 DEF UpOK
<1>11. ASSUME NEW r \in running, r # s, up'[r] = up[r]
       PROVE  /\ Stream(r, Payloads(fs, r), pay[r])'
              /\ up'[r] = "lock" => Whole(r, pay[r])'
              /\ up'[r] # "write"
  <2>1. r \in Streams BY <1>0
  <2>2. hand'[r] = hand[r] /\ unread'[r] = unread[r] BY <1>1, <1>10, <1>11, <2>1
  <2>3. /\ Stream(r, Payloads(fs, r), pay[r])'
        /\ up'[r] = "lock" => Whole(r, pay[r])'
        /\ up[r] = "write" => Writer(r, part, pay[r])
    BY <1>1, <1>11, <2>2, OtherStreams, Zenon
  <2>4. up[r] = "write" => mu = r BY <2>3, Zenon DEF Writer
  <2>5. up'[r] # "write" BY <1>6, <1>11, <2>4
  <2>. QED BY <2>3, <2>5, Zenon
<1>12. s # Free BY FreeOK
<1>13. PICK e : e = <<>> /\ e \in Seq(Byte)
  <2>1. <<>> \in Seq(Byte) OBVIOUS
  <2>. QED BY <2>1, Zenon
<1>14. CASE y # <<>>
  <2>1. up' = up /\ mu' = mu BY <1>2, <1>14, Zenon
  <2>2. PICK part2 : part2 = IF ended THEN part ELSE part \o x OBVIOUS
  <2>3. part2 \in Seq(Byte)
    <3>1. part \o x \in Seq(Byte) BY <1>7, ConcatProperties
    <3>. QED BY <1>7, <2>2, <3>1, Zenon
  <2>4. ~ended => part2 \o y = MarshalBinary(F)
    <3>1. (part \o x) \o y = part \o (x \o y) BY <1>7, ConcatAssociative
    <3>. QED BY <1>8, <2>2, <3>1, Zenon
  <2>5. ~Unmarshals(part2)
    <3>1. CASE ended BY <1>7, <2>2, <3>1
    <3>2. CASE ~ended BY <1>6, <1>14, <2>3, <2>4, <3>2, PartOfFrame
    <3>. QED BY <3>1, <3>2
  <2>6. wire' = Written(fs) \o part2
    <3>1. CASE ended BY <1>2, <1>7, <2>2, <3>1
    <3>2. CASE ~ended
      <4>1. PICK w : w = Written(fs) OBVIOUS
      <4>2. w \in Seq(Byte)
        <5>1. fs \in Seq(Writable)
          <6>1. \A i \in 1 .. Len(fs) : fs[i] \in Short BY <1>7
          <6>2. \A i \in 1 .. Len(fs) : fs[i] \in Writable BY <6>1, ShortWritable
          <6>3. Len(fs) \in Nat /\ DOMAIN fs = 1 .. Len(fs) BY <1>7
          <6>. QED BY <1>7, <6>2
        <5>. QED BY <1>6, <4>1, <5>1, WrittenAppend
      <4>3. (w \o part) \o x = w \o (part \o x) BY <1>7, <4>2, ConcatAssociative
      <4>. QED BY <1>2, <1>7, <2>2, <3>2, <4>1, <4>3, Zenon
    <3>. QED BY <3>1, <3>2
  <2>7. /\ Stream(s, Payloads(fs, s), pay[s])'
        /\ up'[s] = "lock" => Whole(s, pay[s])'
        /\ up'[s] = "write" => Writer(s, part2, pay[s])'
    <3>1. Stream(s, c, p)' BY <1>1, <1>4, <2>1, StreamKept
    <3>2. Writer(s, part2, p)' BY <1>1, <1>4, <1>5, <1>10, <2>1, <2>4, Zenon DEF Writer
    <3>3. up'[s] # "lock" BY <1>1, <2>1
    <3>. QED BY <1>3, <3>1, <3>2, <3>3, Zenon
  <2>8. ~ended' /\ (mu' = Free \/ conn' = "closed") => part2 = <<>>
    BY <1>1, <1>6, <1>12, <2>1
  <2>9. \A r \in running : r # s => up'[r] = up[r] BY <2>1
  <2>10. FramesOut(fs, part2, pay)'
    BY <1>1, <1>7, <1>11, <2>3, <2>5, <2>6, <2>7, <2>8, <2>9, Zenon DEF FramesOut
  <2>. QED BY <2>10
<1>15. CASE y = <<>>
  <2>1. up' = [up EXCEPT ![s] = "read"] /\ mu' = Free BY <1>2, <1>6, <1>15, Zenon DEF Unlock
  <2>2. up'[s] = "read" /\ \A r \in Streams : r # s => up'[r] = up[r] BY <1>0, <2>1 DEF UpOK
  <2>3. PICK pay2 : pay2 = [r \in Streams |-> IF r = s THEN e ELSE pay[r]] OBVIOUS
  <2>4. pay2[s] = e /\ \A r \in Streams : r # s => pay2[r] = pay[r] BY <2>3
  <2>5. up'[s] # "lock" /\ up'[s] # "write" /\ up'[s] # "done" BY <2>2
  <2>6. CASE ended
    <3>1. wire' = wire BY <1>2, <2>6
    <3>2. Stream(s, c, e)' BY <1>1, <1>4, <1>9, <1>13, <2>2, <2>6, StreamLoses
    <3>3. /\ Stream(s, Payloads(fs, s), pay2[s])'
          /\ up'[s] = "lock" => Whole(s, pay2[s])'
          /\ up'[s] = "write" => Writer(s, part, pay2[s])'
      BY <1>3, <2>4, <2>5, <3>2, Zenon
    <3>4. ASSUME NEW r \in running, r # s
          PROVE  /\ Stream(r, Payloads(fs, r), pay2[r])'
                 /\ up'[r] = "lock" => Whole(r, pay2[r])'
                 /\ up'[r] = "write" => Writer(r, part, pay2[r])'
      <4>1. r \in Streams BY <1>0
      <4>2. up'[r] = up[r] /\ pay2[r] = pay[r] BY <2>2, <2>4, <3>4, <4>1
      <4>. QED BY <1>11, <3>4, <4>2, Zenon
    <3>5. FramesOut(fs, part, pay2)'
      BY <1>1, <1>7, <2>6, <3>1, <3>3, <3>4, Zenon DEF FramesOut
    <3>. QED BY <3>5
  <2>7. CASE ~ended
    <3>1. part \o x = MarshalBinary(F)
      <4>1. x \o <<>> = x BY ConcatEmptySeq
      <4>. QED BY <1>8, <1>15, <2>7, <4>1
    <3>2. PICK fs2 : fs2 = Append(fs, F) OBVIOUS
    <3>3. fs2 \in Seq(Short) BY <1>6, <1>7, <3>2
    <3>4. fs \in Seq(Writable)
      <4>1. \A i \in 1 .. Len(fs) : fs[i] \in Short BY <1>7
      <4>2. \A i \in 1 .. Len(fs) : fs[i] \in Writable BY <4>1, ShortWritable
      <4>. QED BY <1>7, <4>2
    <3>5. Written(fs2) = Written(fs) \o MarshalBinary(F) /\ Written(fs) \in Seq(Byte) /\ Written(fs2) \in Seq(Byte)
      <4>1. MarshalBinary(F) \in Seq(Byte) BY <1>6, ShortWritable
      <4>. QED BY <1>6, <3>2, <3>4, <4>1, WrittenAppend, ConcatProperties
    <3>6. wire' = Written(fs2) \o e
      <4>1. PICK w \in Seq(Byte) : w = Written(fs) BY <3>5
      <4>2. (w \o part) \o x = w \o (part \o x) BY <1>7, ConcatAssociative
      <4>3. wire' = Written(fs2) BY <1>2, <1>7, <2>7, <3>1, <3>5, <4>1, <4>2, Zenon
      <4>4. Written(fs2) \o <<>> = Written(fs2) BY <3>5, ConcatEmptySeq
      <4>. QED BY <1>13, <4>3, <4>4
    <3>7. ~Unmarshals(e) BY <1>13 DEF Unmarshals, FrameHeaderSize
    <3>8. Payloads(fs2, s) = c \o p
      <4>1. Payloads(fs2, s) = Payloads(fs, s) \o Payload(F, s) BY <1>6, <3>2, <3>4, PayloadsAppend
      <4>2. Payload(F, s) = p BY <1>5, DataFramePayload
      <4>. QED BY <1>3, <4>1, <4>2
    <3>9. Stream(s, c \o p, e)'
      <4>1. p \o e = p BY <1>6, <1>13, ConcatEmptySeq
      <4>2. Stream(s, c, p \o e) BY <1>4, <4>1
      <4>. QED BY <1>1, <1>6, <1>9, <1>13, <2>5, <2>7, <4>2, StreamMoves
    <3>10. /\ Stream(s, Payloads(fs2, s), pay2[s])'
           /\ up'[s] = "lock" => Whole(s, pay2[s])'
           /\ up'[s] = "write" => Writer(s, e, pay2[s])'
      BY <2>4, <2>5, <3>8, <3>9, Zenon
    <3>11. ASSUME NEW r \in running, r # s
           PROVE  /\ Stream(r, Payloads(fs2, r), pay2[r])'
                  /\ up'[r] = "lock" => Whole(r, pay2[r])'
                  /\ up'[r] = "write" => Writer(r, e, pay2[r])'
      <4>1. r \in Streams BY <1>0
      <4>2. up'[r] = up[r] /\ pay2[r] = pay[r] BY <2>2, <2>4, <3>11, <4>1
      <4>3. Payloads(fs2, r) = Payloads(fs, r)
        <5>1. /\ Payloads(fs, r) \in Seq(Byte)
              /\ Payloads(fs2, r) = Payloads(fs, r) \o Payload(F, r)
          BY <1>6, <3>2, <3>4, PayloadsAppend
        <5>2. Payload(F, r) = <<>> BY <1>5, <3>11, DataFramePayload
        <5>3. Payloads(fs, r) \o <<>> = Payloads(fs, r) BY <5>1, ConcatEmptySeq
        <5>. QED BY <5>1, <5>2, <5>3
      <4>. QED BY <1>11, <3>11, <4>2, <4>3, Zenon
    <3>12. FramesOut(fs2, e, pay2)'
      BY <1>1, <1>13, <3>3, <3>6, <3>7, <3>10, <3>11, Zenon DEF FramesOut
    <3>. QED BY <3>12
  <2>. QED BY <2>6, <2>7
<1>. QED BY <1>14, <1>15

\* A set of streams with one member.
LEMMA Singleton ==
  ASSUME NEW R, R \subseteq Streams, Cardinality(R) = 1
  PROVE  /\ \A s, r \in R : s = r
         /\ \E s : R = {s}
<1>1. IsFiniteSet(StreamId)
  <2>1. PICK n \in Nat : n = 65535 BY SMT
  <2>2. \A s \in StreamId : s \in Nat /\ s <= n BY <2>1, SMT DEF StreamId
  <2>. QED BY <2>2, FS_BoundedSetOfNaturals
<1>2. R \subseteq StreamId BY StreamsAssumption
<1>3. IsFiniteSet(R) BY <1>1, <1>2, FS_Subset
<1>4. \E x : R = {x} BY <1>3, FS_Singleton
<1>. QED BY <1>4

\* Mode "raw" after a step that leaves the proxies alone.
LEMMA RawIs ==
  ASSUME RawOut, UNCHANGED running, NEW c2, c2 = wire', NEW hh, hh = hand',
         \A s \in running : Stream(s, c2, hh[s])'
  PROVE  RawOut'
  BY Zenon DEF RawOut, Stream

\* Mode "raw": steps that leave the output alone.
LEMMA RawQuiet ==
  ASSUME TypeInv, RawOut, Quiet
  PROVE  RawOut'
<1>0. running \subseteq Streams BY TypeParts, Zenon DEF TypeInv, TransportOK
<1>1. PICK c, h : c = wire /\ h = hand OBVIOUS
<1>2. PICK c2, h2 : c2 = wire' /\ h2 = hand' OBVIOUS
<1>3. \A s \in running : Stream(s, c, h[s]) BY <1>1, Zenon DEF RawOut
<1>4. UNCHANGED <<mode, running, wire, up, hand, printed, unread>> BY Zenon DEF Quiet
<1>5. ASSUME NEW s \in running PROVE Stream(s, c2, h2[s])'
  <2>1. s \in Streams BY <1>0
  <2>2. c2 = c /\ h2 = h BY <1>1, <1>2, <1>4
  <2>3. PICK p : p = h[s] OBVIOUS
  <2>4. /\ up'[s] = up[s] /\ printed'[s] = printed[s] /\ unread'[s] = unread[s]
        /\ (alive'[s] => alive[s]) /\ (closed[s] => closed'[s]) /\ (ended => ended')
        /\ (conn' = "open" => conn = "open")
    BY <1>4, <2>1, Zenon DEF Quiet
  <2>5. Stream(s, c, p) BY <1>3, <2>3
  <2>6. Stream(s, c, p)' BY <2>1, <2>4, <2>5, StreamKept
  <2>. QED BY <2>2, <2>3, <2>6, Zenon
<1>. QED BY <1>2, <1>4, <1>5, RawIs

\* Mode "raw": every step.
LEMMA RawNext ==
  ASSUME TypeInv, mode = "raw", conn # "none", RawOut, Next
  PROVE  RawOut'
<1>0. UpOK /\ running \subseteq Streams BY TypeParts, Zenon DEF TypeInv, TransportOK
<1>1. PICK c, h : c = wire /\ h = hand OBVIOUS
<1>2. PICK c2, h2 : c2 = wire' /\ h2 = hand' OBVIOUS
<1>3. \A s \in running : Stream(s, c, h[s]) BY <1>1, Zenon DEF RawOut
<1>4. CASE Quiet BY <1>4, RawQuiet
<1>5. ASSUME NEW s \in Streams, Prints(s) PROVE RawOut'
  <2>1. UNCHANGED <<running, wire, hand>> BY <1>5, Zenon DEF Prints, transport
  <2>2. ASSUME NEW r \in running PROVE Stream(r, c2, h2[r])'
    <3>1. r \in Streams BY <1>0
    <3>2. c2 = c /\ h2 = h BY <1>1, <1>2, <2>1
    <3>3. PICK p : p = h[r] OBVIOUS
    <3>4. Stream(r, c, p) BY <1>3, <3>3
    <3>5. Stream(r, c, p)' BY <1>5, <3>1, <3>4, StreamPrints
    <3>. QED BY <3>2, <3>3, <3>5, Zenon
  <2>. QED BY <1>2, <2>1, <2>2, RawIs
<1>6. ASSUME NEW s \in Streams, s \in running, running' = running, Stream(s, c2, h2[s])' PROVE RawOut'
  <2>1. \A r \in running : r = s BY <1>6, Zenon DEF RawOut
  <2>2. \A r \in running : Stream(r, c2, h2[r])' BY <1>6, <2>1, Zenon
  <2>. QED BY <1>2, <1>6, <2>2, RawIs
<1>7. ASSUME NEW s \in Streams, UpRead(s) PROVE RawOut'
  <2>1. UNCHANGED <<ended, running, wire>> /\ s \in running /\ up[s] = "read"
    BY <1>7, Zenon DEF UpRead, transport
  <2>2. PICK p \in Seq(Byte) :
            /\ Len(p) <= MaxPayloadSize
            /\ Fetched(s)' = Fetched(s) \o p
            /\ \A r \in Streams : r # s => unread'[r] = unread[r]
            /\ \/ /\ mode = "frames" /\ up' = [up EXCEPT ![s] = "lock"]
                  /\ hand' = [hand EXCEPT ![s] = MarshalBinary(DataFrame(s, p))]
               \/ /\ mode = "raw" /\ up' = [up EXCEPT ![s] = "write"]
                  /\ hand' = [hand EXCEPT ![s] = p]
    BY <1>7, FetchedMore
  <2>3. up' = [up EXCEPT ![s] = "write"] /\ hand' = [hand EXCEPT ![s] = p] BY <2>2
  <2>4. up'[s] = "write" /\ hand'[s] = p BY <1>0, <2>3 DEF UpOK
  <2>5. c2 = c /\ h2[s] = p BY <1>1, <1>2, <2>1, <2>4
  <2>6. PICK o : o = h[s] OBVIOUS
  <2>7. Stream(s, c, o) BY <1>3, <2>1, <2>6
  <2>8. Stream(s, c, p)' BY <2>1, <2>2, <2>4, <2>7, StreamReads
  <2>. QED BY <1>6, <2>1, <2>5, <2>8, Zenon
<1>8. ASSUME NEW s \in Streams, UpReadFails(s) PROVE RawOut'
  <2>1. UNCHANGED <<running, wire, hand>> /\ s \in running
    BY <1>8, Zenon DEF UpReadFails, transport
  <2>2. c2 = c /\ h2 = h BY <1>1, <1>2, <2>1
  <2>3. PICK p : p = h[s] OBVIOUS
  <2>4. Stream(s, c, p) BY <1>3, <2>1, <2>3
  <2>5. Stream(s, c, p)' BY <1>8, <2>4, StreamFails
  <2>. QED BY <1>6, <2>1, <2>2, <2>3, <2>5, Zenon
<1>9. ASSUME NEW s \in Streams, WriteFrame(s) PROVE FALSE
  BY <1>9, SameBytes
<1>10. ASSUME NEW s \in Streams, UpWriteFails(s) PROVE RawOut'
  <2>1. /\ UNCHANGED <<conn, ended, running, wire, hand, printed, unread>> /\ s \in running
        /\ (conn = "closed" \/ ended) /\ up' = [up EXCEPT ![s] = "done"]
    BY <1>10, Zenon DEF UpWriteFails, UpDone, transport, shell
  <2>2. c2 = c /\ h2 = h BY <1>1, <1>2, <2>1
  <2>3. PICK p : p = h[s] OBVIOUS
  <2>4. Stream(s, c, p) BY <1>3, <2>1, <2>3
  <2>5. Fetched(s)' = Fetched(s) BY <2>1, Zenon DEF Fetched
  <2>6. up'[s] = "done" BY <1>0, <2>1 DEF UpOK
  <2>7. conn' # "open" \/ ended' BY <2>1
  <2>8. Stream(s, c, p)' BY <2>4, <2>5, <2>6, <2>7, StreamStops
  <2>. QED BY <1>6, <2>1, <2>2, <2>3, <2>8, Zenon
<1>11. ASSUME NEW s \in Streams, UpWrite(s) PROVE RawOut'
  <2>1. /\ UNCHANGED <<conn, ended, running, printed, unread>> /\ s \in running /\ up[s] = "write"
    BY <1>11, Zenon DEF UpWrite, transport, shell
  <2>2. PICK x \in Seq(Byte), y \in Seq(Byte) :
            /\ x \o y = hand[s]
            /\ wire' = (IF ended THEN wire ELSE wire \o x)
            /\ hand' = [hand EXCEPT ![s] = y]
            /\ IF y = <<>> THEN up' = [up EXCEPT ![s] = "read"] /\ Unlock(s) ELSE UNCHANGED <<up, mu>>
    BY <1>11, WriteParts, Zenon
  <2>3. h2[s] = y BY <1>0, <1>2, <2>2 DEF UpOK
  <2>4. up'[s] # "done" /\ (up'[s] = "read" => y = <<>>)
    <3>1. CASE y = <<>>
      <4>1. up' = [up EXCEPT ![s] = "read"] BY <2>2, <3>1, Zenon
      <4>2. up'[s] = "read" BY <1>0, <4>1 DEF UpOK
      <4>. QED BY <3>1, <4>2
    <3>2. CASE y # <<>>
      <4>1. up' = up BY <2>2, <3>2, Zenon
      <4>. QED BY <2>1, <4>1
    <3>. QED BY <3>1, <3>2
  <2>5. Fetched(s)' = Fetched(s) BY <2>1, Zenon DEF Fetched
  <2>6. Stream(s, c, x \o y) BY <1>1, <1>3, <2>1, <2>2, Zenon
  <2>7. CASE ended
    <3>1. c2 = c BY <1>1, <1>2, <2>2, <2>7
    <3>2. Stream(s, c, y)' BY <2>1, <2>4, <2>5, <2>6, <2>7, StreamLoses
    <3>. QED BY <1>6, <2>1, <2>3, <3>1, <3>2, Zenon
  <2>8. CASE ~ended
    <3>1. c2 = c \o x BY <1>1, <1>2, <2>2, <2>8
    <3>2. Stream(s, c \o x, y)' BY <2>1, <2>4, <2>5, <2>6, <2>8, StreamMoves
    <3>. QED BY <1>6, <2>1, <2>3, <3>1, <3>2, Zenon
  <2>. QED BY <2>7, <2>8
<1>. QED BY <1>4, <1>5, <1>7, <1>8, <1>9, <1>10, <1>11, OutSteps, Zenon

\* A stream on which nothing has been printed.
LEMMA StreamBegins ==
  ASSUME NEW s, printed'[s] = <<>>, unread'[s] = 0, up'[s] = "read", NEW e, e = <<>>
  PROVE  Stream(s, e, e)'
<1>1. Fetched(s)' = SubSeq(<<>>, 1, Len(<<>>) - 0) BY Zenon DEF Fetched
<1>2. SubSeq(<<>>, 1, Len(<<>>) - 0) = <<>> OBVIOUS
<1>3. e \in Seq(Byte) /\ Begins(e, e) /\ e \o e = e BY DEF Begins
<1>4. up'[s] # "done" OBVIOUS
<1>. QED BY <1>1, <1>2, <1>3, <1>4, Zenon DEF Stream

\* Open starts without any output.
LEMMA OutOpen ==
  ASSUME TypeInv, NEW S \in SUBSET Streams \ {{}}, NEW m \in {"frames", "raw"}, Open(S, m)
  PROVE  OutInv'
<1>1. /\ conn = "none" /\ running' = S /\ mode' = m /\ (m = "raw" => Cardinality(S) = 1)
      /\ UNCHANGED <<ended, mu, wire, up, hand, printed, unread>>
  BY Zenon DEF Open, shell
<1>2. /\ ~ended /\ mu = Free /\ wire = <<>>
      /\ \A s \in Streams : up[s] = "read" /\ hand[s] = <<>> /\ printed[s] = <<>> /\ unread[s] = 0
  BY <1>1, Zenon DEF TypeInv, Idle
<1>3. PICK e : e = <<>> OBVIOUS
<1>4. S \subseteq Streams OBVIOUS
<1>5. \A s \in S : Stream(s, e, e)' /\ up'[s] # "lock" /\ up'[s] # "write"
  <2>. SUFFICES ASSUME NEW s \in S PROVE Stream(s, e, e)' /\ up'[s] # "lock" /\ up'[s] # "write"
    OBVIOUS
  <2>1. printed'[s] = <<>> /\ unread'[s] = 0 /\ up'[s] = "read" BY <1>1, <1>2, <1>4, Zenon
  <2>2. Stream(s, e, e)' BY <1>3, <2>1, StreamBegins
  <2>. QED BY <2>1, <2>2
<1>6. ASSUME mode' = "frames" PROVE \E fs, part, pay : FramesOut(fs, part, pay)'
  <2>1. PICK pay : pay = [s \in Streams |-> e] OBVIOUS
  <2>2. e \in Seq(Short) /\ e \in Seq(Byte) /\ ~Unmarshals(e)
    BY <1>3 DEF Unmarshals, FrameHeaderSize
  <2>3. wire' = Written(e) \o e
    <3>1. <<>> \o <<>> = <<>> OBVIOUS
    <3>. QED BY <1>1, <1>2, <1>3, <3>1, WrittenEmpty
  <2>4. \A s \in S : Payloads(e, s) = e /\ pay[s] = e BY <1>3, <1>4, <2>1, PayloadsEmpty
  <2>5. ASSUME NEW s \in running'
        PROVE  /\ Stream(s, Payloads(e, s), pay[s])'
               /\ up'[s] = "lock" => Whole(s, pay[s])'
               /\ up'[s] = "write" => Writer(s, e, pay[s])'
    <3>1. s \in S BY <1>1
    <3>. QED BY <1>5, <2>4, <3>1, Zenon
  <2>6. FramesOut(e, e, pay)' BY <1>3, <2>2, <2>3, <2>5, Zenon DEF FramesOut
  <2>. QED BY <2>6
<1>7. ASSUME mode' = "raw" PROVE RawOut'
  <2>1. \A s, r \in S : s = r BY <1>1, <1>4, <1>7, Singleton
  <2>2. wire' = e /\ \A s \in S : hand'[s] = e BY <1>1, <1>2, <1>3, <1>4, Zenon
  <2>3. ASSUME NEW s \in S PROVE Stream(s, wire, hand[s])'
    <3>1. hand'[s] = e BY <2>2
    <3>2. Stream(s, e, e)' BY <1>5
    <3>. QED BY <2>2, <3>1, <3>2, Zenon DEF Stream
  <2>. QED BY <1>1, <2>1, <2>3, Zenon DEF RawOut
<1>. QED BY <1>6, <1>7, Zenon DEF OutInv

\* Every step keeps the invariant of the output.
LEMMA OutNext == TypeInv /\ OutInv /\ [Next]_vars => OutInv'
<1>. SUFFICES ASSUME TypeInv, OutInv, [Next]_vars PROVE OutInv' OBVIOUS
<1>1. CASE Next
  <2>1. CASE conn = "none"
    <3>1. PICK S \in SUBSET Streams \ {{}}, m \in {"frames", "raw"} : Open(S, m)
      BY <1>1, <2>1, IdleNext
    <3>. QED BY <3>1, OutOpen
  <2>2. CASE conn # "none"
    <3>0. mode \in {"frames", "raw"} BY TypeParts, Zenon DEF TypeInv, TransportOK
    <3>1. mode' = mode
      BY <1>1, <2>2, OutSteps, Zenon
      DEF Quiet, Prints, UpRead, UpReadFails, WriteFrame, UpWrite, UpWriteFails, transport
    <3>2. CASE mode = "frames"
      <4>1. PICK fs, part, pay : FramesOut(fs, part, pay) BY <2>2, <3>2, Zenon DEF OutInv
      <4>2. CASE Quiet
        <5>1. FramesOut(fs, part, pay)' BY <3>2, <4>1, <4>2, FramesQuiet
        <5>. QED BY <3>1, <3>2, <5>1, Zenon DEF OutInv
      <4>3. ASSUME NEW s \in Streams,
                   Prints(s) \/ UpReadFails(s) \/ WriteFrame(s) \/ UpWriteFails(s)
            PROVE  OutInv'
        <5>1. FramesOut(fs, part, pay)'
          BY <3>2, <4>1, <4>3, FramesPrints, FramesFails, FramesLock, FramesStop
        <5>. QED BY <3>1, <3>2, <5>1, Zenon DEF OutInv
      <4>4. ASSUME NEW s \in Streams, UpRead(s) PROVE OutInv'
        <5>1. PICK pay2 : FramesOut(fs, part, pay2)' BY <3>2, <4>1, <4>4, FramesRead
        <5>. QED BY <3>1, <3>2, <5>1, Zenon DEF OutInv
      <4>5. ASSUME NEW s \in Streams, UpWrite(s) PROVE OutInv'
        <5>1. PICK fs2, part2, pay2 : FramesOut(fs2, part2, pay2)' BY <3>2, <4>1, <4>5, FramesWrite
        <5>. QED BY <3>1, <3>2, <5>1, Zenon DEF OutInv
      <4>. QED BY <1>1, <2>2, <4>2, <4>3, <4>4, <4>5, OutSteps, Zenon
    <3>3. CASE mode = "raw"
      <4>1. RawOut BY <2>2, <3>3, Zenon DEF OutInv
      <4>2. RawOut' BY <1>1, <2>2, <3>3, <4>1, RawNext
      <4>. QED BY <3>1, <3>3, <4>2, Zenon DEF OutInv
    <3>. QED BY <3>0, <3>2, <3>3
  <2>. QED BY <2>1, <2>2
<1>2. CASE UNCHANGED vars
  <2>1. UNCHANGED <<conn, ended, mode, running, mu, wire, up, hand, printed, unread, alive, closed>>
    BY <1>2, Zenon DEF vars, transport, shell
  <2>2. Quiet BY <2>1, QuietOthers
  <2>3. ASSUME conn # "none", mode = "frames" PROVE \E fs, part, pay : FramesOut(fs, part, pay)'
    <3>1. PICK fs, part, pay : FramesOut(fs, part, pay) BY <2>3, Zenon DEF OutInv
    <3>2. FramesOut(fs, part, pay)' BY <2>2, <2>3, <3>1, FramesQuiet
    <3>. QED BY <3>2, Zenon
  <2>4. ASSUME conn # "none", mode = "raw" PROVE RawOut'
    <3>1. RawOut BY <2>4, Zenon DEF OutInv
    <3>. QED BY <2>2, <3>1, RawQuiet
  <2>. QED BY <2>1, <2>3, <2>4, Zenon DEF OutInv
<1>. QED BY <1>1, <1>2

\* The invariant says what is promised of the output.
LEMMA OutIntact == TypeInv /\ OutInv => OutputIntact
<1>. SUFFICES ASSUME TypeInv, OutInv, NEW s \in running
     PROVE  /\ IsPrefix(Output(s), Fetched(s))
            /\ up[s] = "read" /\ ~ended => Output(s) = Fetched(s)
            /\ up[s] = "done" /\ ~closed[s] /\ conn = "open" /\ ~ended => Output(s) = printed[s]
  BY Zenon DEF OutputIntact
<1>0. running \subseteq Streams /\ mode \in {"frames", "raw"} BY TypeParts, Zenon DEF TypeInv, TransportOK
<1>1. s \in Streams BY <1>0
<1>2. conn # "none"
  <2>1. running # {} OBVIOUS
  <2>. QED BY <2>1, Zenon DEF TypeInv, Idle
<1>3. \E p : Stream(s, Output(s), p)
  <2>1. CASE mode = "frames"
    <3>1. PICK fs, part, pay : FramesOut(fs, part, pay) BY <1>2, <2>1, Zenon DEF OutInv
    <3>2. fs \in Seq(Short) /\ part \in Seq(Byte) /\ ~Unmarshals(part) /\ wire = Written(fs) \o part
      BY <3>1, Zenon DEF FramesOut
    <3>3. Decoded(wire) = fs BY <3>2, DecodedFrames
    <3>4. Output(s) = Payloads(fs, s) BY <2>1, <3>3, Zenon DEF Output
    <3>5. Stream(s, Payloads(fs, s), pay[s]) BY <3>1, Zenon DEF FramesOut
    <3>. QED BY <3>4, <3>5, Zenon
  <2>2. CASE mode = "raw"
    <3>1. Stream(s, wire, hand[s]) BY <1>2, <2>2, Zenon DEF OutInv, RawOut
    <3>2. Output(s) = wire BY <2>2 DEF Output
    <3>. QED BY <3>1, <3>2, Zenon
  <2>. QED BY <1>0, <2>1, <2>2
<1>4. PICK p : Stream(s, Output(s), p) BY <1>3
<1>5. PICK c, f : c = Output(s) /\ f = Fetched(s) OBVIOUS
<1>6. /\ c \in Seq(Byte) /\ Begins(c, f) /\ (up[s] = "read" => p = <<>>)
      /\ (up[s] # "done" /\ ~ended => c \o p = f)
      /\ (up[s] = "done" /\ ~closed[s] /\ conn = "open" /\ ~ended => c = printed[s])
  BY <1>4, <1>5, Zenon DEF Stream
<1>7. f \in Seq(Byte) BY <1>1, <1>5, FetchedType
<1>8. IsPrefix(c, f) BY <1>6, <1>7, BeginsPrefix
<1>9. up[s] = "read" /\ ~ended => c = f
  <2>1. c \o <<>> = c BY <1>6, ConcatEmptySeq
  <2>. QED BY <1>6, <2>1
<1>. QED BY <1>5, <1>6, <1>8, <1>9, Zenon

\* Whatever the shells print, however many proxies share the transport and
\* wherever their writes are cut into pieces, what a receiver decodes from the
\* connection is, for every stream, the output of its shell: the lock of
\* WriteFrame (tunnel/relay.go) keeps frames whole and one after the other,
\* and ProxyDataFrames (agent/tunnel.go) loses nothing between shell and lock.
THEOREM OutputArrives == Spec => []OutputIntact
<1>1. Init => OutInv BY DEF Init, OutInv
<1>. QED BY <1>1, TypeInit, TypeNext, OutNext, OutIntact, PTL DEF Spec

-----------------------------------------------------------------------------
(* Input: transport -> shell.                                              *)

\* The first n members of a sequence.
First(ss, n) == SubSeq(ss, 1, n)

\* Members of such a beginning, and one more.
LEMMA FirstParts ==
  ASSUME NEW S, NEW ss \in Seq(S)
  PROVE  /\ \A n \in 0 .. Len(ss) : First(ss, n) \in Seq(S) /\ Len(First(ss, n)) = n
                                    /\ Begins(First(ss, n), ss)
         /\ \A n \in Nat : n < Len(ss) => ss[n + 1] \in S /\ First(ss, n + 1) = Append(First(ss, n), ss[n + 1])
         /\ First(ss, Len(ss)) = ss /\ First(ss, 0) = <<>>
<1>1. PICK l \in Nat : l = Len(ss) OBVIOUS
<1>2. ASSUME NEW n \in 0 .. l
      PROVE  First(ss, n) \in Seq(S) /\ Len(First(ss, n)) = n /\ \A i \in 1 .. n : First(ss, n)[i] = ss[i]
  <2>1. \A i \in 1 .. n : ss[i] \in S BY <1>1, <1>2
  <2>2. 1 \in Int /\ n \in Int BY <1>2
  <2>3. /\ SubSeq(ss, 1, n) \in Seq(S) /\ Len(SubSeq(ss, 1, n)) = IF 1 <= n THEN n - 1 + 1 ELSE 0
        /\ \A i \in 1 .. n - 1 + 1 : SubSeq(ss, 1, n)[i] = ss[1 + i - 1]
    BY <2>1, <2>2, SubSeqProperties
  <2>. QED BY <1>2, <2>3 DEF First
<1>3. ASSUME NEW n \in Nat, n < l
      PROVE  ss[n + 1] \in S /\ First(ss, n + 1) = Append(First(ss, n), ss[n + 1])
  <2>1. ss[n + 1] \in S BY <1>1, <1>3
  <2>2. PICK a, b, c : a = First(ss, n) /\ b = First(ss, n + 1) /\ c = Append(a, ss[n + 1]) OBVIOUS
  <2>3. n \in 0 .. l /\ n + 1 \in 0 .. l BY <1>3
  <2>4. a \in Seq(S) /\ Len(a) = n /\ \A i \in 1 .. n : a[i] = ss[i] BY <1>2, <2>2, <2>3
  <2>5. b \in Seq(S) /\ Len(b) = n + 1 /\ \A i \in 1 .. n + 1 : b[i] = ss[i] BY <1>2, <2>2, <2>3
  <2>6. c \in Seq(S) /\ Len(c) = n + 1 /\ c[n + 1] = ss[n + 1] /\ \A i \in 1 .. n : c[i] = a[i]
    BY <2>1, <2>2, <2>4
  <2>7. \A i \in 1 .. n + 1 : b[i] = c[i]
    <3>. SUFFICES ASSUME NEW i \in 1 .. n + 1 PROVE b[i] = c[i] OBVIOUS
    <3>1. CASE i = n + 1 BY <2>5, <2>6, <3>1
    <3>2. CASE i \in 1 .. n BY <2>4, <2>5, <2>6, <3>2
    <3>. QED BY <3>1, <3>2
  <2>8. b = c BY <2>5, <2>6, <2>7, SeqEqual
  <2>. QED BY <2>1, <2>2, <2>8
<1>4. First(ss, l) = ss BY <1>1, SubSeqFull DEF First
<1>5. First(ss, 0) = <<>> BY DEF First
<1>6. \A n \in 0 .. l : Begins(First(ss, n), ss) BY <1>1, <1>2 DEF Begins
<1>. QED BY <1>1, <1>2, <1>3, <1>4, <1>5, <1>6

\* A beginning is what the sequence has in front.
LEMMA FirstOfLonger ==
  ASSUME NEW S, NEW a \in Seq(S), NEW b \in Seq(S), Begins(a, b), NEW n \in 0 .. Len(a)
  PROVE  First(b, n) = First(a, n)
<1>1. PICK k \in Nat, l \in Nat : k = Len(a) /\ l = Len(b) OBVIOUS
<1>2. k <= l /\ \A i \in 1 .. k : b[i] = a[i] BY <1>1 DEF Begins
<1>3. n \in 0 .. k /\ n \in 0 .. l BY <1>1, <1>2
<1>4. PICK x, y : x = First(a, n) /\ y = First(b, n) OBVIOUS
<1>5. x \in Seq(S) /\ Len(x) = n /\ Begins(x, a) BY <1>1, <1>3, <1>4, FirstParts
<1>6. y \in Seq(S) /\ Len(y) = n /\ Begins(y, b) BY <1>1, <1>3, <1>4, FirstParts
<1>7. \A i \in 1 .. n : x[i] = y[i]
  <2>1. \A i \in 1 .. n : a[i] = x[i] /\ b[i] = y[i] BY <1>5, <1>6 DEF Begins
  <2>2. \A i \in 1 .. n : b[i] = a[i] BY <1>2, <1>3
  <2>. QED BY <2>1, <2>2
<1>8. x = y BY <1>5, <1>6, <1>7, SeqEqual
<1>. QED BY <1>4, <1>8

\* The bytes of the first frames, and of one more.
LEMMA FirstBytes ==
  ASSUME NEW m, NEW ss \in Seq(Writable), NEW n \in Nat, n < Len(ss)
  PROVE  /\ BytesOf(m, First(ss, n)) \in Seq(Byte) /\ Code(m)[ss[n + 1]] \in Seq(Byte)
         /\ BytesOf(m, First(ss, n + 1)) = BytesOf(m, First(ss, n)) \o Code(m)[ss[n + 1]]
<1>1. n \in 0 .. Len(ss) OBVIOUS
<1>2. PICK a, f : a = First(ss, n) /\ f = ss[n + 1] OBVIOUS
<1>3. a \in Seq(Writable) /\ f \in Writable /\ First(ss, n + 1) = Append(a, f) BY <1>1, <1>2, FirstParts
<1>4. BytesOf(m, a) \in Seq(Byte) /\ BytesOf(m, Append(a, f)) = BytesOf(m, a) \o Code(m)[f]
  BY <1>3, BytesAppend
<1>5. Code(m)[f] \in Seq(Byte)
  <2>1. PICK c : c = Code(m) OBVIOUS
  <2>2. Maps(Writable, Seq(Byte), c) BY <2>1, CodeType
  <2>. QED BY <1>3, <2>1, <2>2 DEF Maps
<1>. QED BY <1>2, <1>3, <1>4, <1>5

\* The bytes of the first frames are the first bytes.
LEMMA FirstBegins ==
  ASSUME NEW m, NEW ss \in Seq(Writable)
  PROVE  \A n \in 0 .. Len(ss) : Begins(BytesOf(m, First(ss, n)), BytesOf(m, ss))
<1>1. PICK l \in Nat : l = Len(ss) OBVIOUS
<1>2. PICK w : w = BytesOf(m, ss) OBVIOUS
<1>3. PICK g : g = [k \in 0 .. l |-> BytesOf(m, First(ss, k))] OBVIOUS
<1>4. \A k \in 0 .. l : g[k] \in Seq(Byte) /\ g[k] = BytesOf(m, First(ss, k))
  <2>. SUFFICES ASSUME NEW k \in 0 .. l PROVE g[k] \in Seq(Byte) /\ g[k] = BytesOf(m, First(ss, k))
    OBVIOUS
  <2>1. PICK a : a = First(ss, k) OBVIOUS
  <2>2. a \in Seq(Writable) BY <1>1, <2>1, FirstParts
  <2>3. BytesOf(m, a) \in Seq(Byte) BY <2>2, BytesSeq
  <2>. QED BY <1>3, <2>1, <2>3
<1>5. w \in Seq(Byte) BY <1>2, BytesSeq
<1>6. g[l] = w
  <2>1. First(ss, l) = ss BY <1>1, FirstParts
  <2>. QED BY <1>2, <1>4, <2>1
<1>7. PICK T : T = {k \in Nat : k <= l => Begins(g[l - k], w)} OBVIOUS
<1>8. 0 \in T
  <2>1. l - 0 = l OBVIOUS
  <2>2. Begins(w, w) BY <1>5, BeginsSelf
  <2>. QED BY <1>6, <1>7, <2>1, <2>2
<1>9. ASSUME NEW k \in Nat, k \in T PROVE k + 1 \in T
  <2>1. ASSUME k + 1 <= l PROVE Begins(g[l - (k + 1)], w)
    <3>1. PICK j \in Nat : j = l - (k + 1) BY <2>1
    <3>2. j < l /\ j \in 0 .. l /\ j + 1 \in 0 .. l /\ l - k = j + 1 /\ k <= l BY <2>1, <3>1
    <3>3. Begins(g[j + 1], w) BY <1>7, <1>9, <3>2
    <3>4. PICK x, y, z : x = g[j] /\ y = Code(m)[ss[j + 1]] /\ z = g[j + 1] OBVIOUS
    <3>5. x \in Seq(Byte) /\ y \in Seq(Byte) /\ z = x \o y
      <4>1. j < Len(ss) BY <1>1, <3>2
      <4>. QED BY <1>4, <3>2, <3>4, <4>1, FirstBytes
    <3>6. z \in Seq(Byte) /\ Begins(x, z) BY <3>5, BeginsConcat
    <3>7. Begins(x, w) BY <1>5, <3>3, <3>4, <3>5, <3>6, BeginsTransitive
    <3>. QED BY <3>1, <3>4, <3>7
  <2>2. k + 1 \in Nat OBVIOUS
  <2>. QED BY <1>7, <2>1, <2>2
<1>10. \A k \in Nat : k \in T BY <1>8, <1>9, Induction
<1>11. ASSUME NEW n \in 0 .. l PROVE Begins(g[n], w)
  <2>1. l - n \in Nat /\ l - n <= l /\ l - (l - n) = n OBVIOUS
  <2>2. l - n \in T BY <1>10, <2>1
  <2>. QED BY <1>7, <2>1, <2>2
<1>. QED BY <1>1, <1>2, <1>4, <1>11

\* What ReadFrom reads never goes beyond the frame.
LEMMA WantedLess ==
  ASSUME NEW h \in Seq(Byte), NEW x \in Seq(Byte), Len(x) <= Wanted(h)
  PROVE  Wanted(h \o x) \in Nat
<1>1. PICK g : g = h \o x OBVIOUS
<1>2. PICK k \in Nat, l \in Nat : k = Len(h) /\ l = Len(x) OBVIOUS
<1>3. g \in Seq(Byte) /\ Len(g) = k + l /\ \A i \in 1 .. k : g[i] = h[i] BY <1>1, <1>2
<1>4. CASE k < 7
  <2>1. Wanted(h) = 7 - k BY <1>2, <1>4 DEF Wanted, FrameHeaderSize
  <2>2. k + l <= 7 BY <1>2, <2>1
  <2>3. CASE k + l < 7
    <3>1. Wanted(g) = 7 - (k + l) BY <1>3, <2>3 DEF Wanted, FrameHeaderSize
    <3>. QED BY <1>1, <2>3, <3>1
  <2>4. CASE ~(k + l < 7)
    <3>1. LengthOf(g) \in Nat BY <1>3, <2>4, LengthType
    <3>2. Wanted(g) = 7 + LengthOf(g) - (k + l) BY <1>3, <2>4 DEF Wanted, FrameHeaderSize
    <3>3. Wanted(g) \in Nat BY <2>2, <3>1, <3>2
    <3>. QED BY <1>1, <3>3
  <2>. QED BY <2>3, <2>4
<1>5. CASE ~(k < 7)
  <2>1. LengthOf(h) \in Nat BY <1>2, <1>5, LengthType
  <2>2. LengthOf(g) = LengthOf(h)
    <3>1. \A i \in 1 .. 7 : g[i] = h[i] BY <1>3, <1>5
    <3>. QED BY <3>1 DEF LengthOf
  <2>3. Wanted(h) = 7 + LengthOf(h) - k BY <1>2, <1>5 DEF Wanted, FrameHeaderSize
  <2>4. Wanted(g) = 7 + LengthOf(g) - (k + l) BY <1>3, <1>5 DEF Wanted, FrameHeaderSize
  <2>5. Wanted(g) \in Nat BY <1>2, <2>1, <2>2, <2>3, <2>4
  <2>. QED BY <1>1, <2>5
<1>. QED BY <1>4, <1>5

\* A whole frame read after the first n frames is the next one.
LEMMA NextFrame ==
  ASSUME NEW ss \in Seq(Writable), NEW n \in 0 .. Len(ss), NEW g \in Seq(Byte), Complete(g),
         Begins(BytesOf("frames", First(ss, n)) \o g, BytesOf("frames", ss))
  PROVE  /\ n \in Nat /\ n < Len(ss) /\ UnmarshalBinary(g) = ss[n + 1] /\ ss[n + 1] \in Writable
         /\ BytesOf("frames", First(ss, n + 1)) = BytesOf("frames", First(ss, n)) \o g
<1>1. PICK m : m = "frames" OBVIOUS
<1>2. PICK a, w : a = BytesOf(m, First(ss, n)) /\ w = BytesOf(m, ss) OBVIOUS
<1>3. a \in Seq(Byte) /\ w \in Seq(Byte)
  <2>1. PICK b : b = First(ss, n) OBVIOUS
  <2>2. b \in Seq(Writable) BY <2>1, FirstParts
  <2>. QED BY <1>2, <2>1, <2>2, BytesSeq
<1>4. Begins(a \o g, w) BY <1>1, <1>2
<1>5. PICK k \in Nat, l \in Nat : k = Len(g) /\ l = LengthOf(g) BY DEF Complete
<1>6. k = 7 + l BY <1>5 DEF Complete
<1>7. n \in Nat /\ n < Len(ss)
  <2>1. CASE n = Len(ss)
    <3>1. a = w BY <1>2, <2>1, FirstParts
    <3>2. Len(a \o g) = Len(a) + Len(g) /\ Len(a) \in Nat BY <1>3
    <3>3. Len(a \o g) <= Len(a) BY <1>4, <3>1 DEF Begins
    <3>. QED BY <1>5, <1>6, <3>2, <3>3
  <2>. QED BY <2>1
<1>8. PICK f : f = ss[n + 1] OBVIOUS
<1>9. f \in Writable BY <1>7, <1>8, FirstParts
<1>10. f \in Frames /\ Len(f.payload) <= MaxLength BY <1>9, WritablePayload
<1>11. PICK c : c = MarshalBinary(f) OBVIOUS
<1>12. c \in Seq(Byte) /\ Len(f.payload) \in Nat /\ Len(c) = 7 + Len(f.payload) /\ UnmarshalBinary(c) = f
  BY <1>10, <1>11, FrameParts
<1>13. Code(m)[f] = c BY <1>1, <1>9, <1>11, CodeType
<1>14. BytesOf(m, First(ss, n + 1)) = a \o c BY <1>2, <1>7, <1>8, <1>13, FirstBytes
<1>15. Begins(a \o c, w)
  <2>1. n + 1 \in 0 .. Len(ss) BY <1>7
  <2>. QED BY <1>2, <1>14, <2>1, FirstBegins
<1>16. PICK r : r = Rest(w, Len(a) + 1) OBVIOUS
<1>17. r \in Seq(Byte) /\ Begins(c, r) BY <1>3, <1>12, <1>15, <1>16, RestBegins
<1>18. Begins(g, r) BY <1>3, <1>4, <1>16, RestBegins
<1>19. Len(r) >= 7 + Len(f.payload) /\ LengthOf(r) = Len(f.payload) BY <1>10, <1>11, <1>17, FrameKnown
<1>20. LengthOf(r) = LengthOf(g)
  <2>1. \A i \in 1 .. 7 : r[i] = g[i] BY <1>5, <1>6, <1>18 DEF Begins
  <2>. QED BY <2>1 DEF LengthOf
<1>21. Len(c) = k BY <1>5, <1>6, <1>12, <1>19, <1>20
<1>22. g = c
  <2>1. \A i \in 1 .. k : r[i] = g[i] BY <1>5, <1>18 DEF Begins
  <2>2. \A i \in 1 .. k : r[i] = c[i] BY <1>17, <1>21 DEF Begins
  <2>3. \A i \in 1 .. k : g[i] = c[i] BY <2>1, <2>2
  <2>. QED BY <1>5, <1>12, <1>21, <2>3, SeqEqual
<1>. QED BY <1>1, <1>2, <1>7, <1>8, <1>9, <1>12, <1>14, <1>22

\* When all bytes are those of the first n frames, these are all frames.
LEMMA LastFrame ==
  ASSUME NEW ss \in Seq(Writable), NEW n \in 0 .. Len(ss),
         BytesOf("frames", First(ss, n)) = BytesOf("frames", ss)
  PROVE  First(ss, n) = ss
<1>1. CASE n = Len(ss) BY <1>1, FirstParts
<1>2. CASE n # Len(ss)
  <2>0. n \in Nat /\ n < Len(ss) BY <1>2
  <2>1. PICK m : m = "frames" OBVIOUS
  <2>2. PICK f, w : f = ss[n + 1] /\ w = BytesOf(m, ss) OBVIOUS
  <2>3. f \in Writable BY <2>0, <2>2, FirstParts
  <2>4. PICK c : c = MarshalBinary(f) OBVIOUS
  <2>5. c \in Seq(Byte) /\ Len(f.payload) \in Nat /\ Len(c) = 7 + Len(f.payload)
    BY <2>3, <2>4, ShortWritable
  <2>6. Code(m)[f] = c BY <2>1, <2>3, <2>4, CodeType
  <2>7. w \in Seq(Byte) BY <2>2, BytesSeq
  <2>8. BytesOf(m, First(ss, n + 1)) = w \o c BY <2>0, <2>1, <2>2, <2>6, FirstBytes
  <2>9. n + 1 \in 0 .. Len(ss) BY <2>0
  <2>10. Begins(w \o c, w) BY <2>2, <2>8, <2>9, FirstBegins
  <2>11. Len(w \o c) = Len(w) + Len(c) /\ Len(w) \in Nat BY <2>5, <2>7
  <2>12. Len(w \o c) <= Len(w) BY <2>10 DEF Begins
  <2>. QED BY <2>5, <2>11, <2>12
<1>. QED BY <1>1, <1>2
-----------------------------------------------------------------------------
\* The goroutine of s that reads has typed what b stands for, and has the
\* rest of what has been read of the connection.
At(s, b) == b \in Seq(Byte) /\ (down[s] # "done" => b \o got[s] = First(Inbound, pos))

\* In mode "frames" it has typed what the first n frames carry for it.
FramesIn(s, n) ==
    /\ n \in 0 .. Len(sent) /\ typed[s] = Payloads(First(sent, n), s)
    /\ At(s, BytesOf("frames", First(sent, n)))
    /\ down[s] = "read" => Wanted(got[s]) > 0

RawIn(s) ==
    /\ Begins(typed[s], Inbound) /\ At(s, typed[s])
    /\ down[s] = "read" => got[s] = <<>>

InInv ==
    conn # "none" => \A s : running = {s} =>
        /\ mode = "frames" => \E n : FramesIn(s, n)
        /\ mode = "raw" => RawIn(s)

\* Steps that leave the input alone.
InputKept == UNCHANGED <<mode, running, sent, pos, down, got, typed>>

\* The steps that concern the input.
LEMMA InSteps ==
  ASSUME Next
  PROVE  \/ InputKept
         \/ \E S \in SUBSET Streams \ {{}}, m \in {"frames", "raw"} : Open(S, m)
         \/ \E f \in PeerFrames : PeerSends(f)
         \/ \E s \in Streams : \/ DownRead(s) \/ DownReadRaw(s) \/ DownReadFails(s) \/ DownDrop(s)
                               \/ DownWrite(s)
  BY ZenonT(90) DEF InputKept, Next, Goroutines, transport, peer, shell, ShellClosed, CallClose, Close, Deliver,
     PeerTakes, End, Prints, Exits, CallShellClose, UpRead, UpReadFails, WriteFrame, UpWrite,
     UpWriteFails, ProxyReturns

\* The other steps.
LEMMA InQuiet ==
  ASSUME NEW s, UNCHANGED <<mode, sent, pos, down, got, typed>>
  PROVE  (\A n : FramesIn(s, n) => FramesIn(s, n)') /\ (RawIn(s) => RawIn(s)')
<1>1. Inbound' = Inbound BY InboundIs
<1>2. (\A n : FramesIn(s, n) => FramesIn(s, n)')
  BY <1>1, Zenon DEF FramesIn, At
<1>3. RawIn(s) => RawIn(s)' BY <1>1, Zenon DEF RawIn, At
<1>. QED BY <1>2, <1>3

\* The peer sends a frame.
LEMMA InSends ==
  ASSUME TypeInv, NEW f \in PeerFrames, PeerSends(f), NEW s
  PROVE  /\ \A n : FramesIn(s, n) => FramesIn(s, n)'
         /\ RawIn(s) => RawIn(s)'
<1>0. PeerOK BY TypeParts, Zenon DEF TypeInv
<1>1. sent' = Append(sent, f) /\ UNCHANGED <<mode, pos, down, got, typed>>
  BY Zenon DEF PeerSends, transport, shell
<1>2. PICK m, ss, tt : m = mode /\ ss = sent /\ tt = Append(ss, f) OBVIOUS
<1>3. ss \in Seq(PeerFrames) BY <1>0, <1>2 DEF PeerOK
<1>4. PICK a, b : a = BytesOf(m, ss) /\ b = Code(m)[f] OBVIOUS
<1>5. a \in Seq(Byte) /\ b \in Seq(Byte) /\ BytesOf(m, tt) = a \o b BY <1>2, <1>3, <1>4, BytesType
<1>6. PICK w : w = a \o b OBVIOUS
<1>7. Inbound = a /\ Inbound' = w BY <1>1, <1>2, <1>4, <1>5, <1>6, InboundIs
<1>8. w \in Seq(Byte) /\ Begins(a, w) BY <1>5, <1>6, BeginsConcat
<1>9. pos \in 0 .. Len(a)
  <2>1. Len(a) \in Nat /\ pos \in Nat /\ arrived \in Nat /\ arrived <= Len(a) /\ pos <= arrived
    BY <1>7, InboundSeq
  <2>. QED BY <2>1
<1>10. First(w, pos) = First(a, pos) BY <1>5, <1>8, <1>9, FirstOfLonger
<1>11. ASSUME NEW c, At(s, c) PROVE At(s, c)'
  BY <1>1, <1>7, <1>10, <1>11, Zenon DEF At
<1>12. ASSUME NEW n, FramesIn(s, n) PROVE FramesIn(s, n)'
  <2>1. PICK x : x = First(ss, n) OBVIOUS
  <2>2. /\ n \in 0 .. Len(ss) /\ typed[s] = Payloads(x, s) /\ At(s, BytesOf("frames", x))
        /\ down[s] = "read" => Wanted(got[s]) > 0
    BY <1>2, <1>12, <2>1, Zenon DEF FramesIn
  <2>3. tt \in Seq(PeerFrames) /\ Len(tt) = Len(ss) + 1 /\ Len(ss) \in Nat /\ Begins(ss, tt)
    BY <1>2, <1>3 DEF Begins
  <2>4. n \in 0 .. Len(tt) BY <2>2, <2>3
  <2>5. First(tt, n) = x BY <1>3, <2>1, <2>2, <2>3, FirstOfLonger
  <2>6. PICK c : c = BytesOf("frames", x) OBVIOUS
  <2>7. At(s, c)' BY <1>11, <2>2, <2>6
  <2>8. sent' = tt BY <1>1, <1>2
  <2>. QED BY <1>1, <2>2, <2>4, <2>5, <2>6, <2>7, <2>8, Zenon DEF FramesIn, At
<1>13. ASSUME RawIn(s) PROVE RawIn(s)'
  <2>1. PICK c : c = typed[s] OBVIOUS
  <2>2. Begins(c, a) /\ At(s, c) /\ (down[s] = "read" => got[s] = <<>>)
    BY <1>7, <1>13, <2>1, Zenon DEF RawIn
  <2>3. c \in Seq(Byte) BY <2>2 DEF At
  <2>4. Begins(c, w) BY <1>5, <1>8, <2>2, <2>3, BeginsTransitive
  <2>5. At(s, c)' BY <1>11, <2>2
  <2>6. typed'[s] = c BY <1>1, <2>1
  <2>. QED BY <1>1, <1>7, <2>2, <2>4, <2>5, <2>6, Zenon DEF RawIn, At
<1>. QED BY <1>12, <1>13

\* A read that does not complete what is typed.
LEMMA AtReads ==
  ASSUME NEW s, NEW b, NEW x, NEW g, NEW h, NEW p, NEW q,
         At(s, b), down[s] # "done", h = got[s], h \in Seq(Byte), x \in Seq(Byte), g = h \o x,
         p = First(Inbound, pos), q = p \o x, got'[s] = g, First(Inbound', pos') = q
  PROVE  At(s, b)'
<1>1. b \in Seq(Byte) /\ b \o h = p BY Zenon DEF At
<1>2. (b \o h) \o x = b \o (h \o x)
  <2>1. b \in Seq(Byte) BY <1>1
  <2>. QED BY ONLY <2>1, h \in Seq(Byte), x \in Seq(Byte), ConcatAssociative
<1>3. b \o g = q BY <1>1, <1>2, Zenon
<1>4. At(s, b)' <=> b \in Seq(Byte) /\ (down'[s] # "done" => b \o got'[s] = First(Inbound', pos'))
  BY Zenon DEF At
<1>. QED BY <1>1, <1>3, <1>4

\* Mode "frames": a read brings a part of a frame, or the last of it, but no
\* more.
LEMMA FramesReads ==
  ASSUME TypeInv, NEW s \in Streams, DownRead(s), NEW n, FramesIn(s, n)
  PROVE  FramesIn(s, n)'
<1>0. DownOK BY TypeParts, Zenon DEF TypeInv
<1>1. UNCHANGED <<mode, sent, typed>> /\ down[s] = "read" BY Zenon DEF DownRead, transport, peer, shell
<1>2. PICK k \in Nat, x \in Seq(Byte), g \in Seq(Byte) :
            /\ 0 < k /\ k <= Wanted(got[s]) /\ pos + k <= arrived /\ pos' = pos + k
            /\ x = SubSeq(Inbound, pos + 1, pos + k) /\ Len(x) = k
            /\ SubSeq(Inbound, 1, pos) \in Seq(Byte)
            /\ SubSeq(Inbound, 1, pos) \o x = SubSeq(Inbound, 1, pos + k)
            /\ g = got[s] \o x /\ got' = [got EXCEPT ![s] = g]
            /\ down' = [down EXCEPT ![s] = IF Refuses(g) THEN "done"
                                           ELSE IF Wanted(g) = 0 THEN "frame" ELSE "read"]
  BY DownParts
<1>3. PICK h : h = got[s] OBVIOUS
<1>4. h \in Seq(Byte) BY <1>0, <1>3 DEF DownOK
<1>5. Inbound' = Inbound BY <1>1, InboundIs
<1>6. got'[s] = g BY <1>0, <1>2 DEF DownOK
<1>7. PICK b : b = BytesOf("frames", First(sent, n)) OBVIOUS
<1>8. At(s, b) /\ n \in 0 .. Len(sent) /\ typed[s] = Payloads(First(sent, n), s)
  BY <1>7, Zenon DEF FramesIn
<1>9. At(s, b)'
  <2>1. PICK p, q : p = First(Inbound, pos) /\ q = p \o x OBVIOUS
  <2>2. First(Inbound', pos') = q BY <1>2, <1>5, <2>1, Zenon DEF First
  <2>3. down[s] # "done" BY <1>1
  <2>4. g = h \o x BY <1>2, <1>3
  <2>. QED BY <1>3, <1>4, <1>6, <1>8, <2>1, <2>2, <2>3, <2>4, AtReads
<1>10. down'[s] = "read" => Wanted(g) > 0
  <2>1. down'[s] = IF Refuses(g) THEN "done" ELSE IF Wanted(g) = 0 THEN "frame" ELSE "read"
    <3>1. PICK d : d = IF Refuses(g) THEN "done" ELSE IF Wanted(g) = 0 THEN "frame" ELSE "read" OBVIOUS
    <3>2. down' = [down EXCEPT ![s] = d] BY <1>2, <3>1, Zenon
    <3>3. down'[s] = d BY <1>0, <3>2 DEF DownOK
    <3>. QED BY <3>1, <3>3
  <2>2. Wanted(h \o x) \in Nat
    <3>1. Len(x) <= Wanted(h) BY <1>2, <1>3
    <3>. QED BY <1>4, <3>1, WantedLess
  <2>3. Wanted(g) \in Nat BY <1>2, <1>3, <2>2
  <2>. QED BY <2>1, <2>3
<1>. QED BY <1>1, <1>6, <1>7, <1>8, <1>9, <1>10, Zenon DEF FramesIn, At

\* A goroutine that stops.
LEMMA InStops ==
  ASSUME NEW s, down'[s] = "done", UNCHANGED <<mode, sent, pos>>, typed'[s] = typed[s]
  PROVE  (\A n : FramesIn(s, n) => FramesIn(s, n)') /\ (RawIn(s) => RawIn(s)')
<1>1. Inbound' = Inbound BY InboundIs
<1>2. down'[s] # "read" OBVIOUS
<1>3. ASSUME NEW n, FramesIn(s, n) PROVE FramesIn(s, n)'
  BY <1>1, <1>2, <1>3, Zenon DEF FramesIn, At
<1>4. ASSUME RawIn(s) PROVE RawIn(s)' BY <1>1, <1>2, <1>4, Zenon DEF RawIn, At
<1>. QED BY <1>3, <1>4

\* A whole frame is read; its data are typed or it is dropped.
LEMMA FramesTypes ==
  ASSUME TypeInv, mode = "frames", NEW s \in Streams, NEW n, FramesIn(s, n), down[s] = "frame",
         UNCHANGED <<mode, sent, pos>>, got' = [got EXCEPT ![s] = <<>>],
         down' = [down EXCEPT ![s] = "read"],
         NEW x, typed'[s] = typed[s] \o x, x = Payload(UnmarshalBinary(got[s]), s)
  PROVE  FramesIn(s, n + 1)'
<1>0. DownOK /\ PeerOK BY TypeParts, Zenon DEF TypeInv
<1>1. PICK ss, g, w : ss = sent /\ g = got[s] /\ w = Inbound OBVIOUS
<1>2. g \in Seq(Byte) BY <1>0, <1>1 DEF DownOK
<1>3. Complete(g) BY <1>1, Zenon DEF TypeInv, FrameOK
<1>4. ss \in Seq(Writable) BY <1>0, <1>1, SentWritable DEF PeerOK
<1>5. w = BytesOf("frames", ss) /\ Inbound' = w BY <1>1, InboundIs
<1>6. PICK a, b : a = First(ss, n) /\ b = BytesOf("frames", a) OBVIOUS
<1>7. n \in 0 .. Len(ss) /\ typed[s] = Payloads(a, s) /\ At(s, b) BY <1>1, <1>6, Zenon DEF FramesIn
<1>8. b \o g = First(w, pos)
  <2>1. down[s] # "done" OBVIOUS
  <2>. QED BY <1>1, <1>7, <2>1, Zenon DEF At
<1>9. w \in Seq(Byte) /\ pos \in 0 .. Len(w)
  <2>1. w \in Seq(Byte) /\ Len(w) \in Nat /\ pos \in Nat /\ arrived \in Nat /\ arrived <= Len(w) /\ pos <= arrived
    BY <1>1, InboundSeq
  <2>. QED BY <2>1
<1>10. Begins(b \o g, w) BY <1>8, <1>9, FirstParts
<1>11. PICK f : f = ss[n + 1] OBVIOUS
<1>12. /\ n \in Nat /\ n < Len(ss) /\ UnmarshalBinary(g) = f /\ f \in Writable
       /\ BytesOf("frames", First(ss, n + 1)) = b \o g
  BY <1>2, <1>3, <1>4, <1>5, <1>6, <1>7, <1>10, <1>11, NextFrame
<1>13. PICK c : c = First(ss, n + 1) OBVIOUS
<1>14. a \in Seq(Writable) /\ c = Append(a, f) BY <1>4, <1>6, <1>7, <1>11, <1>12, <1>13, FirstParts
<1>15. Payloads(c, s) = Payloads(a, s) \o Payload(f, s) BY <1>12, <1>14, PayloadsAppend
<1>16. typed'[s] = Payloads(c, s) BY <1>1, <1>7, <1>12, <1>15
<1>17. got'[s] = <<>> /\ down'[s] = "read" BY <1>0 DEF DownOK
<1>18. PICK d : d = b \o g OBVIOUS
<1>19. d \in Seq(Byte) /\ d \o <<>> = d
  <2>1. b \in Seq(Byte) BY <1>7 DEF At
  <2>2. d \in Seq(Byte) BY <1>2, <1>18, <2>1, ConcatProperties
  <2>. QED BY <2>2, ConcatEmptySeq
<1>20. BytesOf("frames", c) = d BY <1>12, <1>13, <1>18
<1>21. BytesOf("frames", c) \in Seq(Byte) /\ BytesOf("frames", c) \o got'[s] = First(Inbound', pos')
  BY <1>5, <1>8, <1>17, <1>18, <1>19, <1>20
<1>22. Wanted(got'[s]) > 0
  <2>1. Len(<<>>) = 0 OBVIOUS
  <2>2. Wanted(<<>>) = 7 BY <2>1 DEF Wanted, FrameHeaderSize
  <2>. QED BY <1>17, <2>2
<1>23. n + 1 \in 0 .. Len(ss) BY <1>12
<1>24. sent' = ss BY <1>1
<1>. QED BY <1>13, <1>16, <1>21, <1>22, <1>23, <1>24, Zenon DEF FramesIn, At

\* Mode "frames": all steps of the goroutine that reads.
LEMMA FramesDown ==
  ASSUME TypeInv, mode = "frames", NEW s \in Streams, NEW n, FramesIn(s, n),
         DownRead(s) \/ DownReadRaw(s) \/ DownReadFails(s) \/ DownDrop(s) \/ DownWrite(s)
  PROVE  \E k : FramesIn(s, k)'
<1>0. DownOK BY TypeParts, Zenon DEF TypeInv
<1>1. CASE DownRead(s)
  <2>1. FramesIn(s, n)' BY <1>1, FramesReads
  <2>. QED BY <2>1
<1>2. CASE DownReadRaw(s) BY <1>2 DEF DownReadRaw
<1>3. CASE DownReadFails(s)
  <2>1. down' = [down EXCEPT ![s] = "done"] /\ UNCHANGED <<mode, sent, pos, typed>>
    BY <1>3, Zenon DEF DownReadFails, DownDone, transport, peer, shell
  <2>2. down'[s] = "done" BY <1>0, <2>1 DEF DownOK
  <2>3. FramesIn(s, n)' BY <2>1, <2>2, InStops
  <2>. QED BY <2>3
<1>4. CASE DownDrop(s)
  <2>1. /\ down[s] = "frame" /\ ~ForShell(s) /\ got' = [got EXCEPT ![s] = <<>>]
        /\ down' = [down EXCEPT ![s] = "read"] /\ UNCHANGED <<mode, sent, pos, typed>>
    BY <1>4, Zenon DEF DownDrop, transport, peer, shell
  <2>2. Payload(UnmarshalBinary(got[s]), s) = <<>> BY <2>1, Zenon DEF ForShell, Payload
  <2>3. typed'[s] = typed[s] \o <<>>
    <3>1. typed[s] \in Seq(Byte) BY <1>0 DEF DownOK
    <3>2. typed[s] \o <<>> = typed[s] BY <3>1, ConcatEmptySeq
    <3>. QED BY <2>1, <3>2
  <2>4. FramesIn(s, n + 1)' BY <2>1, <2>2, <2>3, FramesTypes
  <2>. QED BY <2>4
<1>5. CASE DownWrite(s)
  <2>1. /\ down[s] = "frame" /\ ForShell(s) /\ got' = [got EXCEPT ![s] = <<>>]
        /\ UNCHANGED <<mode, sent, pos>>
    BY <1>5, Zenon DEF DownWrite, transport, peer
  <2>2. CASE alive[s]
    <3>1. /\ typed' = [typed EXCEPT ![s] = typed[s] \o Data(s)]
          /\ down' = [down EXCEPT ![s] = "read"]
      BY <1>5, <2>2, Zenon DEF DownWrite
    <3>2. typed'[s] = typed[s] \o Data(s) BY <1>0, <3>1 DEF DownOK
    <3>3. Data(s) = UnmarshalBinary(got[s]).payload BY DEF Data
    <3>4. Payload(UnmarshalBinary(got[s]), s) = Data(s) BY <2>1, <3>3, Zenon DEF ForShell, Payload
    <3>5. FramesIn(s, n + 1)' BY <2>1, <3>1, <3>2, <3>4, FramesTypes
    <3>. QED BY <3>5
  <2>3. CASE ~alive[s]
    <3>1. down' = [down EXCEPT ![s] = "done"] /\ typed' = typed BY <1>5, <2>3, Zenon DEF DownWrite, DownDone
    <3>2. down'[s] = "done" BY <1>0, <3>1 DEF DownOK
    <3>3. FramesIn(s, n)' BY <2>1, <3>1, <3>2, InStops
    <3>. QED BY <3>3
  <2>. QED BY <2>2, <2>3
<1>. QED BY <1>1, <1>2, <1>3, <1>4, <1>5

\* Mode "raw": all steps of the goroutine that reads.
LEMMA RawDown ==
  ASSUME TypeInv, mode = "raw", NEW s \in Streams, RawIn(s),
         DownRead(s) \/ DownReadRaw(s) \/ DownReadFails(s) \/ DownDrop(s) \/ DownWrite(s)
  PROVE  RawIn(s)'
<1>0. DownOK BY TypeParts, Zenon DEF TypeInv
<1>1. PICK w, c, g : w = Inbound /\ c = typed[s] /\ g = got[s] OBVIOUS
<1>2. w \in Seq(Byte) /\ pos \in 0 .. Len(w) /\ arrived - pos \in 0 .. Len(w) - pos /\ pos + (arrived - pos) = arrived
  <2>1. w \in Seq(Byte) /\ Len(w) \in Nat /\ pos \in Nat /\ arrived \in Nat /\ arrived <= Len(w) /\ pos <= arrived
    BY <1>1, InboundSeq
  <2>. QED BY <2>1
<1>3. c \in Seq(Byte) /\ Begins(c, w) /\ At(s, c) /\ (down[s] = "read" => g = <<>>)
  BY <1>1, Zenon DEF RawIn, At
<1>4. g \in Seq(Byte) BY <1>0, <1>1 DEF DownOK
<1>5. CASE DownRead(s) BY <1>5 DEF DownRead
<1>6. CASE DownReadRaw(s)
  <2>1. PICK x : x = SubSeq(w, pos + 1, arrived) OBVIOUS
  <2>2. /\ down[s] = "read" /\ pos' = arrived /\ got' = [got EXCEPT ![s] = x]
        /\ down' = [down EXCEPT ![s] = "frame"] /\ UNCHANGED <<mode, sent, typed>>
    BY <1>1, <1>6, <2>1, Zenon DEF DownReadRaw, transport, peer, shell
  <2>3. got'[s] = x /\ down'[s] = "frame" BY <1>0, <2>2 DEF DownOK
  <2>4. Inbound' = w BY <1>1, <2>2, InboundIs
  <2>5. x \in Seq(Byte) /\ SubSeq(w, 1, pos) \o x = SubSeq(w, 1, arrived)
    <3>1. PICK k : k = arrived - pos OBVIOUS
    <3>2. k \in 0 .. Len(w) - pos /\ pos + k = arrived BY <1>2, <3>1
    <3>3. /\ SubSeq(w, pos + 1, pos + k) \in Seq(Byte)
          /\ SubSeq(w, 1, pos) \o SubSeq(w, pos + 1, pos + k) = SubSeq(w, 1, pos + k)
      BY <1>2, <3>2, ReadMore
    <3>. QED BY <2>1, <3>2, <3>3
  <2>6. c = SubSeq(w, 1, pos)
    <3>1. down[s] # "done" BY <2>2
    <3>2. c \o g = SubSeq(w, 1, pos) BY <1>1, <1>3, <3>1, Zenon DEF At, First
    <3>3. g = <<>> BY <1>3, <2>2
    <3>4. c \o <<>> = c BY <1>3, ConcatEmptySeq
    <3>. QED BY <3>2, <3>3, <3>4
  <2>7. c \o got'[s] = First(Inbound', pos') BY <2>2, <2>3, <2>4, <2>5, <2>6, Zenon DEF First
  <2>8. typed'[s] = c BY <1>1, <2>2
  <2>9. down'[s] # "read" BY <2>3
  <2>. QED BY <1>3, <2>4, <2>7, <2>8, <2>9, Zenon DEF RawIn, At
<1>7. CASE DownReadFails(s)
  <2>1. down' = [down EXCEPT ![s] = "done"] /\ UNCHANGED <<mode, sent, pos, typed>>
    BY <1>7, Zenon DEF DownReadFails, DownDone, transport, peer, shell
  <2>2. down'[s] = "done" BY <1>0, <2>1 DEF DownOK
  <2>. QED BY <2>1, <2>2, InStops
<1>8. CASE DownDrop(s) BY <1>8 DEF DownDrop, ForShell
<1>9. CASE DownWrite(s)
  <2>1. down[s] = "frame" /\ got' = [got EXCEPT ![s] = <<>>] /\ UNCHANGED <<mode, sent, pos>>
    BY <1>9, Zenon DEF DownWrite, transport, peer
  <2>2. CASE alive[s]
    <3>1. typed' = [typed EXCEPT ![s] = typed[s] \o Data(s)] /\ down' = [down EXCEPT ![s] = "read"]
      BY <1>9, <2>2, Zenon DEF DownWrite
    <3>2. PICK d : d = c \o g OBVIOUS
    <3>3. typed'[s] = d /\ got'[s] = <<>>
      <4>1. Data(s) = g BY <1>1 DEF Data
      <4>2. typed' = [typed EXCEPT ![s] = d] BY <1>1, <3>1, <3>2, <4>1, Zenon
      <4>. QED BY <1>0, <2>1, <4>2 DEF DownOK
    <3>4. Inbound' = w BY <1>1, <2>1, InboundIs
    <3>5. d = First(w, pos)
      <4>1. down[s] # "done" BY <2>1
      <4>. QED BY <1>1, <1>3, <3>2, <4>1, Zenon DEF At
    <3>6. d \in Seq(Byte) /\ Begins(d, w) BY <1>2, <3>5, FirstParts
    <3>7. d \o <<>> = d BY <3>6, ConcatEmptySeq
    <3>8. typed'[s] \o got'[s] = First(Inbound', pos') BY <2>1, <3>3, <3>4, <3>5, <3>7
    <3>. QED BY <3>3, <3>4, <3>6, <3>8, Zenon DEF RawIn, At
  <2>3. CASE ~alive[s]
    <3>1. down' = [down EXCEPT ![s] = "done"] /\ typed' = typed BY <1>9, <2>3, Zenon DEF DownWrite, DownDone
    <3>2. down'[s] = "done" BY <1>0, <3>1 DEF DownOK
    <3>. QED BY <2>1, <3>1, <3>2, InStops
  <2>. QED BY <2>2, <2>3
<1>. QED BY <1>5, <1>6, <1>7, <1>8, <1>9

\* Open starts without any input.
LEMMA InOpen ==
  ASSUME TypeInv, NEW S \in SUBSET Streams \ {{}}, NEW m \in {"frames", "raw"}, Open(S, m)
  PROVE  InInv'
<1>1. conn = "none" /\ running' = S /\ UNCHANGED <<sent, pos, down, got, typed>>
  BY Zenon DEF Open, shell, peer
<1>2. sent = <<>> /\ pos = 0 /\ \A s \in Streams : down[s] = "read" /\ got[s] = <<>> /\ typed[s] = <<>>
  BY <1>1, Zenon DEF TypeInv, Idle
<1>3. Inbound' = <<>> BY <1>1, <1>2, InboundIs, BytesEmpty
<1>4. /\ First(<<>>, 0) = <<>> /\ <<>> \o <<>> = <<>> /\ <<>> \in Seq(Byte) /\ Begins(<<>>, <<>>)
      /\ 0 \in 0 .. Len(<<>>) /\ Wanted(<<>>) > 0
  BY DEF First, Begins, Wanted, FrameHeaderSize
<1>5. ASSUME NEW s, running' = {s} PROVE FramesIn(s, 0)' /\ RawIn(s)'
  <2>1. s \in Streams BY <1>1, <1>5
  <2>2. down'[s] = "read" /\ got'[s] = <<>> /\ typed'[s] = <<>> /\ sent' = <<>> /\ pos' = 0
    BY <1>1, <1>2, <2>1, Zenon
  <2>3. Payloads(<<>>, s) = <<>> /\ BytesOf("frames", <<>>) = <<>> BY PayloadsEmpty, BytesEmpty
  <2>4. PICK b : b = <<>> OBVIOUS
  <2>5. b \in Seq(Byte) /\ b \o got'[s] = First(Inbound', pos') BY <1>3, <1>4, <2>2, <2>4, Zenon
  <2>6. FramesIn(s, 0)' BY <1>4, <2>2, <2>3, <2>4, <2>5, Zenon DEF FramesIn, At
  <2>7. RawIn(s)' BY <1>3, <1>4, <2>2, <2>4, <2>5, Zenon DEF RawIn, At
  <2>. QED BY <2>6, <2>7
<1>. QED BY <1>5, Zenon DEF InInv

\* It is enough to look at the one proxy.
LEMMA InAlone ==
  ASSUME conn # "none", InInv, UNCHANGED <<mode, running>>,
         \A s : running = {s} =>
             /\ \A n : mode = "frames" /\ FramesIn(s, n) => \E k : FramesIn(s, k)'
             /\ mode = "raw" /\ RawIn(s) => RawIn(s)'
  PROVE  InInv'
<1>. SUFFICES ASSUME NEW s, running' = {s}
     PROVE  (mode' = "frames" => \E n : FramesIn(s, n)') /\ (mode' = "raw" => RawIn(s)')
  BY Zenon DEF InInv
<1>1. running = {s} BY Zenon
<1>2. ASSUME mode' = "frames" PROVE \E n : FramesIn(s, n)'
  <2>1. mode = "frames" BY <1>2, Zenon
  <2>2. PICK n : FramesIn(s, n) BY <1>1, <2>1, Zenon DEF InInv
  <2>. QED BY <1>1, <2>1, <2>2, Zenon
<1>3. ASSUME mode' = "raw" PROVE RawIn(s)'
  <2>1. mode = "raw" BY <1>3, Zenon
  <2>2. RawIn(s) BY <1>1, <2>1, Zenon DEF InInv
  <2>. QED BY <1>1, <2>1, <2>2, Zenon
<1>. QED BY <1>2, <1>3

\* Every step keeps the invariant of the input.
LEMMA InNext == TypeInv /\ InInv /\ [Next]_vars => InInv'
<1>. SUFFICES ASSUME TypeInv, InInv, [Next]_vars PROVE InInv' OBVIOUS
<1>1. ASSUME conn # "none", InputKept PROVE InInv'
  <2>1. UNCHANGED <<mode, running>> /\ UNCHANGED <<mode, sent, pos, down, got, typed>>
    BY <1>1, Zenon DEF InputKept
  <2>2. \A s : (\A n : FramesIn(s, n) => FramesIn(s, n)') /\ (RawIn(s) => RawIn(s)')
    BY <2>1, InQuiet
  <2>3. \A s : running = {s} =>
             /\ \A n : mode = "frames" /\ FramesIn(s, n) => \E k : FramesIn(s, k)'
             /\ mode = "raw" /\ RawIn(s) => RawIn(s)'
    BY <2>2, Zenon
  <2>. QED BY <1>1, <2>1, <2>3, InAlone
<1>2. CASE UNCHANGED vars
  <2>1. InputKept /\ conn' = conn BY <1>2, Zenon DEF vars, transport, peer, shell, InputKept
  <2>. QED BY <1>1, <2>1, Zenon DEF InInv
<1>3. CASE Next /\ conn = "none"
  <2>1. PICK S \in SUBSET Streams \ {{}}, m \in {"frames", "raw"} : Open(S, m) BY <1>3, IdleNext
  <2>. QED BY <2>1, InOpen
<1>4. CASE Next /\ conn # "none"
  <2>1. ASSUME NEW S \in SUBSET Streams \ {{}}, NEW m \in {"frames", "raw"}, Open(S, m) PROVE FALSE
    BY <1>4, <2>1 DEF Open
  <2>2. ASSUME NEW f \in PeerFrames, PeerSends(f) PROVE InInv'
    <3>1. UNCHANGED <<mode, running>> BY <2>2, Zenon DEF PeerSends, transport
    <3>2. \A s : (\A n : FramesIn(s, n) => FramesIn(s, n)') /\ (RawIn(s) => RawIn(s)')
      BY <2>2, InSends
    <3>3. \A s : running = {s} =>
               /\ \A n : mode = "frames" /\ FramesIn(s, n) => \E k : FramesIn(s, k)'
               /\ mode = "raw" /\ RawIn(s) => RawIn(s)'
      BY <3>2, Zenon
    <3>. QED BY <1>4, <3>1, <3>3, InAlone
  <2>3. ASSUME NEW r \in Streams,
               DownRead(r) \/ DownReadRaw(r) \/ DownReadFails(r) \/ DownDrop(r) \/ DownWrite(r)
        PROVE  InInv'
    <3>1. UNCHANGED <<mode, running>> /\ r \in running
      BY <2>3, Zenon DEF DownRead, DownReadRaw, DownReadFails, DownDrop, DownWrite, transport
    <3>2. ASSUME NEW s, running = {s}
          PROVE  /\ \A n : mode = "frames" /\ FramesIn(s, n) => \E k : FramesIn(s, k)'
                 /\ mode = "raw" /\ RawIn(s) => RawIn(s)'
      <4>1. s = r BY <3>1, <3>2
      <4>2. ASSUME NEW n, mode = "frames", FramesIn(r, n) PROVE \E k : FramesIn(r, k)'
        BY <2>3, <4>2, FramesDown
      <4>3. ASSUME mode = "raw", RawIn(r) PROVE RawIn(r)' BY <2>3, <4>3, RawDown
      <4>. QED BY <4>1, <4>2, <4>3, Zenon
    <3>. QED BY <1>4, <3>1, <3>2, InAlone
  <2>. QED BY <1>1, <1>4, <2>1, <2>2, <2>3, InSteps, Zenon
<1>. QED BY <1>2, <1>3, <1>4

\* The invariant says what is promised of the input.
LEMMA InIntact == TypeInv /\ InInv => InputIntactIfAlone
<1>. SUFFICES ASSUME TypeInv, InInv, Cardinality(running) = 1, NEW s \in running PROVE InputIntact(s)
  BY Zenon DEF InputIntactIfAlone
<1>0. running \subseteq Streams /\ mode \in {"frames", "raw"} /\ PeerOK
  BY TypeParts, Zenon DEF TypeInv, TransportOK
<1>1. running = {s}
  <2>1. PICK r : running = {r} BY <1>0, Singleton
  <2>. QED BY <2>1
<1>2. conn # "none" BY <1>1, Zenon DEF TypeInv, Idle
<1>3. PICK w : w = Inbound OBVIOUS
<1>4. w \in Seq(Byte) BY <1>3, InboundSeq
<1>5. First(w, Len(w)) = w BY <1>4, FirstParts
<1>6. CASE mode = "frames"
  <2>1. PICK n : FramesIn(s, n) BY <1>1, <1>2, <1>6, Zenon DEF InInv
  <2>2. PICK ss, a, b : ss = sent /\ a = First(ss, n) /\ b = BytesOf("frames", a) OBVIOUS
  <2>3. n \in 0 .. Len(ss) /\ typed[s] = Payloads(a, s) /\ At(s, b) BY <2>1, <2>2, Zenon DEF FramesIn
  <2>4. \E k \in 0 .. Len(sent) : typed[s] = Payloads(SubSeq(sent, 1, k), s)
    BY <2>2, <2>3, Zenon DEF First
  <2>5. ASSUME down[s] = "read", got[s] = <<>>, pos = Len(Inbound) PROVE typed[s] = Payloads(sent, s)
    <3>1. down[s] # "done" BY <2>5
    <3>2. b \in Seq(Byte) /\ b \o <<>> = w BY <1>3, <1>5, <2>3, <2>5, <3>1, Zenon DEF At
    <3>3. b \o <<>> = b BY <3>2, ConcatEmptySeq
    <3>4. BytesOf("frames", First(ss, n)) = BytesOf("frames", ss)
      BY <1>3, <1>6, <2>2, <3>2, <3>3, InboundIs
    <3>5. ss \in Seq(Writable) BY <1>0, <2>2, SentWritable DEF PeerOK
    <3>6. First(ss, n) = ss BY <2>3, <3>4, <3>5, LastFrame
    <3>. QED BY <2>2, <2>3, <3>6
  <2>. QED BY <1>6, <2>4, <2>5, Zenon DEF InputIntact
<1>7. CASE mode = "raw"
  <2>1. RawIn(s) BY <1>1, <1>2, <1>7, Zenon DEF InInv
  <2>2. PICK c : c = typed[s] OBVIOUS
  <2>3. Begins(c, w) /\ At(s, c) /\ c \in Seq(Byte) BY <1>3, <2>1, <2>2, Zenon DEF RawIn, At
  <2>4. IsPrefix(c, w) BY <1>4, <2>3, BeginsPrefix
  <2>5. ASSUME down[s] = "read", got[s] = <<>>, pos = Len(Inbound) PROVE c = w
    <3>1. down[s] # "done" BY <2>5
    <3>2. c \o <<>> = w BY <1>3, <1>5, <2>3, <2>5, <3>1, Zenon DEF At
    <3>3. c \o <<>> = c BY <2>3, ConcatEmptySeq
    <3>. QED BY <3>2, <3>3
  <2>6. mode # "frames" BY <1>7
  <2>. QED BY <1>3, <2>2, <2>4, <2>5, <2>6, Zenon DEF InputIntact
<1>. QED BY <1>0, <1>6, <1>7

\* A proxy that has the transport for itself types into its shell the data of
\* its stream, whole frames and in order, however the bytes arrive: ReadFrom
\* (protocol/frame.go) never reads beyond a frame and never stops short of
\* one, and ProxyDataFrames and Pipe pass on what it reads.
THEOREM InputArrives == Spec => []InputIntactIfAlone
<1>1. Init => InInv BY DEF Init, InInv
<1>. QED BY <1>1, TypeInit, TypeNext, InNext, InIntact, PTL DEF Spec
=============================================================================
