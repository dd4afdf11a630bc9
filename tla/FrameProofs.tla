---------------------------- MODULE FrameProofs ----------------------------
(***************************************************************************)
(* The codec of internal/protocol/frame.go loses nothing: what             *)
(* MarshalBinary writes, UnmarshalBinary reads back, whatever the limit on *)
(* payloads; and a receiver of the bytes of frames, one after the other,   *)
(* and of a part of another gets these frames.  The second is an induction *)
(* on the number of frames; Induction states the principle for sets.       *)
(***************************************************************************)
EXTENDS Frame, SequencesExt, SequenceTheorems, WellFoundedInduction, TLAPS

\* PutUint16 and Uint16 are inverse on 16 bits.
LEMMA Uint16RoundTrip ==
    ASSUME NEW v \in Int, v >= 0, v <= 65535
    PROVE  /\ v \div 256 \in Byte /\ v % 256 \in Byte
           /\ Uint16(v \div 256, v % 256) = v
BY SMT DEF Uint16, Byte

\* PutUint16 makes two bytes of a stream ID from which Uint16 gets it back.
LEMMA StreamBytes ==
    ASSUME NEW v \in Int, v >= 0, v <= 65535
    PROVE  \E a1, a2 \in Byte : PutUint16(v) = <<a1, a2>> /\ Uint16(a1, a2) = v
<1>1. v \div 256 \in Byte /\ v % 256 \in Byte /\ Uint16(v \div 256, v % 256) = v
  BY Uint16RoundTrip, SMT
<1>2. PutUint16(v) = <<v \div 256, v % 256>>
  BY SMT DEF PutUint16
<1>3. QED
  BY <1>1, <1>2, SMT

\* PutUint32 makes four bytes of a length, from which Uint32 gets it back.
LEMMA LengthBytes ==
    ASSUME NEW v \in Int, v >= 0, v <= 2147483647
    PROVE  \E n1, n2, n3, n4 \in Byte :
               PutUint32(v) = <<n1, n2, n3, n4>> /\ Uint32(n1, n2, n3, n4) = v
<1>1. v \div 16777216 \in 0..255 BY SMT
<1>2. v \div 65536 = 256 * (v \div 16777216) + ((v \div 65536) % 256)
  BY SMT
<1>3. v \div 256 = 256 * (v \div 65536) + ((v \div 256) % 256)
  BY SMT
<1>4. v = 256 * (v \div 256) + (v % 256)
  BY SMT
<1>5. (v \div 65536) % 256 \in 0..255 /\ (v \div 256) % 256 \in 0..255 /\ v % 256 \in 0..255
  BY SMT
<1>6. /\ v \div 16777216 \in Byte /\ (v \div 65536) % 256 \in Byte
      /\ (v \div 256) % 256 \in Byte /\ v % 256 \in Byte
  BY <1>1, <1>5, SMT DEF Byte
<1>6b. Uint32(v \div 16777216, (v \div 65536) % 256, (v \div 256) % 256, v % 256) = v
  BY <1>2, <1>3, <1>4, SMT DEF Uint32
<1>7. PutUint32(v) = <<v \div 16777216, (v \div 65536) % 256, (v \div 256) % 256, v % 256>>
  BY SMT DEF PutUint32
<1>8. QED
  BY <1>6, <1>6b, <1>7, SMT

\* Four parts, joined as MarshalBinary joins them.
LEMMA JoinParts ==
    ASSUME NEW S, NEW a1 \in S, NEW a2 \in S, NEW t \in S,
           NEW n1 \in S, NEW n2 \in S, NEW n3 \in S, NEW n4 \in S,
           NEW p \in Seq(S)
    PROVE  LET b == <<a1, a2>> \o <<t>> \o <<n1, n2, n3, n4>> \o p
           IN  /\ b \in Seq(S) /\ Len(b) = 7 + Len(p)
               /\ b[1] = a1 /\ b[2] = a2 /\ b[3] = t
               /\ b[4] = n1 /\ b[5] = n2 /\ b[6] = n3 /\ b[7] = n4
               /\ \A i \in 1..Len(p) : b[7 + i] = p[i]
<1>1. PICK x : x = <<a1, a2>> \o <<t>>
  OBVIOUS
<1>2. x \in Seq(S) /\ Len(x) = 3 /\ x[1] = a1 /\ x[2] = a2 /\ x[3] = t
  BY <1>1, SMTT(20)
<1>3. PICK y : y = x \o <<n1, n2, n3, n4>>
  OBVIOUS
<1>4. /\ y \in Seq(S) /\ Len(y) = 7 /\ y[1] = a1 /\ y[2] = a2 /\ y[3] = t
      /\ y[4] = n1 /\ y[5] = n2 /\ y[6] = n3 /\ y[7] = n4
  <2>1. PICK z : z = <<n1, n2, n3, n4>>
    OBVIOUS
  <2>2. z \in Seq(S) /\ Len(z) = 4 /\ z[1] = n1 /\ z[2] = n2 /\ z[3] = n3 /\ z[4] = n4
    BY <2>1, SMTT(20)
  <2>3. y = x \o z
    BY <1>3, <2>1, Zenon
  <2>4. y \in Seq(S) /\ Len(y) = 7 /\ \A i \in 1..7 : y[i] = IF i <= 3 THEN x[i] ELSE z[i - 3]
    <3>1. /\ x \o z \in Seq(S) /\ Len(x \o z) = Len(x) + Len(z)
          /\ \A i \in 1..(Len(x) + Len(z)) :
                (x \o z)[i] = IF i <= Len(x) THEN x[i] ELSE z[i - Len(x)]
      BY <1>2, <2>2, ConcatProperties, Zenon
    <3>2. QED
      BY <1>2, <2>2, <2>3, <3>1, SMTT(20)
  <2>5. QED
    BY <1>2, <2>2, <2>4, SMTT(20)
<1>5. PICK b : b = y \o p
  OBVIOUS
<1>6. b \in Seq(S) /\ Len(b) = 7 + Len(p) /\ Len(p) \in Nat
  <2>1. y \o p \in Seq(S) /\ Len(y \o p) = Len(y) + Len(p)
    BY <1>4, ConcatProperties, Zenon
  <2>2. Len(p) \in Nat
    BY SMTT(20)
  <2>3. QED
    BY <1>4, <1>5, <2>1, <2>2, Zenon
<1>7. \A i \in 1..7 : b[i] = y[i]
  BY <1>4, <1>5, <1>6, SMTT(20)
<1>8. \A i \in 1..Len(p) : b[7 + i] = p[i]
  BY <1>4, <1>5, <1>6, SMTT(20)
<1>9. b = <<a1, a2>> \o <<t>> \o <<n1, n2, n3, n4>> \o p
  BY <1>1, <1>3, <1>5, Zenon
<1>10. /\ b[1] = a1 /\ b[2] = a2 /\ b[3] = t
       /\ b[4] = n1 /\ b[5] = n2 /\ b[6] = n3 /\ b[7] = n4
  BY <1>4, <1>7, SMTT(20)
<1>11. QED
  BY <1>6, <1>8, <1>9, <1>10, Zenon

\* The bytes of a sequence after the first seven, as UnmarshalBinary copies
\* them into the payload.
LEMMA TailOfFrame ==
    ASSUME NEW S, NEW p \in Seq(S), NEW b \in Seq(S),
           Len(b) = 7 + Len(p), \A i \in 1..Len(p) : b[7 + i] = p[i]
    PROVE  SubSeq(b, 8, 7 + Len(p)) = p
<1>1. Len(p) \in Nat
  BY SMT
<1>2. SubSeq(b, 8, 7 + Len(p)) \in Seq(S) /\ Len(SubSeq(b, 8, 7 + Len(p))) = Len(p)
  BY <1>1, SMT
<1>3. ASSUME NEW i \in 1..Len(p) PROVE SubSeq(b, 8, 7 + Len(p))[i] = p[i]
  BY <1>1, <1>3, SMT
<1>4. QED
  BY <1>2, <1>3, SMT

\* The fields of a frame.
LEMMA Fields ==
    ASSUME NEW A, NEW B, NEW C, NEW r \in [stream : A, type : B, payload : C]
    PROVE  /\ r.stream \in A /\ r.type \in B /\ r.payload \in C
           /\ r = [stream |-> r.stream, type |-> r.type, payload |-> r.payload]
BY Zenon

\* The limit on payloads is a length.
LEMMA Limits == MaxLength \in Nat /\ MaxPayloadSize \in Nat /\ MaxPayloadSize <= MaxLength
<1>1. MaxLength \in Nat BY DEF MaxLength
<1>. QED BY <1>1, PayloadAssumption

\* What MarshalBinary makes of a payload of at most MaxLength bytes, whether or not the
\* limit allows it.
LEMMA FrameParts ==
    ASSUME NEW f \in Frames, Len(f.payload) <= MaxLength
    PROVE  LET b == MarshalBinary(f)
           IN  /\ b \in Seq(Byte) /\ Len(f.payload) \in Nat
               /\ Len(b) = 7 + Len(f.payload) /\ LengthOf(b) = Len(f.payload)
               /\ UnmarshalBinary(b) = f
<1>1. PICK p : p = f.payload
  OBVIOUS
<1>2. PICK n : n = Len(p)
  OBVIOUS
<1>3. PICK v : v = f.stream
  OBVIOUS
<1>4. PICK b : b = MarshalBinary(f)
  OBVIOUS
<1>5. PICK t \in Byte : t = f.type
  BY Fields, Zenon DEF Frames
<1>5b. p \in Seq(Byte)
  BY <1>1, Fields, Zenon DEF Frames
<1>6. v \in Int /\ v >= 0 /\ v <= 65535
  <2>1. v \in StreamId
    BY <1>3, Fields, Zenon DEF Frames
  <2>2. QED
    BY <2>1, SMT DEF StreamId
<1>6b. n \in Nat
  BY <1>2, <1>5b, SMT
<1>7. n \in Int /\ n >= 0 /\ n <= 2147483647
  <2>2. n <= MaxLength
    BY <1>1, <1>2, Zenon
  <2>3. QED
    BY <1>6b, <2>2, SMT DEF MaxLength
<1>8. PICK a1, a2 \in Byte : PutUint16(v) = <<a1, a2>> /\ Uint16(a1, a2) = v
  BY <1>6, StreamBytes, SMT
<1>9. PICK n1, n2, n3, n4 \in Byte :
          PutUint32(n) = <<n1, n2, n3, n4>> /\ Uint32(n1, n2, n3, n4) = n
  BY <1>7, LengthBytes, SMT
<1>10. b = <<a1, a2>> \o <<t>> \o <<n1, n2, n3, n4>> \o p
  BY <1>1, <1>2, <1>3, <1>4, <1>5, <1>8, <1>9, Zenon DEF MarshalBinary
<1>11. /\ b \in Seq(Byte) /\ Len(b) = 7 + Len(p)
       /\ b[1] = a1 /\ b[2] = a2 /\ b[3] = t
       /\ b[4] = n1 /\ b[5] = n2 /\ b[6] = n3 /\ b[7] = n4
       /\ \A i \in 1..Len(p) : b[7 + i] = p[i]
  BY <1>5b, <1>10, JoinParts, SMTT(60)
<1>12. Uint16(b[1], b[2]) = v
  BY <1>8, <1>11, Zenon
<1>13. LengthOf(b) = n
  BY <1>9, <1>11, Zenon DEF LengthOf
<1>14. SubSeq(b, 8, 7 + n) = p
  BY <1>2, <1>5b, <1>11, TailOfFrame, Zenon
<1>15. Len(b) = 7 + n
  BY <1>2, <1>11, Zenon
<1>16. UnmarshalBinary(b) = [stream |-> v, type |-> t, payload |-> p]
  <2>1. FrameHeaderSize + 1 = 8 /\ FrameHeaderSize + LengthOf(b) = 7 + n
    BY <1>7, <1>13, SMT DEF FrameHeaderSize
  <2>2. QED
    BY <1>11, <1>12, <1>14, <2>1, Zenon DEF UnmarshalBinary
<1>17. f = [stream |-> f.stream, type |-> f.type, payload |-> f.payload]
  BY Fields, Zenon DEF Frames
<1>18. QED
  BY <1>1, <1>2, <1>3, <1>4, <1>5, <1>6b, <1>11, <1>13, <1>15, <1>16, <1>17, Zenon

\* UnmarshalBinary accepts what MarshalBinary makes of a frame, and gives the
\* frame back (MarshalBinary and UnmarshalBinary, protocol/frame.go), for every
\* stream, type, payload and payload limit.
THEOREM FrameRoundTrip ==
    ASSUME NEW f \in Frames, Marshals(f)
    PROVE  /\ MarshalBinary(f) \in Seq(Byte)
           /\ Unmarshals(MarshalBinary(f))
           /\ UnmarshalBinary(MarshalBinary(f)) = f
<1>1. Len(f.payload) <= MaxPayloadSize
  BY DEF Marshals
<1>2. Len(f.payload) \in Nat
  <2>1. f.payload \in Seq(Byte)
    BY Fields, Zenon DEF Frames
  <2>2. QED
    BY <2>1, SMT
<1>2b. MaxPayloadSize \in Nat /\ MaxPayloadSize <= MaxLength /\ MaxLength \in Nat
  BY Limits
<1>3. Len(f.payload) <= MaxLength
  BY <1>1, <1>2, <1>2b, SMT
<1>4. PICK b : b = MarshalBinary(f)
  OBVIOUS
<1>5. /\ b \in Seq(Byte) /\ Len(b) = 7 + Len(f.payload) /\ LengthOf(b) = Len(f.payload)
      /\ UnmarshalBinary(b) = f
  BY <1>3, <1>4, FrameParts
<1>6. Unmarshals(b)
  BY <1>1, <1>2, <1>5, SMT DEF Unmarshals, FrameHeaderSize
<1>7. QED
  BY <1>4, <1>5, <1>6

-----------------------------------------------------------------------------
(* What is joined by FlattenSeq.                                           *)

\* Induction on the natural numbers, for a set.
LEMMA Induction ==
  ASSUME NEW T, 0 \in T, \A n \in Nat : n \in T => n + 1 \in T
  PROVE  \A n \in Nat : n \in T
<1>. SUFFICES ASSUME NEW m \in Nat, m \notin T PROVE FALSE OBVIOUS
<1>1. PICK B : B = {n \in Nat : n \notin T} OBVIOUS
<1>2. B \subseteq Nat /\ B # {} BY <1>1
<1>3. PICK x \in B : \A y \in B : ~(<<y, x>> \in OpToRel(<, Nat))
  <2>1. IsWellFoundedOn(OpToRel(<, Nat), Nat) BY NatLessThanWellFounded
  <2>. QED BY <1>2, <2>1, WFMin
<1>4. \A y \in B : ~(y < x) BY <1>2, <1>3 DEF OpToRel
<1>5. x \in Nat /\ x # 0 /\ x - 1 \in Nat /\ x - 1 < x BY <1>1, <1>2
<1>6. x - 1 \in T BY <1>1, <1>4, <1>5
<1>7. (x - 1) + 1 \in T BY <1>5, <1>6
<1>8. (x - 1) + 1 = x BY <1>5
<1>. QED BY <1>1, <1>7, <1>8

\* The function by which FlattenSeq is defined exists.
LEMMA FlattenExists ==
  ASSUME NEW ss
  PROVE  \A n \in Nat :
            \E g : g = [i \in 1 .. n |-> IF i = 1 THEN ss[i] ELSE g[i - 1] \o ss[i]]
<1>1. PICK T : T = {n \in Nat : \E g : g = [i \in 1 .. n |-> IF i = 1 THEN ss[i] ELSE g[i - 1] \o ss[i]]}
  OBVIOUS
<1>2. 0 \in T
  <2>1. PICK g : g = [i \in 1 .. 0 |-> ss[i]] OBVIOUS
  <2>2. g = [i \in 1 .. 0 |-> IF i = 1 THEN ss[i] ELSE g[i - 1] \o ss[i]]
    <3>1. 1 .. 0 = {} OBVIOUS
    <3>. QED BY <2>1, <3>1
  <2>. QED BY <1>1, <2>2
<1>3. ASSUME NEW n \in Nat, n \in T PROVE n + 1 \in T
  <2>1. PICK g : g = [i \in 1 .. n |-> IF i = 1 THEN ss[i] ELSE g[i - 1] \o ss[i]]
    BY <1>1, <1>3
  <2>2. PICK h : h = [i \in 1 .. n + 1 |-> IF i \in 1 .. n THEN g[i]
                                           ELSE IF i = 1 THEN ss[i] ELSE g[i - 1] \o ss[i]]
    OBVIOUS
  <2>3. \A i \in 1 .. n + 1 : h[i] = IF i = 1 THEN ss[i] ELSE h[i - 1] \o ss[i]
    <3>. SUFFICES ASSUME NEW i \in 1 .. n + 1
                  PROVE  h[i] = IF i = 1 THEN ss[i] ELSE h[i - 1] \o ss[i]
      OBVIOUS
    <3>1. i # 1 => i - 1 \in 1 .. n /\ i - 1 \in 1 .. n + 1 OBVIOUS
    <3>2. i # 1 => h[i - 1] = g[i - 1] BY <2>2, <3>1
    <3>3. CASE i \in 1 .. n BY <2>1, <2>2, <3>2, <3>3
    <3>4. CASE i \notin 1 .. n BY <2>2, <3>2, <3>4
    <3>. QED BY <3>3, <3>4
  <2>4. h = [i \in 1 .. n + 1 |-> h[i]] BY <2>2
  <2>5. h = [i \in 1 .. n + 1 |-> IF i = 1 THEN ss[i] ELSE h[i - 1] \o ss[i]]
    BY <2>3, <2>4
  <2>6. \E f : f = [i \in 1 .. n + 1 |-> IF i = 1 THEN ss[i] ELSE f[i - 1] \o ss[i]]
    BY <2>5
  <2>7. n + 1 \in Nat OBVIOUS
  <2>. QED BY <1>1, <2>6, <2>7
<1>4. \A n \in Nat : n \in T BY <1>2, <1>3, Induction
<1>. QED BY <1>1, <1>4

\* FlattenSeq is the last value of that function.
LEMMA FlattenIs ==
  ASSUME NEW ss, Len(ss) \in Nat, Len(ss) # 0
  PROVE  \E g : /\ g = [i \in 1 .. Len(ss) |-> IF i = 1 THEN ss[i] ELSE g[i - 1] \o ss[i]]
                /\ FlattenSeq(ss) = g[Len(ss)]
<1>. DEFINE flatten == CHOOSE g : g = [i \in 1 .. Len(ss) |-> IF i = 1 THEN ss[i] ELSE g[i - 1] \o ss[i]]
<1>1. flatten = [i \in 1 .. Len(ss) |-> IF i = 1 THEN ss[i] ELSE flatten[i - 1] \o ss[i]]
  BY FlattenExists, Zenon
<1>2. FlattenSeq(ss) = flatten[Len(ss)]
  BY Zenon DEF FlattenSeq
<1>. QED BY <1>1, <1>2, Zenon

\* FlattenSeq step by step: g[n] joins the first n of the sequences.
Joins(g, ss) ==
    /\ g[0] = <<>>
    /\ \A n \in 1 .. Len(ss) : g[n] = g[n - 1] \o ss[n]
    /\ FlattenSeq(ss) = g[Len(ss)]

\* What is joined, member by member.
LEMMA FlattenJoins ==
  ASSUME NEW S, NEW ss \in Seq(Seq(S))
  PROVE  \E g \in [0 .. Len(ss) -> Seq(S)] : Joins(g, ss)
<1>1. Len(ss) \in Nat /\ \A i \in 1 .. Len(ss) : ss[i] \in Seq(S) OBVIOUS
<1>2. CASE Len(ss) = 0
  <2>1. ss = <<>> BY <1>2
  <2>2. FlattenSeq(ss) = <<>> BY <1>2, <2>1, Zenon DEF FlattenSeq
  <2>3. PICK g : g = [i \in 0 .. Len(ss) |-> <<>>] OBVIOUS
  <2>4. g \in [0 .. Len(ss) -> Seq(S)] BY <2>3
  <2>5. g[0] = <<>> /\ g[Len(ss)] = <<>> BY <1>2, <2>3
  <2>6. \A n \in 1 .. Len(ss) : g[n] = g[n - 1] \o ss[n] BY <1>2
  <2>. QED BY <2>2, <2>4, <2>5, <2>6 DEF Joins
<1>3. CASE Len(ss) # 0
  <2>1. PICK f : /\ f = [i \in 1 .. Len(ss) |-> IF i = 1 THEN ss[i] ELSE f[i - 1] \o ss[i]]
                 /\ FlattenSeq(ss) = f[Len(ss)]
    BY <1>1, <1>3, FlattenIs
  <2>2. PICK g : g = [i \in 0 .. Len(ss) |-> IF i = 0 THEN <<>> ELSE f[i]] OBVIOUS
  <2>3. g[0] = <<>> /\ g[Len(ss)] = f[Len(ss)] BY <1>1, <1>3, <2>2
  <2>4. ASSUME NEW n \in 1 .. Len(ss) PROVE g[n] = g[n - 1] \o ss[n]
    <3>1. n - 1 \in 0 .. Len(ss) /\ n \in 0 .. Len(ss) /\ n # 0 BY <1>1
    <3>2. g[n] = f[n] BY <2>2, <3>1
    <3>3. CASE n = 1
      <4>1. f[n] = ss[n] BY <2>1, <3>3
      <4>2. ss[n] \in Seq(S) BY <1>1
      <4>3. <<>> \o ss[n] = ss[n] BY <4>2, ConcatEmptySeq
      <4>4. g[n - 1] = <<>> BY <2>2, <3>1, <3>3
      <4>. QED BY <3>2, <4>1, <4>3, <4>4
    <3>4. CASE n # 1
      <4>1. n - 1 # 0 BY <3>4
      <4>2. g[n - 1] = f[n - 1] BY <2>2, <3>1, <4>1
      <4>3. f[n] = f[n - 1] \o ss[n] BY <2>1, <3>4
      <4>. QED BY <3>2, <4>2, <4>3
    <3>. QED BY <3>3, <3>4
  <2>5. \A n \in Nat : n \in {m \in Nat : m <= Len(ss) => g[m] \in Seq(S)}
    <3>. DEFINE T == {m \in Nat : m <= Len(ss) => g[m] \in Seq(S)}
    <3>1. 0 \in T
      <4>1. <<>> \in Seq(S) OBVIOUS
      <4>2. g[0] \in Seq(S) BY <2>3, <4>1
      <4>. QED BY <4>2
    <3>2. ASSUME NEW n \in Nat, n \in T PROVE n + 1 \in T
      <4>. SUFFICES ASSUME n + 1 <= Len(ss) PROVE g[n + 1] \in Seq(S) OBVIOUS
      <4>1. n <= Len(ss) /\ n + 1 \in 1 .. Len(ss) /\ (n + 1) - 1 = n BY <1>1
      <4>2. g[n] \in Seq(S) /\ ss[n + 1] \in Seq(S) BY <1>1, <3>2, <4>1
      <4>3. g[n + 1] = g[n] \o ss[n + 1]
        <5>1. g[n + 1] = g[(n + 1) - 1] \o ss[n + 1] BY <2>4, <4>1
        <5>. QED BY <4>1, <5>1
      <4>. QED BY <4>2, <4>3, ConcatProperties
    <3>3. PICK U : U = T OBVIOUS
    <3>4. \A n \in Nat : n \in U => n + 1 \in U BY <3>2, <3>3
    <3>5. 0 \in U BY <3>1, <3>3
    <3>6. \A n \in Nat : n \in U BY <3>4, <3>5, Induction
    <3>. QED BY <3>3, <3>6
  <2>6. \A i \in 0 .. Len(ss) : g[i] \in Seq(S) BY <1>1, <2>5
  <2>7. g = [i \in 0 .. Len(ss) |-> g[i]] BY <2>2
  <2>8. g \in [0 .. Len(ss) -> Seq(S)] BY <2>6, <2>7
  <2>. QED BY <2>1, <2>3, <2>4, <2>8 DEF Joins
<1>. QED BY <1>2, <1>3

\* Sequences that begin with the same m.
SameBeginning(ss, tt, m) ==
    /\ m \in Nat /\ Len(ss) \in Nat /\ Len(tt) \in Nat /\ m <= Len(ss) /\ m <= Len(tt)
    /\ \A i \in 1 .. m : ss[i] = tt[i]

BothJoin(f, ss, g, tt, m) == Joins(f, ss) /\ Joins(g, tt) /\ SameBeginning(ss, tt, m)

\* Two such functions agree as far as the sequences do.
LEMMA JoinsAgree ==
  ASSUME NEW f, NEW ss, NEW g, NEW tt, NEW m, BothJoin(f, ss, g, tt, m)
  PROVE  \A n \in 0 .. m : f[n] = g[n]
<1>. USE DEF BothJoin, SameBeginning
<1>1. PICK T : T = {n \in Nat : n <= m => f[n] = g[n]} OBVIOUS
<1>2. 0 \in T BY <1>1 DEF Joins
<1>3. ASSUME NEW n \in Nat, n \in T PROVE n + 1 \in T
  <2>. SUFFICES ASSUME n + 1 <= m PROVE f[n + 1] = g[n + 1] BY <1>1
  <2>1. /\ n <= m /\ n + 1 \in 1 .. m /\ n + 1 \in 1 .. Len(ss) /\ n + 1 \in 1 .. Len(tt)
        /\ (n + 1) - 1 = n
    OBVIOUS
  <2>2. f[n] = g[n] BY <1>1, <1>3, <2>1
  <2>3. f[n + 1] = f[(n + 1) - 1] \o ss[n + 1] BY <2>1 DEF Joins
  <2>4. g[n + 1] = g[(n + 1) - 1] \o tt[n + 1] BY <2>1 DEF Joins
  <2>5. ss[n + 1] = tt[n + 1] BY <2>1
  <2>. QED BY <2>1, <2>2, <2>3, <2>4, <2>5
<1>4. \A n \in Nat : n \in T BY <1>2, <1>3, Induction
<1>. QED BY <1>1, <1>4

\* What FlattenSeq makes of a sequence with one more.
LEMMA FlattenAppend ==
  ASSUME NEW S, NEW ss \in Seq(Seq(S)), NEW x \in Seq(S)
  PROVE  /\ FlattenSeq(ss) \in Seq(S)
         /\ FlattenSeq(Append(ss, x)) = FlattenSeq(ss) \o x
<1>0. PICK Q : Q = Seq(S) OBVIOUS
<1>1. PICK tt : tt = Append(ss, x) OBVIOUS
<1>2. /\ tt \in Seq(Seq(S))
      /\ Len(ss) \in Nat /\ Len(tt) = Len(ss) + 1 /\ tt[Len(ss) + 1] = x
      /\ \A i \in 1 .. Len(ss) : ss[i] = tt[i]
  <2>1. ss \in Seq(Q) /\ x \in Q BY <1>0
  <2>2. /\ tt \in Seq(Q)
        /\ Len(ss) \in Nat /\ Len(tt) = Len(ss) + 1 /\ tt[Len(ss) + 1] = x
        /\ \A i \in 1 .. Len(ss) : ss[i] = tt[i]
    BY <1>1, <2>1
  <2>. QED BY <1>0, <2>2
<1>3. PICK f : f \in [0 .. Len(ss) -> Seq(S)] /\ Joins(f, ss) BY FlattenJoins
<1>4. PICK g : g \in [0 .. Len(tt) -> Seq(S)] /\ Joins(g, tt) BY <1>2, FlattenJoins
<1>5. PICK m \in Nat : m = Len(ss) BY <1>2
<1>6. m <= Len(ss) /\ m <= Len(tt) /\ m \in 0 .. m /\ Len(tt) \in Nat BY <1>2, <1>5
<1>7. \A n \in 0 .. m : f[n] = g[n] 
  <2>1. \A i \in 1 .. m : ss[i] = tt[i] BY <1>2, <1>5
  <2>2. BothJoin(f, ss, g, tt, m) BY <1>2, <1>3, <1>4, <1>6, <2>1 DEF BothJoin, SameBeginning
  <2>. QED BY <2>2, JoinsAgree
<1>8. f[m] = g[m] BY <1>6, <1>7
<1>9. g[m + 1] = g[(m + 1) - 1] \o tt[m + 1]
  <2>1. m + 1 \in 1 .. Len(tt) BY <1>2, <1>5
  <2>. QED BY <1>4, <2>1 DEF Joins
<1>10. (m + 1) - 1 = m OBVIOUS
<1>11. FlattenSeq(tt) = g[m + 1] /\ FlattenSeq(ss) = f[m] BY <1>2, <1>3, <1>4, <1>5 DEF Joins
<1>12. f[m] \in Seq(S) BY <1>3, <1>5, <1>6
<1>. QED BY <1>1, <1>2, <1>5, <1>8, <1>9, <1>10, <1>11, <1>12

\* Nothing joined is nothing.
LEMMA FlattenEmpty == FlattenSeq(<<>>) = <<>>
<1>1. Len(<<>>) = 0 OBVIOUS
<1>. QED BY <1>1, Zenon DEF FlattenSeq

-----------------------------------------------------------------------------
(* What is known of a frame from its first bytes.                          *)

\* The sequence c begins with b.
Begins(b, c) == Len(b) <= Len(c) /\ \A i \in 1 .. Len(b) : c[i] = b[i]

\* The length field of seven bytes or more is a number.
LEMMA LengthType ==
  ASSUME NEW b \in Seq(Byte), Len(b) >= 7
  PROVE  LengthOf(b) \in Nat
<1>1. b[4] \in Byte /\ b[5] \in Byte /\ b[6] \in Byte /\ b[7] \in Byte OBVIOUS
<1>1b. \A x \in Byte : x \in Nat BY DEF Byte
<1>2. PICK p \in Nat, q \in Nat, r \in Nat, s \in Nat : p = b[4] /\ q = b[5] /\ r = b[6] /\ s = b[7]
  BY <1>1, <1>1b, Zenon
<1>3. p * 16777216 + q * 65536 + r * 256 + s \in Nat OBVIOUS
<1>. QED BY <1>2, <1>3 DEF LengthOf, Uint32

\* Who has as many bytes as the length of a frame says has the frame.
LEMMA FrameKnown ==
  ASSUME NEW f \in Frames, Len(f.payload) <= MaxLength,
         NEW c \in Seq(Byte), Begins(MarshalBinary(f), c)
  PROVE  /\ Len(c) >= 7 + Len(f.payload)
         /\ LengthOf(c) = Len(f.payload)
         /\ UnmarshalBinary(c) = f
<1>1. PICK b : b = MarshalBinary(f) OBVIOUS
<1>2. /\ b \in Seq(Byte) /\ Len(f.payload) \in Nat
      /\ Len(b) = 7 + Len(f.payload) /\ LengthOf(b) = Len(f.payload)
      /\ UnmarshalBinary(b) = f
  BY <1>1, FrameParts
<1>3. PICK n \in Nat : n = Len(f.payload) BY <1>2
<1>4. Len(b) = 7 + n /\ Len(c) >= 7 + n /\ \A i \in 1 .. 7 + n : c[i] = b[i]
  BY <1>1, <1>2, <1>3 DEF Begins
<1>5. /\ c[1] = b[1] /\ c[2] = b[2] /\ c[3] = b[3] /\ c[4] = b[4]
      /\ c[5] = b[5] /\ c[6] = b[6] /\ c[7] = b[7]
  BY <1>4
<1>6. LengthOf(c) = LengthOf(b) BY <1>5 DEF LengthOf
<1>7. SubSeq(c, 8, 7 + n) = SubSeq(b, 8, 7 + n)
  <2>1. Len(c) \in Nat OBVIOUS
  <2>2. \A i \in 8 .. 7 + n : c[i] \in Byte /\ b[i] \in Byte /\ c[i] = b[i]
    BY <1>2, <1>4, <2>1
  <2>3. PICK x, y : x = SubSeq(c, 8, 7 + n) /\ y = SubSeq(b, 8, 7 + n) OBVIOUS
  <2>4. x \in Seq(Byte) /\ Len(x) = n /\ \A i \in 1 .. n : x[i] = c[7 + i]
    BY <2>2, <2>3, SubSeqProperties
  <2>5. y \in Seq(Byte) /\ Len(y) = n /\ \A i \in 1 .. n : y[i] = b[7 + i]
    BY <1>2, <2>2, <2>3, SubSeqProperties
  <2>6. \A i \in 1 .. n : x[i] = y[i] BY <2>2, <2>4, <2>5
  <2>7. x = y BY <2>4, <2>5, <2>6, SeqEqual
  <2>. QED BY <2>3, <2>7
<1>8. UnmarshalBinary(c) = UnmarshalBinary(b)
  <2>1. FrameHeaderSize + 1 = 8 /\ FrameHeaderSize + LengthOf(b) = 7 + n
    BY <1>2, <1>3 DEF FrameHeaderSize
  <2>2. SubSeq(c, FrameHeaderSize + 1, FrameHeaderSize + LengthOf(c))
          = SubSeq(b, FrameHeaderSize + 1, FrameHeaderSize + LengthOf(b))
    BY <1>6, <1>7, <2>1
  <2>. QED BY <1>5, <2>2, Zenon DEF UnmarshalBinary
<1>9. Len(c) >= 7 + Len(f.payload) BY <1>3, <1>4
<1>. QED BY <1>2, <1>6, <1>8, <1>9

\* A function that is defined by what comes later exists.
Later(N, ok, nxt) == N \in Nat /\ \A i \in 1 .. N : ok[i] => nxt[i] \in i + 1 .. N

By(h, N, ok, nxt, val) ==
    h = [i \in 1 .. N |-> IF ok[i] THEN <<val[i]>> \o h[nxt[i]] ELSE <<>>]

\* By induction from the last place to the first.
LEMMA LaterExists ==
  ASSUME NEW N, NEW ok, NEW nxt, NEW val, Later(N, ok, nxt)
  PROVE  \E h : By(h, N, ok, nxt, val)
<1>. USE DEF Later
<1>. DEFINE B(i, h) == IF ok[i] THEN <<val[i]>> \o h[nxt[i]] ELSE <<>>
            P(m) == m <= N => \E h : \A i \in 1 .. N : i > N - m => h[i] = B(i, h)
<1>1. PICK T : T = {m \in Nat : P(m)} OBVIOUS
<1>2. 0 \in T
  <2>1. \A i \in 1 .. N : ~(i > N - 0) OBVIOUS
  <2>2. P(0) BY <2>1
  <2>. QED BY <1>1, <2>2
<1>3. ASSUME NEW m \in Nat, m \in T PROVE m + 1 \in T
  <2>1. ASSUME m + 1 <= N
        PROVE  \E h : \A i \in 1 .. N : i > N - (m + 1) => h[i] = B(i, h)
    <3>1. PICK h : \A i \in 1 .. N : i > N - m => h[i] = B(i, h) BY <1>1, <1>3, <2>1
    <3>2. PICK j \in 1 .. N : j = N - m BY <2>1
    <3>3. PICK g : g = [i \in 1 .. N |-> IF i = j THEN B(j, h) ELSE h[i]] OBVIOUS
    <3>4. ASSUME NEW i \in 1 .. N, i > N - (m + 1) PROVE g[i] = B(i, g)
      <4>1. i >= j BY <3>2, <3>4
      <4>2. g[i] = B(i, h)
        <5>1. CASE i = j BY <3>3, <5>1
        <5>2. CASE i # j
          <6>1. i > N - m BY <3>2, <4>1, <5>2
          <6>2. h[i] = B(i, h) BY <3>1, <6>1
          <6>3. g[i] = h[i] BY <3>3, <5>2
          <6>. QED BY <6>2, <6>3
        <5>. QED BY <5>1, <5>2
      <4>3. ok[i] => g[nxt[i]] = h[nxt[i]]
        <5>. SUFFICES ASSUME ok[i] PROVE g[nxt[i]] = h[nxt[i]] OBVIOUS
        <5>1. nxt[i] \in i + 1 .. N OBVIOUS
        <5>2. nxt[i] \in 1 .. N /\ nxt[i] # j BY <4>1, <5>1
        <5>. QED BY <3>3, <5>2
      <4>4. B(i, g) = B(i, h) BY <4>3
      <4>. QED BY <4>2, <4>4
    <3>. QED BY <3>4
  <2>2. m + 1 \in Nat OBVIOUS
  <2>. QED BY <1>1, <2>1, <2>2
<1>4. \A m \in Nat : m \in T BY <1>2, <1>3, Induction
<1>5. PICK h : \A i \in 1 .. N : i > N - N => h[i] = B(i, h)
  <2>1. P(N) BY <1>1, <1>4
  <2>2. N <= N OBVIOUS
  <2>. QED BY <2>1, <2>2, Zenon
<1>6. \A i \in 1 .. N : h[i] = B(i, h)
  <2>1. \A i \in 1 .. N : i > N - N OBVIOUS
  <2>. QED BY <1>5, <2>1, Zenon
<1>7. PICK g : g = [i \in 1 .. N |-> h[i]] OBVIOUS
<1>8. \A i \in 1 .. N : B(i, h) = B(i, g)
  <2>. SUFFICES ASSUME NEW i \in 1 .. N PROVE B(i, h) = B(i, g) OBVIOUS
  <2>1. ok[i] => nxt[i] \in 1 .. N OBVIOUS
  <2>2. ok[i] => h[nxt[i]] = g[nxt[i]] BY <1>7, <2>1
  <2>. QED BY <2>2
<1>9. g = [i \in 1 .. N |-> B(i, g)] BY <1>6, <1>7, <1>8
<1>10. By(g, N, ok, nxt, val) BY <1>9, Zenon DEF By
<1>. QED BY <1>10

\* What is left of w from place i on.
Rest(w, i) == SubSeq(w, i, Len(w))

\* The rest of a sequence and its members.
LEMMA RestParts ==
  ASSUME NEW w \in Seq(Byte), NEW i \in 1 .. Len(w) + 1
  PROVE  /\ Rest(w, i) \in Seq(Byte) /\ Len(Rest(w, i)) = Len(w) - i + 1
         /\ \A j \in 1 .. Len(w) - i + 1 : Rest(w, i)[j] = w[i + j - 1]
<1>1. Len(w) \in Nat OBVIOUS
<1>2. PICK n \in Int : n = Len(w) BY <1>1
<1>3. \A j \in i .. n : w[j] \in Byte BY <1>2
<1>4. /\ SubSeq(w, i, n) \in Seq(Byte)
      /\ Len(SubSeq(w, i, n)) = IF i <= n THEN n - i + 1 ELSE 0
      /\ \A j \in 1 .. n - i + 1 : SubSeq(w, i, n)[j] = w[i + j - 1]
  BY <1>3, SubSeqProperties
<1>5. i = n + 1 \/ i <= n BY <1>2
<1>6. Len(SubSeq(w, i, n)) = n - i + 1 BY <1>2, <1>4, <1>5
<1>. QED BY <1>2, <1>4, <1>6 DEF Rest

\* The receiver's function: the frames from each place on.
LEMMA DecodedIs ==
  ASSUME NEW w \in Seq(Byte)
  PROVE  \E h : /\ \A i \in 1 .. Len(w) + 1 :
                      h[i] = IF Unmarshals(Rest(w, i))
                             THEN <<UnmarshalBinary(Rest(w, i))>>
                                    \o h[i + FrameHeaderSize + LengthOf(Rest(w, i))]
                             ELSE <<>>
                /\ Decoded(w) = h[1]
<1>1. PICK N \in Nat : N = Len(w) + 1 OBVIOUS
<1>2. PICK ok, nxt, val :
         /\ ok = [i \in 1 .. N |-> Unmarshals(Rest(w, i))]
         /\ nxt = [i \in 1 .. N |-> i + FrameHeaderSize + LengthOf(Rest(w, i))]
         /\ val = [i \in 1 .. N |-> UnmarshalBinary(Rest(w, i))]
  OBVIOUS
<1>3. ASSUME NEW i \in 1 .. N, ok[i] PROVE nxt[i] \in i + 1 .. N
  <2>1. PICK r \in Seq(Byte) : r = Rest(w, i) /\ Len(r) = Len(w) - i + 1 BY <1>1, RestParts
  <2>2. Unmarshals(r) BY <1>2, <1>3, <2>1
  <2>3. Len(r) >= 7 /\ Len(r) >= 7 + LengthOf(r) BY <2>2 DEF Unmarshals, FrameHeaderSize
  <2>4. PICK n \in Nat : n = LengthOf(r) BY <2>3, LengthType
  <2>5. nxt[i] = i + 7 + n BY <1>2, <2>1, <2>4 DEF FrameHeaderSize
  <2>6. N - i >= 7 + n
    <3>1. Len(r) = N - i BY <1>1, <2>1
    <3>. QED BY <2>3, <2>4, <3>1
  <2>. QED BY <2>5, <2>6
<1>4. PICK h : h = [i \in 1 .. N |-> IF ok[i] THEN <<val[i]>> \o h[nxt[i]] ELSE <<>>]
  <2>1. Later(N, ok, nxt) BY <1>3 DEF Later
  <2>2. PICK h : By(h, N, ok, nxt, val) BY <2>1, LaterExists
  <2>. QED BY <2>2, Zenon DEF By
<1>5. \A i \in 1 .. N : ok[i] = Unmarshals(Rest(w, i))
         /\ nxt[i] = i + FrameHeaderSize + LengthOf(Rest(w, i))
         /\ val[i] = UnmarshalBinary(Rest(w, i))
  BY <1>2
<1>6. h = [i \in 1 .. N |-> IF Unmarshals(Rest(w, i))
                             THEN <<UnmarshalBinary(Rest(w, i))>>
                                    \o h[i + FrameHeaderSize + LengthOf(Rest(w, i))]
                             ELSE <<>>]
  BY <1>4, <1>5, Zenon
<1>. DEFINE from == CHOOSE g : g = [i \in 1 .. (Len(w) + 1) |->
                               IF Unmarshals(SubSeq(w, i, Len(w)))
                               THEN <<UnmarshalBinary(SubSeq(w, i, Len(w)))>>
                                    \o g[i + FrameHeaderSize + LengthOf(SubSeq(w, i, Len(w)))]
                               ELSE <<>>]
<1>7. from = [i \in 1 .. (Len(w) + 1) |->
                 IF Unmarshals(SubSeq(w, i, Len(w)))
                               THEN <<UnmarshalBinary(SubSeq(w, i, Len(w)))>>
                                    \o from[i + FrameHeaderSize + LengthOf(SubSeq(w, i, Len(w)))]
                               ELSE <<>>]
  BY <1>1, <1>6, Zenon DEF Rest
<1>8. Decoded(w) = from[1] BY Zenon DEF Decoded
<1>9. \A i \in 1 .. (Len(w) + 1) :
         from[i] = IF Unmarshals(SubSeq(w, i, Len(w)))
                               THEN <<UnmarshalBinary(SubSeq(w, i, Len(w)))>>
                                    \o from[i + FrameHeaderSize + LengthOf(SubSeq(w, i, Len(w)))]
                               ELSE <<>>
  BY <1>7, Zenon
<1>. HIDE DEF from
<1>. QED BY <1>8, <1>9, Zenon DEF Rest

\* What a function from the end of a sequence to its beginning builds up.
LEMMA Unroll ==
  ASSUME NEW S, NEW fs \in Seq(S), NEW q, q[Len(fs)] = <<>>,
         \A k \in 1 .. Len(fs) : q[k - 1] = <<fs[k]>> \o q[k]
  PROVE  q[0] = fs
<1>1. PICK n \in Nat : n = Len(fs) OBVIOUS
<1>2. PICK T : T = {m \in Nat : m <= n => q[n - m] = SubSeq(fs, n - m + 1, n)} OBVIOUS
<1>3. 0 \in T
  <2>1. SubSeq(fs, n - 0 + 1, n) = <<>> BY <1>1
  <2>2. n - 0 = n OBVIOUS
  <2>3. q[n - 0] = SubSeq(fs, n - 0 + 1, n) BY <1>1, <2>1, <2>2
  <2>. QED BY <1>2, <2>3
<1>4. ASSUME NEW m \in Nat, m \in T PROVE m + 1 \in T
  <2>1. ASSUME m + 1 <= n PROVE q[n - (m + 1)] = SubSeq(fs, n - (m + 1) + 1, n)
    <3>1. PICK k \in 1 .. n : k = n - m BY <2>1
    <3>2. n - (m + 1) = k - 1 /\ n - (m + 1) + 1 = k /\ n - m + 1 = k + 1 BY <3>1
    <3>3. m <= n BY <2>1
    <3>4. q[k] = SubSeq(fs, k + 1, n) BY <1>2, <1>4, <3>1, <3>2, <3>3
    <3>5. q[k - 1] = <<fs[k]>> \o q[k] BY <1>1
    <3>6. SubSeq(fs, k, n) = <<fs[k]>> \o SubSeq(fs, k + 1, n)
      <4>1. k \in 1 .. Len(fs) /\ n \in k .. Len(fs) BY <1>1
      <4>. QED BY <4>1, SubSeqRecursiveFirst
    <3>. QED BY <3>2, <3>4, <3>5, <3>6
  <2>2. m + 1 \in Nat OBVIOUS
  <2>. QED BY <1>2, <2>1, <2>2
<1>5. \A m \in Nat : m \in T BY <1>3, <1>4, Induction
<1>6. q[n - n] = SubSeq(fs, n - n + 1, n) BY <1>2, <1>5
<1>7. n - n = 0 /\ n - n + 1 = 1 OBVIOUS
<1>8. SubSeq(fs, 1, n) = fs BY <1>1, SubSeqFull
<1>. QED BY <1>6, <1>7, <1>8

\* What a sequence begins with, its beginnings begin with.
LEMMA BeginsConcat ==
  ASSUME NEW S, NEW b \in Seq(S), NEW c \in Seq(S)
  PROVE  Begins(b, b \o c)
  BY DEF Begins

\* A beginning of a beginning is a beginning.
LEMMA BeginsTransitive ==
  ASSUME NEW S, NEW a \in Seq(S), NEW b \in Seq(S), NEW c \in Seq(S), Begins(a, b), Begins(b, c)
  PROVE  Begins(a, c)
<1>1. Len(a) \in Nat /\ Len(b) \in Nat /\ Len(c) \in Nat OBVIOUS
<1>. QED BY <1>1 DEF Begins

\* The function of FlattenJoins goes through beginnings of the whole.
LEMMA JoinsBegin ==
  ASSUME NEW S, NEW ss \in Seq(Seq(S)), NEW g,
         g \in [0 .. Len(ss) -> Seq(S)], Joins(g, ss)
  PROVE  \A k \in 0 .. Len(ss) : Begins(g[k], FlattenSeq(ss))
<1>1. PICK n \in Nat : n = Len(ss) OBVIOUS
<1>2. PICK w : w = FlattenSeq(ss) OBVIOUS
<1>3. /\ \A k \in 0 .. n : g[k] \in Seq(S)
      /\ \A k \in 1 .. n : ss[k] \in Seq(S) /\ g[k] = g[k - 1] \o ss[k]
      /\ w = g[n]
  <2>0. PICK Q : Q = Seq(S) OBVIOUS
  <2>1. \A k \in 1 .. n : ss[k] \in Q BY <1>1, <2>0
  <2>2. \A k \in 0 .. n : g[k] \in Q BY <1>1, <2>0
  <2>3. \A k \in 1 .. n : g[k] = g[k - 1] \o ss[k] BY <1>1 DEF Joins
  <2>4. w = g[n] BY <1>1, <1>2 DEF Joins
  <2>. QED BY <2>0, <2>1, <2>2, <2>3, <2>4, Zenon
<1>4. w \in Seq(S) BY <1>3
<1>5. PICK T : T = {m \in Nat : m <= n => Begins(g[n - m], w)} OBVIOUS
<1>6. 0 \in T
  <2>1. n - 0 = n OBVIOUS
  <2>2. Begins(g[n], w) BY <1>3, <1>4 DEF Begins
  <2>. QED BY <1>5, <2>1, <2>2
<1>7. ASSUME NEW m \in Nat, m \in T PROVE m + 1 \in T
  <2>1. ASSUME m + 1 <= n PROVE Begins(g[n - (m + 1)], w)
    <3>1. PICK k \in 1 .. n : k = n - m BY <2>1
    <3>2. n - (m + 1) = k - 1 /\ k - 1 \in 0 .. n /\ k \in 0 .. n BY <3>1
    <3>3. m <= n BY <2>1
    <3>4. Begins(g[k], w) BY <1>5, <1>7, <3>1, <3>3
    <3>5. g[k - 1] \in Seq(S) /\ ss[k] \in Seq(S) /\ g[k] = g[k - 1] \o ss[k] BY <1>3, <3>2
    <3>6. Begins(g[k - 1], g[k]) BY <3>5, BeginsConcat
    <3>7. g[k] \in Seq(S) BY <1>3, <3>2
    <3>. QED BY <1>4, <3>2, <3>4, <3>5, <3>6, <3>7, BeginsTransitive
  <2>2. m + 1 \in Nat OBVIOUS
  <2>. QED BY <1>5, <2>1, <2>2
<1>8. \A m \in Nat : m \in T BY <1>6, <1>7, Induction
<1>9. ASSUME NEW k \in 0 .. n PROVE Begins(g[k], w)
  <2>1. n - k \in Nat /\ n - k <= n /\ n - (n - k) = k OBVIOUS
  <2>2. n - k \in T BY <1>8, <2>1
  <2>. QED BY <1>5, <2>1, <2>2
<1>. QED BY <1>1, <1>2, <1>9

-----------------------------------------------------------------------------
(* The bytes of a sequence of frames, and the frames that are decoded.     *)

\* Frames that can be written in bytes, and those that MarshalBinary writes.
Writable == {f \in Frames : Len(f.payload) <= MaxLength}

Short == {f \in Frames : Marshals(f)}

\* A frame that MarshalBinary accepts can be written; its header has seven
\* bytes.
LEMMA ShortWritable ==
  /\ \A f \in Writable : /\ MarshalBinary(f) \in Seq(Byte) /\ Len(f.payload) \in Nat
                         /\ Len(MarshalBinary(f)) = 7 + Len(f.payload)
  /\ Short \subseteq Writable
<1>1. ASSUME NEW f \in Writable
      PROVE  /\ MarshalBinary(f) \in Seq(Byte) /\ Len(f.payload) \in Nat
             /\ Len(MarshalBinary(f)) = 7 + Len(f.payload)
  <2>1. f \in Frames /\ Len(f.payload) <= MaxLength BY Zenon DEF Writable
  <2>. QED BY <2>1, FrameParts
<1>2. ASSUME NEW f \in Short PROVE f \in Writable
  <2>1. f \in Frames /\ Len(f.payload) <= MaxPayloadSize BY Zenon DEF Short, Marshals
  <2>2. f.payload \in Seq(Byte) BY <2>1, Fields, Zenon DEF Frames
  <2>3. PICK n \in Nat : n = Len(f.payload) BY <2>2
  <2>4. n <= MaxLength BY <2>1, <2>3, Limits
  <2>. QED BY <2>1, <2>3, <2>4, Zenon DEF Writable
<1>. QED BY <1>1, <1>2

\* Joining the images of the members of a sequence.
Image(fs, m) == [i \in 1 .. Len(fs) |-> m[fs[i]]]

Maps(A, B, m) == m \in [A -> B]

\* The images of a sequence are a sequence of the same length.
LEMMA ImageType ==
  ASSUME NEW A, NEW B, NEW m, Maps(A, B, m), NEW fs \in Seq(A)
  PROVE  Image(fs, m) \in Seq(B) /\ Len(Image(fs, m)) = Len(fs)
         /\ \A i \in 1 .. Len(fs) : Image(fs, m)[i] = m[fs[i]]
<1>1. Len(fs) \in Nat /\ \A i \in 1 .. Len(fs) : m[fs[i]] \in B BY DEF Maps
<1>. QED BY <1>1 DEF Image

\* One member more is one image more.
LEMMA ImageAppend ==
  ASSUME NEW A, NEW B, NEW m, Maps(A, B, m), NEW fs \in Seq(A), NEW f \in A
  PROVE  Image(Append(fs, f), m) = Append(Image(fs, m), m[f])
<1>1. PICK gs : gs = Append(fs, f) OBVIOUS
<1>2. PICK n \in Nat : n = Len(fs) OBVIOUS
<1>3. gs \in Seq(A) /\ Len(gs) = n + 1 /\ gs[n + 1] = f /\ \A i \in 1 .. n : gs[i] = fs[i]
  BY <1>1, <1>2
<1>4. PICK x : x = Image(gs, m) OBVIOUS
<1>5. PICK y : y = Image(fs, m) OBVIOUS
<1>6. x \in Seq(B) /\ Len(x) = n + 1 /\ \A i \in 1 .. n + 1 : x[i] = m[gs[i]]
  <2>1. x \in Seq(B) /\ Len(x) = Len(gs) /\ \A i \in 1 .. Len(gs) : x[i] = m[gs[i]]
    <3>1. gs \in Seq(A) BY <1>3
    <3>. QED BY <1>4, <3>1, ImageType
  <2>2. Len(gs) = n + 1 BY <1>3
  <2>. QED BY <2>1, <2>2
<1>7. y \in Seq(B) /\ Len(y) = n /\ \A i \in 1 .. n : y[i] = m[fs[i]]
  BY <1>2, <1>5, ImageType
<1>8. m[f] \in B BY DEF Maps
<1>9. PICK z : z = Append(y, m[f]) OBVIOUS
<1>10. z \in Seq(B) /\ Len(z) = n + 1 /\ z[n + 1] = m[f] /\ \A i \in 1 .. n : z[i] = y[i]
  BY <1>7, <1>8, <1>9
<1>11. \A i \in 1 .. n + 1 : x[i] = z[i]
  <2>. SUFFICES ASSUME NEW i \in 1 .. n + 1 PROVE x[i] = z[i] OBVIOUS
  <2>1. CASE i = n + 1 BY <1>3, <1>6, <1>10, <2>1
  <2>2. CASE i \in 1 .. n BY <1>3, <1>6, <1>7, <1>10, <2>2
  <2>. QED BY <2>1, <2>2
<1>12. x = z BY <1>6, <1>10, <1>11, SeqEqual
<1>. QED BY <1>1, <1>4, <1>5, <1>9, <1>12

\* One member more adds its image to what is joined.
LEMMA FlattenImage ==
  ASSUME NEW A, NEW S, NEW m, Maps(A, Seq(S), m), NEW fs \in Seq(A), NEW f \in A
  PROVE  /\ FlattenSeq(Image(fs, m)) \in Seq(S)
         /\ FlattenSeq(Image(Append(fs, f), m)) = FlattenSeq(Image(fs, m)) \o m[f]
<1>1. Image(Append(fs, f), m) = Append(Image(fs, m), m[f]) BY ImageAppend
<1>2. Image(fs, m) \in Seq(Seq(S)) BY ImageType
<1>3. PICK ss, x : ss = Image(fs, m) /\ x = m[f] OBVIOUS
<1>4. ss \in Seq(Seq(S)) /\ x \in Seq(S) BY <1>2, <1>3 DEF Maps
<1>5. FlattenSeq(ss) \in Seq(S) /\ FlattenSeq(Append(ss, x)) = FlattenSeq(ss) \o x
  BY <1>4, FlattenAppend
<1>. QED BY <1>1, <1>3, <1>5

\* The bytes of a sequence of frames.
Written(fs) == FlattenSeq([i \in 1 .. Len(fs) |-> MarshalBinary(fs[i])])

Marshal == [f \in Writable |-> MarshalBinary(f)]

\* MarshalBinary as a function.
LEMMA MarshalType ==
  /\ Marshal \in [Writable -> Seq(Byte)]
  /\ \A f \in Writable : Marshal[f] = MarshalBinary(f)
  BY ShortWritable DEF Marshal

\* The bytes of frames are the images of the frames, joined.
LEMMA WrittenImage ==
  ASSUME NEW fs \in Seq(Writable)
  PROVE  Written(fs) = FlattenSeq(Image(fs, Marshal))
<1>1. Len(fs) \in Nat /\ \A i \in 1 .. Len(fs) : fs[i] \in Writable OBVIOUS
<1>2. \A i \in 1 .. Len(fs) : MarshalBinary(fs[i]) = Marshal[fs[i]]
  BY <1>1, MarshalType
<1>3. [i \in 1 .. Len(fs) |-> MarshalBinary(fs[i])] = [i \in 1 .. Len(fs) |-> Marshal[fs[i]]]
  BY <1>2, Zenon
<1>. QED BY <1>3, Zenon DEF Written, Image

\* One frame more adds its bytes.
LEMMA WrittenAppend ==
  ASSUME NEW fs \in Seq(Writable), NEW f \in Writable
  PROVE  /\ Written(fs) \in Seq(Byte)
         /\ Append(fs, f) \in Seq(Writable)
         /\ Written(Append(fs, f)) = Written(fs) \o MarshalBinary(f)
<1>1. Append(fs, f) \in Seq(Writable) OBVIOUS
<1>2. /\ FlattenSeq(Image(fs, Marshal)) \in Seq(Byte)
      /\ FlattenSeq(Image(Append(fs, f), Marshal)) = FlattenSeq(Image(fs, Marshal)) \o Marshal[f]
  <2>1. PICK m : m = Marshal OBVIOUS
  <2>2. Maps(Writable, Seq(Byte), m) BY <2>1, MarshalType DEF Maps
  <2>. QED BY <2>1, <2>2, FlattenImage
<1>3. Marshal[f] = MarshalBinary(f) BY MarshalType
<1>4. PICK gs : gs = Append(fs, f) OBVIOUS
<1>5. Written(gs) = FlattenSeq(Image(gs, Marshal)) BY <1>1, <1>4, WrittenImage
<1>6. Written(fs) = FlattenSeq(Image(fs, Marshal)) BY WrittenImage
<1>. QED BY <1>1, <1>2, <1>3, <1>4, <1>5, <1>6

\* No frames are no bytes.
LEMMA WrittenEmpty == Written(<<>>) = <<>>
<1>1. [i \in 1 .. Len(<<>>) |-> MarshalBinary(<<>>[i])] = <<>> OBVIOUS
<1>. QED BY <1>1, FlattenEmpty DEF Written

\* The rest of a sequence after one of its beginnings.
LEMMA RestBegins ==
  ASSUME NEW a \in Seq(Byte), NEW b \in Seq(Byte), NEW w \in Seq(Byte), Begins(a \o b, w)
  PROVE  /\ Len(a) + 1 \in 1 .. Len(w) + 1
         /\ Rest(w, Len(a) + 1) \in Seq(Byte)
         /\ Begins(b, Rest(w, Len(a) + 1))
<1>1. PICK n \in Nat, m \in Nat, l \in Nat : n = Len(a) /\ m = Len(b) /\ l = Len(w) OBVIOUS
<1>2. PICK c : c = a \o b OBVIOUS
<1>3. c \in Seq(Byte) /\ Len(c) = n + m /\ \A i \in 1 .. m : c[n + i] = b[i] BY <1>1, <1>2
<1>4. n + m <= l /\ \A i \in 1 .. n + m : w[i] = c[i] BY <1>1, <1>2, <1>3 DEF Begins
<1>5. n + 1 \in 1 .. l + 1 BY <1>4
<1>6. PICK r : r = Rest(w, n + 1) OBVIOUS
<1>7. r \in Seq(Byte) /\ Len(r) = l - n /\ \A j \in 1 .. l - n : r[j] = w[n + j]
  <2>1. PICK i \in 1 .. Len(w) + 1 : i = n + 1 BY <1>1, <1>5
  <2>2. /\ r \in Seq(Byte) /\ Len(r) = Len(w) - i + 1
        /\ \A j \in 1 .. Len(w) - i + 1 : r[j] = w[i + j - 1]
    BY <1>6, <2>1, RestParts
  <2>3. Len(w) - i + 1 = l - n /\ \A j \in Int : i + j - 1 = n + j
    <3>1. i \in Int /\ i = n + 1 BY <2>1
    <3>2. l - i + 1 = l - n /\ \A j \in Int : i + j - 1 = n + j BY <3>1
    <3>. QED BY <1>1, <3>2
  <2>4. \A j \in 1 .. l - n : r[j] = w[i + j - 1] BY <2>2, <2>3
  <2>5. \A j \in 1 .. l - n : i + j - 1 = n + j BY <2>3
  <2>6. \A j \in 1 .. l - n : r[j] = w[n + j] BY <2>4, <2>5, Zenon
  <2>7. Len(r) = l - n BY <2>2, <2>3, Zenon
  <2>. QED BY <2>2, <2>6, <2>7, Zenon
<1>8. Begins(b, r)
  <2>1. m <= l - n BY <1>4
  <2>2. \A i \in 1 .. m : r[i] = b[i]
    <3>. SUFFICES ASSUME NEW i \in 1 .. m PROVE r[i] = b[i] OBVIOUS
    <3>1. i \in 1 .. l - n /\ n + i \in 1 .. n + m BY <2>1
    <3>2. r[i] = w[n + i] BY <1>7, <3>1
    <3>3. w[n + i] = c[n + i] BY <1>4, <3>1
    <3>4. c[n + i] = b[i] BY <1>3
    <3>. QED BY <3>2, <3>3, <3>4
  <2>. QED BY <1>1, <1>7, <2>1, <2>2 DEF Begins
<1>. QED BY <1>1, <1>5, <1>6, <1>7, <1>8

\* What the bytes of frames are made of.
LEMMA WrittenParts ==
  ASSUME NEW fs \in Seq(Writable)
  PROVE  \E g : /\ \A k \in 0 .. Len(fs) : g[k] \in Seq(Byte) /\ Begins(g[k], Written(fs))
                /\ \A k \in 1 .. Len(fs) : g[k] = g[k - 1] \o MarshalBinary(fs[k])
                /\ g[0] = <<>> /\ g[Len(fs)] = Written(fs)
<1>1. PICK n \in Nat : n = Len(fs) OBVIOUS
<1>2. PICK ss : ss = Image(fs, Marshal) OBVIOUS
<1>3. PICK Q : Q = Seq(Byte) OBVIOUS
<1>4. ss \in Seq(Q) /\ Len(ss) = n /\ \A i \in 1 .. n : ss[i] = Marshal[fs[i]]
  <2>1. PICK m : m = Marshal OBVIOUS
  <2>2. Maps(Writable, Q, m) BY <1>3, <2>1, MarshalType DEF Maps
  <2>. QED BY <1>1, <1>2, <2>1, <2>2, ImageType
<1>5. \A i \in 1 .. n : ss[i] = MarshalBinary(fs[i])
  <2>1. \A i \in 1 .. n : fs[i] \in Writable BY <1>1
  <2>. QED BY <1>4, <2>1, MarshalType
<1>6. ss \in Seq(Seq(Byte)) BY <1>3, <1>4, Zenon
<1>7. PICK g : g \in [0 .. Len(ss) -> Seq(Byte)] /\ Joins(g, ss) BY <1>6, FlattenJoins
<1>8. \A k \in 0 .. Len(ss) : Begins(g[k], FlattenSeq(ss)) BY <1>6, <1>7, JoinsBegin
<1>9. Written(fs) = FlattenSeq(ss) BY <1>2, WrittenImage
<1>10. \A k \in 0 .. n : g[k] \in Seq(Byte) BY <1>4, <1>7
<1>11. \A k \in 1 .. n : g[k] = g[k - 1] \o MarshalBinary(fs[k])
  BY <1>4, <1>5, <1>7 DEF Joins
<1>12. g[0] = <<>> /\ g[n] = Written(fs) BY <1>4, <1>7, <1>9 DEF Joins
<1>. QED BY <1>1, <1>4, <1>8, <1>9, <1>10, <1>11, <1>12

\* A receiver that calls ReadFrom again and again on the bytes that
\* MarshalBinary made of some frames, one after the other, and of bytes that
\* are not a whole frame, gets exactly these frames (Decoded, protocol/frame.go).
THEOREM DecodedFrames ==
  ASSUME NEW fs \in Seq(Short), NEW part \in Seq(Byte), ~Unmarshals(part)
  PROVE  Decoded(Written(fs) \o part) = fs
<1>1. PICK n \in Nat : n = Len(fs) OBVIOUS
<1>2. fs \in Seq(Writable)
  <2>1. \A i \in 1 .. n : fs[i] \in Short BY <1>1
  <2>2. \A i \in 1 .. n : fs[i] \in Writable BY <2>1, ShortWritable
  <2>. QED BY <1>1, <2>2
<1>3. PICK g : /\ \A k \in 0 .. n : g[k] \in Seq(Byte) /\ Begins(g[k], Written(fs))
               /\ \A k \in 1 .. n : g[k] = g[k - 1] \o MarshalBinary(fs[k])
               /\ g[0] = <<>> /\ g[n] = Written(fs)
  BY <1>1, <1>2, WrittenParts
<1>4. PICK w : w = Written(fs) \o part OBVIOUS
<1>5. Written(fs) \in Seq(Byte) BY <1>3
<1>6. w \in Seq(Byte) BY <1>4, <1>5
<1>7. PICK h : /\ \A i \in 1 .. Len(w) + 1 :
                     h[i] = IF Unmarshals(Rest(w, i))
                            THEN <<UnmarshalBinary(Rest(w, i))>>
                                   \o h[i + FrameHeaderSize + LengthOf(Rest(w, i))]
                            ELSE <<>>
               /\ Decoded(w) = h[1]
  BY <1>6, DecodedIs
<1>8. PICK q : q = [k \in 0 .. n |-> h[Len(g[k]) + 1]] OBVIOUS
<1>9. q[n] = <<>>
  <2>1. q[n] = h[Len(g[n]) + 1] BY <1>8
  <2>2. PICK a : a = Written(fs) OBVIOUS
  <2>3. a \in Seq(Byte) /\ w = a \o part BY <1>4, <1>5, <2>2
  <2>4. PICK l \in Nat, m \in Nat : l = Len(a) /\ m = Len(part) BY <2>3
  <2>5. Len(w) = l + m /\ l + 1 \in 1 .. Len(w) + 1 BY <2>3, <2>4
  <2>6. Rest(w, l + 1) = part
    <3>1. Begins(w, w) /\ a \o part = w BY <1>6, <2>3 DEF Begins
    <3>2. PICK r : r = Rest(w, l + 1) OBVIOUS
    <3>3. r \in Seq(Byte) /\ Begins(part, r) BY <1>6, <2>3, <2>4, <3>1, <3>2, RestBegins
    <3>4. Len(r) = m
      <4>1. PICK i \in 1 .. Len(w) + 1 : i = l + 1 BY <2>5
      <4>2. Len(r) = Len(w) - i + 1 BY <1>6, <3>2, <4>1, RestParts
      <4>. QED BY <2>4, <2>5, <4>1, <4>2
    <3>5. \A i \in 1 .. Len(part) : r[i] = part[i] BY <3>3 DEF Begins
    <3>6. r = part BY <2>4, <3>3, <3>4, <3>5, SeqEqual
    <3>. QED BY <3>2, <3>6
  <2>7. h[l + 1] = <<>> BY <1>7, <2>5, <2>6
  <2>. QED BY <1>3, <2>1, <2>2, <2>4, <2>7
<1>10. ASSUME NEW k \in 1 .. n PROVE q[k - 1] = <<fs[k]>> \o q[k]
  <2>1. k - 1 \in 0 .. n /\ k \in 0 .. n OBVIOUS
  <2>2. PICK a, b, f : a = g[k - 1] /\ b = MarshalBinary(fs[k]) /\ f = fs[k] OBVIOUS
  <2>3. f \in Short /\ f \in Frames /\ Marshals(f) /\ f \in Writable /\ Len(f.payload) <= MaxLength
    <3>1. f \in Short BY <1>1, <2>2
    <3>. QED BY <3>1, ShortWritable, Zenon DEF Short, Writable
  <2>4. a \in Seq(Byte) /\ b \in Seq(Byte) BY <1>3, <2>1, <2>2, <2>3, ShortWritable
  <2>5. PICK l \in Nat, p \in Nat : l = Len(a) /\ p = Len(f.payload) BY <2>3, <2>4, ShortWritable
  <2>6. Len(b) = 7 + p BY <2>2, <2>3, <2>5, ShortWritable
  <2>7. g[k] = a \o b
    <3>1. g[k] = g[k - 1] \o MarshalBinary(fs[k]) BY <1>3, Zenon
    <3>. QED BY <2>2, <3>1, Zenon
  <2>8. Len(g[k]) = l + (7 + p)
    <3>1. Len(a \o b) = Len(a) + Len(b) BY <2>4, ConcatProperties
    <3>. QED BY <2>5, <2>6, <2>7, <3>1, Zenon
  <2>9. Begins(a \o b, w)
    <3>1. PICK c, d : c = g[k] /\ d = Written(fs) OBVIOUS
    <3>2. c \in Seq(Byte) /\ d \in Seq(Byte) /\ Begins(c, d) BY <1>3, <1>5, <2>1, <3>1
    <3>3. Begins(d, w) BY <1>4, <3>1, <3>2, BeginsConcat
    <3>4. Begins(c, w) BY <1>6, <3>2, <3>3, BeginsTransitive
    <3>. QED BY <2>7, <3>1, <3>4
  <2>10. PICK r : r = Rest(w, l + 1) OBVIOUS
  <2>11. l + 1 \in 1 .. Len(w) + 1 /\ r \in Seq(Byte) /\ Begins(b, r)
    BY <1>6, <2>4, <2>5, <2>9, <2>10, RestBegins
  <2>12. Len(r) >= 7 + Len(f.payload) /\ LengthOf(r) = Len(f.payload) /\ UnmarshalBinary(r) = f
    <3>1. Begins(MarshalBinary(f), r) BY <2>2, <2>11
    <3>. QED BY <2>3, <2>11, <3>1, FrameKnown
  <2>13. Unmarshals(r)
    <3>1. p <= MaxPayloadSize BY <2>3, <2>5 DEF Marshals
    <3>2. Len(r) \in Nat BY <2>11
    <3>. QED BY <2>5, <2>12, <3>1, <3>2 DEF Unmarshals, FrameHeaderSize
  <2>14. h[l + 1] = <<f>> \o h[l + 1 + FrameHeaderSize + LengthOf(r)]
    <3>1. h[l + 1] = IF Unmarshals(r) THEN <<UnmarshalBinary(r)>>
                                             \o h[l + 1 + FrameHeaderSize + LengthOf(r)]
                     ELSE <<>>
      BY <1>7, <2>10, <2>11, Zenon
    <3>. QED BY <2>12, <2>13, <3>1, Zenon
  <2>15. l + 1 + FrameHeaderSize + LengthOf(r) = Len(g[k]) + 1
    <3>1. l + 1 + 7 + p = (l + (7 + p)) + 1 OBVIOUS
    <3>2. LengthOf(r) = p BY <2>5, <2>12, Zenon
    <3>. QED BY <2>8, <3>1, <3>2, Zenon DEF FrameHeaderSize
  <2>16. q[k - 1] = h[l + 1] BY <1>8, <2>1, <2>2, <2>5
  <2>17. q[k] = h[Len(g[k]) + 1] BY <1>8, <2>1
  <2>. QED BY <2>2, <2>14, <2>15, <2>16, <2>17
<1>11. q[0] = fs BY <1>1, <1>9, <1>10, Unroll
<1>12. q[0] = h[1]
  <2>1. Len(g[0]) + 1 = 1 BY <1>3
  <2>. QED BY <1>8, <2>1
<1>. QED BY <1>4, <1>7, <1>11, <1>12
============================================================================
