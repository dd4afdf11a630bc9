---------------------------- MODULE ServerProofs ----------------------------
(***************************************************************************)
(* The server program leaves cleanly, for any number of signals, requests  *)
(* and STUN clients, and its STUN server answers each client truly.        *)
(***************************************************************************)
EXTENDS Server, SequenceTheorems, TLAPS

-----------------------------------------------------------------------------
\* The places of main and of the stopper, and the states of what they share.
PlacesOK ==
    /\ main \in {"stun", "relay", "notify", "start", "listen", "serving", "wait",
                 "exited", "failed", "killed", "crashed"}
    /\ stopper \in {"none", "waiting", "cancel", "stun", "socket", "relay",
                    "shutdown", "draining", "over"}
    /\ http \in {"none", "made", "listening", "shutdown"}
    /\ started \in {"none", "closed", "failed"}

\* Before Start of the signaling server there is no HTTP server, and before
\* Notify nobody waits for a signal.
StartOrder ==
    /\ main \in {"stun", "relay", "notify"} => stopper = "none"
    /\ main \in {"stun", "relay", "notify", "start"} => http = "none"
    /\ started = "closed" => http = "shutdown"

\* What the stopper has done when it comes to a place: STUN's channel is not
\* closed before its Close, its socket is closed after it, the relay's listener
\* after that, and Shutdown comes last.
StopOrder ==
    /\ stopper \in {"none", "waiting", "cancel", "stun"} => ~done
    /\ stopper \in {"relay", "shutdown", "draining", "over"} => conn = "closed"
    /\ stopper \in {"shutdown", "draining", "over"} => listener = "closed"
    /\ http = "shutdown" => stopper \in {"draining", "over"}

ExitInv ==
    /\ PlacesOK /\ StartOrder /\ StopOrder
    /\ main = "crashed" => http = "none"

\* The serving goroutines and the environment touch neither main's nor the
\* stopper's part of the state.
LEMMA OthersFrame ==
  ASSUME Accept \/ Accepted \/ StunServe \/ RequestBegins \/ RequestEnds \/ StunClient
  PROVE  UNCHANGED <<main, stopper, http, started, conn, done, listener>>
<1>1. ASSUME Accept \/ Accepted \/ RequestBegins \/ RequestEnds
      PROVE  UNCHANGED <<main, stopper, http, started, conn, done, listener>>
  BY <1>1 DEF Accept, Accepted, RequestBegins, RequestEnds, process, web, relay, stun
<1>2. ASSUME StunServe \/ StunClient
      PROVE  UNCHANGED <<main, stopper, http, started, conn, done, listener>>
  BY <1>2 DEF StunServe, StunClient, Serve, ServeCheck, ServeRead, ServeTimeout, ServeError,
     ServeFailed, HandleMessage, SendRequest, process, web, relay
<1>. QED BY <1>1, <1>2

\* The steps of main.
LEMMA MainKeeps ==
  ASSUME ExitInv, Main \/ MainReturns
  PROVE  ExitInv'
<1>. USE DEF ExitInv, PlacesOK, StartOrder, StopOrder, web, relay, stun
<1>1. CASE MainStun BY <1>1 DEF MainStun, StartStun
<1>2. CASE MainRelay BY <1>2 DEF MainRelay
<1>3. CASE MainNotify BY <1>3 DEF MainNotify
<1>4. CASE MainStart BY <1>4 DEF MainStart
<1>5. CASE MainListen BY <1>5 DEF MainListen
<1>6. CASE MainReturns BY <1>6 DEF MainReturns
<1>7. CASE MainExit BY <1>7 DEF MainExit
<1>. QED BY <1>1, <1>2, <1>3, <1>4, <1>5, <1>6, <1>7 DEF Main

\* The steps of the stopper, while the process is there, and signals.
LEMMA StopperKeeps ==
  ASSUME ExitInv, ~Ended, Stopper \/ Signal
  PROVE  ExitInv'
<1>. USE DEF ExitInv, PlacesOK, StartOrder, StopOrder, Ended, web, relay, stun
<1>1. CASE StopSignal BY <1>1 DEF StopSignal
<1>2. CASE StopCancel BY <1>2 DEF StopCancel
<1>3. CASE StopStun BY <1>3 DEF StopStun, Crash, CloseStun
<1>4. CASE StopRelay BY <1>4 DEF StopRelay
<1>5. CASE StopShutdown BY <1>5 DEF StopShutdown, Crash
<1>6. CASE StopDrained BY <1>6 DEF StopDrained
<1>7. CASE Signal BY <1>7 DEF Signal
<1>. QED BY <1>1, <1>2, <1>3, <1>4, <1>5, <1>6, <1>7 DEF Stopper

\* A server that a signal stopped leaves with its sockets closed, though main
\* and the goroutine that closes them race, and no signal makes a Close panic.
THEOREM ServerExits == Spec => []CleanExit
<1>1. Init => ExitInv
  BY DEF Init, StunInit, ExitInv, PlacesOK, StartOrder, StopOrder
<1>2. ExitInv /\ [Next]_vars => ExitInv'
  <2>. SUFFICES ASSUME ExitInv, [Next]_vars PROVE ExitInv' OBVIOUS
  <2>1. CASE UNCHANGED <<main, stopper, http, started, conn, done, listener>>
    BY <2>1 DEF ExitInv, PlacesOK, StartOrder, StopOrder
  <2>2. CASE UNCHANGED vars
    BY <2>1, <2>2 DEF vars, process, web, relay, stun
  <2>3. CASE Next BY <2>1, <2>3, MainKeeps, StopperKeeps, OthersFrame DEF Next
  <2>. QED BY <2>2, <2>3
<1>3. ExitInv => CleanExit
  BY DEF ExitInv, PlacesOK, StartOrder, StopOrder, CleanExit
<1>. QED BY <1>1, <1>2, <1>3, PTL DEF Spec
-----------------------------------------------------------------------------
(* The STUN server                                                         *)

\* A byte is the sum of its bits.
LEMMA Bits ==
  ASSUME NEW x \in Byte
  PROVE  \E b0, b1, b2, b3, b4, b5, b6, b7 \in {0, 1} :
            x = b0 + 2 * b1 + 4 * b2 + 8 * b3 + 16 * b4 + 32 * b5 + 64 * b6 + 128 * b7
<1>1. PICK b0 \in {0, 1}, x1 \in 0 .. 127 : x = b0 + 2 * x1 
  <2>. x % 2 \in {0, 1} /\ x \div 2 \in 0 .. 127 /\ x = (x % 2) + 2 * (x \div 2) BY DEF Byte
  <2>. QED OBVIOUS
<1>2. PICK b1 \in {0, 1}, x2 \in 0 .. 63 : x1 = b1 + 2 * x2 
  <2>. x1 % 2 \in {0, 1} /\ x1 \div 2 \in 0 .. 63 /\ x1 = (x1 % 2) + 2 * (x1 \div 2) OBVIOUS
  <2>. QED OBVIOUS
<1>3. PICK b2 \in {0, 1}, x3 \in 0 .. 31 : x2 = b2 + 2 * x3 
  <2>. x2 % 2 \in {0, 1} /\ x2 \div 2 \in 0 .. 31 /\ x2 = (x2 % 2) + 2 * (x2 \div 2) OBVIOUS
  <2>. QED OBVIOUS
<1>4. PICK b3 \in {0, 1}, x4 \in 0 .. 15 : x3 = b3 + 2 * x4 
  <2>. x3 % 2 \in {0, 1} /\ x3 \div 2 \in 0 .. 15 /\ x3 = (x3 % 2) + 2 * (x3 \div 2) OBVIOUS
  <2>. QED OBVIOUS
<1>5. PICK b4 \in {0, 1}, x5 \in 0 .. 7 : x4 = b4 + 2 * x5 
  <2>. x4 % 2 \in {0, 1} /\ x4 \div 2 \in 0 .. 7 /\ x4 = (x4 % 2) + 2 * (x4 \div 2) OBVIOUS
  <2>. QED OBVIOUS
<1>6. PICK b5, b6, b7 \in {0, 1} : x5 = b5 + 2 * b6 + 4 * b7 OBVIOUS
<1>. QED BY <1>1, <1>2, <1>3, <1>4, <1>5, <1>6

\* The bits of a sum of bits.
LEMMA BitsOf ==
  ASSUME NEW b0 \in {0, 1}, NEW b1 \in {0, 1}, NEW b2 \in {0, 1}, NEW b3 \in {0, 1},
         NEW b4 \in {0, 1}, NEW b5 \in {0, 1}, NEW b6 \in {0, 1}, NEW b7 \in {0, 1},
         NEW x \in Int,
         x = b0 + 2 * b1 + 4 * b2 + 8 * b3 + 16 * b4 + 32 * b5 + 64 * b6 + 128 * b7
  PROVE  /\ (x \div 1) % 2 = b0 /\ (x \div 2) % 2 = b1 /\ (x \div 4) % 2 = b2
         /\ (x \div 8) % 2 = b3 /\ (x \div 16) % 2 = b4 /\ (x \div 32) % 2 = b5
         /\ (x \div 64) % 2 = b6 /\ (x \div 128) % 2 = b7
OBVIOUS

\* Exclusive or with the same byte twice gives back the first one.
LEMMA XorTwice ==
  ASSUME NEW x \in Byte, NEW y \in Byte
  PROVE  Xor(x, y) \in Byte /\ Xor(Xor(x, y), y) = x
<1>1. PICK a0, a1, a2, a3, a4, a5, a6, a7 \in {0, 1} :
          x = a0 + 2 * a1 + 4 * a2 + 8 * a3 + 16 * a4 + 32 * a5 + 64 * a6 + 128 * a7
  BY Bits
<1>2. PICK b0, b1, b2, b3, b4, b5, b6, b7 \in {0, 1} :
          y = b0 + 2 * b1 + 4 * b2 + 8 * b3 + 16 * b4 + 32 * b5 + 64 * b6 + 128 * b7
  BY Bits
<1>. DEFINE d(a, b) == IF a # b THEN 1 ELSE 0
<1>3. PICK c0, c1, c2, c3, c4, c5, c6, c7 \in {0, 1} :
          /\ c0 = d(a0, b0) /\ c1 = d(a1, b1) /\ c2 = d(a2, b2) /\ c3 = d(a3, b3)
          /\ c4 = d(a4, b4) /\ c5 = d(a5, b5) /\ c6 = d(a6, b6) /\ c7 = d(a7, b7)
  OBVIOUS
<1>4. PICK z \in Byte :
          z = c0 + 2 * c1 + 4 * c2 + 8 * c3 + 16 * c4 + 32 * c5 + 64 * c6 + 128 * c7
  BY DEF Byte
<1>5. x \in Int /\ y \in Int /\ z \in Int BY DEF Byte
<1>6. /\ (x \div 1) % 2 = a0 /\ (x \div 2) % 2 = a1 /\ (x \div 4) % 2 = a2
      /\ (x \div 8) % 2 = a3 /\ (x \div 16) % 2 = a4 /\ (x \div 32) % 2 = a5
      /\ (x \div 64) % 2 = a6 /\ (x \div 128) % 2 = a7
  BY <1>1, <1>5, BitsOf
<1>7. /\ (y \div 1) % 2 = b0 /\ (y \div 2) % 2 = b1 /\ (y \div 4) % 2 = b2
      /\ (y \div 8) % 2 = b3 /\ (y \div 16) % 2 = b4 /\ (y \div 32) % 2 = b5
      /\ (y \div 64) % 2 = b6 /\ (y \div 128) % 2 = b7
  BY <1>2, <1>5, BitsOf
<1>8. /\ (z \div 1) % 2 = c0 /\ (z \div 2) % 2 = c1 /\ (z \div 4) % 2 = c2
      /\ (z \div 8) % 2 = c3 /\ (z \div 16) % 2 = c4 /\ (z \div 32) % 2 = c5
      /\ (z \div 64) % 2 = c6 /\ (z \div 128) % 2 = c7
  BY <1>4, <1>5, BitsOf
<1>. DEFINE e(a, b, p) == IF a # b THEN p ELSE 0
<1>9. Xor(x, y) = e(a0, b0, 1) + e(a1, b1, 2) + e(a2, b2, 4) + e(a3, b3, 8)
                     + e(a4, b4, 16) + e(a5, b5, 32) + e(a6, b6, 64) + e(a7, b7, 128)
  BY <1>6, <1>7 DEF Xor
<1>10. Xor(x, y) = z
  BY <1>3, <1>4, <1>9
<1>11. Xor(z, y) = e(c0, b0, 1) + e(c1, b1, 2) + e(c2, b2, 4) + e(c3, b3, 8)
                     + e(c4, b4, 16) + e(c5, b5, 32) + e(c6, b6, 64) + e(c7, b7, 128)
  BY <1>7, <1>8 DEF Xor
<1>12. /\ e(c0, b0, 1) = a0 /\ e(c1, b1, 2) = 2 * a1 /\ e(c2, b2, 4) = 4 * a2
       /\ e(c3, b3, 8) = 8 * a3 /\ e(c4, b4, 16) = 16 * a4 /\ e(c5, b5, 32) = 32 * a5
       /\ e(c6, b6, 64) = 64 * a6 /\ e(c7, b7, 128) = 128 * a7
  BY <1>3
<1>13. Xor(z, y) = x
  BY <1>1, <1>11, <1>12
<1>. QED BY <1>10, <1>13

\* The same for a sequence of bytes and two keys, at least as long, that agree
\* on its length.
LEMMA XorAllTwice ==
  ASSUME NEW s \in Seq(Byte), NEW k \in Seq(Byte), NEW l, Len(s) <= Len(k),
         \A i \in 1 .. Len(s) : l[i] = k[i]
  PROVE  /\ XorAll(s, k) \in Seq(Byte) /\ Len(XorAll(s, k)) = Len(s)
         /\ XorAll(XorAll(s, k), l) = s
<1>1. PICK n \in Nat : n = Len(s) OBVIOUS
<1>2. \A i \in 1 .. n : s[i] \in Byte /\ k[i] \in Byte BY <1>1
<1>3. PICK t : t = XorAll(s, k) OBVIOUS
<1>4. t = [i \in 1 .. n |-> Xor(s[i], k[i])] BY <1>1, <1>3 DEF XorAll
<1>5. \A i \in 1 .. n : t[i] \in Byte /\ Xor(t[i], l[i]) = s[i]
  BY <1>1, <1>2, <1>4, XorTwice, Zenon
<1>6. t \in Seq(Byte) /\ Len(t) = n
  BY <1>4, <1>5
<1>7. XorAll(t, l) = [i \in 1 .. n |-> s[i]]
  BY <1>5, <1>6, Zenon DEF XorAll
<1>8. [i \in 1 .. n |-> s[i]] = s BY <1>1
<1>. QED BY <1>1, <1>3, <1>6, <1>7, <1>8

\* PutUint16 and Uint16 are inverse on 16 bits.
LEMMA Uint16Back ==
  ASSUME NEW n \in Port
  PROVE  PutUint16(n) \in Seq(Byte) /\ Len(PutUint16(n)) = 2 /\ Uint16(PutUint16(n)) = n
<1>1. n \in Int /\ 0 <= n /\ n <= 65535 BY SMT DEF Port
<1>2. n \div 256 \in Byte /\ n % 256 \in Byte /\ n = 256 * (n \div 256) + (n % 256)
  BY <1>1, SMT DEF Byte
<1>3. PICK q \in Byte : q = n \div 256 BY <1>2, SMT
<1>4. PICK r \in Byte : r = n % 256 BY <1>2, SMT
<1>5. n = 256 * q + r BY <1>2, <1>3, <1>4, SMT
<1>6. q % 256 = q BY SMT DEF Byte
<1>7. PutUint16(n) = <<q, r>> BY <1>3, <1>4, <1>6, SMT DEF PutUint16
<1>8. PICK s : s = <<q, r>> OBVIOUS
<1>9. s \in Seq(Byte) /\ Len(s) = 2 BY <1>8, SMT
<1>10. Uint16(s) = n BY <1>5, <1>8, SMT DEF Uint16
<1>. QED BY <1>7, <1>8, <1>9, <1>10, Zenon

\* p stands in d after its first k bytes.
Part(d, k, p) ==
    k \in Nat /\ k + Len(p) <= Len(d) /\ \A i \in 1 .. Len(p) : d[k + i] = p[i]

\* A part is what SubSeq takes there.
LEMMA PartTaken ==
  ASSUME NEW d \in Seq(Byte), NEW p \in Seq(Byte), NEW k, Part(d, k, p)
  PROVE  SubSeq(d, k + 1, k + Len(p)) = p
<1>1. Len(p) \in Nat /\ Len(d) \in Nat OBVIOUS
<1>2. k \in Nat /\ k + Len(p) <= Len(d) /\ \A i \in 1 .. Len(p) : d[k + i] = p[i] BY DEF Part
<1>3. SubSeq(d, k + 1, k + Len(p)) \in Seq(Byte) /\ Len(SubSeq(d, k + 1, k + Len(p))) = Len(p)
  BY <1>1, <1>2, SMT
<1>4. ASSUME NEW i \in 1 .. Len(p) PROVE SubSeq(d, k + 1, k + Len(p))[i] = p[i]
  BY <1>1, <1>2, <1>4, SMT
<1>. QED BY <1>3, <1>4, SeqEqual, Zenon

\* Joining keeps the parts of the first sequence where they are and moves
\* those of the second.
LEMMA Join ==
  ASSUME NEW a \in Seq(Byte), NEW b \in Seq(Byte)
  PROVE  /\ a \o b \in Seq(Byte) /\ Len(a \o b) = Len(a) + Len(b)
         /\ Part(a \o b, 0, a) /\ Part(a \o b, Len(a), b)
         /\ \A p \in Seq(Byte) : \A k : Part(a, k, p) => Part(a \o b, k, p)
         /\ \A p \in Seq(Byte) : \A k : Part(b, k, p) => Part(a \o b, Len(a) + k, p)
<1>1. PICK m \in Nat : m = Len(a) OBVIOUS
<1>2. PICK n \in Nat : n = Len(b) OBVIOUS
<1>3. PICK c : c = a \o b OBVIOUS
<1>4. /\ c \in Seq(Byte) /\ Len(c) = m + n
      /\ \A i \in 1 .. m : c[i] = a[i]
      /\ \A i \in 1 .. n : c[m + i] = b[i]
  <2>1. /\ c \in Seq(Byte) /\ Len(c) = m + n
        /\ \A i \in 1 .. m + n : c[i] = IF i <= m THEN a[i] ELSE b[i - m]
    BY <1>1, <1>2, <1>3, ConcatProperties, Zenon
  <2>. QED BY <2>1
<1>5. Part(c, 0, a) /\ Part(c, m, b) BY <1>1, <1>2, <1>4 DEF Part
<1>6. ASSUME NEW p \in Seq(Byte), NEW k, Part(a, k, p) PROVE Part(c, k, p)
  <2>1. PICK l \in Nat : l = Len(p) OBVIOUS
  <2>2. k \in Nat /\ k + l <= m /\ \A i \in 1 .. l : a[k + i] = p[i] BY <1>1, <1>6, <2>1 DEF Part
  <2>3. \A i \in 1 .. l : c[k + i] = p[i] BY <1>4, <2>2
  <2>. QED BY <1>4, <2>1, <2>2, <2>3 DEF Part
<1>7. ASSUME NEW p \in Seq(Byte), NEW k, Part(b, k, p) PROVE Part(c, m + k, p)
  <2>1. PICK l \in Nat : l = Len(p) OBVIOUS
  <2>2. k \in Nat /\ k + l <= n /\ \A i \in 1 .. l : b[k + i] = p[i] BY <1>2, <1>7, <2>1 DEF Part
  <2>3. ASSUME NEW i \in 1 .. l PROVE c[(m + k) + i] = p[i]
    <3>1. PICK j \in 1 .. n : j = k + i BY <2>2, <2>3
    <3>2. c[m + j] = p[i] BY <1>4, <2>2, <3>1
    <3>3. m + j = (m + k) + i BY <2>2, <3>1
    <3>. QED BY <3>2, <3>3
  <2>. QED BY <1>4, <2>1, <2>2, <2>3 DEF Part
<1>. QED BY <1>1, <1>2, <1>3, <1>4, <1>5, <1>6, <1>7, Zenon

\* Parts after each other are one part.
LEMMA Merge ==
  ASSUME NEW d \in Seq(Byte), NEW a \in Seq(Byte), NEW b \in Seq(Byte), NEW k,
         Part(d, k, a), Part(d, k + Len(a), b)
  PROVE  Part(d, k, a \o b)
<1>1. PICK m \in Nat : m = Len(a) OBVIOUS
<1>2. PICK n \in Nat : n = Len(b) OBVIOUS
<1>3. PICK c : c = a \o b OBVIOUS
<1>4. /\ Len(c) = m + n
      /\ \A i \in 1 .. m : c[i] = a[i]
      /\ \A i \in 1 .. n : c[m + i] = b[i]
  BY <1>1, <1>2, <1>3
<1>5. /\ k \in Nat /\ (k + m) + n <= Len(d)
      /\ \A i \in 1 .. m : d[k + i] = a[i]
      /\ \A i \in 1 .. n : d[(k + m) + i] = b[i]
  BY <1>1, <1>2 DEF Part
<1>6. ASSUME NEW i \in 1 .. m + n PROVE d[k + i] = c[i]
  <2>1. CASE i <= m BY <1>4, <1>5, <2>1
  <2>2. CASE i > m
    <3>1. PICK j \in 1 .. n : i = m + j BY <2>2
    <3>2. k + i = (k + m) + j BY <1>5, <3>1
    <3>3. d[k + i] = b[j] /\ c[i] = b[j] BY <1>4, <1>5, <3>1, <3>2
    <3>. QED BY <3>3
  <2>. QED BY <2>1, <2>2
<1>7. k + (m + n) <= Len(d) BY <1>5
<1>. QED BY <1>3, <1>4, <1>5, <1>6, <1>7 DEF Part

\* An address, as net.IP.To4 gives it, has four or sixteen bytes.
LEMMA To4Bytes ==
  ASSUME NEW ip \in Address
  PROVE  To4(ip) \in Seq(Byte) /\ Len(To4(ip)) \in {4, 16}
<1>1. ASSUME NEW n \in Nat, NEW f \in [1 .. n -> Byte] PROVE f \in Seq(Byte) /\ Len(f) = n
  OBVIOUS
<1>2. ip \in Seq(Byte) /\ Len(ip) \in {4, 16}
  <2>1. CASE ip \in [1 .. 4 -> Byte]
    <3>1. PICK n \in Nat : n = 4 OBVIOUS
    <3>. QED BY <1>1, <2>1, <3>1, Zenon
  <2>2. CASE ip \in [1 .. 16 -> Byte]
    <3>1. PICK n \in Nat : n = 16 OBVIOUS
    <3>. QED BY <1>1, <2>2, <3>1, Zenon
  <2>. QED BY <2>1, <2>2, Zenon DEF Address
<1>3. ASSUME Len(ip) = 16
      PROVE  SubSeq(ip, 13, 16) \in Seq(Byte) /\ Len(SubSeq(ip, 13, 16)) = 4
  <2>1. \A i \in 1 .. 16 : ip[i] \in Byte BY <1>2, <1>3, ElementOfSeq, Zenon
  <2>0. \A i \in 13 .. 16 : i \in 1 .. 16 OBVIOUS
  <2>2. \A i \in 13 .. 16 : ip[i] \in Byte BY <2>0, <2>1, Zenon
  <2>3. /\ SubSeq(ip, 13, 16) \in Seq(Byte)
        /\ Len(SubSeq(ip, 13, 16)) = IF 13 <= 16 THEN 16 - 13 + 1 ELSE 0
    BY <2>2, SubSeqProperties
  <2>. QED BY <2>3
<1>4. To4(ip) = ip \/ (Len(ip) = 16 /\ To4(ip) = SubSeq(ip, 13, 16)) BY Zenon DEF To4
<1>. QED BY <1>2, <1>3, <1>4

\* The attribute XOR-MAPPED-ADDRESS: its family, its port and its address.
LEMMA ValueParts ==
  ASSUME NEW f \in Byte, NEW p \in Seq(Byte), Len(p) = 2, NEW x \in Seq(Byte)
  PROVE  LET v == <<0, f>> \o p \o x
         IN  /\ v \in Seq(Byte) /\ Len(v) = 4 + Len(x) /\ v[2] = f
             /\ SubSeq(v, 3, 4) = p /\ SubSeq(v, 5, 4 + Len(x)) = x
<1>v. PICK v : v = <<0, f>> \o p \o x OBVIOUS
<1>. PICK n \in Nat : n = Len(x) OBVIOUS
<1>0. 2 \in Nat /\ 4 \in Nat /\ 2 + 2 = 4 /\ 2 + 1 = 3 /\ 4 + 1 = 5 OBVIOUS
<1>1. PICK h : h = <<0, f>> OBVIOUS
<1>2. h \in Seq(Byte) /\ Len(h) = 2 /\ h[2] = f BY <1>1, SMT DEF Byte
<1>3. PICK g : g = h \o p OBVIOUS
<1>4. g \in Seq(Byte) /\ Len(g) = 4 /\ Part(g, 0, h) /\ Part(g, 2, p)
  <2>1. g \in Seq(Byte) /\ Len(g) = Len(h) + Len(p) /\ Part(g, 0, h) /\ Part(g, Len(h), p)
    BY <1>2, <1>3, Join, Zenon
  <2>. QED BY <1>0, <1>2, <2>1, Zenon
<1>5. v = g \o x BY <1>v, <1>1, <1>3, Zenon
<1>6. /\ v \in Seq(Byte) /\ Len(v) = 4 + n
      /\ Part(v, 4, x) /\ Part(v, 0, h) /\ Part(v, 2, p)
  <2>1. PICK w : w = g \o x OBVIOUS
  <2>2. /\ w \in Seq(Byte) /\ Len(w) = Len(g) + Len(x) /\ Part(w, Len(g), x)
        /\ \A q \in Seq(Byte) : \A k : Part(g, k, q) => Part(w, k, q)
    BY <1>4, <2>1, Join, Zenon
  <2>3. Part(w, 0, h) /\ Part(w, 2, p) BY <1>2, <1>4, <2>2, Zenon
  <2>4. w = v BY <1>5, <2>1, Zenon
  <2>. QED BY <1>4, <2>2, <2>3, <2>4, Zenon
<1>7. v[2] = f
  <2>1. \A i \in 1 .. 2 : v[0 + i] = h[i] BY <1>2, <1>6, Zenon DEF Part
  <2>. QED BY <1>2, <2>1
<1>8. SubSeq(v, 2 + 1, 2 + Len(p)) = p /\ SubSeq(v, 4 + 1, 4 + Len(x)) = x
  BY <1>6, PartTaken, Zenon
<1>9. SubSeq(v, 3, 4) = p /\ SubSeq(v, 5, 4 + n) = x BY <1>0, <1>8, Zenon
<1>. QED BY <1>v, <1>6, <1>7, <1>9, Zenon

\* A response: its header and its attribute.
LEMMA ResponseParts ==
  ASSUME NEW h \in Seq(Byte), Len(h) = 2, NEW l \in Seq(Byte), Len(l) = 2,
         NEW c \in Seq(Byte), Len(c) = 4, NEW t \in Seq(Byte), Len(t) = 12,
         NEW a \in Seq(Byte), Len(a) = 2, NEW m \in Seq(Byte), Len(m) = 2,
         NEW v \in Seq(Byte)
  PROVE  LET d == h \o l \o c \o t \o (a \o m \o v)
         IN  /\ d \in Seq(Byte) /\ Len(d) = 24 + Len(v)
             /\ Part(d, 0, h) /\ Part(d, 2, l) /\ Part(d, 4, c) /\ Part(d, 8, t)
             /\ Part(d, 20, a) /\ Part(d, 22, m) /\ Part(d, 24, v)
<1>d. PICK d : d = h \o l \o c \o t \o (a \o m \o v) OBVIOUS
<1>. PICK n \in Nat : n = Len(v) OBVIOUS
<1>0. /\ 2 \in Nat /\ 4 \in Nat /\ 8 \in Nat /\ 12 \in Nat /\ 20 \in Nat /\ 4 + n \in Nat
      /\ 2 + 2 = 4 /\ 4 + 4 = 8 /\ 8 + 12 = 20 /\ 20 + 0 = 20 /\ 20 + 2 = 22 /\ 20 + 4 = 24
      /\ 20 + (4 + n) = 24 + n
  OBVIOUS
<1>1. PICK h1 : h1 = h \o l OBVIOUS
<1>2. h1 \in Seq(Byte) /\ Len(h1) = 4 /\ Part(h1, 0, h) /\ Part(h1, 2, l)
  <2>1. h1 \in Seq(Byte) /\ Len(h1) = Len(h) + Len(l) /\ Part(h1, 0, h) /\ Part(h1, Len(h), l)
    BY <1>1, Join, Zenon
  <2>. QED BY <1>0, <2>1, Zenon
<1>3. PICK h2 : h2 = h1 \o c OBVIOUS
<1>4. /\ h2 \in Seq(Byte) /\ Len(h2) = 8 /\ Part(h2, 0, h) /\ Part(h2, 2, l) /\ Part(h2, 4, c)
  <2>1. /\ h2 \in Seq(Byte) /\ Len(h2) = Len(h1) + Len(c) /\ Part(h2, Len(h1), c)
        /\ \A p \in Seq(Byte) : \A k : Part(h1, k, p) => Part(h2, k, p)
    BY <1>2, <1>3, Join, Zenon
  <2>. QED BY <1>0, <1>2, <2>1, Zenon
<1>5. PICK h3 : h3 = h2 \o t OBVIOUS
<1>6. /\ h3 \in Seq(Byte) /\ Len(h3) = 20
      /\ Part(h3, 0, h) /\ Part(h3, 2, l) /\ Part(h3, 4, c) /\ Part(h3, 8, t)
  <2>1. /\ h3 \in Seq(Byte) /\ Len(h3) = Len(h2) + Len(t) /\ Part(h3, Len(h2), t)
        /\ \A p \in Seq(Byte) : \A k : Part(h2, k, p) => Part(h3, k, p)
    BY <1>4, <1>5, Join, Zenon
  <2>. QED BY <1>0, <1>4, <2>1, Zenon
<1>7. PICK a1 : a1 = a \o m OBVIOUS
<1>8. a1 \in Seq(Byte) /\ Len(a1) = 4 /\ Part(a1, 0, a) /\ Part(a1, 2, m)
  <2>1. a1 \in Seq(Byte) /\ Len(a1) = Len(a) + Len(m) /\ Part(a1, 0, a) /\ Part(a1, Len(a), m)
    BY <1>7, Join, Zenon
  <2>. QED BY <1>0, <2>1, Zenon
<1>9. PICK a2 : a2 = a1 \o v OBVIOUS
<1>10. /\ a2 \in Seq(Byte) /\ Len(a2) = 4 + n
       /\ Part(a2, 0, a) /\ Part(a2, 2, m) /\ Part(a2, 4, v)
  <2>1. /\ a2 \in Seq(Byte) /\ Len(a2) = Len(a1) + Len(v) /\ Part(a2, Len(a1), v)
        /\ \A p \in Seq(Byte) : \A k : Part(a1, k, p) => Part(a2, k, p)
    BY <1>8, <1>9, Join, Zenon
  <2>. QED BY <1>8, <2>1, Zenon
<1>11. d = h3 \o a2 BY <1>d, <1>1, <1>3, <1>5, <1>7, <1>9, Zenon
<1>12. /\ d \in Seq(Byte) /\ Len(d) = Len(h3) + Len(a2)
       /\ \A p \in Seq(Byte) : \A k : Part(h3, k, p) => Part(d, k, p)
       /\ \A p \in Seq(Byte) : \A k : Part(a2, k, p) => Part(d, Len(h3) + k, p)
  <2>1. h3 \in Seq(Byte) /\ a2 \in Seq(Byte) BY <1>6, <1>10, Zenon
  <2>2. PICK w : w = h3 \o a2 OBVIOUS
  <2>3. /\ w \in Seq(Byte) /\ Len(w) = Len(h3) + Len(a2)
        /\ \A p \in Seq(Byte) : \A k : Part(h3, k, p) => Part(w, k, p)
        /\ \A p \in Seq(Byte) : \A k : Part(a2, k, p) => Part(w, Len(h3) + k, p)
    BY <2>1, <2>2, Join, Zenon
  <2>. QED BY <1>11, <2>2, <2>3, Zenon
<1>13. /\ Part(d, 0, h) /\ Part(d, 2, l) /\ Part(d, 4, c) /\ Part(d, 8, t)
  BY <1>6, <1>12, Zenon
<1>14. Part(d, 20 + 0, a) /\ Part(d, 20 + 2, m) /\ Part(d, 20 + 4, v)
  BY <1>6, <1>10, <1>12, Zenon
<1>15. Part(d, 20, a) /\ Part(d, 22, m) /\ Part(d, 24, v) BY <1>0, <1>14, Zenon
<1>16. Len(d) = 24 + n BY <1>0, <1>6, <1>10, <1>12, Zenon
<1>. QED BY <1>d, <1>12, <1>13, <1>15, <1>16, Zenon

\* The numbers in a response fit into sixteen bits.
LEMMA Numbers ==
  ASSUME NEW n \in Nat, n <= 16
  PROVE  /\ AttrXORMappedAddress \in Port /\ 4 + n \in Port /\ 8 + n \in Port
         /\ StunBindingResponse \in Port
<1>1. PICK m \in Nat : m = 65535 OBVIOUS
<1>2. Port = 0 .. m BY <1>1, SMT DEF Port
<1>3. 4 + n \in 0 .. m /\ 8 + n \in 0 .. m
  <2>1. m >= 24 BY <1>1, SMT
  <2>. QED BY <2>1, SMT
<1>4. AttrXORMappedAddress \in 0 .. m /\ StunBindingResponse \in 0 .. m
  BY <1>1, SMT DEF AttrXORMappedAddress, StunBindingResponse
<1>. QED BY <1>2, <1>3, <1>4, Zenon

\* What buildBindingResponse makes for an address tells a client that address,
\* under its own transaction ID.
LEMMA ResponseMapped ==
  ASSUME NEW t \in Seq(Byte), Len(t) = 12, NEW addr, addr.ip \in Address, addr.port \in Port
  PROVE  /\ MappedAddress(BuildBindingResponse(t, addr))
              = {[ip |-> To4(addr.ip), port |-> addr.port]}
         /\ SubSeq(BuildBindingResponse(t, addr), 9, 20) = t
<1>1. PICK ip \in Seq(Byte) : ip = To4(addr.ip) /\ Len(ip) \in {4, 16} BY To4Bytes, Zenon
<1>2. PICK n \in Nat : n = Len(ip) /\ n <= 16 /\ (n = 4 \/ n = 16)
  <2>1. CASE Len(ip) = 4
    <3>1. 4 \in Nat /\ 4 <= 16 OBVIOUS
    <3>. QED BY <2>1, <3>1, Zenon
  <2>2. CASE Len(ip) = 16
    <3>1. 16 \in Nat /\ 16 <= 16 OBVIOUS
    <3>. QED BY <2>2, <3>1, Zenon
  <2>. QED BY <1>1, <2>1, <2>2, Zenon
<1>3. PICK c : c = StunMagicCookie OBVIOUS
<1>4. c \in Seq(Byte) /\ Len(c) = 4 BY <1>3, SMT DEF StunMagicCookie, Byte
<1>5. PICK f \in Byte : f = IF Len(ip) = 4 THEN 1 ELSE 2 BY DEF Byte
<1>6. PICK q : q = PutUint16(addr.port) OBVIOUS
<1>7. q \in Seq(Byte) /\ Len(q) = 2 /\ Uint16(q) = addr.port BY <1>6, Uint16Back, Zenon
<1>8. PICK p : p = XorAll(q, c) OBVIOUS
<1>9. /\ p \in Seq(Byte) /\ Len(p) = 2
      /\ \A l : (\A i \in 1 .. 2 : l[i] = c[i]) => XorAll(p, l) = q
  <2>1. Len(q) <= Len(c) BY <1>4, <1>7
  <2>2. \A i \in 1 .. Len(q) : c[i] = c[i] OBVIOUS
  <2>3. p \in Seq(Byte) /\ Len(p) = Len(q) BY <1>4, <1>7, <1>8, <2>1, <2>2, XorAllTwice, Zenon
  <2>4. ASSUME NEW l, \A i \in 1 .. 2 : l[i] = c[i] PROVE XorAll(p, l) = q
    BY <1>4, <1>7, <1>8, <2>1, <2>4, XorAllTwice, Zenon
  <2>. QED BY <1>7, <2>3, <2>4, Zenon
<1>10. PICK k : k = c \o t OBVIOUS
<1>11. k \in Seq(Byte) /\ Len(k) = 16
  <2>1. k \in Seq(Byte) /\ Len(k) = Len(c) + Len(t) BY <1>4, <1>10, Join, Zenon
  <2>. QED BY <1>4, <2>1
<1>12. PICK x : x = XorAll(ip, k) OBVIOUS
<1>13. x \in Seq(Byte) /\ Len(x) = n /\ XorAll(x, k) = ip
  <2>1. Len(ip) <= Len(k) BY <1>2, <1>11, Zenon
  <2>. QED BY <1>2, <1>11, <1>12, <2>1, XorAllTwice, Zenon
<1>14. PICK v : v = <<0, f>> \o p \o x OBVIOUS
<1>15. /\ v \in Seq(Byte) /\ Len(v) = 4 + n /\ v[2] = f
       /\ SubSeq(v, 3, 4) = p /\ SubSeq(v, 5, 4 + n) = x
  <2>. DEFINE w == <<0, f>> \o p \o x
  <2>0. p \in Seq(Byte) /\ Len(p) = 2 /\ x \in Seq(Byte) BY <1>9, <1>13, Zenon
  <2>1. /\ w \in Seq(Byte) /\ Len(w) = 4 + Len(x) /\ w[2] = f
        /\ SubSeq(w, 3, 4) = p /\ SubSeq(w, 5, 4 + Len(x)) = x
    BY <2>0, ValueParts
  <2>2. v = w BY <1>14, Zenon
  <2>. HIDE DEF w
  <2>. QED BY <1>13, <2>1, <2>2, Zenon
<1>16. PICK a : a = PutUint16(AttrXORMappedAddress) OBVIOUS
<1>17. PICK m : m = PutUint16(4 + n) OBVIOUS
<1>18. PICK l : l = PutUint16(8 + n) OBVIOUS
<1>19. PICK h : h = PutUint16(StunBindingResponse) OBVIOUS
<1>20. /\ AttrXORMappedAddress \in Port /\ 4 + n \in Port /\ 8 + n \in Port
       /\ StunBindingResponse \in Port
  BY <1>2, Numbers, Zenon
<1>21. /\ a \in Seq(Byte) /\ Len(a) = 2 /\ Uint16(a) = AttrXORMappedAddress
       /\ m \in Seq(Byte) /\ Len(m) = 2 /\ Uint16(m) = 4 + n
       /\ l \in Seq(Byte) /\ Len(l) = 2 /\ Uint16(l) = 8 + n
       /\ h \in Seq(Byte) /\ Len(h) = 2 /\ Uint16(h) = StunBindingResponse
  BY <1>16, <1>17, <1>18, <1>19, <1>20, Uint16Back, Zenon
<1>22. PICK d : d = h \o l \o c \o t \o (a \o m \o v) OBVIOUS
<1>23. Len(a \o m \o v) = 8 + n
  <2>1. a \o m \in Seq(Byte) /\ Len(a \o m) = Len(a) + Len(m) BY <1>21, Join, Zenon
  <2>2. Len(a \o m \o v) = Len(a \o m) + Len(v) BY <1>15, <2>1, Join, Zenon
  <2>. QED BY <1>15, <1>21, <2>1, <2>2
<1>24. BuildBindingResponse(t, addr) = d
  BY <1>1, <1>3, <1>5, <1>6, <1>8, <1>10, <1>12, <1>14, <1>15, <1>16, <1>17, <1>18, <1>19,
     <1>22, <1>23, Zenon
  DEF BuildBindingResponse, XorKey
<1>26. /\ d \in Seq(Byte) /\ Len(d) = 24 + Len(v)
       /\ Part(d, 0, h) /\ Part(d, 2, l) /\ Part(d, 4, c) /\ Part(d, 8, t)
       /\ Part(d, 20, a) /\ Part(d, 22, m) /\ Part(d, 24, v)
  <2>. DEFINE w == h \o l \o c \o t \o (a \o m \o v)
  <2>1. /\ w \in Seq(Byte) /\ Len(w) = 24 + Len(v)
        /\ Part(w, 0, h) /\ Part(w, 2, l) /\ Part(w, 4, c) /\ Part(w, 8, t)
        /\ Part(w, 20, a) /\ Part(w, 22, m) /\ Part(w, 24, v)
    <3>1. /\ h \in Seq(Byte) /\ Len(h) = 2 /\ l \in Seq(Byte) /\ Len(l) = 2
          /\ c \in Seq(Byte) /\ Len(c) = 4 /\ a \in Seq(Byte) /\ Len(a) = 2
          /\ m \in Seq(Byte) /\ Len(m) = 2 /\ v \in Seq(Byte)
      BY <1>4, <1>15, <1>21, Zenon
    <3>. QED BY <3>1, ResponseParts
  <2>2. d = w BY <1>22, Zenon
  <2>. HIDE DEF w
  <2>. QED BY <2>1, <2>2, Zenon
<1>27. Len(d) = 28 + n BY <1>15, <1>26
<1>28. Uint16(d) = StunBindingResponse
  <2>1. \A i \in 1 .. 2 : d[0 + i] = h[i] BY <1>21, <1>26, Zenon DEF Part
  <2>2. d[1] = h[1] /\ d[2] = h[2] BY <2>1
  <2>. QED BY <1>21, <2>2, Zenon DEF Uint16
<1>29. /\ SubSeq(d, 2 + 1, 2 + Len(l)) = l /\ SubSeq(d, 4 + 1, 4 + Len(c)) = c
       /\ SubSeq(d, 8 + 1, 8 + Len(t)) = t /\ SubSeq(d, 20 + 1, 20 + Len(a)) = a
       /\ SubSeq(d, 22 + 1, 22 + Len(m)) = m /\ SubSeq(d, 24 + 1, 24 + Len(v)) = v
  BY <1>4, <1>15, <1>21, <1>26, PartTaken, Zenon
<1>30. /\ 2 + 1 = 3 /\ 2 + 2 = 4 /\ 4 + 1 = 5 /\ 4 + 4 = 8 /\ 8 + 1 = 9 /\ 8 + 12 = 20
       /\ 20 + 1 = 21 /\ 20 + 2 = 22 /\ 22 + 1 = 23 /\ 22 + 2 = 24 /\ 24 + 1 = 25
       /\ 4 + 16 = 20
  OBVIOUS
<1>31. /\ SubSeq(d, 3, 4) = l /\ SubSeq(d, 5, 8) = c /\ SubSeq(d, 9, 20) = t
       /\ SubSeq(d, 21, 22) = a /\ SubSeq(d, 23, 24) = m /\ SubSeq(d, 25, Len(d)) = v
  BY <1>4, <1>21, <1>26, <1>29, <1>30, Zenon
<1>32. SubSeq(d, 5, 20) = k
  <2>1. Part(d, 4, c \o t)
    <3>1. Part(d, 4 + Len(c), t) BY <1>4, <1>26, <1>30, Zenon
    <3>. QED BY <1>4, <1>26, <3>1, Merge, Zenon
  <2>2. SubSeq(d, 4 + 1, 4 + Len(k)) = k BY <1>10, <1>11, <1>26, <2>1, PartTaken, Zenon
  <2>. QED BY <1>11, <1>30, <2>2, Zenon
<1>33. \A i \in 1 .. 2 : SubSeq(d, 5, 6)[i] = c[i]
  <2>1. \A i \in 1 .. 4 : d[4 + i] = c[i] BY <1>4, <1>26, Zenon DEF Part
  <2>2. \A i \in 5 .. 6 : d[i] \in Byte BY <1>2, <1>26, <1>27
  <2>3. \A i \in 1 .. (6 - 5 + 1) : SubSeq(d, 5, 6)[i] = d[5 + i - 1] BY <2>2, SubSeqProperties
  <2>4. ASSUME NEW i \in 1 .. 2 PROVE SubSeq(d, 5, 6)[i] = c[i]
    <3>1. i \in 1 .. (6 - 5 + 1) /\ 5 + i - 1 = 4 + i /\ i \in 1 .. 4 OBVIOUS
    <3>. QED BY <2>1, <2>3, <3>1, Zenon
  <2>. QED BY <2>4
<1>34. 8 + n = Len(d) - 20 /\ 4 + n = Len(v) BY <1>15, <1>27
<1>35. XorAll(SubSeq(v, 3, 4), SubSeq(d, 5, 6)) = q BY <1>9, <1>15, <1>33, Zenon
<1>36. XorAll(SubSeq(v, 5, Len(v)), SubSeq(d, 5, 20)) = ip BY <1>13, <1>15, <1>32, Zenon
<1>37. PICK size : size = CASE v[2] = 1 -> 4 [] v[2] = 2 -> 16 OBVIOUS
<1>38. Len(v) = 4 + size
  <2>1. n = 4 => f = 1 BY <1>2, <1>5
  <2>2. n = 16 => f = 2 BY <1>2, <1>5
  <2>. QED BY <1>2, <1>15, <1>37, <2>1, <2>2
<1>39. MappedAddress(d) = {[ip |-> ip, port |-> addr.port]}
  BY <1>3, <1>7, <1>21, <1>28, <1>31, <1>34, <1>35, <1>36, <1>37, <1>38, Zenon DEF MappedAddress
<1>. QED BY <1>1, <1>24, <1>31, <1>39, Zenon

-----------------------------------------------------------------------------
\* What is in the buffer, between ReadFromUDP and the answer, is the beginning
\* of a datagram that was sent.
BufferOf(m, b) ==
    \E k \in Nat : k <= Len(m.data) /\ b = [from |-> m.from, data |-> SubSeq(m.data, 1, k)]

StunInv ==
    /\ requests \subseteq Datagrams
    /\ serve = "handle" => \E m \in requests : BufferOf(m, buf)
    /\ ResponsesTrue

\* The fields of a datagram.
LEMMA DatagramFields ==
  ASSUME NEW m \in Datagrams
  PROVE  /\ m.from.ip \in Address /\ m.from.port \in Port /\ m.data \in Seq(Byte)
         /\ m = [from |-> m.from, data |-> m.data]
<1>1. m \in [from : [ip : Address, port : Port], data : Seq(Byte)] BY StunAssumption, Zenon
<1>. QED BY <1>1, Zenon

\* ReadFromUDP.
LEMMA ReadBuffer ==
  ASSUME NEW m \in Datagrams
  PROVE  BufferOf(m, [m EXCEPT !.data = SubSeq(@, 1, IF Len(@) < BufferSize THEN Len(@) ELSE BufferSize)])
<1>1. PICK n \in Nat : n = Len(m.data) BY DatagramFields
<1>2. PICK k \in Nat : k = IF n < BufferSize THEN n ELSE BufferSize BY StunAssumption
<1>3. k <= n BY <1>2, StunAssumption
<1>4. [m EXCEPT !.data = SubSeq(@, 1, IF Len(@) < BufferSize THEN Len(@) ELSE BufferSize)]
         = [m EXCEPT !.data = SubSeq(m.data, 1, k)]
  BY <1>1, <1>2, Zenon
<1>5. [m EXCEPT !.data = SubSeq(m.data, 1, k)] = [from |-> m.from, data |-> SubSeq(m.data, 1, k)]
  <2>1. PICK f : f = m.from OBVIOUS
  <2>2. PICK d : d = SubSeq(m.data, 1, k) OBVIOUS
  <2>3. m = [from |-> f, data |-> m.data] BY <2>1, DatagramFields, Zenon
  <2>4. [m EXCEPT !.data = d] = [from |-> f, data |-> d] BY <2>3, SMT
  <2>. QED BY <2>1, <2>2, <2>4, Zenon
<1>. QED BY <1>1, <1>3, <1>4, <1>5, Zenon DEF BufferOf

\* What lies within the beginning of a sequence.
LEMMA SubSeqOfBeginning ==
  ASSUME NEW d \in Seq(Byte), NEW k \in Nat, k <= Len(d), NEW i \in 1 .. k, NEW j \in i .. k
  PROVE  SubSeq(SubSeq(d, 1, k), i, j) = SubSeq(d, i, j)
<1>1. PICK e : e = SubSeq(d, 1, k) OBVIOUS
<1>2. e \in Seq(Byte) /\ Len(e) = k /\ \A r \in 1 .. k : e[r] = d[r] BY <1>1
<1>3. PICK p : p = SubSeq(e, i, j) OBVIOUS
<1>4. PICK q : q = SubSeq(d, i, j) OBVIOUS
<1>5. p \in Seq(Byte) /\ Len(p) = j - i + 1 /\ \A r \in 1 .. j - i + 1 : p[r] = e[i + r - 1]
  BY <1>2, <1>3
<1>6. q \in Seq(Byte) /\ Len(q) = j - i + 1 /\ \A r \in 1 .. j - i + 1 : q[r] = d[i + r - 1]
  BY <1>4
<1>7. \A r \in 1 .. j - i + 1 : i + r - 1 \in 1 .. k OBVIOUS
<1>8. \A r \in 1 .. j - i + 1 : p[r] = q[r] BY <1>2, <1>5, <1>6, <1>7, Zenon
<1>9. p = q BY <1>5, <1>6, <1>8, SeqEqual, Zenon
<1>. QED BY <1>1, <1>3, <1>4, <1>9, Zenon

\* The length and the transaction ID of a message.
LEMMA HeaderFields ==
  ASSUME NEW e \in Seq(Byte), Len(e) >= 20
  PROVE  /\ SubSeq(e, 9, 20) \in Seq(Byte) /\ Len(SubSeq(e, 9, 20)) = 12
         /\ Uint16(SubSeq(e, 3, 4)) \in Int
<1>1. \A i \in 1 .. 20 : e[i] \in Byte OBVIOUS
<1>2. SubSeq(e, 9, 20) \in Seq(Byte) /\ Len(SubSeq(e, 9, 20)) = 12
  <2>0. \A i \in 9 .. 20 : i \in 1 .. 20 OBVIOUS
  <2>1. \A i \in 9 .. 20 : e[i] \in Byte BY <1>1, <2>0, Zenon
  <2>2. /\ SubSeq(e, 9, 20) \in Seq(Byte)
        /\ Len(SubSeq(e, 9, 20)) = IF 9 <= 20 THEN 20 - 9 + 1 ELSE 0
    BY <2>1, SubSeqProperties
  <2>. QED BY <2>2
<1>3. PICK s : s = SubSeq(e, 3, 4) OBVIOUS
<1>4. s[1] \in Byte /\ s[2] \in Byte
  <2>0. \A i \in 3 .. 4 : i \in 1 .. 20 OBVIOUS
  <2>1. \A i \in 3 .. 4 : e[i] \in Byte BY <1>1, <2>0, Zenon
  <2>2. \A i \in 1 .. (4 - 3 + 1) : s[i] = e[3 + i - 1] BY <1>3, <2>1, SubSeqProperties
  <2>3. s[1] = e[3] /\ s[2] = e[4] BY <2>2
  <2>. QED BY <1>1, <2>3
<1>5. Uint16(s) \in Int
  <2>1. PICK a, b \in Byte : a = s[1] /\ b = s[2] BY <1>4, Zenon
  <2>2. 256 * a + b \in Int BY SMT DEF Byte
  <2>3. 256 * s[1] + s[2] = 256 * a + b BY <2>1, SMT
  <2>. QED BY <2>2, <2>3, Zenon DEF Uint16
<1>. QED BY <1>2, <1>3, <1>5, Zenon

\* The beginning of a request, if handleMessage takes it for one, has the
\* request's transaction ID and length.
LEMMA RequestOf ==
  ASSUME NEW d \in Seq(Byte), NEW k \in Nat, k <= Len(d), IsBindingRequest(SubSeq(d, 1, k))
  PROVE  /\ Len(d) >= 20 /\ Len(d) >= 20 + Uint16(SubSeq(d, 3, 4))
         /\ SubSeq(SubSeq(d, 1, k), 9, 20) = SubSeq(d, 9, 20)
         /\ SubSeq(d, 9, 20) \in Seq(Byte) /\ Len(SubSeq(d, 9, 20)) = 12
<1>1. PICK n \in Nat : n = Len(d) OBVIOUS
<1>2. PICK e : e = SubSeq(d, 1, k) OBVIOUS
<1>3. /\ Len(e) >= 20 /\ Len(e) >= 20 + Uint16(SubSeq(e, 3, 4)) BY <1>2, Zenon DEF IsBindingRequest
<1>4. e \in Seq(Byte) /\ Len(e) = k BY <1>2
<1>5. k >= 20 /\ n >= 20 BY <1>1, <1>3, <1>4
<1>6. SubSeq(e, 3, 4) = SubSeq(d, 3, 4) /\ SubSeq(e, 9, 20) = SubSeq(d, 9, 20)
  <2>1. 3 \in 1 .. k /\ 4 \in 3 .. k /\ 9 \in 1 .. k /\ 20 \in 9 .. k BY <1>5
  <2>. QED BY <1>2, <2>1, SubSeqOfBeginning, Zenon
<1>7. PICK u \in Int : u = Uint16(SubSeq(d, 3, 4)) BY <1>1, <1>5, HeaderFields, Zenon
<1>8. k >= 20 + u BY <1>3, <1>4, <1>6, <1>7, Zenon
<1>9. n >= 20 + u BY <1>1, <1>8
<1>10. SubSeq(d, 9, 20) \in Seq(Byte) /\ Len(SubSeq(d, 9, 20)) = 12
  BY <1>1, <1>5, HeaderFields, Zenon
<1>. QED BY <1>1, <1>2, <1>5, <1>6, <1>7, <1>9, <1>10, Zenon

\* handleMessage: a request gets its answer, and nothing else is sent.
LEMMA HandleKeeps ==
  ASSUME StunInv, HandleMessage
  PROVE  StunInv'
<1>1. PICK m \in requests : BufferOf(m, buf) BY Zenon DEF StunInv, HandleMessage
<1>2. m \in Datagrams BY <1>1, Zenon DEF StunInv
<1>3. PICK k \in Nat : /\ k <= Len(m.data)
                       /\ buf = [from |-> m.from, data |-> SubSeq(m.data, 1, k)]
  BY <1>1, Zenon DEF BufferOf
<1>4. PICK d \in Seq(Byte) : d = m.data BY <1>2, DatagramFields, Zenon
<1>5. buf.from = m.from /\ buf.data = SubSeq(d, 1, k) BY <1>3, <1>4, Zenon
<1>6. requests' = requests /\ serve' # "handle" BY Zenon DEF HandleMessage
<1>7. ASSUME NEW r \in responses'
      PROVE  /\ MappedAddress(r.data) = {[ip |-> To4(r.to.ip), port |-> r.to.port]}
             /\ \E q \in requests : /\ q.from = r.to
                                    /\ Len(q.data) >= 20
                                    /\ SubSeq(q.data, 9, 20) = SubSeq(r.data, 9, 20)
                                    /\ Len(q.data) >= 20 + Uint16(SubSeq(q.data, 3, 4))
  <2>1. CASE r \in responses BY <2>1, Zenon DEF StunInv, ResponsesTrue
  <2>2. CASE r \notin responses
    <3>1. /\ IsBindingRequest(buf.data)
          /\ r = [to |-> buf.from, data |-> BuildBindingResponse(SubSeq(buf.data, 9, 20), buf.from)]
      BY <1>7, <2>2, Zenon DEF HandleMessage
    <3>2. PICK t : t = SubSeq(d, 9, 20) OBVIOUS
    <3>3. /\ Len(d) >= 20 /\ Len(d) >= 20 + Uint16(SubSeq(d, 3, 4))
          /\ SubSeq(buf.data, 9, 20) = t /\ t \in Seq(Byte) /\ Len(t) = 12
      BY <1>3, <1>4, <1>5, <3>1, <3>2, RequestOf, Zenon
    <3>4. m.from.ip \in Address /\ m.from.port \in Port BY <1>2, DatagramFields, Zenon
    <3>5. r.to = m.from /\ r.data = BuildBindingResponse(t, m.from) BY <1>5, <3>1, <3>3, Zenon
    <3>6. /\ MappedAddress(r.data) = {[ip |-> To4(r.to.ip), port |-> r.to.port]}
          /\ SubSeq(r.data, 9, 20) = t
      BY <3>3, <3>4, <3>5, ResponseMapped, Zenon
    <3>. QED BY <1>4, <3>2, <3>3, <3>5, <3>6, Zenon
  <2>. QED BY <2>1, <2>2
<1>8. ResponsesTrue' BY <1>6, <1>7, Zenon DEF ResponsesTrue
<1>. QED BY <1>6, <1>8, Zenon DEF StunInv

\* The other steps add to the requests, fill the buffer or leave all alone.
LEMMA StunSteps ==
  ASSUME StunInv, [Next]_vars
  PROVE  \/ HandleMessage
         \/ /\ responses' = responses /\ requests \subseteq requests'
            /\ requests' \subseteq Datagrams
            /\ serve' = "handle" => \E m \in requests' : BufferOf(m, buf')
<1>0. CASE UNCHANGED stun BY <1>0, Zenon DEF StunInv, stun
<1>1. CASE UNCHANGED vars BY <1>0, <1>1, Zenon DEF vars
<1>2. CASE Main \/ MainReturns
  <2>1. CASE MainStun BY <1>0, <2>1 DEF MainStun, StartStun, StunInv
  <2>. QED BY <1>0, <1>2, <2>1, Zenon
       DEF Main, MainRelay, MainNotify, MainStart, MainListen, MainExit, MainReturns
<1>3. CASE Stopper
  <2>1. CASE StopStun BY <1>0, <2>1 DEF StopStun, CloseStun, StunInv
  <2>. QED BY <1>0, <1>3, <2>1, Zenon
       DEF Stopper, StopSignal, StopCancel, StopRelay, StopShutdown, StopDrained
<1>4. CASE Accept \/ Accepted \/ Signal \/ RequestBegins \/ RequestEnds
  BY <1>0, <1>4, Zenon DEF Accept, Accepted, Signal, RequestBegins, RequestEnds
<1>5. CASE StunClient
  <2>1. PICK m \in Datagrams : SendRequest(m) BY <1>5, Zenon DEF StunClient
  <2>. QED BY <2>1, Zenon DEF SendRequest, StunInv
<1>6. CASE ServeCheck BY <1>6 DEF ServeCheck, StunInv
<1>7. CASE ServeRead
  <2>1. PICK m \in requests : buf' = [m EXCEPT !.data =
                SubSeq(@, 1, IF Len(@) < BufferSize THEN Len(@) ELSE BufferSize)]
    BY <1>7, Zenon DEF ServeRead
  <2>2. m \in Datagrams BY <2>1, Zenon DEF StunInv
  <2>3. BufferOf(m, buf') BY <2>1, <2>2, ReadBuffer, Zenon
  <2>. QED BY <1>7, <2>1, <2>3, Zenon DEF ServeRead, StunInv
<1>8. CASE ServeTimeout BY <1>8 DEF ServeTimeout, StunInv
<1>9. CASE ServeError BY <1>9 DEF ServeError, StunInv
<1>10. CASE ServeFailed BY <1>10 DEF ServeFailed, StunInv
<1>. QED
  BY <1>1, <1>2, <1>3, <1>4, <1>5, <1>6, <1>7, <1>8, <1>9, <1>10, Zenon DEF Next, StunServe, Serve

\* Every response tells its receiver its own address and port, for whatever
\* datagrams come from whatever addresses, whatever the size of the buffer.
THEOREM StunAnswers == Spec => []ResponsesTrue
<1>1. Init => StunInv
  <2>. SUFFICES ASSUME Init PROVE StunInv OBVIOUS
  <2>1. serve = "none" /\ requests = {} /\ responses = {} BY DEF Init, StunInit
  <2>. QED BY <2>1 DEF StunInv, ResponsesTrue
<1>2. StunInv /\ [Next]_vars => StunInv'
  <2>. SUFFICES ASSUME StunInv, [Next]_vars PROVE StunInv' OBVIOUS
  <2>1. CASE HandleMessage BY <2>1, HandleKeeps, Zenon
  <2>2. CASE /\ responses' = responses /\ requests \subseteq requests'
             /\ requests' \subseteq Datagrams
             /\ serve' = "handle" => \E m \in requests' : BufferOf(m, buf')
    <3>1. ResponsesTrue' BY <2>2, Zenon DEF StunInv, ResponsesTrue
    <3>. QED BY <2>2, <3>1, Zenon DEF StunInv
  <2>. QED BY <2>1, <2>2, StunSteps, Zenon
<1>3. StunInv => ResponsesTrue BY DEF StunInv
<1>. QED BY <1>1, <1>2, <1>3, PTL DEF Spec
=============================================================================
