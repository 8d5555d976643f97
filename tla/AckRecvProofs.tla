----------------------------- MODULE AckRecvProofs -----------------------------
(***************************************************************************)
(* What ack_recv_packet does on a connection that is used the way the game *)
(* client uses it, for every length of its messages and of the session up  *)
(* to the window of ack_cmp.                                               *)
(***************************************************************************)
EXTENDS AckRecv, SequenceTheorems, WellFoundedInduction, TLAPS

\* The session's first datagram comes once, no datagram falls out of the window of
\* ack_cmp, and acks have at most 16 bits.  The channel is any: the theorems hold until a
\* datagram comes ahead of one that is due (early), and AckRecvReorder shows what happens
\* then.
Regular ==
  /\ ~ResendFirst
  /\ MaxDatagrams <= AckWindow /\ AckMod <= 65536

-----------------------------------------------------------------------------
(* The inductive invariant.                                                *)

First(k) == messages[k][1]
Size(k)  == Len(messages[k])
Sent     == IF messages = <<>> THEN FirstAck ELSE First(Len(messages)) + Size(Len(messages))

\* Messages have consecutive ack requests, one after the other.
MessagesInv ==
  /\ messages \in Seq(Seq(Nat))
  /\ \A k \in 1 .. Len(messages) :
       /\ Size(k) \in Sizes
       /\ \A i \in 1 .. Size(k) : messages[k][i] = First(k) + i - 1
       /\ channel = "waiting" => Size(k) = 1
       /\ k = 1 => Size(k) = 1 /\ First(k) = FirstAck
       /\ k > 1 => First(k) = First(k - 1) + Size(k - 1)
       /\ \A j \in 1 .. k - 1 : First(j) + Size(j) <= First(k)
  /\ Sent <= FirstAck + MaxDatagrams

\* The next ack request the server has to receive.
Due == IF received = {} THEN FirstAck ELSE nextAckRequestExpected

\* The network holds datagrams of these messages, and the session's first once,
\* while it is not received.
IsDatagram(d) == \E k \in 1 .. Len(messages) : \E i \in 1 .. Size(k) : d = Datagram(messages[k], i)
Fields == [ackRequest : Nat, fragCount : Nat, hasOpcode : BOOLEAN, isFirst : BOOLEAN]

NetworkInv ==
  /\ network \in Seq(Fields)
  /\ \A j \in 1 .. Len(network) : IsDatagram(network[j])
  /\ \A j \in 1 .. Len(network) : network[j].ackRequest = FirstAck =>
       received = {} /\ \A i \in 1 .. Len(network) : network[i].ackRequest = FirstAck => i = j

\* A client that waits has at most one datagram the server has not got.  Where the order
\* is kept, what the server has not got is under way behind what comes before it.
ChannelInv ==
  /\ channel = "waiting" => Sent <= Due + 1
  /\ channel = "ordered" =>
       /\ \A j \in 1 .. Len(network) : network[j].ackRequest > Due =>
            \E i \in 1 .. j - 1 : network[i].ackRequest = network[j].ackRequest - 1
       /\ \A x \in Due .. Sent - 1 : \E j \in 1 .. Len(network) : network[j].ackRequest = x

\* The ack request of the first datagram after h messages.
Base(h) == IF h = Len(messages) THEN Sent ELSE First(h + 1)

Slots == [ackRequest : Nat, fragCount : Nat, hasOpcode : BOOLEAN]

\* What is handed off is what was sent first; the queue is the beginning of the message
\* that follows, and nothing else.
QueueInv ==
  /\ handedOff \in Seq(Seq(Nat)) /\ Len(handedOff) <= Len(messages)
  /\ \A k \in 1 .. Len(handedOff) : handedOff[k] = messages[k]
  /\ packetQueue \in Seq(Slots) /\ count \in 0 .. Len(packetQueue)
  /\ Due = Base(Len(handedOff)) + count
  /\ count > 0 => Len(handedOff) < Len(messages) /\ count < Size(Len(handedOff) + 1)
  /\ \A i \in 1 .. Len(packetQueue) :
       packetQueue[i] = IF i <= count THEN Slot(Datagram(messages[Len(handedOff) + 1], i)) ELSE Empty

\* What was received, acked and sent as an ack goes up to what is due.
AckInv ==
  /\ received = FirstAck .. Due - 1
  /\ lowestAckInQueue \in Acks /\ lastAckSent \in Acks /\ nextAckRequestExpected \in Acks
  /\ received # {} => lowestAckInQueue = Base(Len(handedOff)) /\ lastAckSent \in FirstAck - 1 .. Due - 1
  /\ received = {} => count = 0 /\ handedOff = <<>> /\ ~readyToSend /\ nextAckRequestExpected = 0
  /\ acked \in 0 .. Due - FirstAck
  /\ readyToSend \in BOOLEAN /\ channel \in Channels

IInv == MessagesInv /\ NetworkInv /\ ChannelInv /\ QueueInv /\ AckInv

\* All of that until a datagram comes early, which only a channel that reorders allows.
UntilEarly == (early => channel = "any") /\ (~early => IInv)

-----------------------------------------------------------------------------
(* Arithmetic of acks, and sequences.                                      *)

\* Division by AckMod, as the provers need it.
LEMMA DivModAck ==
  \A a \in Nat : /\ a % AckMod \in 0 .. AckMod - 1
                 /\ a \div AckMod \in Nat
                 /\ a = AckMod * (a \div AckMod) + (a % AckMod)
  BY AckAssumption

\* The conversion to uint16_t of a value less than two laps.
LEMMA ModTwoLaps ==
  ASSUME NEW a \in Nat, a < 2 * AckMod
  PROVE  a % AckMod = IF a < AckMod THEN a ELSE a - AckMod
<1>1. PICK q \in Nat, r \in 0 .. AckMod - 1 : r = a % AckMod /\ a = AckMod * q + r
  BY DivModAck
<1>2. CASE q = 0  BY <1>1, <1>2, AckAssumption
<1>3. CASE q = 1  BY <1>1, <1>3, AckAssumption
<1>4. CASE q >= 2
  <2>1. AckMod * q >= AckMod * 2  BY <1>1, <1>4, AckAssumption
  <2>2. QED  BY <1>1, <2>1, AckAssumption
<1>5. QED  BY <1>1, <1>2, <1>3, <1>4

\* An ack that is raised and stays below the modulus, as those of a session do.
LEMMA AddSmall ==
  ASSUME NEW a \in Nat, NEW n \in Nat, a + n < AckMod
  PROVE  AckAdd(a, n) = a + n
<1>1. (a + n) % AckMod = a + n  BY ModTwoLaps, AckAssumption
<1>2. QED  BY <1>1 DEF AckAdd

\* An ack that is lowered by no more than it is.
LEMMA SubSmall ==
  ASSUME NEW a \in Acks, NEW n \in Nat, n <= a
  PROVE  AckSub(a, n) = a - n
<1>1. a \in Nat /\ AckMod \in Nat /\ a < AckMod  BY AckAssumption DEF Acks
<1>2. a + AckMod - n \in Nat /\ a + AckMod - n < 2 * AckMod  BY <1>1
<1>3. (a + AckMod - n) % AckMod = a + AckMod - n - AckMod  BY <1>1, <1>2, ModTwoLaps
<1>4. QED  BY <1>1, <1>3 DEF AckSub

\* A datagram that leaves the network.
LEMMA RemoveAtIs ==
  ASSUME NEW S, NEW s \in Seq(S), NEW i \in 1 .. Len(s)
  PROVE  /\ RemoveAt(s, i) \in Seq(S)
         /\ Len(RemoveAt(s, i)) = Len(s) - 1
         /\ \A j \in 1 .. Len(s) - 1 : RemoveAt(s, i)[j] = IF j < i THEN s[j] ELSE s[j + 1]
<1>1. PICK n \in Nat : n = Len(s)  BY LenProperties
<1>2. PICK a : a = SubSeq(s, 1, i - 1)  OBVIOUS
<1>3. PICK b : b = SubSeq(s, i + 1, Len(s))  OBVIOUS
<1>4. a \in Seq(S) /\ Len(a) = i - 1 /\ \A j \in 1 .. i - 1 : a[j] = s[j]
  BY <1>1, <1>2, SubSeqProperties
<1>5. b \in Seq(S) /\ Len(b) = n - i /\ \A j \in 1 .. n - i : b[j] = s[i + j]
  BY <1>1, <1>3, SubSeqProperties
<1>6. RemoveAt(s, i) = a \o b  BY <1>2, <1>3 DEF RemoveAt
<1>7. a \o b \in Seq(S) /\ Len(a \o b) = n - 1  BY <1>1, <1>4, <1>5, SMTT(30)
<1>8. \A j \in 1 .. n - 1 : (a \o b)[j] = IF j < i THEN s[j] ELSE s[j + 1]
  <2> SUFFICES ASSUME NEW j \in 1 .. n - 1
               PROVE  (a \o b)[j] = IF j < i THEN s[j] ELSE s[j + 1]
    OBVIOUS
  <2>1. (a \o b)[j] = IF j <= Len(a) THEN a[j] ELSE b[j - Len(a)]
    BY <1>1, <1>4, <1>5
  <2>2. CASE j < i  BY <1>1, <1>4, <2>1, <2>2
  <2>3. CASE j >= i
    <3>1. (a \o b)[j] = b[j - (i - 1)]  BY <1>1, <1>4, <2>1, <2>3
    <3>2. j - (i - 1) \in 1 .. n - i  BY <1>1, <2>3
    <3>3. b[j - (i - 1)] = s[i + (j - (i - 1))]  BY <1>5, <3>2
    <3>4. i + (j - (i - 1)) = j + 1  BY <1>1
    <3>5. QED  BY <1>1, <2>3, <3>1, <3>3, <3>4
  <2>4. j < i \/ j >= i  BY <1>1
  <2>5. QED  BY <2>2, <2>3, <2>4
<1>9. QED  BY <1>1, <1>6, <1>7, <1>8

-----------------------------------------------------------------------------
(* The client's messages and datagrams.                                    *)

\* Facts about the constants that every step uses.
LEMMA ConstantFacts ==
  /\ FirstAck \in Nat /\ FirstAck >= 1 /\ FirstAck < AckMod
  /\ MaxDatagrams \in Nat /\ FirstAck + MaxDatagrams < AckMod /\ AckMod \in Nat
  /\ AckWindow \in Nat /\ AckMod >= 2 * AckWindow
  /\ \A n \in Sizes : n \in Nat /\ n >= 1
  BY AckAssumption, RecvAssumption DEF Acks

\* The ack requests of the client's messages lie between the first and the next one.
LEMMA MessageFacts ==
  ASSUME MessagesInv
  PROVE  /\ Len(messages) \in Nat
         /\ \A k \in 1 .. Len(messages) :
              /\ Size(k) \in Nat /\ Size(k) >= 1
              /\ First(k) \in Nat /\ FirstAck <= First(k)
              /\ First(k) + Size(k) <= Sent
         /\ Sent \in Nat /\ FirstAck <= Sent /\ Sent < AckMod
         /\ FirstAck + Datagrams(messages) = Sent
<1>1. PICK n \in Nat : n = Len(messages)  BY LenProperties DEF MessagesInv
<1>2. \A k \in 1 .. n : /\ messages[k] \in Seq(Nat) /\ Size(k) \in Nat /\ Size(k) >= 1
                        /\ First(k) \in Nat
  <2> SUFFICES ASSUME NEW k \in 1 .. n
               PROVE  /\ messages[k] \in Seq(Nat) /\ Size(k) \in Nat /\ Size(k) >= 1
                      /\ First(k) \in Nat
    OBVIOUS
  <2>1. messages[k] \in Seq(Nat)  BY <1>1, ElementOfSeq DEF MessagesInv
  <2>2. Size(k) \in Nat /\ Size(k) >= 1  BY <1>1, ConstantFacts DEF MessagesInv
  <2>3. 1 \in 1 .. Len(messages[k])  BY <2>2 DEF Size
  <2>4. messages[k][1] \in Nat  BY <2>1, <2>3, ElementOfSeq
  <2>5. QED  BY <2>1, <2>2, <2>4 DEF First
<1>3. \A k \in 1 .. n : FirstAck <= First(k)
  <2> SUFFICES ASSUME NEW k \in 1 .. n PROVE FirstAck <= First(k)  OBVIOUS
  <2>1. CASE k = 1  BY <1>1, <2>1, ConstantFacts DEF MessagesInv
  <2>2. CASE k > 1
    <3>1. 1 \in 1 .. n /\ 1 \in 1 .. k - 1  BY <1>1, <2>2
    <3>2. First(1) = FirstAck /\ First(1) + Size(1) <= First(k)  BY <1>1, <3>1 DEF MessagesInv
    <3>3. QED  BY <1>2, <3>1, <3>2, ConstantFacts
  <2>3. QED  BY <1>1, <2>1, <2>2
<1>4. CASE n = 0
  <2>1. messages = <<>>  BY <1>1, <1>4, EmptySeq DEF MessagesInv
  <2>2. Sent = FirstAck /\ Datagrams(messages) = 0  BY <2>1 DEF Sent, Datagrams
  <2>3. QED  BY <1>1, <1>4, <2>2, ConstantFacts
<1>5. CASE n > 0
  <2>1. messages # <<>>  BY <1>1, <1>5
  <2>2. Sent = First(n) + Size(n)  BY <1>1, <2>1 DEF Sent
  <2>3. n \in 1 .. n  BY <1>1, <1>5
  <2>4. messages[n][Size(n)] = First(n) + Size(n) - 1
    <3>1. Size(n) \in 1 .. Size(n)  BY <1>2, <2>3
    <3>2. QED  BY <1>1, <2>3, <3>1 DEF MessagesInv
  <2>5. Datagrams(messages) = First(n) + Size(n) - 1 - FirstAck + 1
    <3>1. Datagrams(messages) = messages[n][Size(n)] - FirstAck + 1
      BY <1>1, <2>1, Zenon DEF Datagrams, Last, Size
    <3>2. PICK x : x = messages[n][Size(n)]  OBVIOUS
    <3>3. x = First(n) + Size(n) - 1 /\ Datagrams(messages) = x - FirstAck + 1  BY <2>4, <3>1, <3>2
    <3>4. First(n) \in Nat /\ Size(n) \in Nat  BY <1>2, <2>3
    <3>5. QED  BY <3>3, <3>4, ConstantFacts
  <2>6. FirstAck + Datagrams(messages) = Sent  BY <1>2, <2>2, <2>3, <2>5, ConstantFacts
  <2>7. \A k \in 1 .. n : First(k) + Size(k) <= Sent
    <3> SUFFICES ASSUME NEW k \in 1 .. n PROVE First(k) + Size(k) <= Sent  OBVIOUS
    <3>1. CASE k = n  BY <1>2, <2>2, <2>3, <3>1
    <3>2. CASE k < n
      <4>1. k \in 1 .. n - 1  BY <1>1, <3>2
      <4>2. First(k) + Size(k) <= First(n)  BY <1>1, <2>3, <4>1 DEF MessagesInv
      <4>3. QED  BY <1>2, <2>2, <2>3, <4>2
    <3>3. QED  BY <1>1, <3>1, <3>2
  <2>8. Sent \in Nat /\ FirstAck <= Sent  BY <1>2, <1>3, <2>2, <2>3, ConstantFacts
  <2>9. Sent < AckMod  BY <2>8, ConstantFacts DEF MessagesInv
  <2>10. QED  BY <1>1, <1>2, <1>3, <2>6, <2>7, <2>8, <2>9
<1>6. QED  BY <1>1, <1>4, <1>5

\* The fields of a datagram, from its message and its place there.
LEMMA DatagramIs ==
  ASSUME MessagesInv, NEW k \in 1 .. Len(messages), NEW i \in 1 .. Size(k)
  PROVE  /\ Datagram(messages[k], i) \in Fields
         /\ Datagram(messages[k], i).ackRequest = First(k) + i - 1
         /\ Datagram(messages[k], i).fragCount = IF Size(k) = 1 THEN 0 ELSE Size(k)
         /\ Datagram(messages[k], i).hasOpcode = (i = 1)
         /\ Datagram(messages[k], i).isFirst = (First(k) + i - 1 = FirstAck)
         /\ First(k) + i - 1 \in FirstAck .. Sent - 1
<1>1. /\ Size(k) \in Nat /\ First(k) \in Nat /\ FirstAck <= First(k)
      /\ First(k) + Size(k) <= Sent /\ Sent \in Nat
  BY MessageFacts
<1>2. messages[k][i] = First(k) + i - 1  BY DEF MessagesInv
<1>3. First(k) + i - 1 \in FirstAck .. Sent - 1 /\ First(k) + i - 1 \in Nat  BY <1>1, ConstantFacts
<1>4. PICK f : f = IF Size(k) = 1 THEN 0 ELSE Size(k)  OBVIOUS
<1>5. PICK x : x = First(k) + i - 1  OBVIOUS
<1>6. Datagram(messages[k], i) = [ackRequest |-> x, fragCount |-> f, hasOpcode |-> i = 1,
                                  isFirst |-> x = FirstAck]
  BY <1>2, <1>4, <1>5 DEF Datagram, Size
<1>7. f \in Nat /\ x \in Nat  BY <1>1, <1>3, <1>4, <1>5
<1>8. QED  BY <1>3, <1>4, <1>5, <1>6, <1>7 DEF Fields

\* Where a message ends, the next one begins.
LEMMA BaseIs ==
  ASSUME MessagesInv, NEW h \in 0 .. Len(messages)
  PROVE  /\ Base(h) \in Nat /\ FirstAck <= Base(h) /\ Base(h) <= Sent
         /\ h < Len(messages) => /\ Base(h) = First(h + 1)
                                 /\ Base(h + 1) = First(h + 1) + Size(h + 1)
         /\ h = Len(messages) => Base(h) = Sent
<1>1. PICK n \in Nat : n = Len(messages)  BY LenProperties DEF MessagesInv
<1>2. CASE h = n  BY <1>1, <1>2, MessageFacts DEF Base
<1>3. CASE h < n
  <2>1. h + 1 \in 1 .. n  BY <1>1, <1>3
  <2>2. /\ Size(h + 1) \in Nat /\ Size(h + 1) >= 1 /\ First(h + 1) \in Nat
        /\ FirstAck <= First(h + 1) /\ First(h + 1) + Size(h + 1) <= Sent /\ Sent \in Nat
    BY <1>1, <2>1, MessageFacts
  <2>3. Base(h) = First(h + 1)  BY <1>1, <1>3 DEF Base
  <2>4. CASE h + 1 = n
    <3>1. Base(h + 1) = Sent  BY <1>1, <2>4 DEF Base
    <3>2. messages # <<>>  BY <1>1, <2>1
    <3>3. Sent = First(h + 1) + Size(h + 1)  BY <1>1, <2>4, <3>2 DEF Sent
    <3>4. QED  BY <1>1, <1>3, <2>2, <2>3, <3>1, <3>3, ConstantFacts
  <2>5. CASE h + 1 < n
    <3>1. h + 2 \in 1 .. n /\ h + 2 > 1 /\ h + 2 - 1 = h + 1  BY <1>1, <2>5
    <3>2. First(h + 2) = First(h + 2 - 1) + Size(h + 2 - 1)  BY <1>1, <3>1 DEF MessagesInv
    <3>3. Base(h + 1) = First(h + 1 + 1)  BY <1>1, <2>5 DEF Base
    <3>4. h + 1 + 1 = h + 2  BY <1>1
    <3>5. QED  BY <1>1, <1>3, <2>2, <2>3, <3>1, <3>2, <3>3, <3>4, ConstantFacts
  <2>6. QED  BY <1>1, <2>1, <2>4, <2>5
<1>4. QED  BY <1>1, <1>2, <1>3

-----------------------------------------------------------------------------
(* The scan of the queue.                                                  *)

\* A set of turns has a first one.
LEMMA LeastElement ==
  ASSUME NEW T, T \subseteq Nat, T # {}
  PROVE  \E x \in T : \A y \in T : x <= y
<1>1. PICK R : R = OpToRel(<, Nat)  OBVIOUS
<1>2. IsWellFoundedOn(R, Nat)  BY <1>1, NatLessThanWellFounded
<1>3. PICK x \in T : \A y \in T : ~(<<y, x>> \in R)  BY <1>2, WFMin
<1>4. \A a, b \in Nat : a < b => <<a, b>> \in R  BY <1>1 DEF OpToRel
<1>5. \A y \in T : ~(y < x)
  <2>1. x \in Nat /\ \A y \in T : y \in Nat  OBVIOUS
  <2>2. QED  BY <1>3, <1>4, <2>1, Zenon
<1>6. QED  BY <1>5

\* The states of the scan, turn by turn.
IsRun(f, q, n, base, turns) ==
  f = [k \in 0 .. turns |-> IF k = 0 THEN base ELSE ScanOne(q, n, f[k - 1])]

\* The loop of the scan has a sequence of states: by the least number of turns without one.
LEMMA ScanRuns ==
  ASSUME NEW q, NEW n, NEW base, NEW turns \in Nat
  PROVE  \E f : IsRun(f, q, n, base, turns)
<1> DEFINE Runs(m) == \E f : f = [k \in 0 .. m |-> IF k = 0 THEN base ELSE ScanOne(q, n, f[k - 1])]
<1>1. Runs(0)
  <2>1. PICK f : f = [k \in 0 .. 0 |-> base]  OBVIOUS
  <2>2. f = [k \in 0 .. 0 |-> IF k = 0 THEN base ELSE ScanOne(q, n, f[k - 1])]
    <3>1. \A k \in 0 .. 0 : base = IF k = 0 THEN base ELSE ScanOne(q, n, f[k - 1])  OBVIOUS
    <3>2. QED  BY <2>1, <3>1
  <2>3. QED  BY <2>2
<1>2. ASSUME NEW m \in Nat, Runs(m) PROVE Runs(m + 1)
  <2>1. PICK f : f = [k \in 0 .. m |-> IF k = 0 THEN base ELSE ScanOne(q, n, f[k - 1])]  BY <1>2
  <2>2. PICK g : g = [k \in 0 .. m + 1 |-> IF k = 0 THEN base ELSE ScanOne(q, n, f[k - 1])]  OBVIOUS
  <2>3. \A k \in 0 .. m : g[k] = f[k]
    <3> SUFFICES ASSUME NEW k \in 0 .. m PROVE g[k] = f[k]  OBVIOUS
    <3>1. k \in 0 .. m + 1  OBVIOUS
    <3>2. g[k] = IF k = 0 THEN base ELSE ScanOne(q, n, f[k - 1])  BY <2>2, <3>1
    <3>3. f[k] = IF k = 0 THEN base ELSE ScanOne(q, n, f[k - 1])  BY <2>1
    <3>4. QED  BY <3>2, <3>3
  <2>4. \A k \in 0 .. m + 1 : k # 0 => f[k - 1] = g[k - 1]
    <3> SUFFICES ASSUME NEW k \in 0 .. m + 1, k # 0 PROVE f[k - 1] = g[k - 1]  OBVIOUS
    <3>1. k - 1 \in 0 .. m  OBVIOUS
    <3>2. QED  BY <2>3, <3>1
  <2>5. \A k \in 0 .. m + 1 : (IF k = 0 THEN base ELSE ScanOne(q, n, f[k - 1]))
                              = IF k = 0 THEN base ELSE ScanOne(q, n, g[k - 1])
    BY <2>4, Zenon
  <2>6. g = [k \in 0 .. m + 1 |-> IF k = 0 THEN base ELSE ScanOne(q, n, g[k - 1])]  BY <2>2, <2>5
  <2>7. QED  BY <2>6
<1>3. PICK T : T = {m \in Nat : ~Runs(m)}  OBVIOUS
<1>4. ASSUME T # {} PROVE FALSE
  <2>1. T \subseteq Nat  BY <1>3
  <2>2. PICK m \in T : \A y \in T : m <= y  BY <1>4, <2>1, LeastElement
  <2>3. m \in Nat /\ ~Runs(m)  BY <1>3
  <2>4. m # 0  BY <1>1, <2>3
  <2>5. PICK h \in Nat : m = h + 1  BY <2>3, <2>4
  <2>6. h \notin T  BY <2>2, <2>5
  <2>7. Runs(h)  BY <1>3, <2>6
  <2>8. QED  BY <1>2, <2>3, <2>5, <2>7
<1>5. turns \notin T  BY <1>4
<1>6. Runs(turns)  BY <1>3, <1>5
<1>7. QED  BY <1>6, Zenon DEF IsRun

\* The state of the scan after each turn is what one turn makes of the state before it.
Unrolls(f, q, n, base, scan) ==
  /\ scan = f[n] /\ f[0] = base
  /\ \A k \in 0 .. n : k # 0 => f[k] = ScanOne(q, n, f[k - 1])

\* The scan of ack_recv_packet is the last of such a sequence.
LEMMA ScanUnrolls ==
  ASSUME NEW q, NEW n \in Nat, NEW lowest, NEW expected
  PROVE  \E f : Unrolls(f, q, n, ScanStart(lowest, expected), Scan(q, n, lowest, expected))
<1>1. PICK base : base = ScanStart(lowest, expected)  OBVIOUS
<1>2. PICK f : f = CHOOSE g : g = [k \in 0 .. n |-> IF k = 0 THEN base ELSE ScanOne(q, n, g[k - 1])]
  OBVIOUS
<1>3. f = [k \in 0 .. n |-> IF k = 0 THEN base ELSE ScanOne(q, n, f[k - 1])]
  <2>1. \E g : IsRun(g, q, n, base, n)  BY ScanRuns
  <2>2. QED  BY <1>2, <2>1, Zenon DEF IsRun
<1>4. Scan(q, n, lowest, expected) = f[n]  BY <1>1, <1>2, Zenon DEF Scan
<1>5. \A k \in 0 .. n : f[k] = IF k = 0 THEN base ELSE ScanOne(q, n, f[k - 1])  BY <1>3
<1>6. 0 \in 0 .. n  OBVIOUS
<1>7. QED  BY <1>1, <1>4, <1>5, <1>6, Zenon DEF Unrolls

\* The first n slots are the beginning of one fragmented message, from ack request x on.
Fragments(q, n, x, size) ==
  \A i \in 1 .. n : q[i].ackRequest = x + i - 1 /\ q[i].fragCount = size /\ (i = 1 => q[i].hasOpcode)

\* A message that is not complete stays in the queue: the scan stops at its first slot.
LEMMA ScanPartial ==
  ASSUME NEW q, NEW n \in Nat \ {0}, NEW lowest, NEW expected, NEW x \in Nat \ {0}, NEW size \in Nat,
         Fragments(q, n, x, size), n < size
  PROVE  Scan(q, n, lowest, expected) = ScanStart(lowest, expected)
<1>1. PICK base : base = ScanStart(lowest, expected)  OBVIOUS
<1>2. base.i = 1  BY <1>1 DEF ScanStart
<1>3. q[1].fragCount = size
  <2>1. 1 \in 1 .. n  OBVIOUS
  <2>2. QED  BY <2>1 DEF Fragments
<1>4. ScanOne(q, n, base) = base  BY <1>2, <1>3 DEF ScanOne
<1>5. PICK f : /\ Scan(q, n, lowest, expected) = f[n] /\ f[0] = base
               /\ \A k \in 0 .. n : k # 0 => f[k] = ScanOne(q, n, f[k - 1])
  <2>1. PICK f : Unrolls(f, q, n, base, Scan(q, n, lowest, expected))  BY <1>1, ScanUnrolls
  <2>2. QED  BY <2>1, Zenon DEF Unrolls
<1>6. PICK T : T = {k \in 0 .. n : f[k] # base}  OBVIOUS
<1>7. ASSUME T # {} PROVE FALSE
  <2>1. T \subseteq Nat  BY <1>6
  <2>2. PICK m \in T : \A y \in T : m <= y  BY <1>7, <2>1, LeastElement
  <2>3. m \in 0 .. n /\ f[m] # base /\ m # 0  BY <1>5, <1>6
  <2>4. PICK h \in 0 .. n : h = m - 1 /\ h < m  BY <2>3
  <2>5. f[h] = base  BY <1>6, <2>2, <2>3, <2>4
  <2>6. f[m] = ScanOne(q, n, f[h])  BY <1>5, <2>3, <2>4
  <2>7. QED  BY <1>4, <2>3, <2>5, <2>6
<1>8. n \in 0 .. n  OBVIOUS
<1>9. f[n] = base  BY <1>6, <1>7, <1>8
<1>10. QED  BY <1>1, <1>5, <1>9

\* The scan after k slots of a message that goes on.
ScanAt(k, x, lowest, expected) ==
  [i |-> k + 1, frags |-> k, diff |-> 0, nextAck |-> IF k = 0 THEN expected ELSE x + k - 1,
   lowest |-> lowest, out |-> <<>>]

\* The scan after the last of the n slots of a message, which is handed off.
ScanDone(n, x) ==
  [i |-> n + 1, frags |-> 0, diff |-> n, nextAck |-> x + n - 1, lowest |-> AckAdd(x + n - 1, 1),
   out |-> <<[j \in 1 .. n |-> x + j - 1]>>]

\* A message that is complete is handed off whole.
LEMMA ScanWhole ==
  ASSUME NEW q, NEW n \in Nat \ {0}, NEW lowest, NEW expected, NEW x \in Nat \ {0},
         Fragments(q, n, x, n)
  PROVE  Scan(q, n, lowest, expected) = ScanDone(n, x)
<1> DEFINE At(k) == ScanAt(k, x, lowest, expected)
<1>1. PICK f : /\ Scan(q, n, lowest, expected) = f[n] /\ f[0] = ScanStart(lowest, expected)
               /\ \A k \in 0 .. n : k # 0 => f[k] = ScanOne(q, n, f[k - 1])
  <2>1. PICK f : Unrolls(f, q, n, ScanStart(lowest, expected), Scan(q, n, lowest, expected))
    BY ScanUnrolls
  <2>2. QED  BY <2>1, Zenon DEF Unrolls
<1>2. f[0] = At(0)  BY <1>1 DEF ScanStart, ScanAt
<1>3. ASSUME NEW k \in Nat, k + 1 < n PROVE ScanOne(q, n, At(k)) = At(k + 1)
  <2>1. PICK w : w = At(k)  OBVIOUS
  <2>2. w.i = k + 1 /\ w.frags = k /\ w.diff = 0 /\ w.lowest = lowest /\ w.out = <<>>
    BY <2>1 DEF ScanAt
  <2>3. k + 1 \in 1 .. n  BY <1>3
  <2>4. q[k + 1].ackRequest = x + k /\ q[k + 1].fragCount = n
    <3>1. q[k + 1].ackRequest = x + (k + 1) - 1 /\ q[k + 1].fragCount = n  BY <2>3 DEF Fragments
    <3>2. QED  BY <3>1
  <2>5. x + k # 0 /\ ~(n > n) /\ n # 0 /\ k + 1 # n  BY <1>3
  <2>6. ScanOne(q, n, w) = [i |-> w.i + 1, frags |-> w.frags + 1, diff |-> w.diff,
                            nextAck |-> q[w.i].ackRequest, lowest |-> w.lowest, out |-> w.out]
    BY <2>2, <2>4, <2>5 DEF ScanOne
  <2>7. w.i + 1 = k + 2 /\ w.frags + 1 = k + 1  BY <2>2
  <2>8. At(k + 1) = [i |-> k + 2, frags |-> k + 1, diff |-> 0, nextAck |-> x + k, lowest |-> lowest, out |-> <<>>]
    BY DEF ScanAt
  <2>9. QED  BY <2>1, <2>2, <2>4, <2>6, <2>7, <2>8, Zenon
<1> HIDE DEF At
<1>4. PICK T : T = {k \in 0 .. n - 1 : f[k] # At(k)}  OBVIOUS
<1>5. ASSUME T # {} PROVE FALSE
  <2>1. T \subseteq Nat  BY <1>4
  <2>2. PICK m \in T : \A y \in T : m <= y  BY <1>5, <2>1, LeastElement
  <2>3. m \in 0 .. n - 1 /\ f[m] # At(m) /\ m # 0  BY <1>2, <1>4
  <2>4. PICK h \in Nat : h = m - 1 /\ h + 1 = m /\ h + 1 < n /\ h \in 0 .. n - 1  BY <2>3
  <2>5. f[h] = At(h)  BY <1>4, <2>2, <2>3, <2>4
  <2>6. f[m] = ScanOne(q, n, f[h])  BY <1>1, <2>3, <2>4
  <2>7. ScanOne(q, n, At(h)) = At(h + 1)  BY <1>3, <2>4
  <2>8. QED  BY <2>3, <2>4, <2>5, <2>6, <2>7
<1>6. PICK k \in Nat : k = n - 1  OBVIOUS
<1>7. f[k] = At(k)  BY <1>4, <1>5, <1>6
<1>8. f[n] = ScanOne(q, n, At(k))  BY <1>1, <1>6, <1>7
<1>9. PICK w : w = At(k)  OBVIOUS
<1>10. w.i = n /\ w.frags + 1 = n /\ w.diff = 0 /\ w.out = <<>>  BY <1>6, <1>9 DEF At, ScanAt
<1>11. q[n].ackRequest = x + n - 1 /\ q[n].fragCount = n  BY DEF Fragments
<1>12. x + n - 1 # 0 /\ ~(n > n) /\ n # 0  OBVIOUS
<1>13. ScanOne(q, n, w) = Completes(q, w, n)  BY <1>10, <1>11, <1>12 DEF ScanOne
<1>14. Completed(q, 1, n) = <<[j \in 1 .. n |-> x + j - 1]>>
  <2>1. q[1].hasOpcode  BY DEF Fragments
  <2>2. \A j \in 1 .. n : q[1 + j - 1].ackRequest = x + j - 1
    <3> SUFFICES ASSUME NEW j \in 1 .. n PROVE q[1 + j - 1].ackRequest = x + j - 1  OBVIOUS
    <3>1. 1 + j - 1 = j  OBVIOUS
    <3>2. QED  BY <3>1 DEF Fragments
  <2>3. n - 1 + 1 = n  OBVIOUS
  <2>4. [j \in 1 .. n |-> q[1 + j - 1].ackRequest] = [j \in 1 .. n |-> x + j - 1]  BY <2>2
  <2>5. QED  BY <2>1, <2>3, <2>4, Zenon DEF Completed
<1>15. PICK m : m = [j \in 1 .. n |-> x + j - 1]  OBVIOUS
<1>16. w.i - n + 1 = 1 /\ w.diff + n = n /\ w.i + 1 = n + 1  BY <1>10
<1>17. <<>> \o <<m>> = <<m>>  OBVIOUS
<1>18. PICK v : v = AckAdd(x + n - 1, 1)  OBVIOUS
<1>19. Completes(q, w, n) = [i |-> n + 1, frags |-> 0, diff |-> n, nextAck |-> x + n - 1, lowest |-> v,
                             out |-> <<m>>]
  BY <1>10, <1>11, <1>12, <1>14, <1>15, <1>16, <1>17, <1>18, Zenon DEF Completes
<1>20. QED  BY <1>1, <1>8, <1>9, <1>13, <1>15, <1>18, <1>19 DEF ScanDone

-----------------------------------------------------------------------------
(* The steps.                                                              *)

\* What is due lies between the session's first ack request and the client's next.
LEMMA DueFacts ==
  ASSUME IInv
  PROVE  /\ Due \in Nat /\ FirstAck <= Due /\ Due <= Sent /\ Due < AckMod
         /\ Len(handedOff) \in 0 .. Len(messages) /\ count \in Nat
         /\ received = {} <=> Due = FirstAck
         /\ Due < Sent => Len(handedOff) < Len(messages)
<1>1. MessagesInv /\ QueueInv /\ AckInv  BY DEF IInv
<1>2. Len(handedOff) \in 0 .. Len(messages)
  BY <1>1, LenProperties DEF QueueInv, MessagesInv
<1>3. PICK h \in Nat : h = Len(handedOff) /\ h \in 0 .. Len(messages)  BY <1>2, MessageFacts, <1>1
<1>4. PICK b \in Nat : b = Base(h) /\ FirstAck <= b /\ b <= Sent  BY <1>1, <1>3, BaseIs
<1>5. count \in Nat
  <2>1. Len(packetQueue) \in Nat  BY <1>1, LenProperties DEF QueueInv
  <2>2. QED  BY <1>1, <2>1 DEF QueueInv
<1>6. Due = b + count  BY <1>1, <1>3, <1>4 DEF QueueInv
<1>7. Due \in Nat /\ FirstAck <= Due  BY <1>4, <1>5, <1>6, ConstantFacts
<1>8. Due <= Sent /\ (Due < Sent => h < Len(messages))
  <2>1. CASE count = 0
    <3>1. h = Len(messages) => b = Sent  BY <1>1, <1>3, <1>4, BaseIs
    <3>2. Sent \in Nat /\ Len(messages) \in Nat  BY <1>1, MessageFacts
    <3>3. QED  BY <1>3, <1>4, <1>6, <2>1, <3>1, <3>2
  <2>2. CASE count > 0
    <3>1. h < Len(messages) /\ count < Size(h + 1)  BY <1>1, <1>3, <2>2 DEF QueueInv
    <3>2. h + 1 \in 1 .. Len(messages)  BY <1>1, <1>3, <3>1, MessageFacts
    <3>3. /\ Size(h + 1) \in Nat /\ First(h + 1) \in Nat /\ First(h + 1) + Size(h + 1) <= Sent
          /\ Sent \in Nat
      BY <1>1, <3>2, MessageFacts
    <3>4. b = First(h + 1)  BY <1>1, <1>3, <1>4, <3>1, BaseIs
    <3>5. QED  BY <1>5, <1>6, <3>1, <3>3, <3>4
  <2>3. QED  BY <1>5, <2>1, <2>2
<1>9. received = {} <=> Due = FirstAck
  <2>1. received = {} => Due = FirstAck  BY DEF Due
  <2>2. received = FirstAck .. Due - 1  BY <1>1 DEF AckInv
  <2>3. Due = FirstAck => received = {}  BY <2>2, ConstantFacts
  <2>4. QED  BY <2>1, <2>3
<1>10. Due < AckMod  BY <1>1, <1>7, <1>8, MessageFacts, ConstantFacts
<1>11. QED  BY <1>2, <1>3, <1>5, <1>7, <1>8, <1>9, <1>10

\* ack_init
LEMMA InitIInv == Init => IInv
<1> SUFFICES ASSUME Init PROVE IInv  OBVIOUS
<1>1. messages = <<>> /\ network = <<>> /\ received = {} /\ handedOff = <<>> /\ packetQueue = <<>>
  BY DEF Init
<1>2. Len(<<>>) = 0  OBVIOUS
<1>3. Sent = FirstAck /\ Due = FirstAck  BY <1>1 DEF Sent, Due
<1>4. MessagesInv  BY <1>1, <1>2, <1>3, ConstantFacts DEF MessagesInv
<1>5. NetworkInv  BY <1>1, <1>2 DEF NetworkInv
<1>6. ChannelInv  BY <1>1, <1>2, <1>3, ConstantFacts DEF ChannelInv
<1>7. Base(0) = FirstAck  BY <1>1, <1>2, <1>3 DEF Base
<1>8. QueueInv  BY <1>1, <1>2, <1>3, <1>7, ConstantFacts DEF QueueInv, Init
<1>9. AckInv
  <2>1. received = FirstAck .. Due - 1  BY <1>1, <1>3, ConstantFacts
  <2>2. lowestAckInQueue \in Acks /\ lastAckSent \in Acks /\ nextAckRequestExpected \in Acks
    BY RecvAssumption, AckAssumption DEF Init, Acks
  <2>3. acked \in 0 .. Due - FirstAck  BY <1>3, ConstantFacts DEF Init
  <2>4. /\ count = 0 /\ ~readyToSend /\ readyToSend \in BOOLEAN /\ channel \in Channels
        /\ nextAckRequestExpected = 0
    BY DEF Init
  <2>5. QED  BY <1>1, <2>1, <2>2, <2>3, <2>4 DEF AckInv
<1>10. QED  BY <1>4, <1>5, <1>6, <1>8, <1>9 DEF IInv

\* What the server's and the client's acks do not touch.
LEMMA MessagesKept ==
  ASSUME UNCHANGED <<messages, channel>>
  PROVE  /\ MessagesInv => MessagesInv'
         /\ Sent' = Sent
         /\ \A h : Base(h)' = Base(h)
         /\ \A k : First(k)' = First(k) /\ Size(k)' = Size(k)
         /\ \A d : IsDatagram(d)' <=> IsDatagram(d)
  BY DEF MessagesInv, Sent, Base, First, Size, IsDatagram

\* An ack response goes out: udp_thread_send_keep_alive_acks or ack_send_queued_packets.
LEMMA AckStep ==
  ASSUME IInv, KeepAlive \/ SendCycle
  PROVE  IInv'
<1>1. /\ UNCHANGED <<nextAckRequestExpected, lowestAckInQueue, count, packetQueue, handedOff, channel,
                     messages, network, received>>
      /\ lastAckSent' = AckSub(nextAckRequestExpected, 1)
      /\ readyToSend' \in {readyToSend, FALSE}
  BY DEF KeepAlive, SendCycle
<1>2. MessagesInv /\ NetworkInv /\ ChannelInv /\ QueueInv /\ AckInv  BY DEF IInv
<1>3. received # {}  BY <1>2 DEF KeepAlive, SendCycle, AckInv
<1>4. Due = nextAckRequestExpected  BY <1>3 DEF Due
<1>5. PICK e \in Nat : e = Due /\ FirstAck < e /\ e < AckMod
  <2>1. Due \in Nat /\ FirstAck <= Due /\ Due < AckMod /\ Due # FirstAck  BY <1>3, DueFacts
  <2>2. QED  BY <2>1, ConstantFacts
<1>6. AckSub(nextAckRequestExpected, 1) = e - 1 /\ e - 1 \in Acks
  <2>1. e \in Acks /\ 1 <= e  BY <1>5, ConstantFacts DEF Acks
  <2>2. AckSub(e, 1) = e - 1  BY <2>1, SubSmall
  <2>3. QED  BY <1>4, <1>5, <2>1, <2>2, ConstantFacts DEF Acks
<1>7. Covers(e - 1) = e - FirstAck
  <2>1. e - 1 \in Nat /\ e - 1 + 1 = e /\ e \in Acks /\ FirstAck \in Nat /\ FirstAck <= e
    BY <1>5, ConstantFacts DEF Acks
  <2>2. AckAdd(e - 1, 1) = e  BY <1>5, <2>1, AddSmall
  <2>3. AckSub(e, FirstAck) = e - FirstAck  BY <2>1, SubSmall
  <2>4. QED  BY <2>2, <2>3 DEF Covers
<1>8. acked' \in {acked, e - FirstAck}
  <2>1. Respond(e - 1) \/ acked' = acked  BY <1>6 DEF KeepAlive, SendCycle
  <2>2. QED  BY <1>7, <2>1 DEF Respond
<1>9. Due' = Due  BY <1>1 DEF Due
<1>10. MessagesInv' /\ Sent' = Sent /\ (\A h : Base(h)' = Base(h)) /\ (\A d : IsDatagram(d)' <=> IsDatagram(d))
  BY <1>1, <1>2, MessagesKept
<1>11. NetworkInv'  BY <1>1, <1>2, <1>10 DEF NetworkInv
<1>12. ChannelInv'  BY <1>1, <1>2, <1>9, <1>10 DEF ChannelInv
<1>13. QueueInv'  BY <1>1, <1>2, <1>9, <1>10 DEF QueueInv, Size
<1>14. AckInv'
  <2>1. received' = FirstAck .. Due' - 1  BY <1>1, <1>2, <1>9 DEF AckInv
  <2>2. lastAckSent' \in Acks /\ lastAckSent' \in FirstAck - 1 .. Due' - 1
    BY <1>1, <1>5, <1>6, <1>9, ConstantFacts
  <2>3. lowestAckInQueue' = Base(Len(handedOff))'
    BY <1>1, <1>2, <1>3, <1>10 DEF AckInv
  <2>4. acked' \in 0 .. Due' - FirstAck
    BY <1>2, <1>5, <1>8, <1>9, ConstantFacts DEF AckInv
  <2>5. readyToSend' \in BOOLEAN  BY <1>1, <1>2 DEF AckInv
  <2>6. QED  BY <1>1, <1>2, <1>3, <2>1, <2>2, <2>3, <2>4, <2>5 DEF AckInv
<1>15. QED  BY <1>10, <1>11, <1>12, <1>13, <1>14 DEF IInv

\* The client sends its next message: its ack requests are the next ones.
LEMMA SendAddsMessage ==
  ASSUME IInv, NEW n \in Sizes, ClientSend(n), NEW c \in Nat, c = Len(messages)
  PROVE  /\ MessagesInv'
         /\ Len(messages') = c + 1 /\ messages' \in Seq(Seq(Nat))
         /\ \A k \in 1 .. c : messages'[k] = messages[k] /\ First(k)' = First(k) /\ Size(k)' = Size(k)
         /\ First(c + 1)' = Sent /\ Size(c + 1)' = n
         /\ Sent' = Sent + n
         /\ \A i \in 1 .. n : messages'[c + 1][i] = Sent + i - 1
<1>1. MessagesInv  BY DEF IInv
<1>2. c \in Nat /\ c = Len(messages)  OBVIOUS
<1>3. n \in Nat /\ n >= 1  BY ConstantFacts
<1>4. PICK s \in Nat : s = Sent /\ FirstAck <= s  BY <1>1, MessageFacts
<1>5. Datagrams(messages) = s - FirstAck
  <2>1. FirstAck + Datagrams(messages) = Sent  BY <1>1, MessageFacts
  <2>2. Datagrams(messages) \in Int
    <3>1. CASE messages = <<>>  BY <3>1 DEF Datagrams
    <3>2. CASE messages # <<>>
      <4>1. c \in 1 .. c /\ c > 0  BY <1>1, <1>2, <3>2, EmptySeq DEF MessagesInv
      <4>2. Size(c) \in Nat /\ Size(c) >= 1  BY <1>1, <1>2, <4>1, MessageFacts
      <4>3. messages[c] \in Seq(Nat)  BY <1>1, <1>2, <4>1, ElementOfSeq DEF MessagesInv
      <4>4. messages[c][Len(messages[c])] \in Nat  BY <4>2, <4>3, ElementOfSeq DEF Size
      <4>5. Datagrams(messages) = messages[c][Len(messages[c])] - FirstAck + 1
        BY <1>2, <3>2, Zenon DEF Datagrams, Last
      <4>6. QED  BY <4>4, <4>5, ConstantFacts
    <3>3. QED  BY <3>1, <3>2
  <2>3. QED  BY <1>4, <2>1, <2>2, ConstantFacts
<1>6. PICK m : m = [i \in 1 .. n |-> FirstAck + Datagrams(messages) + i - 1]  OBVIOUS
<1>7. \A i \in 1 .. n : FirstAck + Datagrams(messages) + i - 1 = s + i - 1 /\ s + i - 1 \in Nat
  BY <1>3, <1>4, <1>5, ConstantFacts
<1>8. m \in Seq(Nat) /\ Len(m) = n /\ \A i \in 1 .. n : m[i] = s + i - 1
  BY <1>3, <1>6, <1>7
<1>9. messages' = Append(messages, m)  BY <1>6 DEF ClientSend
<1>10. /\ messages' \in Seq(Seq(Nat)) /\ Len(messages') = c + 1 /\ messages'[c + 1] = m
       /\ \A k \in 1 .. c : messages'[k] = messages[k]
  BY <1>1, <1>2, <1>8, <1>9, AppendProperties DEF MessagesInv
<1>11. First(c + 1)' = s /\ Size(c + 1)' = n
  <2>1. 1 \in 1 .. n /\ s + 1 - 1 = s  BY <1>3, <1>4
  <2>2. m[1] = s  BY <1>8, <2>1
  <2>3. QED  BY <1>8, <1>10, <2>2 DEF First, Size
<1>12. \A k \in 1 .. c : First(k)' = First(k) /\ Size(k)' = Size(k)  BY <1>10 DEF First, Size
<1>13. Sent' = s + n
  <2>1. messages' # <<>>  BY <1>10
  <2>2. Sent' = First(c + 1)' + Size(c + 1)'  BY <1>10, <2>1 DEF Sent
  <2>3. QED  BY <1>11, <2>2
<1>14. channel' = channel /\ s - FirstAck + n <= MaxDatagrams  BY <1>5 DEF ClientSend
<1>15. \A k \in 1 .. c : First(k) + Size(k) <= s /\ First(k) \in Nat /\ Size(k) \in Nat
  BY <1>1, <1>2, <1>4, MessageFacts
<1>16. ASSUME NEW k \in 1 .. c + 1
       PROVE  /\ Size(k)' \in Sizes
              /\ \A i \in 1 .. Size(k)' : messages'[k][i] = First(k)' + i - 1
              /\ channel' = "waiting" => Size(k)' = 1
              /\ k = 1 => Size(k)' = 1 /\ First(k)' = FirstAck
              /\ k > 1 => First(k)' = First(k - 1)' + Size(k - 1)'
              /\ \A j \in 1 .. k - 1 : First(j)' + Size(j)' <= First(k)'
  <2>1. CASE k \in 1 .. c
    <3>1. \A j \in 1 .. k - 1 : j \in 1 .. c  BY <1>2, <2>1
    <3>2. k > 1 => k - 1 \in 1 .. c  BY <1>2, <2>1
    <3>3. QED  BY <1>1, <1>2, <1>10, <1>12, <1>14, <2>1, <3>1, <3>2 DEF MessagesInv
  <2>2. CASE k = c + 1
    <3>1. Size(k)' \in Sizes /\ \A i \in 1 .. Size(k)' : messages'[k][i] = First(k)' + i - 1
      BY <1>8, <1>10, <1>11, <2>2
    <3>2. channel' = "waiting" => Size(k)' = 1  BY <1>11, <1>14, <2>2 DEF ClientSend
    <3>3. k = 1 => Size(k)' = 1 /\ First(k)' = FirstAck
      <4> HAVE k = 1
      <4>1. messages = <<>>  BY <1>1, <1>2, <2>2, EmptySeq DEF MessagesInv
      <4>2. n = 1 /\ s = FirstAck  BY <1>4, <4>1 DEF ClientSend, Sent
      <4>3. QED  BY <1>11, <2>2, <4>2
    <3>4. k > 1 => First(k)' = First(k - 1)' + Size(k - 1)'
      <4> HAVE k > 1
      <4>1. messages # <<>> /\ k - 1 = c /\ c \in 1 .. c  BY <1>2, <2>2
      <4>2. s = First(c) + Size(c)  BY <1>2, <1>4, <4>1 DEF Sent
      <4>3. QED  BY <1>11, <1>12, <2>2, <4>1, <4>2
    <3>5. \A j \in 1 .. k - 1 : First(j)' + Size(j)' <= First(k)'
      <4>1. k - 1 = c  BY <1>2, <2>2
      <4>2. QED  BY <1>11, <1>12, <1>15, <2>2, <4>1
    <3>6. QED  BY <3>1, <3>2, <3>3, <3>4, <3>5
  <2>3. QED  BY <1>2, <2>1, <2>2
<1>17. Sent' <= FirstAck + MaxDatagrams  BY <1>3, <1>4, <1>13, <1>14, ConstantFacts
<1>18. MessagesInv'  BY <1>10, <1>16, <1>17 DEF MessagesInv
<1>19. QED  BY <1>4, <1>8, <1>10, <1>11, <1>12, <1>13, <1>18

\* A message on its way is behind all that was sent before it.
LEMMA ClientSendStep ==
  ASSUME IInv, NEW n \in Sizes, ClientSend(n)
  PROVE  IInv'
<1>1. MessagesInv /\ NetworkInv /\ ChannelInv /\ QueueInv /\ AckInv  BY DEF IInv
<1>2. PICK c \in Nat : c = Len(messages)  BY <1>1, MessageFacts
<1>3. n \in Nat /\ n >= 1  BY ConstantFacts
<1>4. PICK s \in Nat : s = Sent /\ FirstAck <= s  BY <1>1, MessageFacts
<1>5. PICK e \in Nat : e = Due /\ FirstAck <= e /\ e <= s  BY <1>4, DueFacts
<1>6. /\ MessagesInv' /\ Len(messages') = c + 1 /\ messages' \in Seq(Seq(Nat))
      /\ \A k \in 1 .. c : messages'[k] = messages[k] /\ First(k)' = First(k) /\ Size(k)' = Size(k)
      /\ First(c + 1)' = s /\ Size(c + 1)' = n /\ Sent' = s + n
      /\ \A i \in 1 .. n : messages'[c + 1][i] = s + i - 1
  BY <1>2, <1>4, SendAddsMessage
<1>7. UNCHANGED <<server, readyToSend, handedOff, channel, acked, received>>  BY DEF ClientSend
<1>8. Due' = e  BY <1>5, <1>7 DEF Due, server
<1>9. PICK m : m = messages'[c + 1]  OBVIOUS
<1>10. PICK g : g = [i \in 1 .. n |-> Datagram(m, i)]  OBVIOUS
<1>11. network' = network \o g
  <2>1. PICK mm : mm = [i \in 1 .. n |-> FirstAck + Datagrams(messages) + i - 1]  OBVIOUS
  <2>2. messages' = Append(messages, mm) /\ network' = network \o [i \in 1 .. n |-> Datagram(mm, i)]
    BY <2>1, Zenon DEF ClientSend
  <2>3. mm = m  BY <1>1, <1>2, <1>9, <2>2, AppendProperties DEF MessagesInv
  <2>4. QED  BY <1>10, <2>2, <2>3
<1>12. \A i \in 1 .. n : Datagram(m, i) \in Fields /\ Datagram(m, i).ackRequest = s + i - 1
  <2> SUFFICES ASSUME NEW i \in 1 .. n
               PROVE  Datagram(m, i) \in Fields /\ Datagram(m, i).ackRequest = s + i - 1
    OBVIOUS
  <2>1. PICK x \in Nat : x = m[i] /\ x = s + i - 1  BY <1>3, <1>6, <1>9
  <2>2. Len(m) = n  BY <1>6, <1>9 DEF Size
  <2>3. PICK f \in Nat : f = IF Len(m) = 1 THEN 0 ELSE Len(m)  BY <1>3, <2>2
  <2>4. Datagram(m, i) = [ackRequest |-> x, fragCount |-> f, hasOpcode |-> i = 1, isFirst |-> x = FirstAck]
    BY <2>1, <2>3 DEF Datagram
  <2>5. QED  BY <2>1, <2>4 DEF Fields
<1>13. g \in Seq(Fields) /\ Len(g) = n /\ \A i \in 1 .. n : g[i] = Datagram(m, i) /\ g[i].ackRequest = s + i - 1
  BY <1>3, <1>10, <1>12
<1>14. PICK l \in Nat : l = Len(network)  BY <1>1, LenProperties DEF NetworkInv
<1>15. /\ network' \in Seq(Fields) /\ Len(network') = l + n
       /\ \A j \in 1 .. l : network'[j] = network[j]
       /\ \A i \in 1 .. n : network'[l + i] = g[i]
  <2>1. network \in Seq(Fields)  BY <1>1 DEF NetworkInv
  <2>2. /\ network \o g \in Seq(Fields) /\ Len(network \o g) = Len(network) + Len(g)
        /\ \A i \in 1 .. Len(network) + Len(g) :
             (network \o g)[i] = IF i <= Len(network) THEN network[i] ELSE g[i - Len(network)]
    BY <1>13, <2>1, ConcatProperties
  <2>3. \A j \in 1 .. l : j \in 1 .. l + n /\ j <= l  BY <1>3, <1>14
  <2>4. \A i \in 1 .. n : l + i \in 1 .. l + n /\ ~(l + i <= l) /\ l + i - l = i  BY <1>3, <1>14
  <2>5. QED  BY <1>11, <1>13, <1>14, <2>2, <2>3, <2>4
<1>16. \A j \in 1 .. l + n : j \in 1 .. l \/ \E i \in 1 .. n : j = l + i
  <2> SUFFICES ASSUME NEW j \in 1 .. l + n PROVE j \in 1 .. l \/ \E i \in 1 .. n : j = l + i  OBVIOUS
  <2>1. j \in 1 .. l \/ (j - l \in 1 .. n /\ j = l + (j - l))  BY <1>3, <1>14
  <2>2. QED  BY <2>1
<1>17. NetworkInv'
  <2>1. ASSUME NEW j \in 1 .. l + n
        PROVE  \E k \in 1 .. c + 1 : \E i \in 1 .. Size(k)' : network'[j] = Datagram(messages'[k], i)
    <3>1. CASE j \in 1 .. l
      <4>1. IsDatagram(network[j])  BY <1>1, <1>14, <3>1 DEF NetworkInv
      <4>2. PICK k \in 1 .. c : \E i \in 1 .. Size(k) : network[j] = Datagram(messages[k], i)
        BY <1>2, <4>1 DEF IsDatagram
      <4>3. PICK i \in 1 .. Size(k) : network[j] = Datagram(messages[k], i)  BY <4>2
      <4>4. network'[j] = Datagram(messages'[k], i) /\ k \in 1 .. c + 1 /\ i \in 1 .. Size(k)'
        BY <1>2, <1>6, <1>15, <3>1, <4>3
      <4>5. QED  BY <4>4
    <3>2. CASE \E i \in 1 .. n : j = l + i
      <4>1. PICK i \in 1 .. n : j = l + i  BY <3>2
      <4>2. network'[j] = Datagram(messages'[c + 1], i)  BY <1>9, <1>13, <1>15, <4>1
      <4>3. c + 1 \in 1 .. c + 1 /\ i \in 1 .. Size(c + 1)'  BY <1>2, <1>6
      <4>4. QED  BY <4>2, <4>3
    <3>3. QED  BY <1>16, <3>1, <3>2
  <2>2. ASSUME NEW j \in 1 .. l + n, network'[j].ackRequest = FirstAck
        PROVE  received' = {} /\ \A i \in 1 .. l + n : network'[i].ackRequest = FirstAck => i = j
    <3>1. CASE messages = <<>>
      <4>1. s = FirstAck  BY <1>4, <3>1 DEF Sent
      <4>2. received = {}  BY <1>5, <4>1, DueFacts, ConstantFacts
      <4>3. l = 0
        <5> SUFFICES ASSUME l # 0 PROVE FALSE  OBVIOUS
        <5>1. IsDatagram(network[1])  BY <1>1, <1>14 DEF NetworkInv
        <5>2. Len(messages) = 0  BY <3>1
        <5>3. QED  BY <5>1, <5>2 DEF IsDatagram
      <4>4. n = 1  BY <3>1 DEF ClientSend
      <4>5. QED  BY <1>7, <4>2, <4>3, <4>4
    <3>2. CASE messages # <<>>
      <4>1. c \in 1 .. c /\ c >= 1  BY <1>1, <1>2, <3>2, EmptySeq DEF MessagesInv
      <4>2. s > FirstAck
        <5>1. /\ First(c) + Size(c) <= Sent /\ First(c) \in Nat /\ Size(c) \in Nat /\ Size(c) >= 1
              /\ FirstAck <= First(c)
          BY <1>1, <1>2, <4>1, MessageFacts
        <5>2. QED  BY <1>4, <5>1, ConstantFacts
      <4>3. \A i \in 1 .. l + n : network'[i].ackRequest = FirstAck => i \in 1 .. l /\ network[i].ackRequest = FirstAck
        <5> SUFFICES ASSUME NEW i \in 1 .. l + n, network'[i].ackRequest = FirstAck
                     PROVE  i \in 1 .. l /\ network[i].ackRequest = FirstAck
          OBVIOUS
        <5>1. CASE i \in 1 .. l  BY <1>15, <5>1
        <5>2. CASE \E k \in 1 .. n : i = l + k
          <6>1. PICK k \in 1 .. n : i = l + k  BY <5>2
          <6>2. network'[i].ackRequest = s + k - 1  BY <1>13, <1>15, <6>1
          <6>3. QED  BY <1>3, <4>2, <6>2, ConstantFacts
        <5>3. QED  BY <1>16, <5>1, <5>2
      <4>4. QED  BY <1>1, <1>7, <1>14, <2>2, <4>3 DEF NetworkInv
    <3>3. QED  BY <3>1, <3>2
  <2>3. QED  BY <1>6, <1>15, <2>1, <2>2 DEF NetworkInv, IsDatagram
<1>18. ChannelInv'
  <2>1. ASSUME channel' = "waiting" PROVE Sent' <= Due' + 1
    <3>1. n = 1 /\ acked = Datagrams(messages)  BY <1>7, <2>1 DEF ClientSend
    <3>2. FirstAck + acked = s  BY <1>1, <1>4, <3>1, MessageFacts
    <3>3. acked \in 0 .. e - FirstAck  BY <1>1, <1>5 DEF AckInv
    <3>4. QED  BY <1>4, <1>5, <1>6, <1>8, <3>1, <3>2, <3>3, ConstantFacts
  <2>2. ASSUME channel' = "ordered", NEW j \in 1 .. l + n, network'[j].ackRequest > Due'
        PROVE  \E i \in 1 .. j - 1 : network'[i].ackRequest = network'[j].ackRequest - 1
    <3>1. CASE j \in 1 .. l
      <4>1. network[j].ackRequest > Due  BY <1>5, <1>8, <1>15, <2>2, <3>1
      <4>2. PICK i \in 1 .. j - 1 : network[i].ackRequest = network[j].ackRequest - 1
        BY <1>1, <1>7, <1>14, <2>2, <3>1, <4>1 DEF ChannelInv
      <4>3. i \in 1 .. l  BY <1>14, <3>1
      <4>4. QED  BY <1>15, <3>1, <4>2, <4>3
    <3>2. CASE \E i \in 1 .. n : j = l + i
      <4>1. PICK i \in 1 .. n : j = l + i  BY <3>2
      <4>2. network'[j].ackRequest = s + i - 1  BY <1>13, <1>15, <4>1
      <4>3. CASE i > 1
        <5>1. i - 1 \in 1 .. n /\ l + (i - 1) \in 1 .. j - 1  BY <1>3, <1>14, <4>1, <4>3
        <5>2. network'[l + (i - 1)].ackRequest = s + (i - 1) - 1  BY <1>13, <1>15, <5>1
        <5>3. s + (i - 1) - 1 = (s + i - 1) - 1  BY <1>3, <1>4
        <5>4. QED  BY <4>2, <5>1, <5>2, <5>3
      <4>4. CASE i = 1
        <5>1. s > e  BY <1>4, <1>5, <1>8, <2>2, <4>2, <4>4
        <5>2. s - 1 \in e .. s - 1  BY <1>4, <1>5, <5>1
        <5>3. PICK k \in 1 .. l : network[k].ackRequest = s - 1
          BY <1>1, <1>4, <1>5, <1>7, <1>14, <2>2, <5>2 DEF ChannelInv
        <5>4. k \in 1 .. j - 1 /\ (s + i - 1) - 1 = s - 1  BY <1>4, <1>14, <4>1, <4>4
        <5>5. QED  BY <1>15, <4>2, <5>3, <5>4
      <4>5. QED  BY <4>3, <4>4
    <3>3. QED  BY <1>16, <3>1, <3>2
  <2>3. ASSUME channel' = "ordered", NEW x \in e .. s + n - 1
        PROVE  \E j \in 1 .. l + n : network'[j].ackRequest = x
    <3>1. CASE x < s
      <4>1. x \in e .. s - 1  BY <1>3, <1>4, <1>5, <3>1
      <4>2. PICK j \in 1 .. l : network[j].ackRequest = x
        BY <1>1, <1>4, <1>5, <1>7, <1>14, <2>3, <4>1 DEF ChannelInv
      <4>3. j \in 1 .. l + n  BY <1>3, <1>14
      <4>4. QED  BY <1>15, <4>2, <4>3
    <3>2. CASE x >= s
      <4>1. PICK i \in 1 .. n : i = x - s + 1  BY <1>3, <1>4, <1>5, <3>2
      <4>2. network'[l + i].ackRequest = s + i - 1  BY <1>13, <1>15
      <4>3. s + i - 1 = x /\ l + i \in 1 .. l + n  BY <1>3, <1>4, <1>5, <1>14, <4>1
      <4>4. QED  BY <4>2, <4>3
    <3>3. QED  BY <1>3, <1>4, <1>5, <3>1, <3>2
  <2>4. channel' = "ordered" => \A j \in 1 .. Len(network') : network'[j].ackRequest > Due' =>
          \E i \in 1 .. j - 1 : network'[i].ackRequest = network'[j].ackRequest - 1
    BY <1>15, <2>2
  <2>5. channel' = "ordered" => \A x \in Due' .. Sent' - 1 : \E j \in 1 .. Len(network') : network'[j].ackRequest = x
    <3>1. \A x \in Due' .. Sent' - 1 : x \in e .. s + n - 1
      <4>1. Sent' = s + n  BY <1>6
      <4>2. QED  BY <1>3, <1>4, <1>8, <4>1
    <3>2. QED  BY <1>15, <2>3, <3>1
  <2>6. QED  BY <2>1, <2>4, <2>5 DEF ChannelInv
<1>19. PICK h \in Nat : h = Len(handedOff) /\ h \in 0 .. c  BY <1>2, DueFacts
<1>20. Base(h)' = Base(h)
  <2>1. CASE h = c
    <3>1. Base(h) = s  BY <1>2, <1>4, <2>1 DEF Base
    <3>2. h # c + 1  BY <1>2, <2>1
    <3>3. Base(h)' = First(c + 1)'  BY <1>6, <2>1, <3>2 DEF Base
    <3>4. QED  BY <1>6, <3>1, <3>3
  <2>2. CASE h < c
    <3>1. Base(h) = First(h + 1)  BY <1>2, <2>2 DEF Base
    <3>2. h # c + 1 /\ h + 1 \in 1 .. c  BY <1>2, <2>2
    <3>3. Base(h)' = First(h + 1)'  BY <1>6, <3>2 DEF Base
    <3>4. QED  BY <1>6, <3>1, <3>2, <3>3
  <2>3. QED  BY <1>2, <1>19, <2>1, <2>2
<1>21. QueueInv'
  <2>1. /\ handedOff' \in Seq(Seq(Nat)) /\ Len(handedOff') <= Len(messages')
        /\ \A k \in 1 .. Len(handedOff') : handedOff'[k] = messages'[k]
    <3>1. handedOff \in Seq(Seq(Nat)) /\ \A k \in 1 .. h : handedOff[k] = messages[k]
      BY <1>1, <1>19 DEF QueueInv
    <3>2. handedOff' = handedOff  BY <1>7
    <3>3. h <= c + 1 /\ \A k \in 1 .. h : k \in 1 .. c  BY <1>2, <1>19
    <3>4. QED  BY <1>6, <1>19, <3>1, <3>2, <3>3
  <2>2. packetQueue' \in Seq(Slots) /\ count' \in 0 .. Len(packetQueue')  BY <1>1, <1>7 DEF QueueInv, server
  <2>3. Due' = Base(h)' + count'  BY <1>1, <1>5, <1>7, <1>8, <1>19, <1>20 DEF QueueInv, server
  <2>4. count > 0 => h + 1 \in 1 .. c /\ count < Size(h + 1)  BY <1>1, <1>2, <1>19 DEF QueueInv
  <2>5. count' > 0 => h < c + 1 /\ count' < Size(h + 1)'  BY <1>2, <1>6, <1>7, <1>19, <2>4 DEF server
  <2>6. ASSUME NEW i \in 1 .. Len(packetQueue)
        PROVE  packetQueue[i] = IF i <= count THEN Slot(Datagram(messages'[h + 1], i)) ELSE Empty
    <3>1. i <= count => messages'[h + 1] = messages[h + 1]
      <4>1. count \in Nat  BY DueFacts
      <4>2. i <= count => count > 0  BY <4>1
      <4>3. QED  BY <1>6, <2>4, <4>2
    <3>2. QED  BY <1>1, <1>19, <3>1 DEF QueueInv
  <2>7. QED  BY <1>6, <1>7, <1>19, <2>1, <2>2, <2>3, <2>5, <2>6 DEF QueueInv, server
<1>22. AckInv'  BY <1>1, <1>5, <1>7, <1>8, <1>19, <1>20 DEF AckInv, server
<1>23. QED  BY <1>6, <1>17, <1>18, <1>21, <1>22 DEF IInv

\* The client and the network do not touch the server.
LEMMA ServerKept ==
  ASSUME IInv, UNCHANGED <<server, readyToSend, handedOff, client, received>>
  PROVE  /\ MessagesInv' /\ QueueInv' /\ AckInv' /\ Due' = Due /\ Sent' = Sent
         /\ \A d : IsDatagram(d)' <=> IsDatagram(d)
<1>1. UNCHANGED <<nextAckRequestExpected, lastAckSent, lowestAckInQueue, count, packetQueue>>  BY DEF server
<1>2. UNCHANGED <<channel, messages, acked>>  BY DEF client
<1>3. MessagesInv /\ QueueInv /\ AckInv  BY DEF IInv
<1>4. Due' = Due  BY <1>1 DEF Due
<1>5. /\ MessagesInv' /\ Sent' = Sent /\ (\A h : Base(h)' = Base(h)) /\ (\A k : Size(k)' = Size(k))
      /\ \A d : IsDatagram(d)' <=> IsDatagram(d)
  BY <1>2, <1>3, MessagesKept
<1>6. QueueInv'  BY <1>1, <1>2, <1>3, <1>4, <1>5 DEF QueueInv
<1>7. AckInv'  BY <1>1, <1>2, <1>3, <1>4, <1>5 DEF AckInv
<1>8. QED  BY <1>4, <1>5, <1>6, <1>7

\* A repetition is of a datagram after the session's first and behind what comes before it.
LEMMA ClientResendStep ==
  ASSUME IInv, Regular, ClientResend
  PROVE  IInv'
<1>1. MessagesInv /\ NetworkInv /\ ChannelInv  BY DEF IInv
<1>2. /\ MessagesInv' /\ QueueInv' /\ AckInv' /\ Due' = Due /\ Sent' = Sent
      /\ \A d : IsDatagram(d)' <=> IsDatagram(d)
  BY ServerKept DEF ClientResend
<1>3. PICK k \in 1 .. Len(messages) : \E i \in 1 .. Len(messages[k]) :
        /\ k = 1 => ResendFirst
        /\ network' = Append(network, Datagram(messages[k], i))
  BY DEF ClientResend
<1>4. PICK i \in 1 .. Size(k) : /\ k = 1 => ResendFirst
                               /\ network' = Append(network, Datagram(messages[k], i))
  BY <1>3 DEF Size
<1>5. PICK d : d = Datagram(messages[k], i)  OBVIOUS
<1>6. /\ d \in Fields /\ d.ackRequest = First(k) + i - 1
      /\ First(k) + i - 1 \in FirstAck .. Sent - 1
  BY <1>1, <1>5, DatagramIs
<1>7. IsDatagram(d)  BY <1>5 DEF IsDatagram
<1>8. d.ackRequest # FirstAck
  <2>1. k # 1  BY <1>4 DEF Regular
  <2>2. PICK c \in Nat : c = Len(messages)  BY <1>1, MessageFacts
  <2>3. 1 \in 1 .. c /\ 1 \in 1 .. k - 1  BY <2>1, <2>2
  <2>4. First(1) = FirstAck /\ Size(1) = 1  BY <1>1, <2>2, <2>3 DEF MessagesInv
  <2>5. First(1) + Size(1) <= First(k)  BY <1>1, <2>3 DEF MessagesInv
  <2>6. First(k) \in Nat /\ Size(k) \in Nat  BY <1>1, MessageFacts
  <2>7. QED  BY <1>6, <2>4, <2>5, <2>6, ConstantFacts
<1>9. PICK l \in Nat : l = Len(network)  BY <1>1, LenProperties DEF NetworkInv
<1>10. /\ network' \in Seq(Fields) /\ Len(network') = l + 1 /\ network'[l + 1] = d
       /\ \A j \in 1 .. l : network'[j] = network[j]
  BY <1>1, <1>4, <1>5, <1>6, <1>9, AppendProperties DEF NetworkInv
<1>11. \A j \in 1 .. l + 1 : j \in 1 .. l \/ j = l + 1  BY <1>9
<1>12. UNCHANGED <<received, channel>>  BY DEF ClientResend, client
<1>13. NetworkInv'
  <2>1. \A j \in 1 .. l + 1 : IsDatagram(network'[j])
    BY <1>1, <1>7, <1>9, <1>10, <1>11 DEF NetworkInv
  <2>2. \A j \in 1 .. l + 1 : network'[j].ackRequest = FirstAck => j \in 1 .. l /\ network[j].ackRequest = FirstAck
    BY <1>8, <1>10, <1>11
  <2>3. \A j \in 1 .. l + 1 : network'[j].ackRequest = FirstAck =>
          received = {} /\ \A m \in 1 .. l + 1 : network'[m].ackRequest = FirstAck => m = j
    BY <1>1, <1>9, <2>2 DEF NetworkInv
  <2>4. \A j \in 1 .. l + 1 : \E kk \in 1 .. Len(messages)' : \E ii \in 1 .. Size(kk)' :
          network'[j] = Datagram(messages'[kk], ii)
    <3>1. messages' = messages  BY DEF ClientResend, client
    <3>2. QED  BY <2>1, <3>1 DEF IsDatagram, Size
  <2>5. QED  BY <1>10, <1>12, <2>3, <2>4 DEF NetworkInv, IsDatagram
<1>14. ChannelInv'
  <2>1. channel' = "waiting" => Sent' <= Due' + 1  BY <1>1, <1>2, <1>12 DEF ChannelInv
  <2>2. ASSUME channel = "ordered", NEW j \in 1 .. l + 1, network'[j].ackRequest > Due
        PROVE  \E m \in 1 .. j - 1 : network'[m].ackRequest = network'[j].ackRequest - 1
    <3>1. CASE j \in 1 .. l
      <4>1. PICK m \in 1 .. j - 1 : network[m].ackRequest = network[j].ackRequest - 1
        BY <1>1, <1>9, <1>10, <2>2, <3>1 DEF ChannelInv
      <4>2. m \in 1 .. l  BY <1>9, <3>1
      <4>3. QED  BY <1>10, <3>1, <4>1, <4>2
    <3>2. CASE j = l + 1
      <4>1. PICK x \in Nat : x = d.ackRequest /\ x > Due /\ x <= Sent - 1
        BY <1>6, <1>10, <2>2, <3>2, ConstantFacts
      <4>2. x - 1 \in Due .. Sent - 1
        <5>1. Due \in Nat /\ Sent \in Nat  BY <1>1, DueFacts, MessageFacts
        <5>2. QED  BY <4>1, <5>1
      <4>3. PICK m \in 1 .. l : network[m].ackRequest = x - 1
        BY <1>1, <1>9, <2>2, <4>2 DEF ChannelInv
      <4>4. m \in 1 .. j - 1  BY <1>9, <3>2
      <4>5. QED  BY <1>10, <3>2, <4>1, <4>3, <4>4
    <3>3. QED  BY <1>11, <3>1, <3>2
  <2>3. ASSUME channel = "ordered", NEW x \in Due .. Sent - 1
        PROVE  \E j \in 1 .. l + 1 : network'[j].ackRequest = x
    <3>1. PICK j \in 1 .. l : network[j].ackRequest = x  BY <1>1, <1>9, <2>3 DEF ChannelInv
    <3>2. j \in 1 .. l + 1  BY <1>9
    <3>3. QED  BY <1>10, <3>1, <3>2
  <2>4. channel' = "ordered" => \A j \in 1 .. Len(network') : network'[j].ackRequest > Due' =>
          \E m \in 1 .. j - 1 : network'[m].ackRequest = network'[j].ackRequest - 1
    BY <1>2, <1>10, <1>12, <2>2
  <2>5. channel' = "ordered" => \A x \in Due' .. Sent' - 1 : \E j \in 1 .. Len(network') : network'[j].ackRequest = x
    BY <1>2, <1>10, <1>12, <2>3
  <2>6. QED  BY <2>1, <2>4, <2>5 DEF ChannelInv
<1>15. QED  BY <1>2, <1>13, <1>14 DEF IInv

\* The network of l datagrams without the i-th, which leaves none of the kind if it is
\* the session's first.
Departs(l, i) ==
  /\ network' \in Seq(Fields) /\ Len(network') = l - 1
  /\ \A j \in 1 .. l - 1 : network'[j] = IF j < i THEN network[j] ELSE network[j + 1]
  /\ \A j \in 1 .. l - 1 : \E kk \in 1 .. Len(messages)' : \E ii \in 1 .. Size(kk)' :
       network'[j] = Datagram(messages'[kk], ii)
  /\ \A j \in 1 .. l - 1 : network'[j].ackRequest = FirstAck =>
       /\ network[i].ackRequest # FirstAck /\ received = {}
       /\ \A m \in 1 .. l - 1 : network'[m].ackRequest = FirstAck => m = j

\* A datagram that is received or lost leaves the others as they are.
LEMMA RemovedFacts ==
  ASSUME NetworkInv, NEW l \in Nat, l = Len(network), NEW i \in 1 .. l,
         network' = RemoveAt(network, i), UNCHANGED messages
  PROVE  Departs(l, i)
<1>1. /\ network' \in Seq(Fields) /\ Len(network') = l - 1
      /\ \A j \in 1 .. l - 1 : network'[j] = IF j < i THEN network[j] ELSE network[j + 1]
  BY RemoveAtIs DEF NetworkInv
<1>2. PICK p : p = [j \in 1 .. l - 1 |-> IF j < i THEN j ELSE j + 1]  OBVIOUS
<1>3. \A j \in 1 .. l - 1 : p[j] \in 1 .. l /\ p[j] # i /\ \A m \in 1 .. l - 1 : p[m] = p[j] => m = j
  BY <1>2
<1>4. \A j \in 1 .. l - 1 : network'[j] = network[p[j]]  BY <1>1, <1>2
<1>5. \A j \in 1 .. l - 1 : IsDatagram(network'[j])  BY <1>3, <1>4 DEF NetworkInv
<1>6. \A j \in 1 .. l - 1 : \E kk \in 1 .. Len(messages)' : \E ii \in 1 .. Size(kk)' :
        network'[j] = Datagram(messages'[kk], ii)
  BY <1>5 DEF IsDatagram, Size
<1>7. \A j \in 1 .. l - 1 : network'[j].ackRequest = FirstAck =>
        /\ network[i].ackRequest # FirstAck /\ received = {}
        /\ \A m \in 1 .. l - 1 : network'[m].ackRequest = FirstAck => m = j
  <2> SUFFICES ASSUME NEW j \in 1 .. l - 1, network'[j].ackRequest = FirstAck
               PROVE  /\ network[i].ackRequest # FirstAck /\ received = {}
                      /\ \A m \in 1 .. l - 1 : network'[m].ackRequest = FirstAck => m = j
    OBVIOUS
  <2>1. p[j] \in 1 .. l /\ network[p[j]].ackRequest = FirstAck /\ p[j] # i  BY <1>3, <1>4
  <2>2. received = {} /\ \A m \in 1 .. l : network[m].ackRequest = FirstAck => m = p[j]
    BY <2>1 DEF NetworkInv
  <2>3. network[i].ackRequest # FirstAck  BY <2>1, <2>2
  <2>4. QED  BY <1>3, <1>4, <2>2, <2>3
<1>8. QED  BY <1>1, <1>6, <1>7, Zenon DEF Departs

\* A lost datagram: no order is kept, so none is broken.
LEMMA LoseStep ==
  ASSUME IInv, NEW i \in 1 .. Len(network), Lose(i)
  PROVE  IInv'
<1>1. NetworkInv /\ ChannelInv  BY DEF IInv
<1>2. /\ MessagesInv' /\ QueueInv' /\ AckInv' /\ Due' = Due /\ Sent' = Sent
  BY ServerKept DEF Lose
<1>3. PICK l \in Nat : l = Len(network)  BY <1>1, LenProperties DEF NetworkInv
<1>4. UNCHANGED <<messages, channel, received>> /\ network' = RemoveAt(network, i) /\ channel # "ordered"
  BY DEF Lose, client
<1>5. /\ network' \in Seq(Fields) /\ Len(network') = l - 1
      /\ \A j \in 1 .. l - 1 : \E kk \in 1 .. Len(messages)' : \E ii \in 1 .. Size(kk)' :
           network'[j] = Datagram(messages'[kk], ii)
      /\ \A j \in 1 .. l - 1 : network'[j].ackRequest = FirstAck =>
           received = {} /\ \A m \in 1 .. l - 1 : network'[m].ackRequest = FirstAck => m = j
  <2>1. Departs(l, i)  BY <1>1, <1>3, <1>4, RemovedFacts
  <2>2. QED  BY <2>1, Zenon DEF Departs
<1>6. NetworkInv'  BY <1>4, <1>5 DEF NetworkInv, IsDatagram
<1>7. ChannelInv'  BY <1>1, <1>2, <1>4 DEF ChannelInv
<1>8. QED  BY <1>2, <1>6, <1>7 DEF IInv

\* What udpc_recv_protocol passes on while nothing comes early: the acks are synchronised
\* with the session's first datagram or are in step already.
LEMMA RecvKnows ==
  ASSUME IInv, Regular, ~early', NEW i \in 1 .. Len(network), Recv(i), NEW d, d = network[i]
  PROVE  /\ d \in Fields /\ IsDatagram(d) /\ d.ackRequest \in FirstAck .. Due
         /\ d.isFirst <=> d.ackRequest = FirstAck
         /\ d.isFirst => received = {}
         /\ received = {} => d.isFirst
         /\ (IF d.isFirst THEN d.ackRequest ELSE nextAckRequestExpected) = Due
<1>1. MessagesInv /\ NetworkInv /\ ChannelInv /\ AckInv  BY DEF IInv
<1>2. d \in Fields  BY <1>1, ElementOfSeq DEF NetworkInv
<1>3. IsDatagram(d)  BY <1>1 DEF NetworkInv
<1>4. d.ackRequest \in FirstAck .. Sent - 1 /\ (d.isFirst <=> d.ackRequest = FirstAck)
  <2>1. PICK k \in 1 .. Len(messages) : \E j \in 1 .. Size(k) : d = Datagram(messages[k], j)
    BY <1>3 DEF IsDatagram
  <2>2. PICK j \in 1 .. Size(k) : d = Datagram(messages[k], j)  BY <2>1
  <2>3. /\ Datagram(messages[k], j).ackRequest = First(k) + j - 1
        /\ Datagram(messages[k], j).isFirst = (First(k) + j - 1 = FirstAck)
        /\ First(k) + j - 1 \in FirstAck .. Sent - 1
    BY <1>1, DatagramIs
  <2>4. QED  BY <2>2, <2>3, Zenon
<1>5. PICK e \in Nat : e = Due /\ FirstAck <= e /\ e <= Sent  BY DueFacts
<1>6. ~Ahead(d, IF d.isFirst THEN d.ackRequest ELSE nextAckRequestExpected)
  BY Zenon DEF Recv
<1>7. d.isFirst => received = {}  BY <1>1, <1>4 DEF NetworkInv
<1>8. received = {} => d.isFirst
  <2> SUFFICES ASSUME received = {}, ~d.isFirst PROVE FALSE  OBVIOUS
  <2>1. nextAckRequestExpected = 0  BY <1>1 DEF AckInv
  <2>2. ~(d.ackRequest > 0)  BY <1>6, <2>1 DEF Ahead
  <2>3. Sent \in Nat  BY <1>1, MessageFacts
  <2>4. QED  BY <1>4, <2>2, <2>3, ConstantFacts
<1>9. (IF d.isFirst THEN d.ackRequest ELSE nextAckRequestExpected) = Due
  BY <1>4, <1>7, <1>8 DEF Due
<1>10. d.ackRequest \in FirstAck .. Due
  <2>1. ~(d.ackRequest > Due)  BY <1>6, <1>9 DEF Ahead
  <2>2. Sent \in Nat  BY <1>1, MessageFacts
  <2>3. QED  BY <1>4, <1>5, <2>1, <2>2, ConstantFacts
<1>11. QED  BY <1>2, <1>3, <1>4, <1>7, <1>8, <1>9, <1>10

\* A datagram comes ahead of one that is due only where the network reorders and the client
\* sends ahead.
LEMMA EarlyOnlyAny ==
  ASSUME IInv, NEW i \in 1 .. Len(network), Recv(i), ~early, early'
  PROVE  channel = "any"
<1> SUFFICES ASSUME channel # "any" PROVE FALSE  OBVIOUS
<1>1. MessagesInv /\ NetworkInv /\ ChannelInv /\ AckInv  BY DEF IInv
<1>2. PICK d : d = network[i]  OBVIOUS
<1>3. IsDatagram(d)  BY <1>1, <1>2 DEF NetworkInv
<1>4. d.ackRequest \in FirstAck .. Sent - 1 /\ (d.isFirst <=> d.ackRequest = FirstAck)
  <2>1. PICK k \in 1 .. Len(messages) : \E j \in 1 .. Size(k) : d = Datagram(messages[k], j)
    BY <1>3 DEF IsDatagram
  <2>2. PICK j \in 1 .. Size(k) : d = Datagram(messages[k], j)  BY <2>1
  <2>3. /\ Datagram(messages[k], j).ackRequest = First(k) + j - 1
        /\ Datagram(messages[k], j).isFirst = (First(k) + j - 1 = FirstAck)
        /\ First(k) + j - 1 \in FirstAck .. Sent - 1
    BY <1>1, DatagramIs
  <2>4. QED  BY <2>2, <2>3, Zenon
<1>5. PICK e \in Nat : e = Due /\ FirstAck <= e /\ e <= Sent  BY DueFacts
<1>6. d.ackRequest <= e
  <2>1. channel \in {"ordered", "waiting"}  BY <1>1, RecvAssumption DEF AckInv
  <2>2. Sent \in Nat  BY <1>1, MessageFacts
  <2>3. CASE channel = "waiting"
    <3>1. Sent <= e + 1  BY <1>1, <1>5, <2>3 DEF ChannelInv
    <3>2. QED  BY <1>4, <1>5, <2>2, <3>1, ConstantFacts
  <2>4. CASE channel = "ordered"
    <3>1. i = 1  BY <2>4 DEF Recv
    <3>2. ~(d.ackRequest > Due)
      <4> SUFFICES ASSUME d.ackRequest > Due PROVE FALSE  OBVIOUS
      <4>1. PICK j \in 1 .. i - 1 : network[j].ackRequest = network[i].ackRequest - 1
        BY <1>1, <1>2, <2>4 DEF ChannelInv
      <4>2. QED  BY <3>1, <4>1
    <3>3. QED  BY <1>4, <1>5, <2>2, <3>2, ConstantFacts
  <2>5. QED  BY <2>1, <2>3, <2>4
<1>7. Ahead(d, IF d.isFirst THEN d.ackRequest ELSE nextAckRequestExpected)
  BY <1>2, Zenon DEF Recv
<1>8. received = {} => d.isFirst
  <2> HAVE received = {}
  <2>1. e = FirstAck  BY <1>5 DEF Due
  <2>2. QED  BY <1>4, <1>6, <2>1, ConstantFacts
<1>9. d.isFirst => received = {}  BY <1>1, <1>2, <1>4 DEF NetworkInv
<1>10. Ahead(d, e)  BY <1>4, <1>5, <1>7, <1>8, <1>9 DEF Due
<1>11. d.ackRequest > e  BY <1>10 DEF Ahead
<1>12. Sent \in Nat  BY <1>1, MessageFacts
<1>13. QED  BY <1>4, <1>5, <1>6, <1>11, <1>12, ConstantFacts

\* An ack from before what is due is in the past: the session is not longer than the
\* window of ack_cmp.
LEMMA OldIsPast ==
  ASSUME IInv, Regular, NEW a \in FirstAck .. Due - 1
  PROVE  ack_cmp(a, Due) = "Past"
<1>1. PICK e \in Nat : e = Due /\ FirstAck <= e /\ e <= Sent  BY DueFacts
<1>2. Sent \in Nat /\ Sent <= FirstAck + MaxDatagrams  BY MessageFacts DEF IInv, MessagesInv
<1>3. MaxDatagrams <= AckWindow  BY DEF Regular
<1>4. a \in Nat /\ a < e /\ e - a <= AckWindow  BY <1>1, <1>2, <1>3, ConstantFacts
<1>5. ~(a = e) /\ ~(a > e) /\ ~(a < e - AckWindow)  BY <1>1, <1>4, ConstantFacts
<1>6. QED  BY <1>1, <1>5 DEF ack_cmp

\* The datagram that is due is the next of the message whose beginning is in the queue.
LEMMA DueIsNext ==
  ASSUME IInv, NEW d, IsDatagram(d), d.ackRequest = Due, NEW h \in Nat, h = Len(handedOff)
  PROVE  /\ h + 1 \in 1 .. Len(messages) /\ count + 1 \in 1 .. Size(h + 1)
         /\ d = Datagram(messages[h + 1], count + 1)
         /\ Due = First(h + 1) + count /\ Base(h) = First(h + 1)
<1>1. MessagesInv /\ QueueInv  BY DEF IInv
<1>2. PICK k \in 1 .. Len(messages) : \E j \in 1 .. Size(k) : d = Datagram(messages[k], j)
  BY DEF IsDatagram
<1>3. PICK j \in 1 .. Size(k) : d = Datagram(messages[k], j)  BY <1>2
<1>4. Due = First(k) + j - 1 /\ First(k) + j - 1 \in FirstAck .. Sent - 1
  BY <1>1, <1>3, DatagramIs
<1>5. PICK c \in Nat : c = Len(messages) /\ h \in 0 .. c /\ k \in 1 .. c  BY <1>1, MessageFacts, DueFacts
<1>6. h < c
  <2>1. Due < Sent  BY <1>1, <1>4, MessageFacts, ConstantFacts
  <2>2. QED  BY <1>5, <2>1, DueFacts
<1>7. h + 1 \in 1 .. c  BY <1>5, <1>6
<1>8. PICK x \in Nat, s \in Nat : x = First(h + 1) /\ s = Size(h + 1) /\ s >= 1
  BY <1>1, <1>5, <1>7, MessageFacts
<1>9. Base(h) = x  BY <1>1, <1>5, <1>6, <1>8, BaseIs
<1>10. count \in Nat  BY DueFacts
<1>11. Due = x + count  BY <1>1, <1>9 DEF QueueInv
<1>12. count < s  BY <1>1, <1>8, <1>10 DEF QueueInv
<1>13. PICK y \in Nat, t \in Nat : y = First(k) /\ t = Size(k)  BY <1>1, MessageFacts
<1>14. y + j - 1 = x + count /\ j \in 1 .. t  BY <1>4, <1>11, <1>13
<1>15. k = h + 1
  <2>1. ASSUME k < h + 1 PROVE FALSE
    <3>1. k \in 1 .. (h + 1) - 1  BY <1>5, <2>1
    <3>2. First(k) + Size(k) <= First(h + 1)  BY <1>1, <1>5, <1>7, <3>1 DEF MessagesInv
    <3>3. QED  BY <1>8, <1>10, <1>13, <1>14, <3>2, SMTT(30)
  <2>2. ASSUME k > h + 1 PROVE FALSE
    <3>1. h + 1 \in 1 .. k - 1  BY <1>5, <2>2
    <3>2. First(h + 1) + Size(h + 1) <= First(k)  BY <1>1, <1>5, <3>1 DEF MessagesInv
    <3>3. QED  BY <1>8, <1>10, <1>12, <1>13, <1>14, <3>2, SMTT(30)
  <2>3. QED  BY <1>5, <2>1, <2>2
<1>16. j = count + 1  BY <1>8, <1>10, <1>13, <1>14, <1>15
<1>17. count + 1 \in 1 .. s  BY <1>8, <1>10, <1>12
<1>18. QED  BY <1>3, <1>5, <1>7, <1>8, <1>9, <1>11, <1>15, <1>16, <1>17

\* What every datagram does to the channel: what was due is received, or was before.
LEMMA RecvChannel ==
  ASSUME IInv, Regular, ~early', NEW i \in 1 .. Len(network), Recv(i), NEW d, d = network[i],
         NEW f \in Nat, Due' = f, Due <= f, d.ackRequest + 1 <= f
  PROVE  MessagesInv' /\ NetworkInv' /\ ChannelInv' /\ Sent' = Sent
<1>1. MessagesInv /\ NetworkInv /\ ChannelInv  BY DEF IInv
<1>2. PICK l \in Nat : l = Len(network)  BY <1>1, LenProperties DEF NetworkInv
<1>3. /\ i = 1 \/ channel # "ordered"
      /\ UNCHANGED <<messages, channel>> /\ network' = RemoveAt(network, i)
  BY DEF Recv, client
<1>4. MessagesInv' /\ Sent' = Sent  BY <1>1, <1>3, MessagesKept
<1>5. /\ d \in Fields /\ d.ackRequest \in FirstAck .. Due
      /\ d.isFirst <=> d.ackRequest = FirstAck
      /\ received = {} => d.isFirst
  BY <1>3, RecvKnows
<1>6. /\ network' \in Seq(Fields) /\ Len(network') = l - 1
      /\ \A j \in 1 .. l - 1 : network'[j] = IF j < i THEN network[j] ELSE network[j + 1]
      /\ \A j \in 1 .. l - 1 : \E kk \in 1 .. Len(messages)' : \E ii \in 1 .. Size(kk)' :
           network'[j] = Datagram(messages'[kk], ii)
      /\ \A j \in 1 .. l - 1 : network'[j].ackRequest = FirstAck =>
           network[i].ackRequest # FirstAck /\ received = {}
  <2>1. i \in 1 .. l /\ network' = RemoveAt(network, i) /\ UNCHANGED messages  BY <1>2, <1>3
  <2>2. Departs(l, i)  BY <1>1, <1>2, <2>1, RemovedFacts
  <2>3. QED  BY <2>2, Zenon DEF Departs
<1>7. \A j \in 1 .. l - 1 : network'[j].ackRequest # FirstAck  BY <1>5, <1>6
<1>8. NetworkInv'  BY <1>6, <1>7 DEF NetworkInv, IsDatagram
<1>9. PICK e \in Nat, a \in Nat : e = Due /\ f = Due' /\ a = d.ackRequest /\ e <= f /\ a + 1 <= f
  BY <1>5, DueFacts DEF Fields
<1>10. PICK s \in Nat : s = Sent  BY <1>1, MessageFacts
<1>11. channel' = "waiting" => Sent' <= Due' + 1
  <2>1. channel = "waiting" => s <= e + 1  BY <1>1, <1>9, <1>10 DEF ChannelInv
  <2>2. s <= e + 1 => s <= f + 1  BY <1>9, <1>10
  <2>3. channel' = channel /\ Sent' = s /\ Due' = f  BY <1>3, <1>4, <1>9, <1>10
  <2>4. QED  BY <2>1, <2>2, <2>3, Zenon
<1>12. ASSUME channel = "ordered", NEW j \in 1 .. l - 1, network'[j].ackRequest > f
       PROVE  \E m \in 1 .. j - 1 : network'[m].ackRequest = network'[j].ackRequest - 1
  <2>1. i = 1  BY <1>3, <1>12
  <2>2. network'[j] = network[j + 1] /\ j + 1 \in 1 .. l  BY <1>2, <1>6, <2>1
  <2>3. PICK y \in Nat : y = network[j + 1].ackRequest
    <3>1. network \in Seq(Fields)  BY <1>1 DEF NetworkInv
    <3>2. network[j + 1] \in Fields  BY <1>2, <2>2, <3>1, ElementOfSeq
    <3>3. QED  BY <3>2 DEF Fields
  <2>4. y > f /\ y > e  BY <1>9, <1>12, <2>2, <2>3
  <2>5. PICK m \in 1 .. (j + 1) - 1 : network[m].ackRequest = y - 1
    BY <1>1, <1>2, <1>9, <1>12, <2>2, <2>3, <2>4 DEF ChannelInv
  <2>6. m # 1  BY <1>9, <2>1, <2>3, <2>4, <2>5
  <2>7. PICK z \in 1 .. j - 1 : z + 1 = m /\ z \in 1 .. l - 1  BY <1>2, <2>5, <2>6
  <2>8. network'[z] = network[m]  BY <1>6, <2>1, <2>7, SMTT(30)
  <2>9. QED  BY <2>2, <2>3, <2>5, <2>7, <2>8
<1>13. ASSUME channel = "ordered", NEW x \in f .. s - 1
       PROVE  \E j \in 1 .. l - 1 : network'[j].ackRequest = x
  <2>1. i = 1  BY <1>3, <1>13
  <2>2. x \in e .. s - 1 /\ x # a  BY <1>9, <1>10
  <2>3. PICK m \in 1 .. l : network[m].ackRequest = x
    BY <1>1, <1>2, <1>9, <1>10, <1>13, <2>2 DEF ChannelInv
  <2>4. m # 1  BY <1>9, <2>1, <2>2, <2>3
  <2>5. PICK z \in 1 .. l - 1 : z + 1 = m  BY <1>2, <2>3, <2>4
  <2>6. network'[z] = network[m]  BY <1>6, <2>1, <2>5, SMTT(30)
  <2>7. QED  BY <2>3, <2>6
<1>14. channel' = "ordered" => \A j \in 1 .. Len(network') : network'[j].ackRequest > Due' =>
         \E m \in 1 .. j - 1 : network'[m].ackRequest = network'[j].ackRequest - 1
  BY <1>3, <1>6, <1>9, <1>12
<1>15. channel' = "ordered" => \A x \in Due' .. Sent' - 1 : \E j \in 1 .. Len(network') : network'[j].ackRequest = x
  BY <1>3, <1>4, <1>6, <1>9, <1>10, <1>13
<1>16. ChannelInv'  BY <1>11, <1>14, <1>15 DEF ChannelInv
<1>17. QED  BY <1>4, <1>8, <1>16

\* A datagram is received: what is left to show is what it does to the queue.
LEMMA RecvEnds ==
  ASSUME IInv, Regular, ~early', NEW i \in 1 .. Len(network), Recv(i), NEW d, d = network[i],
         NEW f \in Nat, nextAckRequestExpected' = f, f <= Sent,
         f = IF d.ackRequest < Due THEN Due ELSE Due + 1,
         QueueInv', lowestAckInQueue' = Base(Len(handedOff))', lowestAckInQueue' \in Acks
  PROVE  IInv'
<1>1. MessagesInv /\ AckInv  BY DEF IInv
<1>2. /\ i = 1 \/ channel # "ordered"
      /\ UNCHANGED <<messages, channel, acked>>
      /\ lastAckSent' = IF d.isFirst THEN AckSub(d.ackRequest, 1) ELSE lastAckSent
      /\ readyToSend' = (received # {})
      /\ received' = received \cup {d.ackRequest}
  BY DEF Recv, client
<1>3. /\ d \in Fields /\ d.ackRequest \in FirstAck .. Due
      /\ d.isFirst <=> d.ackRequest = FirstAck
      /\ received = {} => d.isFirst
  BY <1>2, RecvKnows
<1>4. PICK e \in Nat, a \in Nat : e = Due /\ a = d.ackRequest /\ FirstAck <= a /\ a <= e
  BY <1>3, DueFacts DEF Fields
<1>5. f = IF a < e THEN e ELSE e + 1  BY <1>4
<1>6. received = FirstAck .. e - 1 /\ acked \in 0 .. e - FirstAck  BY <1>1, <1>4 DEF AckInv
<1>7. received' = FirstAck .. f - 1
  <2>1. received' = (FirstAck .. e - 1) \cup {a}  BY <1>2, <1>4, <1>6
  <2>2. (FirstAck .. e - 1) \cup {a} = FirstAck .. f - 1  BY <1>4, <1>5, ConstantFacts
  <2>3. QED  BY <2>1, <2>2
<1>8. received' # {}  BY <1>2
<1>9. Due' = f  BY <1>8 DEF Due
<1>10. e <= f /\ a + 1 <= f /\ FirstAck < f  BY <1>4, <1>5, ConstantFacts
<1>11. MessagesInv' /\ NetworkInv' /\ ChannelInv' /\ Sent' = Sent
  <2>1. Due <= f /\ d.ackRequest + 1 <= f  BY <1>4, <1>10
  <2>2. QED  BY <1>9, <2>1, RecvChannel
<1>12. f \in Acks
  <2>1. Sent \in Nat /\ Sent < AckMod  BY <1>1, MessageFacts
  <2>2. QED  BY <2>1, ConstantFacts DEF Acks
<1>13. lastAckSent' \in Acks /\ lastAckSent' \in FirstAck - 1 .. f - 1
  <2>1. CASE d.isFirst
    <3>1. a = FirstAck /\ a \in Acks  BY <1>3, <1>4, <2>1, ConstantFacts DEF Acks
    <3>2. AckSub(a, 1) = a - 1  BY <3>1, SubSmall, ConstantFacts
    <3>3. lastAckSent' = FirstAck - 1  BY <1>2, <1>4, <2>1, <3>1, <3>2
    <3>4. QED  BY <1>10, <3>3, ConstantFacts DEF Acks
  <2>2. CASE ~d.isFirst
    <3>1. received # {}  BY <1>3, <2>2
    <3>2. lastAckSent \in Acks /\ lastAckSent \in FirstAck - 1 .. e - 1  BY <1>1, <1>4, <3>1 DEF AckInv
    <3>3. lastAckSent' = lastAckSent  BY <1>2, <2>2
    <3>4. QED  BY <1>4, <1>10, <3>2, <3>3, ConstantFacts
  <2>3. QED  BY <2>1, <2>2
<1>14. acked' \in 0 .. f - FirstAck  BY <1>2, <1>4, <1>6, <1>10, ConstantFacts
<1>15. readyToSend' \in BOOLEAN /\ channel' \in Channels  BY <1>1, <1>2 DEF AckInv
<1>16. AckInv'  BY <1>7, <1>8, <1>9, <1>12, <1>13, <1>14, <1>15 DEF AckInv
<1>17. QED  BY <1>11, <1>16 DEF IInv

\* An old datagram is ignored, whatever the queue holds.
LEMMA RecvOld ==
  ASSUME IInv, Regular, ~early', NEW i \in 1 .. Len(network), Recv(i), NEW d, d = network[i], d.ackRequest < Due
  PROVE  IInv'
<1>1. MessagesInv /\ QueueInv /\ AckInv  BY DEF IInv
<1>2. i = 1 \/ channel # "ordered"  BY DEF Recv
<1>3. PICK x : x = IF d.isFirst THEN d.ackRequest ELSE nextAckRequestExpected  OBVIOUS
<1>4. x = Due /\ d.ackRequest \in FirstAck .. Due  BY <1>2, <1>3, RecvKnows
<1>5. PICK e \in Nat : e = Due /\ e <= Sent /\ FirstAck <= e  BY DueFacts
<1>6. d.ackRequest \in FirstAck .. Due - 1  BY <1>4, <1>5, ConstantFacts
<1>7. ack_cmp(d.ackRequest, x) = "Past"  BY <1>4, <1>6, OldIsPast
<1>8. ~InOrder(d, x) /\ Ignored(d, x)
  <2>1. d.ackRequest # x  BY <1>4, <1>5, <1>6, ConstantFacts
  <2>2. QED  BY <1>7, <2>1 DEF InOrder, Ignored
<1>9. RecvInOrder(d, x) \/ RecvIgnored(d, x) \/ RecvQueued(d, x)
  <2>1. LET dd == network[i] IN
        LET expected == IF dd.isFirst THEN dd.ackRequest ELSE nextAckRequestExpected IN
        RecvInOrder(dd, expected) \/ RecvIgnored(dd, expected) \/ RecvQueued(dd, expected)
    BY Zenon DEF Recv
  <2>2. QED  BY <1>3, <2>1
<1>10. RecvIgnored(d, x)  BY <1>8, <1>9 DEF RecvInOrder, RecvQueued
<1>11. nextAckRequestExpected' = e /\ UNCHANGED <<lowestAckInQueue, count, packetQueue, handedOff>>
  BY <1>4, <1>5, <1>10 DEF RecvIgnored
<1>12. UNCHANGED <<messages, channel>> /\ received' # {}  BY DEF Recv, client
<1>13. Due' = Due  BY <1>5, <1>11, <1>12 DEF Due
<1>14. (\A h : Base(h)' = Base(h)) /\ (\A k : Size(k)' = Size(k))  BY <1>12, MessagesKept
<1>15. QueueInv'  BY <1>1, <1>11, <1>12, <1>13, <1>14 DEF QueueInv
<1>16. received # {}  BY <1>5, <1>6, ConstantFacts DEF Due
<1>17. lowestAckInQueue' = Base(Len(handedOff))' /\ lowestAckInQueue' \in Acks
  BY <1>1, <1>11, <1>14, <1>16 DEF AckInv
<1>18. e = IF d.ackRequest < Due THEN Due ELSE Due + 1  BY <1>5
<1>19. QED  BY <1>5, <1>11, <1>15, <1>17, <1>18, RecvEnds

\* The messages r are the client's first h.
FirstMessages(r, h) == r \in Seq(Seq(Nat)) /\ Len(r) = h /\ \A k \in 1 .. h : r[k] = messages[k]

\* The message that is handed off next follows those handed off before.
LEMMA HandsNext ==
  ASSUME MessagesInv, NEW h \in Nat, h + 1 \in 1 .. Len(messages),
         NEW s, FirstMessages(s, h), NEW m, m = messages[h + 1], NEW r, r = s \o <<m>>
  PROVE  FirstMessages(r, h + 1)
<1> s \in Seq(Seq(Nat)) /\ Len(s) = h /\ \A k \in 1 .. h : s[k] = messages[k]
  BY Zenon DEF FirstMessages
<1>1. m \in Seq(Nat)  BY ElementOfSeq DEF MessagesInv
<1>2. PICK g : g = <<m>>  OBVIOUS
<1>3. g \in Seq(Seq(Nat)) /\ Len(g) = 1 /\ g[1] = m  BY <1>1, <1>2
<1>4. /\ s \o g \in Seq(Seq(Nat)) /\ Len(s \o g) = Len(s) + Len(g)
      /\ \A k \in 1 .. Len(s) + Len(g) :
           (s \o g)[k] = IF k <= Len(s) THEN s[k] ELSE g[k - Len(s)]
  BY <1>3, ConcatProperties
<1>5. r = s \o g  BY <1>2
<1>6. r \in Seq(Seq(Nat)) /\ Len(r) = h + 1  BY <1>3, <1>4, <1>5
<1>7. \A k \in 1 .. h + 1 : r[k] = IF k <= h THEN s[k] ELSE g[k - h]  BY <1>3, <1>4, <1>5
<1>8. \A k \in 1 .. h + 1 : k \in 1 .. h \/ (k = h + 1 /\ k - h = 1 /\ ~(k <= h))  OBVIOUS
<1>9. \A k \in 1 .. h + 1 : r[k] = messages[k]  BY <1>3, <1>7, <1>8
<1>10. QED  BY <1>6, <1>9, Zenon DEF FirstMessages

\* The datagram that is due and is a message of its own is handed off at once, and the
\* queue is empty.
LEMMA RecvWhole ==
  ASSUME IInv, Regular, ~early', NEW i \in 1 .. Len(network), Recv(i), NEW d, d = network[i],
         d.ackRequest = Due, d.fragCount = 0
  PROVE  IInv'
<1>1. MessagesInv /\ QueueInv /\ AckInv  BY DEF IInv
<1>2. i = 1 \/ channel # "ordered"  BY DEF Recv
<1>3. PICK x : x = IF d.isFirst THEN d.ackRequest ELSE nextAckRequestExpected  OBVIOUS
<1>4. x = Due /\ IsDatagram(d)  BY <1>2, <1>3, RecvKnows
<1>5. PICK e \in Nat : e = Due /\ e <= Sent /\ FirstAck <= e  BY DueFacts
<1>6. PICK h \in Nat : h = Len(handedOff)  BY <1>1, LenProperties DEF QueueInv
<1>7. /\ h + 1 \in 1 .. Len(messages) /\ count + 1 \in 1 .. Size(h + 1)
      /\ d = Datagram(messages[h + 1], count + 1) /\ e = First(h + 1) + count
  BY <1>4, <1>5, <1>6, DueIsNext
<1>8. count \in Nat  BY DueFacts
<1>9. /\ d.fragCount = IF Size(h + 1) = 1 THEN 0 ELSE Size(h + 1)
      /\ d.hasOpcode = (count + 1 = 1)
      /\ First(h + 1) + (count + 1) - 1 \in FirstAck .. Sent - 1
  BY <1>1, <1>7, DatagramIs
<1>10. Size(h + 1) = 1 /\ count = 0 /\ First(h + 1) \in Nat
  <2>1. Size(h + 1) \in Nat /\ Size(h + 1) >= 1 /\ First(h + 1) \in Nat  BY <1>1, <1>7, MessageFacts
  <2>2. Size(h + 1) = 1
    <3>1. (IF Size(h + 1) = 1 THEN 0 ELSE Size(h + 1)) = 0  BY <1>9
    <3>2. QED  BY <2>1, <3>1
  <2>3. QED  BY <1>7, <1>8, <2>1, <2>2
<1>11. d.hasOpcode
  <2>1. count + 1 = 1  BY <1>10
  <2>2. d.hasOpcode = (count + 1 = 1)  BY <1>9
  <2>3. QED  BY <2>1, <2>2, Zenon
<1>12. e = First(h + 1) /\ e + 1 <= Sent
  BY <1>1, <1>5, <1>7, <1>9, <1>10, MessageFacts, ConstantFacts
<1>13. AckAdd(e, 1) = e + 1 /\ e + 1 \in Acks
  <2>1. Sent \in Nat /\ Sent < AckMod  BY <1>1, MessageFacts
  <2>2. e + 1 < AckMod  BY <1>12, <2>1, ConstantFacts
  <2>3. QED  BY <2>2, AddSmall, ConstantFacts DEF Acks
<1>14. RecvInOrder(d, x)
  <2>1. LET dd == network[i] IN
        LET expected == IF dd.isFirst THEN dd.ackRequest ELSE nextAckRequestExpected IN
        RecvInOrder(dd, expected) \/ RecvIgnored(dd, expected) \/ RecvQueued(dd, expected)
    BY Zenon DEF Recv
  <2>2. InOrder(d, x)  BY <1>4 DEF InOrder
  <2>3. QED  BY <1>3, <2>1, <2>2 DEF RecvIgnored, RecvQueued
<1>15. /\ nextAckRequestExpected' = e + 1 /\ lowestAckInQueue' = e + 1
       /\ handedOff' = Append(handedOff, <<e>>)
       /\ UNCHANGED <<count, packetQueue>>
  BY <1>4, <1>5, <1>11, <1>13, <1>14 DEF RecvInOrder
<1>16. PICK m : m = messages[h + 1]  OBVIOUS
<1>17. m = <<e>>
  <2>1. m \in Seq(Nat)  BY <1>1, <1>7, <1>16, ElementOfSeq DEF MessagesInv
  <2>2. Len(m) = 1 /\ m[1] = e  BY <1>10, <1>12, <1>16 DEF Size, First
  <2>3. QED  BY <2>1, <2>2
<1>18. handedOff \in Seq(Seq(Nat)) /\ \A k \in 1 .. h : handedOff[k] = messages[k]  BY <1>1, <1>6 DEF QueueInv
<1>19. handedOff' = handedOff \o <<m>>
  <2>1. Append(handedOff, <<e>>) = handedOff \o << <<e>> >>  BY <1>18, AppendIsConcat
  <2>2. QED  BY <1>15, <1>17, <2>1
<1>20. /\ handedOff' \in Seq(Seq(Nat)) /\ Len(handedOff') = h + 1
       /\ \A k \in 1 .. h + 1 : handedOff'[k] = messages[k]
  <2>1. FirstMessages(handedOff, h)  BY <1>6, <1>18, Zenon DEF FirstMessages
  <2>2. FirstMessages(handedOff', h + 1)  BY <1>1, <1>7, <1>16, <1>19, <2>1, HandsNext
  <2>3. QED  BY <2>2, Zenon DEF FirstMessages
<1>21. UNCHANGED <<messages, channel>> /\ received' # {}  BY DEF Recv, client
<1>22. Due' = e + 1  BY <1>15, <1>21 DEF Due
<1>23. Base(h + 1)' = e + 1
  <2>1. PICK c \in Nat : c = Len(messages) /\ h \in 0 .. c /\ h < c  BY <1>1, <1>7, MessageFacts
  <2>2. Base(h + 1) = First(h + 1) + Size(h + 1)  BY <1>1, <2>1, BaseIs
  <2>3. Base(h + 1)' = Base(h + 1)  BY <1>21, MessagesKept
  <2>4. QED  BY <1>10, <1>12, <2>2, <2>3
<1>24. Base(Len(handedOff))' = e + 1  BY <1>20, <1>23 DEF Base
<1>25. QueueInv'
  <2>1. Len(handedOff') <= Len(messages') /\ \A k \in 1 .. Len(handedOff') : handedOff'[k] = messages'[k]
    BY <1>1, <1>7, <1>20, <1>21, MessageFacts
  <2>2. packetQueue' \in Seq(Slots) /\ count' \in 0 .. Len(packetQueue') /\ count' = 0
    BY <1>1, <1>10, <1>15 DEF QueueInv
  <2>3. \A j \in 1 .. Len(packetQueue') : packetQueue'[j] = Empty /\ ~(j <= count')
    BY <1>1, <1>10, <1>15 DEF QueueInv
  <2>4. Due' = Base(Len(handedOff))' + count'  BY <1>22, <1>24, <2>2
  <2>5. ~(count' > 0)  BY <2>2
  <2>6. QED  BY <1>20, <2>1, <2>2, <2>3, <2>4, <2>5 DEF QueueInv
<1>26. e + 1 = IF d.ackRequest < Due THEN Due ELSE Due + 1  BY <1>5
<1>27. QED  BY <1>12, <1>13, <1>15, <1>24, <1>25, <1>26, RecvEnds

\* Half of the 16-bit acks: no slot has an index above it.
HalfAcks == 32768

\* bit_pow2_greater_than_u32 gives room for the slot it is asked for.
LEMMA PowerAbove ==
  ASSUME NEW c \in Nat, c <= HalfAcks
  PROVE  /\ Pow2GreaterThan(IF c = 0 THEN 1 ELSE c) \in Nat
         /\ Pow2GreaterThan(IF c = 0 THEN 1 ELSE c) > c
<1>1. PICK b \in Nat : b = (IF c = 0 THEN 1 ELSE c) /\ b >= 1 /\ b <= HalfAcks /\ c <= b  BY DEF HalfAcks
<1>2. \E p \in Powers : p > b /\ p <= 2 * b
  <2>1. CASE b < 64
    <3>1. \E p \in {2, 4, 8, 16, 32, 64} : p > b /\ p <= 2 * b  BY <1>1, <2>1 DEF HalfAcks
    <3>2. QED  BY <3>1 DEF Powers
  <2>2. CASE b >= 64 /\ b < 2048
    <3>1. \E p \in {128, 256, 512, 1024, 2048} : p > b /\ p <= 2 * b  BY <1>1, <2>2 DEF HalfAcks
    <3>2. QED  BY <3>1 DEF Powers
  <2>3. CASE b >= 2048
    <3>1. \E p \in {4096, 8192, 16384, 32768, 65536} : p > b /\ p <= 2 * b  BY <1>1, <2>3 DEF HalfAcks
    <3>2. QED  BY <3>1 DEF Powers
  <2>4. QED  BY <1>1, <2>1, <2>2, <2>3
<1>3. Pow2GreaterThan(b) \in Powers /\ Pow2GreaterThan(b) > b  BY <1>2, Zenon DEF Pow2GreaterThan
<1>4. Pow2GreaterThan(b) \in Nat  BY <1>3 DEF Powers
<1>5. PICK p \in Nat : p = Pow2GreaterThan(b) /\ p > b  BY <1>3, <1>4
<1>6. p > c  BY <1>1, <1>5
<1>7. QED  BY <1>1, <1>5, <1>6, Zenon

\* The array q holds the first n datagrams of the message after h, and nothing else.
Holds(q, h, n) ==
  /\ q \in Seq(Slots) /\ n \in 0 .. Len(q)
  /\ \A i \in 1 .. Len(q) : q[i] = IF i <= n THEN Slot(Datagram(messages[h + 1], i)) ELSE Empty

\* ack_recv_packet makes room for the slot of a datagram, and keeps what is queued.
LEMMA RoomFor ==
  ASSUME NEW h \in Nat, NEW c \in Nat, c <= HalfAcks, NEW q, Holds(q, h, c),
         NEW r, r = IF c >= Len(q) THEN Grown(q, c, c) ELSE q
  PROVE  Holds(r, h, c) /\ c + 1 \in 1 .. Len(r)
<1>1. /\ q \in Seq(Slots) /\ c \in 0 .. Len(q)
      /\ \A i \in 1 .. Len(q) : q[i] = IF i <= c THEN Slot(Datagram(messages[h + 1], i)) ELSE Empty
  BY Zenon DEF Holds
<1>2. PICK l \in Nat : l = Len(q)  BY <1>1, LenProperties
<1>3. CASE c >= l
  <2>1. PICK p \in Nat : p = Pow2GreaterThan(IF c = 0 THEN 1 ELSE c) /\ p > c  BY PowerAbove
  <2>2. r = [i \in 1 .. p |-> IF i <= c THEN q[i] ELSE Empty]
    <3>1. r = Grown(q, c, c)  BY <1>2, <1>3
    <3>2. QED  BY <2>1, <3>1, Zenon DEF Grown
  <2>3. \A i \in 1 .. p : i <= c => i \in 1 .. l  BY <1>1, <1>2
  <2>4. \A i \in 1 .. p : (IF i <= c THEN q[i] ELSE Empty) \in Slots
    <3>1. Empty \in Slots  BY DEF Empty, Slots
    <3>2. \A i \in 1 .. l : q[i] \in Slots  BY <1>1, <1>2, ElementOfSeq
    <3>3. QED  BY <2>3, <3>1, <3>2
  <2>5. r \in Seq(Slots) /\ Len(r) = p  BY <2>1, <2>2, <2>4
  <2>6. \A i \in 1 .. p : r[i] = IF i <= c THEN Slot(Datagram(messages[h + 1], i)) ELSE Empty
    BY <1>1, <1>2, <2>2, <2>3
  <2>7. c \in 0 .. p /\ c + 1 \in 1 .. p  BY <2>1
  <2>8. QED  BY <2>5, <2>6, <2>7, Zenon DEF Holds
<1>4. CASE c < l
  <2>1. r = q /\ c + 1 \in 1 .. l  BY <1>2, <1>4
  <2>2. QED  BY <1>2, <2>1
<1>5. QED  BY <1>2, <1>3, <1>4

\* The datagram is put in the slot after the last.
LEMMA PutNext ==
  ASSUME MessagesInv, NEW h \in Nat, h + 1 \in 1 .. Len(messages), NEW c \in Nat, NEW r, Holds(r, h, c),
         c + 1 \in 1 .. Len(r), c + 1 \in 1 .. Size(h + 1),
         NEW d, d = Datagram(messages[h + 1], c + 1), NEW q, q = [r EXCEPT ![c + 1] = Slot(d)]
  PROVE  Holds(q, h, c + 1)
<1>1. /\ r \in Seq(Slots)
      /\ \A i \in 1 .. Len(r) : r[i] = IF i <= c THEN Slot(Datagram(messages[h + 1], i)) ELSE Empty
  BY Zenon DEF Holds
<1>2. PICK l \in Nat : l = Len(r)  BY <1>1, LenProperties
<1>3. Slot(d) \in Slots
  <2>1. d \in Fields  BY DatagramIs
  <2>2. QED  BY <2>1 DEF Slot, Slots, Fields
<1>4. q \in Seq(Slots) /\ Len(q) = l /\ \A i \in 1 .. l : q[i] = IF i = c + 1 THEN Slot(d) ELSE r[i]
  BY <1>1, <1>2, <1>3, ExceptSeq
<1>5. \A i \in 1 .. l : (i <= c + 1 <=> i = c + 1 \/ i <= c) /\ (i = c + 1 => ~(i <= c))  OBVIOUS
<1>6. \A i \in 1 .. l : q[i] = IF i <= c + 1 THEN Slot(Datagram(messages[h + 1], i)) ELSE Empty
  BY <1>1, <1>2, <1>4, <1>5, Zenon
<1>7. c + 1 \in 0 .. l  BY <1>2
<1>8. QED  BY <1>4, <1>6, <1>7, Zenon DEF Holds

\* What the queue holds of a fragmented message is what the scan looks for.
LEMMA HoldsFragments ==
  ASSUME MessagesInv, NEW h \in Nat, h + 1 \in 1 .. Len(messages), Size(h + 1) # 1,
         NEW n \in Nat, n <= Size(h + 1), NEW q, Holds(q, h, n)
  PROVE  Fragments(q, n, First(h + 1), Size(h + 1))
<1>1. PICK x \in Nat, s \in Nat : x = First(h + 1) /\ s = Size(h + 1)  BY MessageFacts
<1>2. ASSUME NEW i \in 1 .. n
      PROVE  q[i].ackRequest = x + i - 1 /\ q[i].fragCount = s /\ (i = 1 => q[i].hasOpcode)
  <2>1. i \in 1 .. Size(h + 1)  BY <1>1
  <2>2. i \in 1 .. Len(q) /\ i <= n
    <3>1. q \in Seq(Slots) /\ n \in 0 .. Len(q)  BY DEF Holds
    <3>2. Len(q) \in Nat  BY <3>1, LenProperties
    <3>3. QED  BY <3>1, <3>2
  <2>3. q[i] = Slot(Datagram(messages[h + 1], i))  BY <2>2, Zenon DEF Holds
  <2>4. PICK d : d = Datagram(messages[h + 1], i)  OBVIOUS
  <2>5. /\ d.ackRequest = First(h + 1) + i - 1
        /\ d.fragCount = IF Size(h + 1) = 1 THEN 0 ELSE Size(h + 1)
        /\ d.hasOpcode = (i = 1)
    BY <2>1, <2>4, DatagramIs
  <2>6. /\ q[i].ackRequest = d.ackRequest /\ q[i].fragCount = d.fragCount
        /\ q[i].hasOpcode = d.hasOpcode
    BY <2>3, <2>4 DEF Slot
  <2>7. i = 1 => q[i].hasOpcode  BY <2>5, <2>6, Zenon
  <2>8. QED  BY <1>1, <2>5, <2>6, <2>7, Zenon
<1>3. QED  BY <1>1, <1>2 DEF Fragments

\* ack_recv_packet after the datagram has its slot: the first n slots of q are scanned.
ScanEnds(q, n, w) ==
  /\ packetQueue' = Shifted(q, n, w.diff) /\ count' = n - w.diff /\ lowestAckInQueue' = w.lowest
  /\ nextAckRequestExpected' = AckAdd(w.nextAck, 1) /\ handedOff' = handedOff \o w.out

\* The datagram that is due and is a fragment is put in the queue, after the others of its
\* message.
LEMMA FragmentQueued ==
  ASSUME IInv, Regular, ~early', NEW i \in 1 .. Len(network), Recv(i), NEW d, d = network[i],
         d.ackRequest = Due, d.fragCount # 0, NEW h \in Nat, h = Len(handedOff),
         NEW c \in Nat, c = count
  PROVE  /\ received # {} /\ Size(h + 1) # 1
         /\ h + 1 \in 1 .. Len(messages) /\ c + 1 \in 1 .. Size(h + 1) /\ Due = First(h + 1) + c
         /\ \E q : Holds(q, h, c + 1) /\ ScanEnds(q, c + 1, Scan(q, c + 1, First(h + 1), Due))
<1>1. MessagesInv /\ QueueInv /\ AckInv  BY DEF IInv
<1>2. i = 1 \/ channel # "ordered"  BY DEF Recv
<1>3. PICK x : x = IF d.isFirst THEN d.ackRequest ELSE nextAckRequestExpected  OBVIOUS
<1>4. x = Due /\ IsDatagram(d)  BY <1>2, <1>3, RecvKnows
<1>5. /\ h + 1 \in 1 .. Len(messages) /\ c + 1 \in 1 .. Size(h + 1)
      /\ d = Datagram(messages[h + 1], c + 1) /\ Due = First(h + 1) + c /\ Base(h) = First(h + 1)
  BY <1>4, DueIsNext
<1>6. d.fragCount = IF Size(h + 1) = 1 THEN 0 ELSE Size(h + 1)  BY <1>1, <1>5, DatagramIs
<1>7. Size(h + 1) # 1  BY <1>6
<1>8. received # {}
  <2> SUFFICES ASSUME received = {} PROVE FALSE  OBVIOUS
  <2>1. h = 0  BY <1>1 DEF AckInv
  <2>2. 1 \in 1 .. Len(messages) /\ h + 1 = 1  BY <1>5, <2>1
  <2>3. Size(1) = 1  BY <1>1, <2>2 DEF MessagesInv
  <2>4. QED  BY <1>7, <2>2, <2>3
<1>9. PICK f \in Nat, s \in Nat : f = First(h + 1) /\ s = Size(h + 1) /\ FirstAck <= f /\ f + s <= Sent
  BY <1>1, <1>5, MessageFacts
<1>10. lowestAckInQueue = f /\ d.ackRequest - lowestAckInQueue = c
  <2>1. lowestAckInQueue = f  BY <1>1, <1>5, <1>8, <1>9, Zenon DEF AckInv
  <2>2. d.ackRequest = f + c  BY <1>5, <1>9
  <2>3. QED  BY <1>9, <2>1, <2>2
<1>11. c <= HalfAcks
  <2>1. Sent \in Nat /\ Sent <= FirstAck + MaxDatagrams  BY <1>1, MessageFacts DEF MessagesInv
  <2>2. s <= AckWindow /\ AckWindow <= HalfAcks
    BY <1>9, <2>1, ConstantFacts DEF Regular, HalfAcks
  <2>3. QED  BY <1>5, <1>9, <2>2, ConstantFacts DEF HalfAcks
<1>12. Holds(packetQueue, h, c)  BY <1>1 DEF QueueInv, Holds
<1>13. ~InOrder(d, x)  BY DEF InOrder
<1>14. ~Ignored(d, x)
  <2>1. ack_cmp(d.ackRequest, x) # "Past"  BY <1>4 DEF ack_cmp
  <2>2. ~Occupied(c)
    <3> SUFFICES ASSUME Occupied(c) PROVE FALSE  OBVIOUS
    <3>1. PICK l \in Nat : l = Len(packetQueue)  BY <1>1, LenProperties DEF QueueInv
    <3>2. c \in 0 .. l - 1 /\ packetQueue[c + 1].ackRequest # 0  BY <3>1 DEF Occupied
    <3>3. c + 1 \in 1 .. l /\ ~(c + 1 <= c)  BY <3>1, <3>2
    <3>4. packetQueue[c + 1] = Empty  BY <1>12, <3>1, <3>3 DEF Holds
    <3>5. QED  BY <3>2, <3>4 DEF Empty
  <2>3. QED  BY <1>10, <2>1, <2>2 DEF Ignored
<1>15. RecvQueued(d, x)
  <2>1. LET dd == network[i] IN
        LET expected == IF dd.isFirst THEN dd.ackRequest ELSE nextAckRequestExpected IN
        RecvInOrder(dd, expected) \/ RecvIgnored(dd, expected) \/ RecvQueued(dd, expected)
    BY Zenon DEF Recv
  <2>2. QED  BY <1>3, <1>13, <1>14, <2>1 DEF RecvInOrder, RecvIgnored
<1>16. PICK r : r = IF c >= Len(packetQueue) THEN Grown(packetQueue, c, c) ELSE packetQueue  OBVIOUS
<1>17. Holds(r, h, c) /\ c + 1 \in 1 .. Len(r)  BY <1>11, <1>12, <1>16, RoomFor
<1>18. PICK q : q = [r EXCEPT ![c + 1] = Slot(d)]  OBVIOUS
<1>19. Holds(q, h, c + 1)  BY <1>1, <1>5, <1>17, <1>18, PutNext
<1>20. PICK w : w = Scan(q, c + 1, lowestAckInQueue, x)  OBVIOUS
<1>21. ScanEnds(q, c + 1, w)
  <2>1. PICK q1, w1 :
          /\ q1 = [(IF d.ackRequest - lowestAckInQueue >= Len(packetQueue)
                     THEN Grown(packetQueue, count, d.ackRequest - lowestAckInQueue)
                     ELSE packetQueue) EXCEPT ![d.ackRequest - lowestAckInQueue + 1] = Slot(d)]
          /\ w1 = Scan(q1, count + 1, lowestAckInQueue, x)
          /\ packetQueue' = Shifted(q1, count + 1, w1.diff) /\ count' = (count + 1) - w1.diff
          /\ lowestAckInQueue' = w1.lowest /\ nextAckRequestExpected' = NextAfterScan(q1, w1)
          /\ handedOff' = handedOff \o w1.out
    BY <1>15, Zenon DEF RecvQueued
  <2>2. q1 = [r EXCEPT ![c + 1] = Slot(d)]  BY <1>10, <1>16, <2>1, Zenon
  <2>3. q1 = q  BY <1>18, <2>2
  <2>4. w1 = w  BY <1>20, <2>1, <2>3, Zenon
  <2>5. QED  BY <2>1, <2>3, <2>4, Zenon DEF ScanEnds, NextAfterScan
<1>22. w = Scan(q, c + 1, First(h + 1), Due)  BY <1>4, <1>9, <1>10, <1>20
<1>23. QED  BY <1>5, <1>7, <1>8, <1>19, <1>21, <1>22

\* A datagram that is due is received when the queue holds the beginning of the message
\* that follows the ones handed off.
LEMMA DueEnds ==
  ASSUME IInv, Regular, ~early', NEW i \in 1 .. Len(network), Recv(i), network[i].ackRequest = Due,
         NEW e \in Nat, e = Due, e + 1 <= Sent,
         NEW g \in Nat, g <= Len(messages), FirstMessages(handedOff', g),
         NEW n \in Nat, n = count', Holds(packetQueue', g, n), Base(g) + n = e + 1,
         n > 0 => g < Len(messages) /\ n < Size(g + 1),
         nextAckRequestExpected' = e + 1, lowestAckInQueue' = Base(g)
  PROVE  IInv'
<1>1. MessagesInv  BY DEF IInv
<1>2. UNCHANGED <<messages, channel>> /\ received' # {}  BY DEF Recv, client
<1>3. (\A k : Base(k)' = Base(k)) /\ (\A k : Size(k)' = Size(k))  BY <1>2, MessagesKept
<1>4. Due' = e + 1  BY <1>2 DEF Due
<1>5. /\ handedOff' \in Seq(Seq(Nat)) /\ Len(handedOff') = g
      /\ \A k \in 1 .. g : handedOff'[k] = messages[k]
  BY Zenon DEF FirstMessages
<1>6. /\ packetQueue' \in Seq(Slots) /\ n \in 0 .. Len(packetQueue')
      /\ \A j \in 1 .. Len(packetQueue') :
           packetQueue'[j] = IF j <= n THEN Slot(Datagram(messages[g + 1], j)) ELSE Empty
  BY Zenon DEF Holds
<1>7. Base(Len(handedOff))' = Base(g)
  <2>1. Base(Len(handedOff))' = Base(g)'  BY <1>5 DEF Base
  <2>2. QED  BY <1>3, <2>1
<1>8. QueueInv'
  <2>1. Len(handedOff') <= Len(messages') /\ \A k \in 1 .. Len(handedOff') : handedOff'[k] = messages'[k]
    BY <1>2, <1>5
  <2>2. Due' = Base(Len(handedOff))' + count'  BY <1>4, <1>7
  <2>3. count' > 0 => Len(handedOff') < Len(messages') /\ count' < Size(Len(handedOff) + 1)'
    <3>1. Size(Len(handedOff) + 1)' = Size(g + 1)'  BY <1>5 DEF Size
    <3>2. Size(Len(handedOff) + 1)' = Size(g + 1)  BY <1>3, <3>1
    <3>3. QED  BY <1>2, <1>5, <3>2
  <2>4. \A j \in 1 .. Len(packetQueue') :
          packetQueue'[j] = IF j <= count' THEN Slot(Datagram(messages'[Len(handedOff') + 1], j)) ELSE Empty
    BY <1>2, <1>5, <1>6
  <2>5. QED  BY <1>5, <1>6, <2>1, <2>2, <2>3, <2>4 DEF QueueInv
<1>9. lowestAckInQueue' \in Acks
  <2>1. Len(messages) \in Nat /\ g \in 0 .. Len(messages)  BY <1>1, MessageFacts
  <2>2. Base(g) \in Nat /\ Base(g) <= Sent /\ Sent \in Nat /\ Sent < AckMod
    BY <1>1, <2>1, BaseIs, MessageFacts
  <2>3. QED  BY <2>2, ConstantFacts DEF Acks
<1>10. PICK d : d = network[i]  OBVIOUS
<1>11. e + 1 = IF d.ackRequest < Due THEN Due ELSE Due + 1  BY <1>10
<1>12. QED  BY <1>7, <1>8, <1>9, <1>10, <1>11, RecvEnds

\* The datagram that is due and is a fragment: the message stays in the queue while it is
\* not complete, and is handed off as a whole with its last fragment.
LEMMA RecvFragment ==
  ASSUME IInv, Regular, ~early', NEW i \in 1 .. Len(network), Recv(i), NEW d, d = network[i],
         d.ackRequest = Due, d.fragCount # 0
  PROVE  IInv'
<1>1. MessagesInv /\ QueueInv  BY DEF IInv
<1>2. PICK h \in Nat : h = Len(handedOff)  BY <1>1, LenProperties DEF QueueInv
<1>3. PICK c \in Nat : c = count  BY DueFacts
<1>4. PICK e \in Nat : e = Due /\ FirstAck <= e  BY DueFacts
<1>5. /\ Size(h + 1) # 1 /\ h + 1 \in 1 .. Len(messages) /\ c + 1 \in 1 .. Size(h + 1)
      /\ e = First(h + 1) + c
      /\ \E q : Holds(q, h, c + 1) /\ ScanEnds(q, c + 1, Scan(q, c + 1, First(h + 1), e))
  BY <1>2, <1>3, <1>4, FragmentQueued
<1>6. PICK q : Holds(q, h, c + 1) /\ ScanEnds(q, c + 1, Scan(q, c + 1, First(h + 1), e))  BY <1>5
<1>7. PICK x \in Nat, s \in Nat : x = First(h + 1) /\ s = Size(h + 1) /\ FirstAck <= x /\ x + s <= Sent
  BY <1>1, <1>5, MessageFacts
<1>8. x \in Nat \ {0} /\ c + 1 \in Nat \ {0} /\ c + 1 <= s /\ e = x + c  BY <1>5, <1>7, ConstantFacts, SMTT(30)
<1>9. Fragments(q, c + 1, x, s)  BY <1>1, <1>5, <1>6, <1>7, <1>8, HoldsFragments
<1>10. PICK k \in Nat : k = Len(messages) /\ h < k /\ h \in 0 .. k
  <2>1. PICK k \in Nat : k = Len(messages)  BY <1>1, MessageFacts
  <2>2. QED  BY <1>5, <2>1
<1>11. Base(h) = x /\ Base(h + 1) = x + s  BY <1>1, <1>7, <1>10, BaseIs
<1>12. PICK b \in Nat : b = Sent /\ b < AckMod  BY <1>1, MessageFacts
<1>13. e + 1 <= Sent /\ AckAdd(e, 1) = e + 1
  <2>1. e + 1 <= b /\ e + 1 < AckMod  BY <1>7, <1>8, <1>12, ConstantFacts, SMTT(30)
  <2>2. QED  BY <1>12, <2>1, AddSmall
<1>14. FirstMessages(handedOff, h)  BY <1>1, <1>2 DEF QueueInv, FirstMessages
<1>15. /\ q \in Seq(Slots) /\ c + 1 \in 0 .. Len(q)
       /\ \A j \in 1 .. Len(q) : q[j] = IF j <= c + 1 THEN Slot(Datagram(messages[h + 1], j)) ELSE Empty
  BY <1>6, Zenon DEF Holds
<1>16. PICK l \in Nat : l = Len(q)  BY <1>15, LenProperties
<1>17. CASE c + 1 < s
  <2>1. PICK w : w = Scan(q, c + 1, x, e)  OBVIOUS
  <2>2. w = ScanStart(x, e)  BY <1>8, <1>9, <1>17, <2>1, ScanPartial
  <2>3. w.diff = 0 /\ w.lowest = x /\ w.nextAck = e /\ w.out = <<>>  BY <2>2 DEF ScanStart
  <2>4. /\ packetQueue' = Shifted(q, c + 1, 0) /\ count' = (c + 1) - 0 /\ lowestAckInQueue' = x
        /\ nextAckRequestExpected' = AckAdd(e, 1) /\ handedOff' = handedOff \o <<>>
    <3>1. ScanEnds(q, c + 1, w)  BY <1>6, <1>7, <2>1
    <3>2. QED  BY <2>3, <3>1, Zenon DEF ScanEnds
  <2>5. Shifted(q, c + 1, 0) = q  BY <1>15, <1>16 DEF Shifted
  <2>6. handedOff \o <<>> = handedOff  BY <1>1 DEF QueueInv
  <2>7. FirstMessages(handedOff', h) /\ Holds(packetQueue', h, c + 1)
    BY <1>6, <1>14, <2>4, <2>5, <2>6
  <2>8. count' = c + 1 /\ nextAckRequestExpected' = e + 1 /\ lowestAckInQueue' = Base(h)
    BY <1>11, <1>13, <2>4
  <2>9. Base(h) + (c + 1) = e + 1 /\ h <= Len(messages)  BY <1>8, <1>10, <1>11
  <2>10. c + 1 > 0 => h < Len(messages) /\ c + 1 < Size(h + 1)  BY <1>7, <1>10, <1>17
  <2>11. QED  BY <1>4, <1>8, <1>13, <2>7, <2>8, <2>9, <2>10, DueEnds
<1>18. CASE c + 1 = s
  <2>1. PICK m : m = messages[h + 1]  OBVIOUS
  <2>2. m = [j \in 1 .. s |-> x + j - 1]
    <3>1. m \in Seq(Nat) /\ Len(m) = s  BY <1>1, <1>5, <1>7, <2>1, ElementOfSeq DEF MessagesInv, Size
    <3>2. \A j \in 1 .. s : m[j] = x + j - 1  BY <1>1, <1>5, <1>7, <2>1 DEF MessagesInv
    <3>3. QED  BY <3>1, <3>2
  <2>3. PICK w : w = Scan(q, s, x, e)  OBVIOUS
  <2>4. w = ScanDone(s, x)
    <3>1. s \in Nat \ {0} /\ Fragments(q, s, x, s)  BY <1>8, <1>9, <1>18
    <3>2. x \in Nat \ {0}  BY <1>8
    <3>3. QED  BY <2>3, <3>1, <3>2, ScanWhole
  <2>5. x + s - 1 = e  BY <1>7, <1>8, <1>18
  <2>6. w.diff = s /\ w.lowest = e + 1 /\ w.nextAck = e /\ w.out = <<m>>
    BY <1>13, <2>2, <2>4, <2>5 DEF ScanDone
  <2>7. /\ packetQueue' = Shifted(q, s, s) /\ count' = s - s /\ lowestAckInQueue' = e + 1
        /\ nextAckRequestExpected' = AckAdd(e, 1) /\ handedOff' = handedOff \o <<m>>
    <3>1. ScanEnds(q, s, w)  BY <1>6, <1>7, <1>18, <2>3
    <3>2. QED  BY <2>6, <3>1, Zenon DEF ScanEnds
  <2>8. FirstMessages(handedOff', h + 1)  BY <1>1, <1>5, <1>14, <2>1, <2>7, HandsNext
  <2>9. Holds(packetQueue', h + 1, 0)
    <3>1. packetQueue' = [j \in 1 .. l |-> Empty]
      <4>1. packetQueue' = [j \in 1 .. l |-> IF s > 0 /\ j <= s - s THEN q[j + s]
                                            ELSE IF s > 0 /\ j <= s THEN Empty ELSE q[j]]
        BY <1>16, <2>7 DEF Shifted
      <4>2. \A j \in 1 .. l : (IF s > 0 /\ j <= s - s THEN q[j + s]
                               ELSE IF s > 0 /\ j <= s THEN Empty ELSE q[j]) = Empty
        BY <1>8, <1>15, <1>16, <1>18
      <4>3. QED  BY <4>1, <4>2
    <3>2. Empty \in Slots  BY DEF Empty, Slots
    <3>3. packetQueue' \in Seq(Slots) /\ Len(packetQueue') = l  BY <3>1, <3>2
    <3>4. \A j \in 1 .. l : packetQueue'[j] = Empty /\ ~(j <= 0)  BY <3>1
    <3>5. 0 \in 0 .. l  OBVIOUS
    <3>6. QED  BY <3>3, <3>4, <3>5, Zenon DEF Holds
  <2>10. count' = 0 /\ nextAckRequestExpected' = e + 1 /\ lowestAckInQueue' = Base(h + 1)
    BY <1>11, <1>13, <2>5, <2>7
  <2>11. Base(h + 1) + 0 = e + 1 /\ h + 1 <= Len(messages) /\ h + 1 \in Nat  BY <1>10, <1>11, <2>5
  <2>12. QED  BY <1>4, <1>13, <2>8, <2>9, <2>10, <2>11, DueEnds
<1>19. QED  BY <1>8, <1>17, <1>18

\* ack_recv_packet: an old datagram is ignored, the one that is due is handed off or queued.
LEMMA RecvStep ==
  ASSUME IInv, Regular, ~early', NEW i \in 1 .. Len(network), Recv(i)
  PROVE  IInv'
<1>1. PICK d : d = network[i]  OBVIOUS
<1>2. i = 1 \/ channel # "ordered"  BY DEF Recv
<1>3. d.ackRequest \in FirstAck .. Due  BY <1>1, <1>2, RecvKnows
<1>4. Due \in Nat  BY DueFacts
<1>5. d.ackRequest < Due \/ d.ackRequest = Due  BY <1>3, <1>4, ConstantFacts
<1>6. CASE d.ackRequest < Due  BY <1>1, <1>6, RecvOld
<1>7. CASE d.ackRequest = Due /\ d.fragCount = 0  BY <1>1, <1>7, RecvWhole
<1>8. CASE d.ackRequest = Due /\ d.fragCount # 0  BY <1>1, <1>8, RecvFragment
<1>9. QED  BY <1>5, <1>6, <1>7, <1>8

\* Nothing happens on the connection.
LEMMA StutterStep ==
  ASSUME IInv, UNCHANGED vars
  PROVE  IInv'
<1>1. /\ UNCHANGED <<server, readyToSend, handedOff, client, received>>
      /\ UNCHANGED <<network, channel, messages, received>>
  BY DEF vars, client
<1>2. /\ MessagesInv' /\ QueueInv' /\ AckInv' /\ Due' = Due /\ Sent' = Sent
      /\ \A d : IsDatagram(d)' <=> IsDatagram(d)
  BY <1>1, ServerKept
<1>3. NetworkInv /\ ChannelInv  BY DEF IInv
<1>4. NetworkInv'
  BY <1>1, <1>3 DEF NetworkInv, IsDatagram, Size
<1>5. ChannelInv'  BY <1>1, <1>2, <1>3 DEF ChannelInv
<1>6. QED  BY <1>2, <1>4, <1>5 DEF IInv

\* The channel stays, and what came early is not forgotten.
LEMMA EarlyStays ==
  ASSUME [Next]_vars
  PROVE  channel' = channel /\ (early => early')
<1>1. ASSUME NEW n \in Sizes, ClientSend(n) PROVE UNCHANGED <<channel, early>>
  BY <1>1 DEF ClientSend
<1>2. ASSUME ClientResend PROVE UNCHANGED <<channel, early>>  BY <1>2 DEF ClientResend, client
<1>3. ASSUME NEW i \in 1 .. Len(network), Recv(i) PROVE channel' = channel /\ (early => early')
  <2>1. channel' = channel  BY <1>3 DEF Recv, client
  <2>2. early => early'  BY <1>3, Zenon DEF Recv
  <2>3. QED  BY <2>1, <2>2
<1>4. ASSUME NEW i \in 1 .. Len(network), Lose(i) PROVE UNCHANGED <<channel, early>>
  BY <1>4 DEF Lose, client
<1>5. ASSUME SendCycle \/ KeepAlive PROVE UNCHANGED <<channel, early>>
  BY <1>5 DEF SendCycle, KeepAlive
<1>6. ASSUME UNCHANGED vars PROVE UNCHANGED <<channel, early>>  BY <1>6 DEF vars, client
<1>7. QED  BY <1>1, <1>2, <1>3, <1>4, <1>5, <1>6 DEF Next

\* Every step of the client, the network and the udp thread keeps the invariant, but for a
\* datagram that comes early, on a channel that reorders.
LEMMA NextKeepsUntilEarly ==
  ASSUME Regular, UntilEarly, [Next]_vars
  PROVE  UntilEarly'
<1>1. channel' = channel /\ (early => early')  BY EarlyStays
<1>2. CASE early
  <2>1. channel' = "any" /\ early'  BY <1>1, <1>2 DEF UntilEarly
  <2>2. QED  BY <2>1 DEF UntilEarly
<1>3. CASE ~early
  <2>1. IInv  BY <1>3 DEF UntilEarly
  <2>2. ASSUME NEW n \in Sizes, ClientSend(n) PROVE IInv' /\ ~early'
    BY <1>3, <2>1, <2>2, ClientSendStep DEF ClientSend
  <2>3. ASSUME ClientResend PROVE IInv' /\ ~early'
    BY <1>3, <2>1, <2>3, ClientResendStep DEF ClientResend
  <2>4. ASSUME NEW i \in 1 .. Len(network), Recv(i)
        PROVE  (early' => channel = "any") /\ (~early' => IInv')
    <3>1. early' => channel = "any"  BY <1>3, <2>1, <2>4, EarlyOnlyAny
    <3>2. ~early' => IInv'  BY <2>1, <2>4, RecvStep
    <3>3. QED  BY <3>1, <3>2
  <2>5. ASSUME NEW i \in 1 .. Len(network), Lose(i) PROVE IInv' /\ ~early'
    BY <1>3, <2>1, <2>5, LoseStep DEF Lose
  <2>6. ASSUME SendCycle \/ KeepAlive PROVE IInv' /\ ~early'
    <3>1. early' = early  BY <2>6 DEF SendCycle, KeepAlive
    <3>2. IInv'  BY <2>1, <2>6, AckStep
    <3>3. QED  BY <1>3, <3>1, <3>2
  <2>7. ASSUME UNCHANGED vars PROVE IInv' /\ ~early'
    BY <1>3, <2>1, <2>7, StutterStep DEF vars
  <2>8. (early' => channel = "any") /\ (~early' => IInv')
    BY <2>2, <2>3, <2>4, <2>5, <2>6, <2>7 DEF Next
  <2>9. QED  BY <1>1, <2>8 DEF UntilEarly
<1>4. QED  BY <1>2, <1>3

-----------------------------------------------------------------------------
(* The theorems.                                                           *)

\* The invariant that ack_recv_packet, the send cycle and the client keep on every channel
\* until a datagram comes ahead of one that is due.
THEOREM InductiveInvariant ==
  ASSUME Regular
  PROVE  Spec => []UntilEarly
<1>1. Init => UntilEarly
  <2>1. Init => ~early  BY DEF Init
  <2>2. QED  BY <2>1, InitIInv DEF UntilEarly
<1>2. UntilEarly /\ [Next]_vars => UntilEarly'  BY NextKeepsUntilEarly
<1>3. QED  BY <1>1, <1>2, PTL DEF Spec

\* No datagram comes ahead of one that is due where the network keeps the order, or the
\* client waits for the ack of each: there the theorems below hold for the whole session.
THEOREM EarlyOnlyIfReordered ==
  ASSUME Regular
  PROVE  Spec => [](early => channel = "any")
<1>1. UntilEarly => (early => channel = "any")  BY DEF UntilEarly
<1>2. QED  BY <1>1, InductiveInvariant, PTL

\* ack_recv_packet hands every message to the connection's thread complete, once and in the
\* order of the client, whatever is repeated, lost and delayed, until a datagram comes early.
THEOREM HandedInOrder ==
  ASSUME Regular
  PROVE  Spec => [](early \/ HandedOffInOrder)
<1>1. IInv => HandedOffInOrder
  <2> SUFFICES ASSUME IInv PROVE HandedOffInOrder  OBVIOUS
  <2>1. MessagesInv /\ QueueInv  BY DEF IInv
  <2>2. PICK h \in Nat : h = Len(handedOff)  BY <2>1, LenProperties DEF QueueInv
  <2>3. PICK k \in Nat : k = Len(messages)  BY <2>1, MessageFacts
  <2>4. h <= k /\ handedOff \in Seq(Seq(Nat)) /\ messages \in Seq(Seq(Nat))
    BY <2>1, <2>2, <2>3 DEF QueueInv, MessagesInv
  <2>5. PICK a : a = SubSeq(handedOff, 1, h)  OBVIOUS
  <2>6. PICK b : b = SubSeq(messages, 1, h)  OBVIOUS
  <2>7. a \in Seq(Seq(Nat)) /\ Len(a) = h /\ \A j \in 1 .. h : a[j] = handedOff[j]
    BY <2>2, <2>4, <2>5, SubSeqProperties
  <2>8. b \in Seq(Seq(Nat)) /\ Len(b) = h /\ \A j \in 1 .. h : b[j] = messages[j]
    BY <2>3, <2>4, <2>6, SubSeqProperties
  <2>9. \A j \in 1 .. h : a[j] = b[j]  BY <2>1, <2>2, <2>7, <2>8 DEF QueueInv
  <2>10. a = b  BY <2>7, <2>8, <2>9, SeqEqual
  <2>11. QED  BY <2>2, <2>3, <2>4, <2>5, <2>6, <2>10 DEF HandedOffInOrder, IsPrefix
<1>2. UntilEarly => early \/ HandedOffInOrder  BY <1>1 DEF UntilEarly
<1>3. QED  BY <1>2, InductiveInvariant, PTL

\* The acks that the send cycle and the keep-alives carry cover only what was received, on
\* every channel, until a datagram comes ahead of one that is due: the next response then
\* acks one that has not come (AckRecvReorder).
THEOREM AckedReceived ==
  ASSUME Regular
  PROVE  Spec => [](early \/ AckedWereReceived)
<1>1. IInv => AckedWereReceived
  <2> SUFFICES ASSUME IInv, received # {}, NEW n \in 1 .. Covers(lastAckSent)
               PROVE  FirstAck + n - 1 \in received
    BY DEF AckedWereReceived
  <2>1. AckInv  BY DEF IInv
  <2>2. PICK e \in Nat : e = Due /\ FirstAck <= e /\ e < AckMod  BY DueFacts
  <2>3. PICK a \in Nat : a = lastAckSent /\ FirstAck - 1 <= a /\ a <= e - 1
    BY <2>1, <2>2, ConstantFacts DEF AckInv
  <2>4. received = FirstAck .. e - 1  BY <2>1, <2>2 DEF AckInv
  <2>5. AckAdd(a, 1) = a + 1 /\ a + 1 \in Acks
    <3>1. a + 1 < AckMod  BY <2>2, <2>3, ConstantFacts
    <3>2. QED  BY <3>1, AddSmall, ConstantFacts DEF Acks
  <2>6. AckSub(a + 1, FirstAck) = a + 1 - FirstAck
    <3>1. FirstAck <= a + 1  BY <2>3, ConstantFacts
    <3>2. QED  BY <2>5, <3>1, SubSmall, ConstantFacts
  <2>7. n \in 1 .. a + 1 - FirstAck  BY <2>3, <2>5, <2>6 DEF Covers
  <2>8. QED  BY <2>2, <2>3, <2>4, <2>7, ConstantFacts
<1>2. UntilEarly => early \/ AckedWereReceived  BY <1>1 DEF UntilEarly
<1>3. QED  BY <1>2, InductiveInvariant, PTL

\* The queue of ack_recv_packet holds what is received and not handed off and nothing else,
\* each datagram at its distance from lowestAckInQueue, until a datagram comes early.
THEOREM QueueIsExact ==
  ASSUME Regular
  PROVE  Spec => [](early \/ QueueExact)
<1>1. IInv => QueueExact
  <2> SUFFICES ASSUME IInv, FirstAck \in received PROVE
        /\ count = AckSub(nextAckRequestExpected, lowestAckInQueue)
        /\ \A i \in DOMAIN packetQueue :
             packetQueue[i].ackRequest = IF i <= count THEN lowestAckInQueue + i - 1 ELSE 0
    BY DEF QueueExact
  <2>1. MessagesInv /\ QueueInv /\ AckInv  BY DEF IInv
  <2>2. PICK h \in Nat : h = Len(handedOff) /\ h \in 0 .. Len(messages)  BY DueFacts, <2>1, MessageFacts
  <2>3. PICK b \in Nat : b = Base(h)  BY <2>1, <2>2, BaseIs
  <2>4. PICK c \in Nat : c = count  BY DueFacts
  <2>5. lowestAckInQueue = b /\ nextAckRequestExpected \in Acks  BY <2>1, <2>2, <2>3, Zenon DEF AckInv
  <2>6. nextAckRequestExpected = b + c
    <3>1. Due = nextAckRequestExpected  BY DEF Due
    <3>2. QED  BY <2>1, <2>2, <2>3, <2>4, <3>1 DEF QueueInv
  <2>7. count = AckSub(nextAckRequestExpected, lowestAckInQueue)
    <3>1. AckSub(nextAckRequestExpected, b) = (b + c) - b  BY <2>5, <2>6, SubSmall
    <3>2. QED  BY <2>4, <2>5, <3>1
  <2>8. PICK l \in Nat : l = Len(packetQueue) /\ DOMAIN packetQueue = 1 .. l
    BY <2>1, LenProperties DEF QueueInv
  <2>9. ASSUME NEW i \in 1 .. l
        PROVE  packetQueue[i].ackRequest = IF i <= c THEN b + i - 1 ELSE 0
    <3>1. packetQueue[i] = IF i <= c THEN Slot(Datagram(messages[h + 1], i)) ELSE Empty
      BY <2>1, <2>2, <2>4, <2>8 DEF QueueInv
    <3>2. CASE i <= c
      <4>1. h < Len(messages) /\ c < Size(h + 1)  BY <2>1, <2>2, <2>4, <3>2 DEF QueueInv
      <4>2. PICK k \in Nat : k = Len(messages)  BY <2>1, MessageFacts
      <4>3. h + 1 \in 1 .. Len(messages)  BY <2>2, <4>1, <4>2
      <4>4. Size(h + 1) \in Nat  BY <2>1, <4>3, MessageFacts
      <4>5. i \in 1 .. Size(h + 1)  BY <2>8, <3>2, <4>1, <4>4
      <4>6. Datagram(messages[h + 1], i).ackRequest = First(h + 1) + i - 1
        BY <2>1, <4>3, <4>5, DatagramIs
      <4>7. First(h + 1) = b  BY <2>1, <2>2, <2>3, <4>1, BaseIs
      <4>8. packetQueue[i].ackRequest = Datagram(messages[h + 1], i).ackRequest
        BY <3>1, <3>2 DEF Slot
      <4>9. QED  BY <3>2, <4>6, <4>7, <4>8
    <3>3. CASE ~(i <= c)  BY <3>1, <3>3 DEF Empty
    <3>4. QED  BY <3>2, <3>3
  <2>10. QED  BY <2>4, <2>5, <2>7, <2>8, <2>9
<1>2. UntilEarly => early \/ QueueExact  BY <1>1 DEF UntilEarly
<1>3. QED  BY <1>2, InductiveInvariant, PTL

\* The types of the receiving half of AckMgr: the count stays within the capacity,
\* until a datagram comes early.
THEOREM TypeCorrect ==
  ASSUME Regular
  PROVE  Spec => [](early \/ TypeOK)
<1>1. IInv => TypeOK
  <2> SUFFICES ASSUME IInv PROVE TypeOK  OBVIOUS
  <2>1. MessagesInv /\ QueueInv /\ AckInv  BY DEF IInv
  <2>2. PICK e \in Nat : e = Due /\ FirstAck <= e /\ e <= Sent /\ e < AckMod  BY DueFacts
  <2>3. PICK b \in Nat : b = Sent /\ b < AckMod /\ FirstAck + Datagrams(messages) = b
    BY <2>1, MessageFacts
  <2>4. acked \in 0 .. Datagrams(messages)
    <3>1. acked \in 0 .. e - FirstAck  BY <2>1, <2>2 DEF AckInv
    <3>2. Datagrams(messages) \in Int
      <4>1. messages = <<>> => Datagrams(messages) = 0  BY DEF Datagrams
      <4>2. ASSUME messages # <<>> PROVE Datagrams(messages) \in Int
        <5>1. PICK k \in Nat : k = Len(messages) /\ k # 0
          BY <2>1, <4>2, LenProperties, EmptySeq DEF MessagesInv
        <5>2. k \in 1 .. k  BY <5>1
        <5>3. messages[k] \in Seq(Nat)  BY <2>1, <5>1, <5>2, ElementOfSeq DEF MessagesInv
        <5>4. Size(k) \in Nat /\ Size(k) >= 1  BY <2>1, <5>1, <5>2, MessageFacts
        <5>5. messages[k][Len(messages[k])] \in Nat  BY <5>3, <5>4, ElementOfSeq DEF Size
        <5>6. Datagrams(messages) = messages[k][Len(messages[k])] - FirstAck + 1
          BY <4>2, <5>1, Zenon DEF Datagrams, Last
        <5>7. QED  BY <5>5, <5>6, ConstantFacts
      <4>3. QED  BY <4>1, <4>2
    <3>3. e - FirstAck <= Datagrams(messages)  BY <2>2, <2>3, <3>2, ConstantFacts
    <3>4. QED  BY <2>2, <3>1, <3>2, <3>3, ConstantFacts
  <2>5. received \subseteq Acks
    <3>1. received = FirstAck .. e - 1  BY <2>1, <2>2 DEF AckInv
    <3>2. QED  BY <2>2, <3>1, ConstantFacts DEF Acks
  <2>6. PICK l \in Nat : l = Len(packetQueue) /\ DOMAIN packetQueue = 1 .. l
    BY <2>1, LenProperties DEF QueueInv
  <2>7. ASSUME NEW i \in 1 .. l
        PROVE  packetQueue[i] \in [ackRequest : Acks, fragCount : Sizes \cup {0}, hasOpcode : BOOLEAN]
    <3>1. PICK h \in Nat : h = Len(handedOff)  BY <2>1, LenProperties DEF QueueInv
    <3>2. packetQueue[i] = IF i <= count THEN Slot(Datagram(messages[h + 1], i)) ELSE Empty
      BY <2>1, <2>6, <3>1 DEF QueueInv
    <3>3. CASE i <= count
      <4>1. PICK c \in Nat : c = count  BY DueFacts
      <4>2. h < Len(messages) /\ c < Size(h + 1)  BY <2>1, <3>1, <3>3, <4>1 DEF QueueInv
      <4>3. PICK k \in Nat : k = Len(messages)  BY <2>1, MessageFacts
      <4>4. h + 1 \in 1 .. Len(messages)  BY <3>1, <4>2, <4>3
      <4>5. Size(h + 1) \in Nat  BY <2>1, <4>4, MessageFacts
      <4>6. i \in 1 .. Size(h + 1)  BY <2>6, <3>3, <4>1, <4>2, <4>5
      <4>7. PICK d : d = Datagram(messages[h + 1], i)  OBVIOUS
      <4>8. d \in Fields /\ d.ackRequest \in FirstAck .. Sent - 1  BY <2>1, <4>4, <4>6, <4>7, DatagramIs
      <4>9. d.fragCount = IF Size(h + 1) = 1 THEN 0 ELSE Size(h + 1)
        BY <2>1, <4>4, <4>6, <4>7, DatagramIs
      <4>10. d.fragCount \in Sizes \cup {0}
        <5>1. Size(h + 1) \in Sizes  BY <2>1, <4>4 DEF MessagesInv
        <5>2. QED  BY <4>9, <5>1
      <4>11. d.ackRequest \in Acks  BY <2>3, <4>8, ConstantFacts DEF Acks
      <4>12. d.hasOpcode \in BOOLEAN  BY <4>8 DEF Fields
      <4>13. packetQueue[i] = Slot(d)  BY <3>2, <3>3, <4>7
      <4>14. QED  BY <4>10, <4>11, <4>12, <4>13 DEF Slot
    <3>4. CASE ~(i <= count)
      <4>1. packetQueue[i] = Empty /\ 0 \in Acks  BY <3>2, <3>4, ConstantFacts DEF Acks
      <4>2. QED  BY <4>1 DEF Empty
    <3>5. QED  BY <3>3, <3>4
  <2>8. count \in 0 .. Len(packetQueue)  BY <2>1 DEF QueueInv
  <2>9. /\ nextAckRequestExpected \in Acks /\ lastAckSent \in Acks /\ lowestAckInQueue \in Acks
        /\ readyToSend \in BOOLEAN /\ channel \in Channels
    BY <2>1 DEF AckInv
  <2>10. QED  BY <2>4, <2>5, <2>6, <2>7, <2>8, <2>9 DEF TypeOK
<1>2. UntilEarly => early \/ TypeOK  BY <1>1 DEF UntilEarly
<1>3. QED  BY <1>2, InductiveInvariant, PTL
=============================================================================
