---------------------------- MODULE AckSendProofs ----------------------------
(***************************************************************************)
(* For every width of the ack, every window of at most half that width and *)
(* every mix of packets that the window holds, whatever the network loses, *)
(* duplicates and reorders: a packet leaves the queue only when the client *)
(* has received all of it, and a send cycle in which everything unacked is *)
(* due leaves out nothing the client misses.                               *)
(***************************************************************************)
EXTENDS AckSend, SequenceTheorems, WellFoundedInduction, TLAPS

-----------------------------------------------------------------------------
(* ack_cmp orders acks across the wrap-around.                             *)

\* Division by AckMod, as the provers need it.
LEMMA AckDivMod ==
  \A a \in Nat : /\ a % AckMod \in 0 .. AckMod - 1
                 /\ a \div AckMod \in Nat
                 /\ a = AckMod * (a \div AckMod) + (a % AckMod)
  BY AckAssumption

\* The conversion to uint16_t of a value less than two laps: the value, or the
\* value less one lap.
LEMMA ModOnce ==
  ASSUME NEW a \in Nat, a < 2 * AckMod
  PROVE  a % AckMod = IF a < AckMod THEN a ELSE a - AckMod
<1> DEFINE q == a \div AckMod
           r == a % AckMod
<1>1. q \in Nat /\ a = AckMod * q + r /\ r \in 0 .. AckMod - 1
  BY AckDivMod
<1>2. CASE q = 0  BY <1>1, <1>2, AckAssumption
<1>3. CASE q = 1  BY <1>1, <1>3, AckAssumption
<1>4. CASE q >= 2
  <2>1. AckMod * q >= AckMod * 2  BY <1>1, <1>4, AckAssumption
  <2>2. QED  BY <1>1, <2>1, AckAssumption
<1>5. QED  BY <1>1, <1>2, <1>3, <1>4

\* An ack up to a window minus one after the expected one, across the
\* wrap-around or not, compares as ACK_Future.
THEOREM LaterIsFuture ==
  \A expected \in Acks : \A d \in 1 .. AckWindow - 1 :
    ack_cmp(AckAdd(expected, d), expected) = "Future"
<1> SUFFICES ASSUME NEW expected \in Acks, NEW d \in 1 .. AckWindow - 1
             PROVE  ack_cmp(AckAdd(expected, d), expected) = "Future"
  OBVIOUS
<1>1. AckAdd(expected, d) = IF expected + d < AckMod THEN expected + d ELSE expected + d - AckMod
  BY ModOnce, AckAssumption DEF AckAdd, Acks
<1>2. QED  BY <1>1, AckAssumption DEF ack_cmp, Acks

\* An ack up to a whole window before the expected one, across the wrap-around
\* or not, compares as ACK_Past.
THEOREM EarlierIsPast ==
  \A expected \in Acks : \A d \in 1 .. AckWindow :
    ack_cmp(AckSub(expected, d), expected) = "Past"
<1> SUFFICES ASSUME NEW expected \in Acks, NEW d \in 1 .. AckWindow
             PROVE  ack_cmp(AckSub(expected, d), expected) = "Past"
  OBVIOUS
<1>1. AckSub(expected, d) = IF expected < d THEN expected + AckMod - d ELSE expected - d
  BY ModOnce, AckAssumption DEF AckSub, Acks
<1>2. QED  BY <1>1, AckAssumption DEF ack_cmp, Acks

-----------------------------------------------------------------------------
(* The inductive invariant.                                                *)

\* The ack request of ordinal k, for a connection whose first one was first:
\* 0 is skipped at most once, when a packet would have begun with it.
AckAt(first, skip, k) ==
  IF first + k - 1 < AckMod THEN first + k - 1 ELSE first + k - 1 + skip - AckMod

\* Ordinal q and all before it have reached the client.
Reached(q) == \A o \in 1 .. q : o \in received

Numbered(first, skip) ==
  /\ \A o \in 1 .. Len(acks) : acks[o] = AckAt(first, skip, o)
  /\ \/ nextAckToRequest = AckAt(first, skip, Len(acks) + 1)
     \/ Len(acks) = 0 /\ nextAckToRequest = 0 /\ first = 1
  /\ \E q \in 0 .. Len(acks) : lastAckReceived = AckAt(first, skip, q) /\ Reached(q)

\* Everything scheduled is numbered in one lap, and what was acked had arrived.
NumberInv == \E first \in 1 .. AckMod - 1, skip \in 0 .. 1 : Numbered(first, skip)

ResponseInv == \A r \in responses : \E q \in 1 .. Len(acks) : r = acks[q] /\ Reached(q)

\* The fragments of a packet have consecutive ack requests.
QueueInv ==
  \A i \in 1 .. Len(packetQueue) :
    LET w == packetQueue[i] IN
    /\ w.ord + w.fragCount - 1 <= Len(acks)
    /\ \A f \in 0 .. w.fragCount - 1 : acks[w.ord + f] = AckAdd(w.ackRequest, f)

NetworkInv == \A d \in network : d.ord \in 1 .. Len(acks)

IInv ==
  /\ TypeOK /\ Len(acks) <= MaxDatagrams
  /\ NumberInv /\ ResponseInv /\ QueueInv /\ NetworkInv /\ DroppedWereReceived

\* A packet of n fragments can be scheduled after m datagrams, beginning with ack.
FreshNumbers(m, n, ack) ==
  /\ m = Len(acks) /\ m + n <= MaxDatagrams
  /\ ack = IF nextAckToRequest = 0 THEN 1 ELSE nextAckToRequest

\* The numbering of the first m datagrams goes on with the n fragments after them.
Continues(m, n, ack) ==
  \E first \in 1 .. AckMod - 1, skip \in 0 .. 1 :
    /\ \A o \in 1 .. m : acks[o] = AckAt(first, skip, o)
    /\ \A f \in 0 .. n : AckAdd(ack, f) = AckAt(first, skip, m + 1 + f)
    /\ \E q \in 0 .. m : lastAckReceived = AckAt(first, skip, q) /\ Reached(q)

-----------------------------------------------------------------------------
(* Numbers and loops.                                                      *)

\* A set of natural numbers has a least element.
LEMMA LeastOf ==
  ASSUME NEW T, T \subseteq Nat, T # {}
  PROVE  \E x \in T : \A y \in T : x <= y
<1>1. PICK R : R = OpToRel(<, Nat)  OBVIOUS
<1>2. IsWellFoundedOn(R, Nat)  BY <1>1, NatLessThanWellFounded
<1>3. PICK x \in T : \A y \in T : ~(<<y, x>> \in R)  BY <1>2, WFMin
<1>4. \A a, b \in Nat : a < b => <<a, b>> \in R  BY <1>1 DEF OpToRel
<1>5. \A y \in T : ~(y < x)
  <2>1. x \in Nat /\ \A y \in T : y \in Nat  OBVIOUS
  <2>2. QED  BY <1>3, <1>4, <2>1, Zenon
<1>6. QED  BY <1>5

\* A loop that runs while the next of 1 .. n is in B stops somewhere.
LEMMA LoopStops ==
  ASSUME NEW n \in Nat, NEW B
  PROVE  \E i \in 0 .. n : (\A j \in 1 .. i : j \in B) /\ (i < n => i + 1 \notin B)
<1> DEFINE T == {i \in 0 .. n : i = n \/ i + 1 \notin B}
<1>1. n \in T  OBVIOUS
<1>2. PICK x \in T : \A y \in T : x <= y
  <2>1. T \subseteq Nat /\ T # {}  BY <1>1
  <2> HIDE DEF T
  <2>2. QED  BY <2>1, LeastOf
<1>3. \A j \in 1 .. x : j \in B
  <2> SUFFICES ASSUME NEW j \in 1 .. x PROVE j \in B  OBVIOUS
  <2>1. x \in 0 .. n /\ j - 1 \in 0 .. n /\ j - 1 # n /\ j - 1 + 1 = j  OBVIOUS
  <2>2. j - 1 \notin T  BY <1>2, <2>1
  <2>3. QED  BY <2>1, <2>2
<1>4. QED  BY <1>2, <1>3

\* ack_cmp tells the ordinals of a window apart.
LEMMA AckAtOrder ==
  ASSUME NEW first \in 1 .. AckMod - 1, NEW skip \in 0 .. 1,
         NEW o \in 0 .. MaxDatagrams, NEW p \in 1 .. MaxDatagrams
  PROVE  /\ AckAt(first, skip, o) \in Acks
         /\ o < p => ack_cmp(AckAt(first, skip, o), AckAt(first, skip, p)) = "Past"
         /\ o >= 1 /\ o < p => ack_cmp(AckAt(first, skip, p), AckAt(first, skip, o)) = "Future"
<1>1. MaxDatagrams \in Nat /\ MaxDatagrams < AckWindow /\ AckMod \in Nat /\ AckWindow \in Nat
      /\ AckMod >= 2 * AckWindow
  BY SendAssumption, AckAssumption
<1>2. AckAt(first, skip, o) \in Acks  BY <1>1 DEF AckAt, Acks
<1>3. o < p => ack_cmp(AckAt(first, skip, o), AckAt(first, skip, p)) = "Past"
  BY <1>1 DEF AckAt, ack_cmp
<1>4. o >= 1 /\ o < p => ack_cmp(AckAt(first, skip, p), AckAt(first, skip, o)) = "Future"
  BY <1>1 DEF AckAt, ack_cmp
<1>5. QED  BY <1>2, <1>3, <1>4

\* The loop of ack_recv_ack_response stops at the first packet that has a later
\* ack request.
LEMMA AckedPacketsAre ==
  ASSUME TypeOK, NEW ack
  PROVE  /\ AckedPackets(ack) \in 0 .. Len(packetQueue)
         /\ \A j \in 1 .. AckedPackets(ack) :
              ack_cmp(AckAdd(packetQueue[j].ackRequest, packetQueue[j].fragCount - 1), ack) # "Future"
<1> DEFINE Later(w) == ack_cmp(AckAdd(w.ackRequest, w.fragCount - 1), ack) = "Future"
           P(i) == /\ \A j \in 1 .. i : ~Later(packetQueue[j])
                   /\ i < Len(packetQueue) => Later(packetQueue[i + 1])
           B == {j \in 1 .. Len(packetQueue) : ~Later(packetQueue[j])}
<1>1. Len(packetQueue) \in Nat  BY LenProperties DEF TypeOK
<1>2. AckedPackets(ack) = CHOOSE i \in 0 .. Len(packetQueue) : P(i)  BY DEF AckedPackets
<1>3. \E i \in 0 .. Len(packetQueue) : P(i)
  <2>1. PICK i \in 0 .. Len(packetQueue) :
          (\A j \in 1 .. i : j \in B) /\ (i < Len(packetQueue) => i + 1 \notin B)
    <3> HIDE DEF B
    <3>1. QED  BY <1>1, LoopStops
  <2>2. i < Len(packetQueue) => i + 1 \in 1 .. Len(packetQueue)  BY <1>1
  <2> HIDE DEF Later
  <2>3. QED  BY <2>1, <2>2
<1> HIDE DEF P
<1>4. AckedPackets(ack) \in 0 .. Len(packetQueue) /\ P(AckedPackets(ack))  BY <1>2, <1>3
<1>5. QED  BY <1>4 DEF P

\* The fragments that ack_send_queued_packets skips have been acked.
LEMMA SkippedAre ==
  ASSUME NEW w, w.fragCount \in Nat \ {0}
  PROVE  /\ Skipped(w) \in 0 .. w.fragCount
         /\ \A k \in 0 .. Skipped(w) - 1 :
              ack_cmp(lastAckReceived, AckAdd(w.ackRequest, k)) # "Past"
<1> DEFINE AckedFrag(k) == ack_cmp(lastAckReceived, AckAdd(w.ackRequest, k)) # "Past"
           P(f) == (\A k \in 0 .. f - 1 : AckedFrag(k)) /\ (f < w.fragCount => ~AckedFrag(f))
           B == {j \in 1 .. w.fragCount : AckedFrag(j - 1)}
<1>1. CASE w.fragCount = 1
  <2>1. Skipped(w) = 0  BY <1>1 DEF Skipped
  <2>2. QED  BY <1>1, <2>1
<1>2. CASE w.fragCount # 1
  <2>1. Skipped(w) = CHOOSE f \in 0 .. w.fragCount : P(f)  BY <1>2 DEF Skipped
  <2>2. \E f \in 0 .. w.fragCount : P(f)
    <3>1. PICK f \in 0 .. w.fragCount :
            (\A j \in 1 .. f : j \in B) /\ (f < w.fragCount => f + 1 \notin B)
      <4> HIDE DEF B
      <4>1. QED  BY LoopStops
    <3> HIDE DEF AckedFrag
    <3>2. ASSUME NEW k \in 0 .. f - 1 PROVE AckedFrag(k)
      <4>1. k + 1 \in 1 .. f /\ k + 1 - 1 = k  OBVIOUS
      <4>2. QED  BY <3>1, <4>1
    <3>3. f < w.fragCount => ~AckedFrag(f)
      <4>1. f < w.fragCount => f + 1 \in 1 .. w.fragCount /\ f + 1 - 1 = f  OBVIOUS
      <4>2. QED  BY <3>1, <4>1
    <3>4. QED  BY <3>2, <3>3
  <2> HIDE DEF P
  <2>3. Skipped(w) \in 0 .. w.fragCount /\ P(Skipped(w))  BY <2>1, <2>2
  <2>4. QED  BY <2>3 DEF P
<1>3. QED  BY <1>1, <1>2

\* The ordinals the client has without a gap.
LEMMA ContiguousIs ==
  ASSUME Len(acks) \in Nat
  PROVE  Contiguous \in 0 .. Len(acks) /\ Reached(Contiguous)
<1> DEFINE P(n) == 1 .. n \subseteq received /\ (n < Len(acks) => n + 1 \notin received)
<1>1. Contiguous = CHOOSE n \in 0 .. Len(acks) : P(n)  BY DEF Contiguous
<1>2. \E n \in 0 .. Len(acks) : P(n)  BY LoopStops
<1> HIDE DEF P
<1>3. Contiguous \in 0 .. Len(acks) /\ P(Contiguous)  BY <1>1, <1>2
<1>4. QED  BY <1>3 DEF P, Reached

-----------------------------------------------------------------------------
(* The steps.                                                              *)

\* The lengths, as the provers need them.
LEMMA Lengths ==
  ASSUME TypeOK
  PROVE  /\ Len(acks) \in Nat /\ Len(packetQueue) \in Nat
         /\ DOMAIN packetQueue = 1 .. Len(packetQueue)
         /\ \A i \in 1 .. Len(packetQueue) :
              /\ packetQueue[i] \in [ackRequest : Acks, fragCount : FragCounts,
                                     ord : 1 .. MaxDatagrams]
              /\ packetQueue[i].ord \in Nat \ {0} /\ packetQueue[i].fragCount \in Nat \ {0}
<1>1. /\ Len(acks) \in Nat /\ Len(packetQueue) \in Nat
      /\ DOMAIN packetQueue = 1 .. Len(packetQueue)
  BY LenProperties DEF TypeOK
<1>2. \A i \in 1 .. Len(packetQueue) :
        packetQueue[i] \in [ackRequest : Acks, fragCount : FragCounts, ord : 1 .. MaxDatagrams]
  BY ElementOfSeq DEF TypeOK
<1>3. \A w \in [ackRequest : Acks, fragCount : FragCounts, ord : 1 .. MaxDatagrams] :
        w.ord \in Nat \ {0} /\ w.fragCount \in Nat \ {0}
  <2> SUFFICES ASSUME NEW w \in [ackRequest : Acks, fragCount : FragCounts, ord : 1 .. MaxDatagrams]
               PROVE  w.ord \in Nat \ {0} /\ w.fragCount \in Nat \ {0}
    OBVIOUS
  <2>1. w.fragCount \in FragCounts /\ w.ord \in 1 .. MaxDatagrams  OBVIOUS
  <2>2. FragCounts \subseteq Nat \ {0} /\ MaxDatagrams \in Nat  BY SendAssumption
  <2>3. w.fragCount \in Nat \ {0}  BY <2>1, <2>2
  <2>4. w.ord \in Nat \ {0}  BY <2>1, <2>2
  <2>5. QED  BY <2>3, <2>4
<1>4. QED  BY <1>1, <1>2, <1>3

\* Steps that leave the server's queue alone and lose nothing that was received.
LEMMA QueueKept ==
  ASSUME IInv, UNCHANGED <<nextAckToRequest, packetQueue, lastAckReceived, acks>>,
         received \subseteq received', responses' \subseteq responses
  PROVE  NumberInv' /\ ResponseInv' /\ QueueInv' /\ DroppedWereReceived'
<1>1. \A q : Reached(q) => Reached(q)'  BY DEF Reached
<1>2. NumberInv'
  <2>1. PICK first \in 1 .. AckMod - 1, skip \in 0 .. 1 : Numbered(first, skip)
    BY DEF IInv, NumberInv
  <2>2. Numbered(first, skip)'  BY <1>1, <2>1 DEF Numbered
  <2>3. QED  BY <2>2 DEF NumberInv
<1>3. ResponseInv'  BY <1>1 DEF IInv, ResponseInv
<1>4. QueueInv'  BY DEF IInv, QueueInv
<1>5. DroppedWereReceived'  BY DEF IInv, DroppedWereReceived, Ordinals
<1>6. QED  BY <1>2, <1>3, <1>4, <1>5

\* The client receives a datagram, which the network keeps or not.
LEMMA ClientRecvInv ==
  ASSUME IInv, NEW d \in network, ClientRecv(d)
  PROVE  IInv'
<1>1. /\ UNCHANGED <<nextAckToRequest, sendFromIndex, packetQueue, lastAckReceived, readyToSend,
                     acks, responses>>
      /\ network' \subseteq network /\ received' = received \cup {d.ord}
  BY DEF ClientRecv, server
<1>2. d.ord \in 1 .. Len(acks)  BY DEF IInv, NetworkInv
<1>3. NumberInv' /\ ResponseInv' /\ QueueInv' /\ DroppedWereReceived'  BY <1>1, QueueKept
<1>4. TypeOK'  BY <1>1, <1>2 DEF IInv, TypeOK
<1>5. NetworkInv'  BY <1>1 DEF IInv, NetworkInv
<1>6. QED  BY <1>1, <1>3, <1>4, <1>5 DEF IInv

\* The network loses a datagram or an ack response, or the client sends
\* something else.
LEMMA NetworkStepInv ==
  ASSUME IInv,
         \/ \E d \in network : Lose(d)
         \/ \E ack \in responses : LoseResponse(ack)
         \/ ClientSends
  PROVE  IInv'
<1>1. /\ UNCHANGED <<nextAckToRequest, sendFromIndex, packetQueue, lastAckReceived, acks, received>>
      /\ network' \subseteq network /\ responses' \subseteq responses
      /\ readyToSend' \in {readyToSend, TRUE}
  BY DEF Lose, LoseResponse, ClientSends, server
<1>2. NumberInv' /\ ResponseInv' /\ QueueInv' /\ DroppedWereReceived'  BY <1>1, QueueKept
<1>3. TypeOK'  BY <1>1 DEF IInv, TypeOK
<1>4. NetworkInv'  BY <1>1 DEF IInv, NetworkInv
<1>5. QED  BY <1>1, <1>2, <1>3, <1>4 DEF IInv

\* The client acks what it has without a gap.
LEMMA ClientAckInv ==
  ASSUME IInv, ClientAck
  PROVE  IInv'
<1>1. PICK n : n = Contiguous  OBVIOUS
<1>2. /\ n > 0 /\ responses' = responses \cup {acks[n]}
      /\ UNCHANGED <<nextAckToRequest, sendFromIndex, packetQueue, lastAckReceived, readyToSend,
                     acks, network, received>>
  BY <1>1 DEF ClientAck, server
<1>3. n \in 1 .. Len(acks) /\ Reached(n)  BY <1>1, <1>2, ContiguousIs, Lengths DEF IInv
<1>4. acks[n] \in Acks  BY <1>3, ElementOfSeq DEF IInv, TypeOK
<1>5. TypeOK'  BY <1>2, <1>4 DEF IInv, TypeOK
<1>6. ResponseInv'  BY <1>2, <1>3 DEF IInv, ResponseInv, Reached
<1>7. NumberInv' /\ QueueInv' /\ DroppedWereReceived' /\ NetworkInv'
  BY <1>2 DEF IInv, NumberInv, Numbered, Reached, QueueInv, DroppedWereReceived, Ordinals, NetworkInv
<1>8. QED  BY <1>2, <1>5, <1>6, <1>7 DEF IInv

\* What is left of a packet, counted in half datagrams, is odd.
LEMMA LengthIsOdd ==
  ASSUME NEW c \in Nat, NEW f \in Nat, NEW skip \in Nat, NEW m, m = c - 1 - f + skip
  PROVE  2 * (c - 1) + 1 - 2 * (f - skip) = 2 * m + 1
OBVIOUS

\* What a send cycle sends: fragments of queued packets, each of length 1 or 2.
LEMMA SentAre ==
  ASSUME IInv, NEW due, NEW i \in 1 .. Len(packetQueue), NEW d \in SentOf(i, due)
  PROVE  d \in [ord : 1 .. MaxDatagrams, length : {1, 2}] /\ d.ord \in 1 .. Len(acks)
<1>1. PICK w : w = packetQueue[i]  OBVIOUS
<1>2. w.fragCount \in Nat \ {0} /\ w.ord \in Nat \ {0} /\ Len(acks) \in Nat
  BY <1>1, Lengths DEF IInv
<1>3. w.ord + w.fragCount - 1 <= Len(acks) /\ Len(acks) <= MaxDatagrams
  BY <1>1 DEF IInv, QueueInv
<1>4. PICK skip \in 0 .. w.fragCount : d \in SentFrom(w, skip)
  <2>1. Skipped(w) \in 0 .. w.fragCount  BY <1>2, SkippedAre
  <2>2. QED  BY <1>1, <1>2, <2>1 DEF SentOf
<1>5. PICK f \in skip .. w.fragCount - 1 : d = SentFragment(w, skip, f)  BY <1>4 DEF SentFrom
<1>6. PICK m \in Nat : m = w.fragCount - 1 - f + skip  BY <1>2, <1>4, <1>5
<1>7. PICK len : len = 2 * (w.fragCount - 1) + 1 - 2 * (f - skip) /\ len = 2 * m + 1
  <2>1. f \in Nat /\ skip \in Nat /\ w.fragCount \in Nat  BY <1>2, <1>4, <1>5
  <2>2. 2 * (w.fragCount - 1) + 1 - 2 * (f - skip) = 2 * m + 1  BY <1>6, <2>1, LengthIsOdd, SMTT(30)
  <2>3. QED  BY <2>2
<1>8. (IF len > 2 THEN 2 ELSE len) \in {1, 2}  BY <1>6, <1>7
<1>9. w.ord + f \in 1 .. Len(acks) /\ w.ord + f \in 1 .. MaxDatagrams
  BY <1>2, <1>3, <1>4, <1>5, SendAssumption, SMTT(30)
<1>10. d = [ord |-> w.ord + f, length |-> IF len > 2 THEN 2 ELSE len]
  BY <1>5, <1>7 DEF SentFragment
<1>11. QED  BY <1>8, <1>9, <1>10

\* ack_send_queued_packets.
LEMMA SendCycleInv ==
  ASSUME IInv, NEW due, SendCycle(due)
  PROVE  IInv'
<1>1. PICK sent : sent = UNION {SentOf(i, due) : i \in 1 .. Len(packetQueue)}  OBVIOUS
<1>2. /\ readyToSend' = FALSE /\ network' = network \cup sent /\ sendFromIndex' = Len(packetQueue)
      /\ UNCHANGED <<nextAckToRequest, packetQueue, lastAckReceived, acks, responses, received>>
  BY <1>1 DEF SendCycle
<1>3. \A d \in sent : d \in [ord : 1 .. MaxDatagrams, length : {1, 2}] /\ d.ord \in 1 .. Len(acks)
  BY <1>1, SentAre
<1>4. NumberInv' /\ ResponseInv' /\ QueueInv' /\ DroppedWereReceived'  BY <1>2, QueueKept
<1>5. TypeOK'
  <2>1. network' \subseteq [ord : 1 .. MaxDatagrams, length : {1, 2}]
    BY <1>2, <1>3 DEF IInv, TypeOK
  <2>2. sendFromIndex' \in 0 .. Len(packetQueue')  BY <1>2, Lengths DEF IInv
  <2>3. readyToSend' \in BOOLEAN  BY <1>2
  <2>4. QED  BY <1>2, <2>1, <2>2, <2>3 DEF IInv, TypeOK
<1>6. NetworkInv'  BY <1>2, <1>3 DEF IInv, NetworkInv
<1>7. QED  BY <1>2, <1>4, <1>5, <1>6 DEF IInv

\* An ack response acks what the client has received, and only whole packets of
\* that leave the queue.
LEMMA RecvAckResponseInv ==
  ASSUME IInv, NEW ack \in responses, RecvAckResponse(ack)
  PROVE  IInv'
<1>1. PICK i : i = AckedPackets(ack)  OBVIOUS
<1>2. /\ responses' \subseteq responses /\ lastAckReceived' = ack
      /\ packetQueue' = SubSeq(packetQueue, i + 1, Len(packetQueue))
      /\ sendFromIndex' = (IF i > 0 THEN 0 ELSE sendFromIndex) /\ readyToSend' = TRUE
      /\ UNCHANGED <<nextAckToRequest, acks, network, received>>
  BY <1>1 DEF RecvAckResponse
<1>3. PICK n, m : n = Len(packetQueue) /\ m = Len(acks)  OBVIOUS
<1>4. n \in Nat /\ m \in Nat /\ DOMAIN packetQueue = 1 .. n  BY <1>3, Lengths DEF IInv
<1>5. /\ i \in 0 .. n
      /\ \A j \in 1 .. i :
           ack_cmp(AckAdd(packetQueue[j].ackRequest, packetQueue[j].fragCount - 1), ack) # "Future"
  BY <1>1, <1>3, AckedPacketsAre DEF IInv
<1>6. /\ packetQueue' \in Seq([ackRequest : Acks, fragCount : FragCounts, ord : 1 .. MaxDatagrams])
      /\ Len(packetQueue') = n - i
      /\ \A j \in 1 .. n - i : packetQueue'[j] = packetQueue[i + j]
  <2>1. PICK S : S = [ackRequest : Acks, fragCount : FragCounts, ord : 1 .. MaxDatagrams]
    OBVIOUS
  <2>2. i + 1 \in Int /\ n \in Int /\ \A j \in i + 1 .. n : packetQueue[j] \in S
    <3>1. \A j \in i + 1 .. n : j \in 1 .. n  BY <1>4, <1>5
    <3>2. QED  BY <1>3, <1>4, <1>5, <2>1, <3>1, Lengths DEF IInv
  <2>3. PICK s : s = SubSeq(packetQueue, i + 1, n)  OBVIOUS
  <2>4. /\ s \in Seq(S) /\ Len(s) = (IF i + 1 <= n THEN n - (i + 1) + 1 ELSE 0)
        /\ \A j \in 1 .. n - (i + 1) + 1 : s[j] = packetQueue[i + 1 + j - 1]
    BY <2>2, <2>3, SubSeqProperties
  <2>5. Len(s) = n - i  BY <1>4, <1>5, <2>4
  <2>6. \A j \in 1 .. n - i : j \in 1 .. n - (i + 1) + 1 /\ i + 1 + j - 1 = i + j
    BY <1>4, <1>5
  <2>7. packetQueue' = s  BY <1>2, <1>3, <2>3
  <2>8. QED  BY <2>1, <2>4, <2>5, <2>6, <2>7
<1>7. DOMAIN packetQueue' = 1 .. n - i  BY <1>6, LenProperties
<1>8. TypeOK'
  <2>1. lastAckReceived' \in Acks  BY <1>2 DEF IInv, TypeOK
  <2>2. sendFromIndex' \in 0 .. Len(packetQueue')
    BY <1>2, <1>3, <1>4, <1>5, <1>6 DEF IInv, TypeOK
  <2>3. QED  BY <1>2, <1>6, <2>1, <2>2 DEF IInv, TypeOK
<1>9. PICK first \in 1 .. AckMod - 1, skip \in 0 .. 1 : Numbered(first, skip)
  BY DEF IInv, NumberInv
<1>10. PICK q \in 1 .. m : ack = acks[q] /\ Reached(q)  BY <1>3 DEF IInv, ResponseInv
<1>11. ack = AckAt(first, skip, q)  BY <1>3, <1>9, <1>10 DEF Numbered
<1>12. NumberInv'
  <2>1. Numbered(first, skip)'
    BY <1>2, <1>3, <1>4, <1>9, <1>10, <1>11 DEF Numbered, Reached
  <2>2. QED  BY <2>1 DEF NumberInv
<1>13. ResponseInv' /\ NetworkInv'
  BY <1>2 DEF IInv, ResponseInv, Reached, NetworkInv
<1>14. QueueInv'
  <2>1. \A j \in 1 .. n - i : i + j \in 1 .. n /\ packetQueue'[j] = packetQueue[i + j]
    BY <1>4, <1>5, <1>6, SMTT(30)
  <2>2. \A k \in 1 .. n :
          /\ packetQueue[k].ord + packetQueue[k].fragCount - 1 <= Len(acks)
          /\ \A f \in 0 .. packetQueue[k].fragCount - 1 :
               acks[packetQueue[k].ord + f] = AckAdd(packetQueue[k].ackRequest, f)
    BY <1>3 DEF IInv, QueueInv
  <2>3. ASSUME NEW j \in 1 .. n - i
        PROVE  /\ packetQueue'[j].ord + packetQueue'[j].fragCount - 1 <= Len(acks')
               /\ \A f \in 0 .. packetQueue'[j].fragCount - 1 :
                    acks'[packetQueue'[j].ord + f] = AckAdd(packetQueue'[j].ackRequest, f)
    <3>1. PICK k, w : k = i + j /\ w = packetQueue[k]  OBVIOUS
    <3>2. k \in 1 .. n /\ packetQueue'[j] = w  BY <2>1, <3>1
    <3>3. acks' = acks  BY <1>2
    <3>4. /\ w.ord + w.fragCount - 1 <= Len(acks)
          /\ \A f \in 0 .. w.fragCount - 1 : acks[w.ord + f] = AckAdd(w.ackRequest, f)
      BY <2>2, <3>1, <3>2
    <3>5. QED  BY <3>2, <3>3, <3>4
  <2>4. Len(packetQueue') = n - i  BY <1>6
  <2>5. QED  BY <2>3, <2>4 DEF QueueInv, AckAdd
<1>15. ASSUME NEW j \in 1 .. i, NEW o \in Ordinals(packetQueue[j])
       PROVE  o \in received
  <2>1. PICK w : w = packetQueue[j]  OBVIOUS
  <2>2. j \in 1 .. n  BY <1>4, <1>5
  <2>3. w.ord \in Nat \ {0} /\ w.fragCount \in Nat \ {0}
    BY <1>3, <2>1, <2>2, Lengths DEF IInv
  <2>4. PICK p : p = w.ord + w.fragCount - 1  OBVIOUS
  <2>5. p \in 1 .. m /\ m <= MaxDatagrams  BY <1>3, <1>4, <2>1, <2>2, <2>3, <2>4, SMTT(30) DEF IInv, QueueInv
  <2>6. acks[p] = AckAdd(w.ackRequest, w.fragCount - 1)
    <3>1. w.fragCount - 1 \in 0 .. w.fragCount - 1 /\ p = w.ord + (w.fragCount - 1)
      BY <2>3, <2>4
    <3>2. QED  BY <1>3, <2>1, <2>2, <3>1 DEF IInv, QueueInv
  <2>7. acks[p] = AckAt(first, skip, p)  BY <1>3, <1>9, <2>5 DEF Numbered
  <2>8. p <= q
    <3>1. q \in 0 .. MaxDatagrams /\ p \in 1 .. MaxDatagrams /\ q >= 1
      BY <1>4, <1>10, <2>5, SendAssumption
    <3>2. ack_cmp(AckAt(first, skip, p), AckAt(first, skip, q)) # "Future"
      BY <1>5, <1>11, <2>1, <2>6, <2>7
    <3>3. ~(q < p)  BY <3>1, <3>2, AckAtOrder
    <3>4. QED  BY <3>1, <3>3
  <2>9. o \in 1 .. q  BY <1>10, <2>1, <2>3, <2>4, <2>8 DEF Ordinals
  <2>10. QED  BY <1>10, <2>9 DEF Reached
<1>16. DroppedWereReceived'
  <2> SUFFICES ASSUME NEW o \in 1 .. m,
                      \A j \in 1 .. n - i : o \notin Ordinals(packetQueue'[j])
               PROVE  o \in received
    BY <1>2, <1>3, <1>7 DEF DroppedWereReceived, Ordinals
  <2>1. CASE \E j \in 1 .. i : o \in Ordinals(packetQueue[j])  BY <1>15, <2>1
  <2>2. CASE \A j \in 1 .. i : o \notin Ordinals(packetQueue[j])
    <3>1. ASSUME NEW j \in 1 .. n PROVE o \notin Ordinals(packetQueue[j])
      <4>1. CASE j \in 1 .. i  BY <2>2, <4>1
      <4>2. CASE j \notin 1 .. i
        <5>1. j - i \in 1 .. n - i /\ i + (j - i) = j  BY <1>4, <1>5, <4>2
        <5>2. packetQueue'[j - i] = packetQueue[j]  BY <1>6, <5>1
        <5>3. QED  BY <5>1, <5>2
      <4>3. QED  BY <4>1, <4>2
    <3>2. QED  BY <1>3, <1>4, <3>1 DEF IInv, DroppedWereReceived
  <2>3. QED  BY <2>1, <2>2
<1>17. QED  BY <1>2, <1>8, <1>12, <1>13, <1>14, <1>16 DEF IInv

\* The ack request of a fragment, computed as uint16_t.
LEMMA AddWraps ==
  ASSUME NEW ack \in 0 .. AckMod - 1, NEW f \in 0 .. MaxDatagrams
  PROVE  AckAdd(ack, f) = IF ack + f < AckMod THEN ack + f ELSE ack + f - AckMod
<1>1. PICK a : a = ack + f  OBVIOUS
<1>2. MaxDatagrams \in Nat /\ MaxDatagrams < AckWindow /\ AckMod \in Nat /\ AckWindow \in Nat
      /\ AckMod >= 2 * AckWindow
  BY SendAssumption, AckAssumption
<1>3. a \in Nat /\ a < 2 * AckMod  BY <1>1, <1>2
<1>4. a % AckMod = IF a < AckMod THEN a ELSE a - AckMod  BY <1>3, ModOnce
<1>5. QED  BY <1>1, <1>2, <1>3, <1>4 DEF AckAdd

\* The fragments of a new packet continue the numbering, or begin it anew after
\* the 0 that ack_schedule_packet does not begin a packet with.
LEMMA NumbersContinue ==
  ASSUME IInv, NEW n \in Nat \ {0}, NEW m, NEW ack, FreshNumbers(m, n, ack)
  PROVE  Continues(m, n, ack)
<1> USE DEF FreshNumbers, Continues
<1>1. PICK first \in 1 .. AckMod - 1, skip \in 0 .. 1 : Numbered(first, skip)
  BY DEF IInv, NumberInv
<1>2. m \in Nat /\ nextAckToRequest \in Acks  BY Lengths DEF IInv, TypeOK
<1>3. MaxDatagrams \in Nat /\ MaxDatagrams < AckWindow /\ AckMod \in Nat /\ AckWindow \in Nat
      /\ AckMod >= 2 * AckWindow
  BY SendAssumption, AckAssumption
<1>4. /\ \A o \in 1 .. m : acks[o] = AckAt(first, skip, o)
      /\ \/ nextAckToRequest = AckAt(first, skip, m + 1)
         \/ m = 0 /\ nextAckToRequest = 0 /\ first = 1
  BY <1>1 DEF Numbered
<1>5. PICK q \in 0 .. m : lastAckReceived = AckAt(first, skip, q) /\ Reached(q)
  BY <1>1 DEF Numbered
<1>6. ack \in 0 .. AckMod - 1 /\ ack \in Nat  BY <1>2, <1>3 DEF Acks
<1>7. \A f \in 0 .. n : AckAdd(ack, f) = IF ack + f < AckMod THEN ack + f ELSE ack + f - AckMod
  <2> SUFFICES ASSUME NEW f \in 0 .. n
               PROVE  AckAdd(ack, f) = IF ack + f < AckMod THEN ack + f ELSE ack + f - AckMod
    OBVIOUS
  <2>1. f \in 0 .. MaxDatagrams  BY <1>2, <1>3
  <2>2. QED  BY <1>6, <2>1, AddWraps
<1>8. CASE first + m = AckMod /\ nextAckToRequest = 0
  <2>1. ack = 1  BY <1>8
  <2>2. \A o \in 1 .. m : acks[o] = AckAt(first, 1, o)
    BY <1>2, <1>3, <1>4, <1>8 DEF AckAt
  <2>3. \A f \in 0 .. n : AckAdd(ack, f) = AckAt(first, 1, m + 1 + f)
    BY <1>2, <1>3, <1>7, <1>8, <2>1 DEF AckAt
  <2>4. lastAckReceived = AckAt(first, 1, q)  BY <1>2, <1>3, <1>5, <1>8 DEF AckAt
  <2>5. 1 \in 0 .. 1  OBVIOUS
  <2>6. QED  BY <1>5, <2>2, <2>3, <2>4, <2>5
<1>9. CASE first + m < AckMod
  <2>1. ack = first + m  BY <1>2, <1>3, <1>4, <1>9 DEF AckAt
  <2>2. \A o \in 1 .. m : acks[o] = AckAt(first, 0, o)
    BY <1>2, <1>3, <1>4, <1>9 DEF AckAt
  <2>3. \A f \in 0 .. n : AckAdd(ack, f) = AckAt(first, 0, m + 1 + f)
    <3> SUFFICES ASSUME NEW f \in 0 .. n PROVE AckAdd(ack, f) = AckAt(first, 0, m + 1 + f)
      OBVIOUS
    <3>1. AckAdd(ack, f) = IF ack + f < AckMod THEN ack + f ELSE ack + f - AckMod  BY <1>7
    <3>2. first + (m + 1 + f) - 1 = ack + f /\ ack + f + 0 - AckMod = ack + f - AckMod
      BY <1>2, <1>3, <2>1
    <3>3. QED  BY <3>1, <3>2 DEF AckAt
  <2>4. lastAckReceived = AckAt(first, 0, q)  BY <1>2, <1>3, <1>5, <1>9 DEF AckAt
  <2>5. 0 \in 0 .. 1  OBVIOUS
  <2>6. QED  BY <1>5, <2>2, <2>3, <2>4, <2>5
<1>10. CASE first + m >= AckMod /\ ~(first + m = AckMod /\ nextAckToRequest = 0)
  <2>1. ack = first + m + skip - AckMod  BY <1>2, <1>3, <1>4, <1>10 DEF AckAt
  <2>2. \A f \in 0 .. n : AckAdd(ack, f) = AckAt(first, skip, m + 1 + f)
    BY <1>2, <1>3, <1>7, <1>10, <2>1 DEF AckAt
  <2>3. QED  BY <1>4, <1>5, <2>2
<1>11. QED  BY <1>2, <1>3, <1>8, <1>9, <1>10

\* ack_schedule_packet.
LEMMA ScheduleInv ==
  ASSUME IInv, NEW n \in FragCounts, Schedule(n)
  PROVE  IInv'
<1>1. PICK m, ack : m = Len(acks) /\ ack = IF nextAckToRequest = 0 THEN 1 ELSE nextAckToRequest
  OBVIOUS
<1>2. PICK w, new : /\ w = [ackRequest |-> ack, fragCount |-> n, ord |-> m + 1]
                    /\ new = [i \in 1 .. n |-> AckAdd(ack, i - 1)]
  OBVIOUS
<1>3. /\ m + n <= MaxDatagrams
      /\ packetQueue' = Append(packetQueue, w) /\ acks' = acks \o new
      /\ nextAckToRequest' = AckAdd(ack, n) /\ readyToSend' = TRUE
      /\ UNCHANGED <<sendFromIndex, lastAckReceived, network, responses, received>>
  BY <1>1, <1>2 DEF Schedule
<1>4. m \in Nat /\ n \in Nat \ {0} /\ MaxDatagrams \in Nat /\ AckMod \in Nat /\ AckMod >= 2
  BY <1>1, Lengths, SendAssumption, AckAssumption DEF IInv
<1>5. ack \in Acks  BY <1>1, <1>4 DEF IInv, TypeOK, Acks
<1>6. \A f \in Nat : AckAdd(ack, f) \in Acks
  <2> SUFFICES ASSUME NEW f \in Nat PROVE AckAdd(ack, f) \in Acks  OBVIOUS
  <2>1. ack + f \in Nat  BY <1>4, <1>5 DEF Acks
  <2>2. QED  BY <2>1, AckDivMod DEF AckAdd, Acks
<1>7. /\ new \in Seq(Acks) /\ Len(new) = n
      /\ \A i \in 1 .. n : new[i] = AckAdd(ack, i - 1)
  <2>1. \A i \in 1 .. n : i - 1 \in Nat  BY <1>4
  <2>2. new \in [1 .. n -> Acks]  BY <1>2, <1>6, <2>1
  <2>3. QED  BY <1>2, <1>4, <2>2
<1>8. /\ acks' \in Seq(Acks) /\ Len(acks') = m + n
      /\ \A i \in 1 .. m : acks'[i] = acks[i]
      /\ \A i \in 1 .. n : acks'[m + i] = AckAdd(ack, i - 1)
  <2>1. acks \in Seq(Acks)  BY DEF IInv, TypeOK
  <2>2. /\ acks' \in Seq(Acks) /\ Len(acks') = m + n
        /\ \A i \in 1 .. m + n : acks'[i] = IF i <= m THEN acks[i] ELSE new[i - m]
    <3>1. acks' = acks \o new  BY <1>3
    <3>2. QED  BY <1>1, <1>7, <2>1, <3>1, ConcatProperties
  <2>3. \A i \in 1 .. m : i \in 1 .. m + n /\ i <= m  BY <1>4
  <2>4. \A i \in 1 .. n : m + i \in 1 .. m + n /\ ~(m + i <= m) /\ m + i - m = i  BY <1>4
  <2>5. \A i \in 1 .. m : acks'[i] = acks[i]  BY <2>2, <2>3
  <2>6. ASSUME NEW i \in 1 .. n PROVE acks'[m + i] = new[i]
    <3>1. PICK j : j = m + i  OBVIOUS
    <3>2. j \in 1 .. m + n /\ ~(j <= m) /\ j - m = i  BY <1>4, <3>1
    <3>3. acks'[j] = new[j - m]  BY <2>2, <3>2
    <3>4. QED  BY <3>1, <3>2, <3>3
  <2>7. QED  BY <1>7, <2>2, <2>5, <2>6
<1>9. w \in [ackRequest : Acks, fragCount : FragCounts, ord : 1 .. MaxDatagrams]
      /\ w.ord = m + 1 /\ w.fragCount = n /\ w.ackRequest = ack
  <2>1. m + 1 \in 1 .. MaxDatagrams  BY <1>3, <1>4, SMTT(30)
  <2>2. QED  BY <1>2, <1>5, <2>1
<1>10. PICK l \in Nat : l = Len(packetQueue)  BY Lengths DEF IInv
<1>11. /\ packetQueue' \in Seq([ackRequest : Acks, fragCount : FragCounts, ord : 1 .. MaxDatagrams])
       /\ Len(packetQueue') = l + 1 /\ DOMAIN packetQueue' = 1 .. l + 1
       /\ \A i \in 1 .. l : packetQueue'[i] = packetQueue[i]
       /\ packetQueue'[l + 1] = w
  BY <1>3, <1>9, <1>10, AppendProperties, LenProperties DEF IInv, TypeOK
<1>12. TypeOK'
  <2>1. nextAckToRequest' \in Acks  BY <1>3, <1>4, <1>6
  <2>2. sendFromIndex' \in 0 .. Len(packetQueue')  BY <1>3, <1>10, <1>11 DEF IInv, TypeOK
  <2>3. received' \subseteq 1 .. Len(acks')  BY <1>1, <1>3, <1>4, <1>8 DEF IInv, TypeOK
  <2>4. lastAckReceived' \in Acks /\ readyToSend' \in BOOLEAN /\ responses' \subseteq Acks
        /\ network' \subseteq [ord : 1 .. MaxDatagrams, length : {1, 2}]
    BY <1>3 DEF IInv, TypeOK
  <2>5. QED  BY <1>8, <1>11, <2>1, <2>2, <2>3, <2>4 DEF TypeOK
<1>13. NumberInv'
  <2>1. PICK first \in 1 .. AckMod - 1, skip \in 0 .. 1 :
          /\ \A o \in 1 .. m : acks[o] = AckAt(first, skip, o)
          /\ \A f \in 0 .. n : AckAdd(ack, f) = AckAt(first, skip, m + 1 + f)
          /\ \E q \in 0 .. m : lastAckReceived = AckAt(first, skip, q) /\ Reached(q)
    <3>1. n \in Nat \ {0}  BY <1>4
    <3>2. m + n <= MaxDatagrams  BY <1>3
    <3>3. FreshNumbers(m, n, ack)  BY <1>1, <3>2 DEF FreshNumbers
    <3>4. Continues(m, n, ack)  BY <3>1, <3>3, NumbersContinue, Zenon
    <3>5. QED  BY <3>4 DEF Continues
  <2>2. \A o \in 1 .. m + n : acks'[o] = AckAt(first, skip, o)
    <3> SUFFICES ASSUME NEW o \in 1 .. m + n PROVE acks'[o] = AckAt(first, skip, o)  OBVIOUS
    <3>1. CASE o \in 1 .. m  BY <1>8, <2>1, <3>1
    <3>2. CASE o \notin 1 .. m
      <4>1. PICK i \in 1 .. n : o = m + i  BY <1>4, <3>2
      <4>2. i - 1 \in 0 .. n /\ m + 1 + (i - 1) = o  BY <1>4, <4>1
      <4>3. QED  BY <1>8, <2>1, <4>1, <4>2
    <3>3. QED  BY <3>1, <3>2
  <2>3. nextAckToRequest' = AckAt(first, skip, m + n + 1)
    <3>1. n \in 0 .. n /\ m + 1 + n = m + n + 1  BY <1>4
    <3>2. QED  BY <1>3, <2>1, <3>1
  <2>4. \E q \in 0 .. m + n : lastAckReceived' = AckAt(first, skip, q) /\ Reached(q)'
    BY <1>3, <1>4, <2>1 DEF Reached
  <2>5. Numbered(first, skip)'
    <3>1. Len(acks') = m + n  BY <1>8
    <3>2. QED  BY <2>2, <2>3, <2>4, <3>1 DEF Numbered
  <2>6. QED  BY <2>5 DEF NumberInv
<1>14. ResponseInv'
  <2>1. \A r \in responses : \E q \in 1 .. m : r = acks[q] /\ Reached(q)
    BY <1>1 DEF IInv, ResponseInv
  <2>2. \A q \in 1 .. m : q \in 1 .. m + n /\ acks'[q] = acks[q]  BY <1>4, <1>8
  <2>3. \A q : Reached(q) => Reached(q)'  BY <1>3 DEF Reached
  <2>4. \A r \in responses : \E q \in 1 .. m + n : r = acks'[q] /\ Reached(q)'
    BY <2>1, <2>2, <2>3
  <2>5. QED  BY <1>3, <1>8, <2>4 DEF ResponseInv
<1>15. QueueInv'
  <2>1. ASSUME NEW i \in 1 .. l + 1
        PROVE  /\ packetQueue'[i].ord + packetQueue'[i].fragCount - 1 <= m + n
               /\ \A f \in 0 .. packetQueue'[i].fragCount - 1 :
                    acks'[packetQueue'[i].ord + f] = AckAdd(packetQueue'[i].ackRequest, f)
    <3>1. CASE i \in 1 .. l
      <4>1. PICK v : v = packetQueue[i]  OBVIOUS
      <4>2. v.ord \in Nat \ {0} /\ v.fragCount \in Nat \ {0} /\ packetQueue'[i] = v
        BY <1>10, <1>11, <3>1, <4>1, Lengths DEF IInv
      <4>3. /\ v.ord + v.fragCount - 1 <= m
            /\ \A f \in 0 .. v.fragCount - 1 : acks[v.ord + f] = AckAdd(v.ackRequest, f)
        BY <1>1, <1>10, <3>1, <4>1 DEF IInv, QueueInv
      <4>4. \A f \in 0 .. v.fragCount - 1 : v.ord + f \in 1 .. m  BY <1>4, <4>2, <4>3
      <4>5. \A f \in 0 .. v.fragCount - 1 : acks'[v.ord + f] = AckAdd(v.ackRequest, f)
        <5>1. \A o \in 1 .. m : acks'[o] = acks[o]  BY <1>8
        <5>2. QED  BY <4>3, <4>4, <5>1
      <4>6. v.ord + v.fragCount - 1 <= m + n  BY <1>4, <4>2, <4>3
      <4>7. packetQueue'[i] = v  BY <4>2
      <4>8. QED  BY <4>5, <4>6, <4>7
    <3>2. CASE i = l + 1
      <4>1. packetQueue'[i] = w  BY <1>11, <3>2
      <4>2. \A f \in 0 .. n - 1 : f + 1 \in 1 .. n /\ m + 1 + f = m + (f + 1) /\ f + 1 - 1 = f
        BY <1>4
      <4>3. \A f \in 0 .. n - 1 : acks'[m + 1 + f] = AckAdd(ack, f)
        BY <1>8, <4>2
      <4>4. m + 1 + n - 1 <= m + n  BY <1>4
      <4>5. w.ord = m + 1 /\ w.fragCount = n /\ w.ackRequest = ack  BY <1>9
      <4>6. QED  BY <4>1, <4>3, <4>4, <4>5
    <3>3. QED  BY <1>10, <3>1, <3>2
  <2>2. QED  BY <1>8, <1>11, <2>1 DEF QueueInv, AckAdd
<1>16. NetworkInv'  BY <1>1, <1>3, <1>4, <1>8 DEF IInv, NetworkInv
<1>17. DroppedWereReceived'
  <2> SUFFICES ASSUME NEW o \in 1 .. m + n,
                      \A i \in 1 .. l + 1 : o \notin Ordinals(packetQueue'[i])
               PROVE  o \in received
    BY <1>3, <1>8, <1>11 DEF DroppedWereReceived, Ordinals
  <2>1. o \in 1 .. m
    <3>1. l + 1 \in 1 .. l + 1  BY <1>10
    <3>2. o \notin Ordinals(w)  BY <1>11, <3>1
    <3>3. Ordinals(w) = m + 1 .. m + 1 + n - 1  BY <1>9 DEF Ordinals
    <3>4. QED  BY <1>4, <3>2, <3>3
  <2>2. \A i \in 1 .. l : o \notin Ordinals(packetQueue[i])
    <3>1. \A i \in 1 .. l : i \in 1 .. l + 1  BY <1>10
    <3>2. QED  BY <1>11, <3>1
  <2>3. QED  BY <1>1, <1>10, <2>1, <2>2, Lengths DEF IInv, DroppedWereReceived
<1>18. QED  BY <1>3, <1>8, <1>12, <1>13, <1>14, <1>15, <1>16, <1>17 DEF IInv

-----------------------------------------------------------------------------
(* The theorems.                                                           *)

\* ack_init, or the same a while later.
LEMMA InitInv == Init => IInv
<1> SUFFICES ASSUME Init PROVE IInv  OBVIOUS
<1>1. /\ nextAckToRequest \in Acks
      /\ lastAckReceived = IF nextAckToRequest = 0 THEN 0 ELSE nextAckToRequest - 1
      /\ sendFromIndex = 0 /\ packetQueue = <<>> /\ readyToSend = FALSE
      /\ acks = <<>> /\ network = {} /\ responses = {} /\ received = {}
  BY SendAssumption DEF Init
<1>2. AckMod \in Nat /\ AckMod >= 2  BY AckAssumption
<1>3. Len(acks) = 0 /\ Len(packetQueue) = 0 /\ DOMAIN packetQueue = {}  BY <1>1
<1>4. TypeOK /\ Len(acks) <= MaxDatagrams
  <2>1. lastAckReceived \in Acks  BY <1>1, <1>2 DEF Acks
  <2>2. acks \in Seq(Acks)  BY <1>1
  <2>3. packetQueue \in Seq([ackRequest : Acks, fragCount : FragCounts, ord : 1 .. MaxDatagrams])
    BY <1>1
  <2>4. sendFromIndex \in 0 .. Len(packetQueue) /\ readyToSend \in BOOLEAN
    <3>1. sendFromIndex = 0  BY <1>1
    <3>2. Len(packetQueue) = 0 /\ 0 \in 0 .. 0  BY <1>3
    <3>3. readyToSend \in BOOLEAN  BY <1>1, Zenon
    <3>4. QED  BY <3>1, <3>2, <3>3, Zenon
  <2>5. network \subseteq [ord : 1 .. MaxDatagrams, length : {1, 2}] /\ responses \subseteq Acks
        /\ received \subseteq 1 .. Len(acks)
    BY <1>1
  <2>6. Len(acks) <= MaxDatagrams  BY <1>3, SendAssumption
  <2>7. QED  BY <1>1, <2>1, <2>2, <2>3, <2>4, <2>5, <2>6 DEF TypeOK
<1>5. NumberInv
  <2>1. PICK first : first = IF nextAckToRequest = 0 THEN 1 ELSE nextAckToRequest  OBVIOUS
  <2>2. first \in 1 .. AckMod - 1  BY <1>1, <1>2, <2>1 DEF Acks
  <2>3. AckAt(first, 0, 0) = lastAckReceived  BY <1>1, <1>2, <2>1, <2>2 DEF AckAt, Acks
  <2>4. nextAckToRequest = AckAt(first, 0, 0 + 1) \/ (nextAckToRequest = 0 /\ first = 1)
    BY <1>1, <1>2, <2>1, <2>2 DEF AckAt, Acks
  <2>5. Reached(0)  BY DEF Reached
  <2>6. 0 \in 0 .. 0 /\ 0 \in 0 .. 1 /\ \A o \in 1 .. 0 : FALSE  OBVIOUS
  <2>7. Numbered(first, 0)  BY <1>3, <2>3, <2>4, <2>5, <2>6 DEF Numbered
  <2>8. QED  BY <2>2, <2>6, <2>7 DEF NumberInv
<1>6. ResponseInv /\ QueueInv /\ NetworkInv /\ DroppedWereReceived
  BY <1>1, <1>3 DEF ResponseInv, QueueInv, NetworkInv, DroppedWereReceived
<1>7. QED  BY <1>4, <1>5, <1>6 DEF IInv

\* Every step keeps the invariant.
LEMMA NextInv == IInv /\ [Next]_vars => IInv'
<1> SUFFICES ASSUME IInv, [Next]_vars PROVE IInv'  OBVIOUS
<1>1. ASSUME NEW n \in FragCounts, Schedule(n) PROVE IInv'  BY <1>1, ScheduleInv
<1>2. ASSUME NEW ack \in responses, RecvAckResponse(ack) PROVE IInv'  BY <1>2, RecvAckResponseInv
<1>3. ASSUME NEW ack \in responses, LoseResponse(ack) PROVE IInv'  BY <1>3, NetworkStepInv
<1>4. ASSUME NEW due, SendCycle(due) PROVE IInv'  BY <1>4, SendCycleInv
<1>5. ASSUME NEW d \in network, ClientRecv(d) PROVE IInv'  BY <1>5, ClientRecvInv
<1>6. ASSUME NEW d \in network, Lose(d) PROVE IInv'  BY <1>6, NetworkStepInv
<1>7. CASE ClientAck  BY <1>7, ClientAckInv
<1>8. CASE ClientSends  BY <1>8, NetworkStepInv
<1>9. CASE UNCHANGED vars
  BY <1>9 DEF vars, server, IInv, TypeOK, NumberInv, Numbered, Reached, ResponseInv, QueueInv,
              NetworkInv, DroppedWereReceived, Ordinals
<1>10. QED  BY <1>1, <1>2, <1>3, <1>4, <1>5, <1>6, <1>7, <1>8, <1>9 DEF Next

\* The invariant the other theorems rest on: everything scheduled is numbered in
\* one lap of the 16-bit ack, and each ack that the server has or may still get
\* is that of a datagram the client has, with all before it.
THEOREM InductiveInvariant == Spec => []IInv
<1>1. Init => IInv  BY InitInv
<1>2. IInv /\ [Next]_vars => IInv'  BY NextInv
<1>3. QED  BY <1>1, <1>2, PTL DEF Spec

\* Type correctness: among other things sendFromIndex never exceeds the length of
\* the queue, although ack_recv_ack_response shortens it.
THEOREM TypeCorrect == Spec => []TypeOK
<1>1. IInv => TypeOK  BY DEF IInv
<1>2. QED  BY <1>1, InductiveInvariant, PTL

\* ack_recv_ack_response drops only packets that the client has received in full.
THEOREM DroppedReceived == Spec => []DroppedWereReceived
<1>1. IInv => DroppedWereReceived  BY DEF IInv
<1>2. QED  BY <1>1, InductiveInvariant, PTL

\* ack_send_queued_packets skips no fragment that the client misses.
LEMMA MissingSent ==
  ASSUME IInv, NEW due, due = 1 .. sendFromIndex, SendCycle(due), NEW o \in 1 .. Len(acks),
         o \notin received
  PROVE  \E d \in network' : d.ord = o
<1>1. PICK n, m : n = Len(packetQueue) /\ m = Len(acks)  OBVIOUS
<1>2. n \in Nat /\ m \in Nat /\ DOMAIN packetQueue = 1 .. n /\ m <= MaxDatagrams
  BY <1>1, Lengths DEF IInv
<1>3. PICK i \in 1 .. n : o \in Ordinals(packetQueue[i])  BY <1>2 DEF IInv, DroppedWereReceived
<1>4. PICK w : w = packetQueue[i]  OBVIOUS
<1>5. w.ord \in Nat \ {0} /\ w.fragCount \in Nat \ {0}  BY <1>1, <1>3, <1>4, Lengths DEF IInv
<1>6. PICK f : f = o - w.ord  OBVIOUS
<1>7. f \in 0 .. w.fragCount - 1 /\ o = w.ord + f  BY <1>1, <1>2, <1>3, <1>4, <1>5, <1>6 DEF Ordinals
<1>8. ASSUME NEW skip \in 0 .. f, SentFrom(w, skip) \subseteq network'
      PROVE  \E d \in network' : d.ord = o
  <2>1. f \in skip .. w.fragCount - 1  BY <1>5, <1>7
  <2>2. SentFragment(w, skip, f) \in network'  BY <1>8, <2>1 DEF SentFrom
  <2>3. SentFragment(w, skip, f).ord = w.ord + f  BY DEF SentFragment
  <2>4. QED  BY <1>7, <2>2, <2>3
<1>9. SentOf(i, due) \subseteq network'  BY <1>1, <1>3 DEF SendCycle
<1>10. CASE i > sendFromIndex
  <2>1. SentFrom(w, 0) \subseteq network'  BY <1>4, <1>9, <1>10 DEF SentOf
  <2>2. 0 \in 0 .. f  BY <1>5, <1>7
  <2>3. QED  BY <1>8, <2>1, <2>2
<1>11. CASE ~(i > sendFromIndex)
  <2>1. i \in due  BY <1>1, <1>2, <1>3, <1>11 DEF IInv, TypeOK
  <2>2. SentFrom(w, Skipped(w)) \subseteq network'  BY <1>4, <1>9, <1>11, <2>1 DEF SentOf
  <2>3. PICK s : s = Skipped(w)  OBVIOUS
  <2>4. /\ s \in 0 .. w.fragCount
        /\ \A k \in 0 .. s - 1 : ack_cmp(lastAckReceived, AckAdd(w.ackRequest, k)) # "Past"
    BY <1>5, <2>3, SkippedAre
  <2>5. s <= f
    <3> SUFFICES ASSUME s > f PROVE FALSE  BY <1>5, <1>7, <2>4
    <3>1. PICK first \in 1 .. AckMod - 1, skip \in 0 .. 1 : Numbered(first, skip)
      BY DEF IInv, NumberInv
    <3>2. PICK q \in 0 .. m : lastAckReceived = AckAt(first, skip, q) /\ Reached(q)
      BY <1>1, <3>1 DEF Numbered
    <3>3. acks[o] = AckAt(first, skip, o)  BY <3>1 DEF Numbered
    <3>4. acks[o] = AckAdd(w.ackRequest, f)  BY <1>1, <1>3, <1>4, <1>7 DEF IInv, QueueInv
    <3>5. f \in 0 .. s - 1  BY <1>5, <1>7, <2>4
    <3>6. ack_cmp(AckAt(first, skip, q), AckAt(first, skip, o)) # "Past"
      BY <2>4, <3>2, <3>3, <3>4, <3>5
    <3>7. q \in 0 .. MaxDatagrams /\ o \in 1 .. MaxDatagrams  BY <1>1, <1>2, SendAssumption
    <3>8. ~(q < o)  BY <3>6, <3>7, AckAtOrder
    <3>9. o \in 1 .. q  BY <3>7, <3>8
    <3>10. QED  BY <3>2, <3>9 DEF Reached
  <2>6. s \in 0 .. f  BY <1>5, <1>7, <2>4, <2>5
  <2>7. QED  BY <1>8, <2>2, <2>3, <2>6
<1>12. QED  BY <1>10, <1>11

\* A send cycle in which everything sent before is due again leaves out nothing
\* that the client misses, whichever fragments it takes for acked.
THEOREM MissingResent == Spec => MissingAreResent
<1>1. IInv /\ [Next]_vars
        => [SendCycle(1 .. sendFromIndex) =>
              \A o \in 1 .. Len(acks) \ received : \E d \in network' : d.ord = o]_vars
  <2> SUFFICES ASSUME IInv, SendCycle(1 .. sendFromIndex), NEW o \in 1 .. Len(acks) \ received
               PROVE  \E d \in network' : d.ord = o
    OBVIOUS
  <2>1. PICK due : due = 1 .. sendFromIndex  OBVIOUS
  <2>2. SendCycle(due)  BY <2>1
  <2>3. o \in 1 .. Len(acks) /\ o \notin received  OBVIOUS
  <2>4. QED  BY <2>1, <2>2, <2>3, MissingSent
<1>2. QED  BY <1>1, InductiveInvariant, PTL DEF Spec, MissingAreResent
=============================================================================
