-------------------------------- MODULE AckSend --------------------------------
(***************************************************************************)
(* The sending half of ack_mgr.c (AckMgrToClient) for one connection: the  *)
(* queue of packets scheduled for the client, sent in one or more          *)
(* datagrams each and kept until the client acks them; with the client     *)
(* that receives them and a network that loses, duplicates and reorders in *)
(* both directions.                                                        *)
(*                                                                         *)
(* The ordinal of a datagram, its position in everything scheduled, names  *)
(* it independently of its 16-bit ack request, which wraps around.         *)
(***************************************************************************)
EXTENDS AckCmp, Sequences, SequencesExt, FiniteSets

CONSTANTS
  FirstAcks,     \* nextAckToRequest when the behaviour starts
  FragCounts,    \* how many datagrams a packet can have
  MaxDatagrams,  \* bound: datagrams scheduled
  MaxResponses   \* bound: ack responses in flight

\* The client never has a whole window of datagrams to ack (see ack_cmp).
ASSUME SendAssumption ==
  /\ FirstAcks \subseteq Acks /\ FragCounts \subseteq Nat \ {0}
  /\ MaxDatagrams \in Nat /\ MaxDatagrams < AckWindow /\ MaxResponses \in Nat

VARIABLES
  nextAckToRequest, sendFromIndex, packetQueue,  \* AckMgrToClient; its count is Len(packetQueue)
  lastAckReceived,                               \* AckMgrToServer
  readyToSend,                                   \* UDP_FLAG_ReadyToSend
  acks,                                          \* history: the ack request of each ordinal
  network,                                       \* datagrams to the client in flight
  responses,                                     \* ack responses from the client in flight
  received                                       \* client: the ordinals it has received

server == <<nextAckToRequest, sendFromIndex, packetQueue, lastAckReceived>>
vars   == <<server, readyToSend, acks, network, responses, received>>

\* The ordinals of a queued packet.
Ordinals(w) == w.ord .. w.ord + w.fragCount - 1

-----------------------------------------------------------------------------
\* udp_thread_handle_client_packet, ack_schedule_packet
Schedule(n) ==
  LET ack == IF nextAckToRequest = 0 THEN 1 ELSE nextAckToRequest IN
  /\ Len(acks) + n <= MaxDatagrams
  /\ packetQueue' = Append(packetQueue, [ackRequest |-> ack, fragCount |-> n, ord |-> Len(acks) + 1])
  /\ acks' = acks \o [i \in 1 .. n |-> AckAdd(ack, i - 1)]
  /\ nextAckToRequest' = AckAdd(ack, n)
  /\ readyToSend' = TRUE
  /\ UNCHANGED <<sendFromIndex, lastAckReceived, network, responses, received>>

\* Mutation: a packet is acked as soon as its first fragment is.
AckedPacketsByFirst(ack) ==
  CHOOSE i \in 0 .. Len(packetQueue) :
    LET Later(w) == ack_cmp(w.ackRequest, ack) = "Future" IN
    /\ \A j \in 1 .. i : ~Later(packetQueue[j])
    /\ i < Len(packetQueue) => Later(packetQueue[i + 1])

\* How many packets at the head of the queue an ack response acks: those whose
\* last ack request is not later than it.
AckedPackets(ack) ==
  CHOOSE i \in 0 .. Len(packetQueue) :
    LET Later(w) == ack_cmp(AckAdd(w.ackRequest, w.fragCount - 1), ack) = "Future" IN
    /\ \A j \in 1 .. i : ~Later(packetQueue[j])
    /\ i < Len(packetQueue) => Later(packetQueue[i + 1])

\* Mutation: sendFromIndex still counts the packets that are dropped.
RecvAckKeepsIndex(ack) ==
  LET i == AckedPackets(ack) IN
  /\ responses' \in {responses, responses \ {ack}}
  /\ lastAckReceived' = ack
  /\ packetQueue' = SubSeq(packetQueue, i + 1, Len(packetQueue))
  /\ readyToSend' = TRUE
  /\ UNCHANGED <<nextAckToRequest, sendFromIndex, acks, network, received>>

\* ack_recv_ack_response, for a response that the network keeps or not.
RecvAckResponse(ack) ==
  LET i == AckedPackets(ack) IN
  /\ responses' \in {responses, responses \ {ack}}
  /\ lastAckReceived' = ack
  /\ packetQueue' = SubSeq(packetQueue, i + 1, Len(packetQueue))
  /\ sendFromIndex' = IF i > 0 THEN 0 ELSE sendFromIndex
  /\ readyToSend' = TRUE
  /\ UNCHANGED <<nextAckToRequest, acks, network, received>>

\* Mutation: the fragment after the acked ones is skipped as well.
SkippedOneMore(w) ==
  CHOOSE f \in 0 .. w.fragCount :
    LET AckedFrag(k) == ack_cmp(lastAckReceived, AckAdd(w.ackRequest, k)) # "Past" IN
    \A k \in 0 .. w.fragCount - 1 : k < f <=> (k = 0 \/ AckedFrag(k - 1))

\* Where a packet that was sent before is sent again from: after the fragments
\* that are acked.
Skipped(w) ==
  IF w.fragCount = 1 THEN 0
  ELSE CHOOSE f \in 0 .. w.fragCount :
         LET AckedFrag(k) == ack_cmp(lastAckReceived, AckAdd(w.ackRequest, k)) # "Past" IN
         /\ \A k \in 0 .. f - 1 : AckedFrag(k)
         /\ f < w.fragCount => ~AckedFrag(f)

\* The length of a fragment is 2 if it fills a datagram; the last fragment of a
\* packet has length 1.  dataLength is what is left of the packet, but it does
\* not shrink for the fragments that are skipped.
SentFragment(w, skip, f) ==
  LET dataLength == 2 * (w.fragCount - 1) + 1 - 2 * (f - skip) IN
  [ord |-> w.ord + f, length |-> IF dataLength > 2 THEN 2 ELSE dataLength]

SentFrom(w, skip) == {SentFragment(w, skip, f) : f \in skip .. w.fragCount - 1}

\* Mutation: what was sent before is not sent again.
SentOnce(i, due) == IF i <= sendFromIndex THEN {} ELSE SentFrom(packetQueue[i], 0)

\* The datagrams a send cycle sends of the i-th packet: those never sent in
\* full, those sent before only if ACK_RESEND_PACKET_MILLISECONDS_WITHOUT_ACK
\* have passed since (due).
SentOf(i, due) ==
  IF i > sendFromIndex THEN SentFrom(packetQueue[i], 0)
  ELSE IF i \in due THEN SentFrom(packetQueue[i], Skipped(packetQueue[i]))
  ELSE {}

\* udp_thread_process_socket_writes, ack_send_queued_packets
SendCycle(due) ==
  /\ readyToSend
  /\ readyToSend' = FALSE
  /\ network' = network \cup UNION {SentOf(i, due) : i \in 1 .. Len(packetQueue)}
  /\ sendFromIndex' = Len(packetQueue)
  /\ UNCHANGED <<nextAckToRequest, packetQueue, lastAckReceived, acks, responses, received>>

-----------------------------------------------------------------------------
(* The client and the network: external, as the code and its comments use  *)
(* them.                                                                   *)

\* The ordinals up to the first gap.
Contiguous == CHOOSE n \in 0 .. Len(acks) :
                1 .. n \subseteq received /\ (n < Len(acks) => n + 1 \notin received)

ClientRecv(d) ==
  /\ network' \in {network, network \ {d}}
  /\ received' = received \cup {d.ord}
  /\ UNCHANGED <<server, readyToSend, acks, responses>>

Lose(d) ==
  /\ network' = network \ {d}
  /\ UNCHANGED <<server, readyToSend, acks, responses, received>>

\* The client acks what it has without a gap, at any time and repeatedly.
ClientAck ==
  /\ Contiguous > 0
  /\ Cardinality(responses \cup {acks[Contiguous]}) <= MaxResponses
  /\ responses' = responses \cup {acks[Contiguous]}
  /\ UNCHANGED <<server, readyToSend, acks, network, received>>

LoseResponse(ack) ==
  /\ responses' = responses \ {ack}
  /\ UNCHANGED <<server, readyToSend, acks, network, received>>

\* The client sends something else, which makes the connection ready to send.
ClientSends ==
  /\ readyToSend' = TRUE
  /\ UNCHANGED <<server, acks, network, responses, received>>

-----------------------------------------------------------------------------
\* ack_init, or the same a while later: everything requested has been acked.
Init ==
  /\ nextAckToRequest \in FirstAcks
  /\ lastAckReceived = IF nextAckToRequest = 0 THEN 0 ELSE nextAckToRequest - 1
  /\ sendFromIndex = 0 /\ packetQueue = <<>> /\ readyToSend = FALSE
  /\ acks = <<>> /\ network = {} /\ responses = {} /\ received = {}

Next ==
  \/ \E n \in FragCounts : Schedule(n)
  \/ \E ack \in responses : RecvAckResponse(ack) \/ LoseResponse(ack)
  \/ \E due \in SUBSET (1 .. sendFromIndex) : SendCycle(due)
  \/ \E d \in network : ClientRecv(d) \/ Lose(d)
  \/ ClientAck \/ ClientSends

Spec == Init /\ [][Next]_vars

\* The udp thread loops for ever and time passes; the client keeps sending, and
\* the network does not lose every repetition of a datagram.
Fairness ==
  /\ SF_vars(SendCycle(1 .. sendFromIndex))
  /\ \A o \in 1 .. MaxDatagrams :
       SF_vars(\E d \in network : d.ord = o /\ ClientRecv(d))
  /\ WF_vars(ClientSends)

FairSpec == Spec /\ Fairness

-----------------------------------------------------------------------------
(* Properties                                                              *)

TypeOK ==
  /\ nextAckToRequest \in Acks /\ lastAckReceived \in Acks
  /\ packetQueue \in Seq([ackRequest : Acks, fragCount : FragCounts, ord : 1 .. MaxDatagrams])
  /\ sendFromIndex \in 0 .. Len(packetQueue) /\ readyToSend \in BOOLEAN
  /\ acks \in Seq(Acks)
  /\ network \subseteq [ord : 1 .. MaxDatagrams, length : {1, 2}]
  /\ responses \subseteq Acks /\ received \subseteq 1 .. Len(acks)

\* A packet leaves the queue only when the client has received all of it:
\* whatever acks arrive late, twice or out of order, and when they wrap around.
DroppedWereReceived ==
  \A o \in 1 .. Len(acks) :
    (\A i \in DOMAIN packetQueue : o \notin Ordinals(packetQueue[i])) => o \in received

\* A send cycle in which every unacked packet is due puts every datagram that
\* the client has not received on the network: none is skipped as acked.
MissingAreResent ==
  [][SendCycle(1 .. sendFromIndex) =>
       \A o \in 1 .. Len(acks) \ received : \E d \in network' : d.ord = o]_vars

\* The client receives every datagram that is scheduled for it.
EventuallyReceived == <>[](received = 1 .. Len(acks))

\* A fragment has the same length whenever it is sent: the last one of a packet
\* is as long as what is left of the packet.
FragmentsKeepLength ==
  \A d \in network : \A i \in DOMAIN packetQueue :
    d.ord \in Ordinals(packetQueue[i]) =>
      (d.length = 1 <=> d.ord = packetQueue[i].ord + packetQueue[i].fragCount - 1)
=============================================================================
