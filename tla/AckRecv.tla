-------------------------------- MODULE AckRecv --------------------------------
(***************************************************************************)
(* The receiving half of ack_mgr.c (AckMgrToServer) for one connection,    *)
(* with the client that sends to it and the network between them.          *)
(*                                                                         *)
(* The client sends messages of one or more datagrams, each with the next  *)
(* ack request; a message of several datagrams is fragmented.  The payload *)
(* of a datagram is abstracted to its ack request, so a message handed to  *)
(* the connection's thread is the sequence of the ack requests of its      *)
(* datagrams.  A session is shorter than AckMod datagrams: its acks do not *)
(* wrap around (ack_mgr.c:285).                                            *)
(***************************************************************************)
EXTENDS AckCmp, Sequences, SequencesExt, FiniteSets

CONSTANTS
  FirstAck,      \* the ack request of the client's first datagram
  Sizes,         \* how many datagrams a message can have
  MaxDatagrams,  \* bound: datagrams the client sends, not counting repetitions
  MaxInFlight,   \* bound: datagrams in the network
  Garbage,       \* what lowestAckInQueue, which ack_init leaves alone, can start as
  Channels,      \* the kinds of channel explored, see below
  ResendFirst    \* whether the client sends its first datagram again

\* "ordered": the network keeps the order and loses nothing; the client sends
\* ahead and repeats what is not acked.  "waiting": the network loses and
\* reorders; the client has one datagram at a time waiting for its ack.
\* "any": the network loses and reorders, and the client sends ahead.
ASSUME RecvAssumption ==
  /\ FirstAck \in Acks \ {0} /\ Sizes \subseteq Nat \ {0}
  /\ MaxDatagrams \in Nat /\ FirstAck + MaxDatagrams < AckMod /\ MaxInFlight \in Nat
  /\ Garbage \subseteq Acks /\ ResendFirst \in BOOLEAN
  /\ Channels \subseteq {"ordered", "waiting", "any"}

VARIABLES
  nextAckRequestExpected, lastAckSent,
  lowestAckInQueue, count, packetQueue,    \* AckMgrToServer; Len(packetQueue) is capacity
  readyToSend,                             \* UDP_FLAG_ReadyToSend
  handedOff,                               \* messages pushed to the thread of the connection
  channel,                                 \* the kind of channel
  messages,                                \* client: the messages sent so far
  acked,                                   \* client: how many of its datagrams are acked
  network,                                 \* datagrams from the client in flight
  received,                                \* history: the ack requests that arrived
  early                                    \* history: one came ahead of one that was due

server == <<nextAckRequestExpected, lastAckSent, lowestAckInQueue, count, packetQueue>>
client == <<channel, messages, acked>>
vars   == <<server, readyToSend, handedOff, client, network, received, early>>

-----------------------------------------------------------------------------
(* The client: external, as udpc_recv_protocol and ack_recv_packet use it. *)

\* How many datagrams the messages have; their ack requests are consecutive.
Datagrams(ms) == IF ms = <<>> THEN 0 ELSE Last(Last(ms)) - FirstAck + 1

\* The fields of a datagram: its ack request, the fragment count of its message
\* (0: not fragmented), whether it carries the opcode, whether it is the first
\* of the session (TLG_PACKET_IsFirstPacket).
Datagram(m, i) ==
  [ackRequest |-> m[i], fragCount |-> IF Len(m) = 1 THEN 0 ELSE Len(m),
   hasOpcode |-> i = 1, isFirst |-> m[i] = FirstAck]

ClientSend(n) ==
  LET sent == Datagrams(messages)
      m    == [i \in 1 .. n |-> FirstAck + sent + i - 1]
  IN
  /\ sent + n <= MaxDatagrams
  /\ messages = <<>> => n = 1        \* a session opens with an unfragmented datagram
  /\ channel = "waiting" => n = 1 /\ acked = sent
  /\ Len(network) + n <= MaxInFlight
  /\ messages' = Append(messages, m)
  /\ network' = network \o [i \in 1 .. n |-> Datagram(m, i)]
  /\ UNCHANGED <<server, readyToSend, handedOff, channel, acked, received, early>>

\* The client sends a datagram that is not acked again.
ClientResend ==
  /\ Len(network) < MaxInFlight
  /\ \E k \in 1 .. Len(messages) : \E i \in 1 .. Len(messages[k]) :
       /\ Datagrams(SubSeq(messages, 1, k - 1)) + i > acked
       /\ k = 1 => ResendFirst
       /\ network' = Append(network, Datagram(messages[k], i))
  /\ UNCHANGED <<server, readyToSend, handedOff, client, received, early>>

\* The first datagram is lost only if the client repeats it.
Lose(i) ==
  /\ channel # "ordered"
  /\ network[i].isFirst => ResendFirst
  /\ network' = RemoveAt(network, i)
  /\ UNCHANGED <<server, readyToSend, handedOff, client, received, early>>

-----------------------------------------------------------------------------
(* ack_recv_packet                                                         *)

Empty == [ackRequest |-> 0, fragCount |-> 0, hasOpcode |-> FALSE]
Slot(d) == [ackRequest |-> d.ackRequest, fragCount |-> d.fragCount, hasOpcode |-> d.hasOpcode]

\* bit_pow2_greater_than_u32
Powers == {2, 4, 8, 16, 32, 64, 128, 256, 512, 1024, 2048, 4096, 8192, 16384, 32768, 65536}
Pow2GreaterThan(d) == CHOOSE c \in Powers : c > d /\ c <= 2 * d

\* Mutation: the whole expanded array is cleared.
GrownCleared(q, n, diff) ==
  LET cap == Pow2GreaterThan(IF diff = 0 THEN 1 ELSE diff) IN
  [i \in 1 .. cap |-> Empty]

\* The expanded array: the slots from index n on are cleared.
Grown(q, n, diff) ==
  LET cap == Pow2GreaterThan(IF diff = 0 THEN 1 ELSE diff) IN
  [i \in 1 .. cap |-> IF i <= n THEN q[i] ELSE Empty]

\* The loop over the first n slots.  It is at slot i and has passed frags fragments of a
\* message; diff slots are handed off, as the messages out.
ScanStart(lowest, expected) ==
  [i |-> 1, frags |-> 0, diff |-> 0, nextAck |-> expected, lowest |-> lowest, out |-> <<>>]

\* ack_complete_packet and ack_complete_fragments; udpc_recv_packet_no_copy drops a message
\* without opcode.
Completed(q, first, last) ==
  IF q[first].hasOpcode THEN <<[j \in 1 .. last - first + 1 |-> q[first + j - 1].ackRequest]>> ELSE <<>>

\* A slot that completes a message of the given number of slots.
Completes(q, w, slots) ==
  [i |-> w.i + 1, frags |-> IF q[w.i].fragCount = 0 THEN w.frags ELSE 0, diff |-> w.diff + slots,
   nextAck |-> q[w.i].ackRequest, lowest |-> AckAdd(q[w.i].ackRequest, 1),
   out |-> w.out \o Completed(q, w.i - slots + 1, w.i)]

\* One turn: it stops at an empty slot, or at a fragment of a message with more fragments
\* than there are slots to look at, and stays there.
ScanOne(q, n, w) ==
  LET fragCount == q[w.i].fragCount IN
  IF q[w.i].ackRequest = 0 \/ fragCount > n THEN w
  ELSE IF fragCount = 0 THEN Completes(q, w, 1)
  ELSE IF w.frags + 1 = fragCount THEN Completes(q, w, fragCount)
  ELSE [i |-> w.i + 1, frags |-> w.frags + 1, diff |-> w.diff, nextAck |-> q[w.i].ackRequest,
        lowest |-> w.lowest, out |-> w.out]

Scan(q, n, lowest, expected) ==
  LET after[k \in 0 .. n] ==
        IF k = 0 THEN ScanStart(lowest, expected) ELSE ScanOne(q, n, after[k - 1])
  IN after[n]

\* The array after the scan: the handed-off slots are moved out.
Shifted(q, n, diff) ==
  [i \in 1 .. Len(q) |-> IF diff > 0 /\ i <= n - diff THEN q[i + diff]
                         ELSE IF diff > 0 /\ i <= n THEN Empty
                         ELSE q[i]]

\* Mutation: the test that the datagram is not a fragment is missing.
InOrderFragment(d, expected) == d.ackRequest = expected

InOrder(d, expected) == d.ackRequest = expected /\ d.fragCount = 0

\* The datagram is the next one and is not fragmented.
RecvInOrder(d, expected) ==
  /\ InOrder(d, expected)
  /\ nextAckRequestExpected' = AckAdd(expected, 1)
  /\ lowestAckInQueue' = AckAdd(expected, 1)
  /\ handedOff' = IF d.hasOpcode THEN Append(handedOff, <<d.ackRequest>>) ELSE handedOff
  /\ UNCHANGED <<count, packetQueue>>

Occupied(diff) == diff \in 0 .. Len(packetQueue) - 1 /\ packetQueue[diff + 1].ackRequest # 0

\* The datagram is old, or its slot is taken.
Ignored(d, expected) ==
  ack_cmp(d.ackRequest, expected) = "Past" \/ Occupied(d.ackRequest - lowestAckInQueue)

RecvIgnored(d, expected) ==
  /\ ~InOrder(d, expected)
  /\ Ignored(d, expected)
  /\ nextAckRequestExpected' = expected
  /\ UNCHANGED <<lowestAckInQueue, count, packetQueue, handedOff>>

\* Mutation: the next ack request is one too many.
NextSkipsOne(q, w) == AckAdd(w.nextAck, 2)

\* Mutation: the next ack request is the one after the whole message.
NextSkipsFragments(q, w) ==
  AckAdd(w.nextAck, IF w.i <= Len(q) /\ q[w.i].fragCount > 0 THEN q[w.i].fragCount ELSE 1)

\* The next ack request: one more than the last slot scanned, or than expected.
NextAfterScan(q, w) == AckAdd(w.nextAck, 1)

RecvQueued(d, expected) ==
  LET diff == d.ackRequest - lowestAckInQueue
      n    == count + 1
      q0   == IF diff >= Len(packetQueue) THEN Grown(packetQueue, count, diff) ELSE packetQueue
  IN
  /\ ~InOrder(d, expected) /\ ~Ignored(d, expected)
  /\ \E q \in {[q0 EXCEPT ![diff + 1] = Slot(d)]} :
     \E w \in {Scan(q, n, lowestAckInQueue, expected)} :
       /\ packetQueue' = Shifted(q, n, w.diff)
       /\ count' = n - w.diff
       /\ lowestAckInQueue' = w.lowest
       /\ nextAckRequestExpected' = NextAfterScan(q, w)
       /\ handedOff' = handedOff \o w.out

\* The datagram comes before one with a lower ack request.
Ahead(d, expected) == d.ackRequest > expected

\* udpc_recv_protocol: a datagram flagged as the session's first synchronises
\* the acks before it is received.  The datagram that creates the connection
\* does not make it ready to send (udp_thread.c:411).
Recv(i) ==
  LET d == network[i]
      expected == IF d.isFirst THEN d.ackRequest ELSE nextAckRequestExpected
  IN
  /\ i = 1 \/ channel # "ordered"
  /\ network' = RemoveAt(network, i)
  /\ lastAckSent' = IF d.isFirst THEN AckSub(d.ackRequest, 1) ELSE lastAckSent
  /\ RecvInOrder(d, expected) \/ RecvIgnored(d, expected) \/ RecvQueued(d, expected)
  /\ readyToSend' = (received # {})
  /\ received' = received \cup {d.ackRequest}
  /\ early' = (early \/ Ahead(d, expected))
  /\ UNCHANGED client

-----------------------------------------------------------------------------
(* Sending the ack response: with the packets of a send cycle              *)
(* (ack_send_queued_packets) or in a keep-alive ack.                       *)

\* How many datagrams an ack response covers, seen from the client.
Covers(ack) == AckSub(AckAdd(ack, 1), FirstAck)

\* The response arrives or is lost; the client keeps the highest it has seen.
Respond(ack) == acked' \in {acked, IF Covers(ack) > acked THEN Covers(ack) ELSE acked}

\* Mutation: the server waits for a new ack to send before it acks again.
KeepAliveOnce ==
  LET nextAck == AckSub(nextAckRequestExpected, 1) IN
  /\ received # {} /\ lastAckSent # nextAck
  /\ Respond(nextAck)
  /\ lastAckSent' = nextAck
  /\ UNCHANGED <<nextAckRequestExpected, lowestAckInQueue, count, packetQueue, readyToSend, handedOff, channel, messages, network, received, early>>

\* udp_thread_send_keep_alive_acks
KeepAlive ==
  LET nextAck == AckSub(nextAckRequestExpected, 1) IN
  /\ received # {}
  /\ Respond(nextAck)
  /\ lastAckSent' = nextAck
  /\ UNCHANGED <<nextAckRequestExpected, lowestAckInQueue, count, packetQueue, readyToSend, handedOff, channel, messages, network, received, early>>

\* udp_thread_socket_writes
SendCycle ==
  LET nextAck == AckSub(nextAckRequestExpected, 1) IN
  /\ readyToSend
  /\ readyToSend' = FALSE
  /\ IF lastAckSent # nextAck THEN Respond(nextAck) ELSE UNCHANGED acked
  /\ lastAckSent' = nextAck
  /\ UNCHANGED <<nextAckRequestExpected, lowestAckInQueue, count, packetQueue, handedOff, channel, messages, network, received, early>>

-----------------------------------------------------------------------------
\* ack_init
Init ==
  /\ nextAckRequestExpected = 0 /\ lastAckSent = 0 /\ lowestAckInQueue \in Garbage
  /\ count = 0 /\ packetQueue = <<>> /\ readyToSend = FALSE
  /\ handedOff = <<>> /\ channel \in Channels /\ messages = <<>> /\ acked = 0
  /\ network = <<>> /\ received = {} /\ early = FALSE

Next ==
  \/ \E n \in Sizes : ClientSend(n)
  \/ ClientResend
  \/ \E i \in 1 .. Len(network) : Recv(i) \/ Lose(i)
  \/ SendCycle \/ KeepAlive

Spec == Init /\ [][Next]_vars

\* The udp thread loops for ever, the client repeats what is not acked, and the
\* network does not lose every repetition of a datagram or every response.
Fairness ==
  /\ WF_vars(network # <<>> /\ Recv(1) /\ channel = "ordered")
  /\ SF_vars(\E i \in 1 .. Len(network) : Recv(i) /\ received' # received)
  /\ WF_vars(ClientResend) /\ WF_vars(SendCycle)
  /\ SF_vars(KeepAlive /\ acked' # acked)

FairSpec == Spec /\ Fairness

-----------------------------------------------------------------------------
(* Properties                                                              *)

TypeOK ==
  /\ nextAckRequestExpected \in Acks /\ lastAckSent \in Acks /\ lowestAckInQueue \in Acks
  /\ count \in 0 .. Len(packetQueue)
  /\ \A i \in DOMAIN packetQueue :
       packetQueue[i] \in [ackRequest : Acks, fragCount : Sizes \cup {0}, hasOpcode : BOOLEAN]
  /\ readyToSend \in BOOLEAN /\ channel \in Channels
  /\ acked \in 0 .. Datagrams(messages) /\ received \subseteq Acks

\* The thread of the connection gets the client's messages complete, once each
\* and in the order they were sent, whatever the client sends again.
HandedOffInOrder == IsPrefix(handedOff, messages)

\* The server acks a datagram only when it has it and every one before it
\* (ack_mgr.c:38: the response for 3 is not sent until 2 is received).
AckedWereReceived ==
  received # {} => \A n \in 1 .. Covers(lastAckSent) : FirstAck + n - 1 \in received

\* The queue holds exactly the datagrams received and not yet handed off, each
\* at its distance from lowestAckInQueue, and nothing stale behind them; so the
\* index ack_recv_packet computes without a check lies in the array.
QueueExact ==
  FirstAck \in received =>
    /\ count = AckSub(nextAckRequestExpected, lowestAckInQueue)
    /\ \A i \in DOMAIN packetQueue :
         packetQueue[i].ackRequest = IF i <= count THEN lowestAckInQueue + i - 1 ELSE 0

\* Every message the client sends is handed off and acked in the end.
EventuallyAcked == <>[](handedOff = messages /\ acked = Datagrams(messages))
=============================================================================
