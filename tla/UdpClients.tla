------------------------------ MODULE UdpClients ------------------------------
(***************************************************************************)
(* The client table of the UDP thread (udp_thread.c, udp_client.c) and the *)
(* life of the client objects it shares with a server thread.              *)
(*                                                                         *)
(* The UDP thread allocates an object for every new peer and announces it  *)
(* to the server thread's queue; the server thread frees the object when   *)
(* the disconnect report arrives.  Between those two points both threads   *)
(* hold the raw pointer.  The server thread is the login thread            *)
(* (login_thread.c); char select keeps its objects the same way.           *)
(*                                                                         *)
(* Queues are the bounded queues that RingBuf implements.  The clock is    *)
(* abstracted to whether 15 s have gone by since the peer's last datagram. *)
(***************************************************************************)
EXTENDS Naturals, FiniteSets, SequencesExt

CONSTANTS
  Addrs,         \* ip:port of the peers
  Objects,       \* heap blocks malloc can return
  QueueSlots,    \* blocks of the server thread's queue
  CommandSlots,  \* blocks of the UDP thread's queue
  MaxDatagrams   \* datagrams the peers send

ASSUME UdpAssumption ==
  /\ QueueSlots \in Nat \ {0} /\ CommandSlots \in Nat \ {0}
  /\ MaxDatagrams \in Nat
  /\ IsFiniteSet(Addrs)   \* an address is 48 bits

VARIABLES
  table,      \* clients[0 .. clientCount-1] with its parallel arrays
  pc,         \* the phase udp_thread_proc is in
  cursor,     \* the loop index of that phase
  sent,       \* datagrams sent so far
  toServerQueue,
  udpQueue,
  clients,    \* the server thread's client list: object |-> address
  allocated,  \* objects allocated and not yet freed
  lost        \* objects whose disconnect report did not fit the queue

udp  == <<table, pc, cursor>>
vars == <<udp, sent, toServerQueue, udpQueue, clients, allocated, lost>>

\* What recvfrom may return: a packet with an opcode, a pure ack, or one that
\* udpc_recv_protocol refuses (bad crc, truncated, or closing the session).
Kinds == {"data", "ack", "refused"}

Phases == {"reads", "redo", "commands", "timeouts", "cleanup"}
Messages == [zop : {"New", "Packet", "Linkdead", "Disconnect"}, object : Objects, addr : Addrs]

Entries == [addr : Addrs, object : Objects, udpIndex : 1 .. Cardinality(Addrs),
            ignore : BOOLEAN, dead : BOOLEAN, quiet : BOOLEAN]

IndexesOf(a) == {k \in DOMAIN table : table[k].addr = a}
TableObjects == {table[k].object : k \in DOMAIN table}

\* ringbuf_push: the block is appended unless the queue is full.
Room(q, slots) == Len(q) < slots
Push(q, slots, m) == IF Room(q, slots) THEN Append(q, m) ELSE q

Report(zop, e) == [zop |-> zop, object |-> e.object, addr |-> e.addr]

-----------------------------------------------------------------------------
(* udp_thread_process_socket_reads.                                          *)

\* A datagram of a peer the table knows.  Its timestamp is refreshed even when
\* the client is ignored; a packet that does not fit the queue is dropped.
ReadKnown(a, kind) ==
  \E k \in IndexesOf(a) :
    LET e == table[k] IN
    /\ table' = [table EXCEPT ![k].quiet = FALSE]
    /\ toServerQueue' = IF ~e.ignore /\ kind = "data"
                        THEN Push(toServerQueue, QueueSlots, Report("Packet", e))
                        ELSE toServerQueue
    /\ UNCHANGED <<pc, allocated>>

\* Mutation: a new client keeps the index udpc_init gave it.
EntryUnindexed(a, o) ==
  [addr |-> a, object |-> o, udpIndex |-> 0, ignore |-> FALSE, dead |-> FALSE, quiet |-> FALSE]

\* udp_thread_new_client fills a slot at the end of the table.
NewEntry(a, o) ==
  [addr |-> a, object |-> o, udpIndex |-> Len(table) + 1,
   ignore |-> FALSE, dead |-> FALSE, quiet |-> FALSE]

\* Mutation: the first pass already hands the packet on.
IntroduceLate(e, kind) ==
  IF kind = "data" THEN <<Report("Packet", e), Report("New", e)>> ELSE <<Report("New", e)>>

\* The first pass over a new peer's datagram runs with suppressRecv, so only the
\* announcement of the client is pushed.
Introduce(e, kind) == <<Report("New", e)>>

\* A datagram of an unknown peer.  If the announcement does not fit the queue
\* the object is freed again and the peer stays unknown; the same happens when
\* no memory is left.
ReadUnknown(a, kind) ==
  /\ IndexesOf(a) = {}
  /\ IF kind = "refused" \/ allocated = Objects \/ ~Room(toServerQueue, QueueSlots)
     THEN UNCHANGED <<table, pc, toServerQueue, allocated>>
     ELSE \E o \in Objects \ allocated :
            /\ table' = Append(table, NewEntry(a, o))
            /\ toServerQueue' = toServerQueue \o Introduce(NewEntry(a, o), kind)
            /\ allocated' = allocated \cup {o}
            /\ pc' = IF kind = "data" THEN "redo" ELSE pc

Datagram(a, kind) ==
  /\ pc = "reads" /\ sent < MaxDatagrams
  /\ sent' = sent + 1
  /\ ReadKnown(a, kind) \/ ReadUnknown(a, kind)
  /\ UNCHANGED <<cursor, udpQueue, clients, lost>>

\* The second pass over the datagram that introduced the newest client.
Redo ==
  /\ pc = "redo"
  /\ toServerQueue' = Push(toServerQueue, QueueSlots, Report("Packet", Last(table)))
  /\ pc' = "reads"
  /\ UNCHANGED <<table, cursor, sent, udpQueue, clients, allocated, lost>>

\* recvfrom has nothing more to return.
ReadsDone ==
  /\ pc = "reads"
  /\ pc' = "commands"
  /\ UNCHANGED <<table, cursor, sent, toServerQueue, udpQueue, clients, allocated, lost>>

-----------------------------------------------------------------------------
(* udp_thread_process_commands: a DropClient command names an address, and   *)
(* only makes the thread ignore that peer's datagrams.                       *)
Command ==
  /\ pc = "commands"
  /\ udpQueue # <<>>
  /\ udpQueue' = Tail(udpQueue)
  /\ table' = [k \in DOMAIN table |->
                 IF table[k].addr = Head(udpQueue) THEN [table[k] EXCEPT !.ignore = TRUE]
                                                   ELSE table[k]]
  /\ UNCHANGED <<pc, cursor, sent, toServerQueue, clients, allocated, lost>>

CommandsDone ==
  /\ pc = "commands"
  /\ udpQueue = <<>>
  /\ pc' = "timeouts" /\ cursor' = 1
  /\ UNCHANGED <<table, sent, toServerQueue, udpQueue, clients, allocated, lost>>

-----------------------------------------------------------------------------
(* udp_thread_check_client_timeouts and udp_thread_cleanup_dead_clients, one *)
(* iteration of their loops per step: the server thread runs in between.     *)
\* Mutation: ignored clients are not timed out.
ExpiredIfHeard(e) == e.quiet /\ ~e.ignore

\* 15 s since the last datagram, whatever the flags say.
Expired(e) == e.quiet

\* Mutation: linkdead is reported as a disconnect.
LinkdeadIsFinal(e) == Report("Disconnect", e)
LinkdeadReport(e) == Report("Linkdead", e)

CheckTimeout ==
  /\ pc = "timeouts" /\ cursor <= Len(table)
  /\ LET e == table[cursor] IN
     IF Expired(e)
     THEN /\ table' = [table EXCEPT ![cursor].dead = TRUE]
          /\ toServerQueue' = Push(toServerQueue, QueueSlots, LinkdeadReport(e))
     ELSE UNCHANGED <<table, toServerQueue>>
  /\ cursor' = cursor + 1
  /\ UNCHANGED <<pc, sent, udpQueue, clients, allocated, lost>>

TimeoutsDone ==
  /\ pc = "timeouts" /\ cursor > Len(table)
  /\ pc' = "cleanup" /\ cursor' = 1
  /\ UNCHANGED <<table, sent, toServerQueue, udpQueue, clients, allocated, lost>>

\* Mutation: the swapped client keeps its old index.
SwappedOnly(t, k) == Front(IF k = Len(t) THEN t ELSE [t EXCEPT ![k] = Last(t)])

\* Pop and swap: the last client moves into slot k and learns its new index.
PopAndSwap(t, k) ==
  Front(IF k = Len(t) THEN t ELSE [t EXCEPT ![k] = [Last(t) EXCEPT !.udpIndex = k]])

\* Mutation: no "continue" after the swap.
CursorMovesOn == cursor + 1

\* "continue": the client swapped into the slot is looked at next.
CursorAfterPop == cursor

Cleanup ==
  /\ pc = "cleanup" /\ cursor <= Len(table)
  /\ LET e == table[cursor] IN
     IF e.dead
     THEN /\ table' = PopAndSwap(table, cursor)
          /\ toServerQueue' = Push(toServerQueue, QueueSlots, Report("Disconnect", e))
          /\ lost' = IF Room(toServerQueue, QueueSlots) THEN lost ELSE lost \cup {e.object}
          /\ cursor' = CursorAfterPop
     ELSE /\ cursor' = cursor + 1
          /\ UNCHANGED <<table, toServerQueue, lost>>
  /\ UNCHANGED <<pc, sent, udpQueue, clients, allocated>>

CleanupDone ==
  /\ pc = "cleanup" /\ cursor > Len(table)
  /\ pc' = "reads" /\ cursor' = 1
  /\ UNCHANGED <<table, sent, toServerQueue, udpQueue, clients, allocated, lost>>

\* 15 s go by without a datagram from the client in slot k.
GoQuiet(k) ==
  /\ ~table[k].quiet
  /\ table' = [table EXCEPT ![k].quiet = TRUE]
  /\ UNCHANGED <<pc, cursor, sent, toServerQueue, udpQueue, clients, allocated, lost>>

-----------------------------------------------------------------------------
(* The server thread: one message per step.                                  *)
HandleNew ==
  /\ LET m == Head(toServerQueue) IN
     /\ m.zop = "New"
     /\ clients' = [o \in DOMAIN clients \cup {m.object} |->
                      IF o = m.object THEN m.addr ELSE clients[o]]
  /\ UNCHANGED <<udpQueue, allocated>>

\* A packet is handled; on OP_LOGIN_Exit or an error the client is dropped,
\* unless the command does not fit ("keeping client alive for now").
HandlePacket ==
  /\ LET o == Head(toServerQueue).object IN
     /\ Head(toServerQueue).zop = "Packet"
     /\ udpQueue' \in {udpQueue} \cup
          (IF o \in DOMAIN clients THEN {Push(udpQueue, CommandSlots, clients[o])} ELSE {})
  /\ UNCHANGED <<clients, allocated>>

HandleLinkdead ==
  /\ Head(toServerQueue).zop = "Linkdead"
  /\ UNCHANGED <<udpQueue, clients, allocated>>

\* login_thread_remove_client_object: out of the list, and freed.
HandleDisconnect ==
  /\ LET o == Head(toServerQueue).object IN
     /\ Head(toServerQueue).zop = "Disconnect"
     /\ clients' = [x \in DOMAIN clients \ {o} |-> clients[x]]
     /\ allocated' = allocated \ {o}
  /\ UNCHANGED udpQueue

Serve ==
  /\ toServerQueue # <<>>
  /\ toServerQueue' = Tail(toServerQueue)
  /\ HandleNew \/ HandlePacket \/ HandleLinkdead \/ HandleDisconnect
  /\ UNCHANGED <<udp, sent, lost>>

-----------------------------------------------------------------------------
Init ==
  /\ table = <<>> /\ pc = "reads" /\ cursor = 1 /\ sent = 0
  /\ toServerQueue = <<>> /\ udpQueue = <<>>
  /\ clients = <<>> /\ allocated = {} /\ lost = {}

UdpLoop ==
  \/ Redo \/ ReadsDone
  \/ Command \/ CommandsDone
  \/ CheckTimeout \/ TimeoutsDone
  \/ Cleanup \/ CleanupDone

TimePasses == \E k \in DOMAIN table : GoQuiet(k)

Next ==
  \/ \E a \in Addrs, kind \in Kinds : Datagram(a, kind)
  \/ UdpLoop
  \/ TimePasses
  \/ Serve

Spec == Init /\ [][Next]_vars

\* The UDP thread loops every 25 ms and time goes by.  Nothing is assumed of the server
\* thread: it pops one packet per permit of its semaphore, and its queue has other
\* producers, so it may sleep beside its last packet (RingBufSingle).
Fairness == WF_vars(UdpLoop) /\ WF_vars(TimePasses)
FairSpec == Spec /\ Fairness

-----------------------------------------------------------------------------
\* The table never outgrows the peers, queues stay within their blocks, and
\* every slot of the table is an initialised client.
TypeOK ==
  /\ table \in BoundedSeq(Entries, Cardinality(Addrs))
  /\ pc \in Phases
  /\ cursor \in 1 .. Cardinality(Addrs) + 1
  /\ sent \in 0 .. MaxDatagrams
  /\ toServerQueue \in Seq(Messages) /\ Len(toServerQueue) <= QueueSlots
  /\ udpQueue \in Seq(Addrs) /\ Len(udpQueue) <= CommandSlots
  /\ DOMAIN clients \subseteq Objects
  /\ allocated \subseteq Objects /\ lost \subseteq Objects

\* "we want to avoid telling a thread they've received a packet from a new
\* client before telling them that new client exists" (udp_thread.c): every
\* message about an object reaches the server thread after the object's
\* announcement and before its disconnect, so no handler touches an object
\* that is unknown or freed.
KnownWhileUsed ==
  \A k \in DOMAIN toServerQueue :
    LET m     == toServerQueue[k]
        prior == {j \in 1 .. k - 1 : toServerQueue[j].object = m.object}
    IN IF m.zop = "New"
       THEN prior = {} /\ m.object \notin DOMAIN clients
       ELSE /\ \A j \in prior : toServerQueue[j].zop # "Disconnect"
            /\ m.object \in DOMAIN clients \/ \E j \in prior : toServerQueue[j].zop = "New"

Departing == {toServerQueue[k].object :
                k \in {j \in DOMAIN toServerQueue : toServerQueue[j].zop = "Disconnect"}}

\* An object is freed once and never while the table points at it: each one is
\* held by exactly one slot of the table, or by one disconnect report on its way,
\* or was lost with a report that did not fit the queue.
ObjectsHaveOneHolder ==
  /\ allocated = TableObjects \cup Departing \cup lost
  /\ Cardinality(TableObjects) = Len(table)
  /\ TableObjects \cap (Departing \cup lost) = {}
  /\ Departing \cap lost = {}

\* The index a client carries (udp_thread_update_ack_timestamp writes through it)
\* is its slot, whatever was swapped, and a peer has at most one slot.
IndexesMatchSlots ==
  \A k \in DOMAIN table : table[k].udpIndex = k /\ IndexesOf(table[k].addr) = {k}

\* udp_thread_cleanup_dead_clients removes the dead and only the dead, although
\* it rearranges the array it walks over.
SweepRemovesTheDead ==
  [][pc = "cleanup" =>
       /\ \A k \in DOMAIN table : ~table[k].dead =>
            \E j \in DOMAIN table' : table'[j].object = table[k].object
       /\ pc' # "cleanup" => \A j \in DOMAIN table' : ~table'[j].dead]_vars

\* Once the peers are silent the UDP thread forgets every client, dropped or not,
\* whatever the server thread does.  If that thread gets to the end of its queue again
\* and again, every object is freed, unless its disconnect report was lost to a full queue.
EventuallyForgotten ==
  /\ <>[](table = <<>>)
  /\ []<>(toServerQueue = <<>>) => <>[](allocated = lost)
=============================================================================
