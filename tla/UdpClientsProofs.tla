--------------------------- MODULE UdpClientsProofs ---------------------------
(***************************************************************************)
(* For every number of peers, of heap blocks and of queue slots: the       *)
(* UDP thread's table keeps its slots and indexes in step, every message   *)
(* about a client object reaches the server thread between the object's    *)
(* announcement and its disconnect, and an object is freed once and never  *)
(* while the table still points at it.                                     *)
(***************************************************************************)
EXTENDS UdpClients, SequenceTheorems, FiniteSetTheorems, TLAPS

\* The table's entries without the bound on udpIndex, which follows from
\* IndexInv.
Slots == [addr : Addrs, object : Objects, udpIndex : Nat,
          ignore : BOOLEAN, dead : BOOLEAN, quiet : BOOLEAN]

TypeInv ==
  /\ table \in Seq(Slots)
  /\ pc \in Phases
  /\ sent \in 0 .. MaxDatagrams
  /\ toServerQueue \in Seq(Messages) /\ Len(toServerQueue) <= QueueSlots
  /\ udpQueue \in Seq(Addrs) /\ Len(udpQueue) <= CommandSlots
  /\ DOMAIN clients \subseteq allocated /\ \A o \in DOMAIN clients : clients[o] \in Addrs
  /\ allocated \subseteq Objects /\ lost \subseteq Objects

\* The loop index stays within the table, what the sweep has passed is alive,
\* and the second pass over a datagram finds the client the first pass created.
LoopInv ==
  /\ cursor \in 1 .. Len(table) + 1
  /\ pc \in {"reads", "redo", "commands"} => cursor = 1
  /\ pc = "redo" => Len(table) > 0
  /\ pc = "cleanup" => \A k \in 1 .. cursor - 1 : ~table[k].dead

\* Slots, addresses and objects of the table correspond one to one.
IndexInv ==
  /\ \A k \in 1 .. Len(table) : table[k].udpIndex = k
  /\ \A j, k \in 1 .. Len(table) : table[j].addr = table[k].addr => j = k
  /\ \A j, k \in 1 .. Len(table) : table[j].object = table[k].object => j = k

\* A message with opcode zop about o is on its way to the server thread.
Queued(zop, o) ==
  \E j \in 1 .. Len(toServerQueue) : toServerQueue[j].zop = zop /\ toServerQueue[j].object = o

\* The server thread knows o, or will before it handles what is pushed next.
Announced(o) == o \in DOMAIN clients \/ Queued("New", o)

Disconnecting(o) == Queued("Disconnect", o)

InTable(o) == \E k \in 1 .. Len(table) : table[k].object = o

\* KnownWhileUsed, for the message at position k.
KnownAt(k) ==
  LET m == toServerQueue[k] IN
  /\ m.zop = "New" => /\ m.object \notin DOMAIN clients
                      /\ \A j \in 1 .. k - 1 : toServerQueue[j].object # m.object
  /\ m.zop # "New" =>
       /\ \A j \in 1 .. k - 1 :
            toServerQueue[j].object = m.object => toServerQueue[j].zop # "Disconnect"
       /\ \/ m.object \in DOMAIN clients
          \/ \E j \in 1 .. k - 1 :
               toServerQueue[j].object = m.object /\ toServerQueue[j].zop = "New"

KnownInv == \A k \in 1 .. Len(toServerQueue) : KnownAt(k)

\* Who holds an object, and that a queued message is about a live one.
HolderInv ==
  /\ \A o \in Objects : o \in allocated <=> InTable(o) \/ Disconnecting(o) \/ o \in lost
  /\ \A o \in Objects : InTable(o) => Announced(o) /\ ~Disconnecting(o) /\ o \notin lost
  /\ \A o \in Objects : Disconnecting(o) => o \notin lost
  /\ \A j \in 1 .. Len(toServerQueue) : toServerQueue[j].object \in allocated

IInv == TypeInv /\ LoopInv /\ IndexInv /\ KnownInv /\ HolderInv

-----------------------------------------------------------------------------
(* The queue and the table, position by position.                          *)

\* The positions of the queue after a push that fits, and where an object that
\* is announced or disconnecting stands afterwards.
LEMMA QueueAppend ==
  ASSUME TypeInv, NEW m \in Messages, toServerQueue' = Append(toServerQueue, m)
  PROVE  /\ Len(toServerQueue) \in Nat /\ Len(toServerQueue') = Len(toServerQueue) + 1
         /\ \A j \in 1 .. Len(toServerQueue) : toServerQueue'[j] = toServerQueue[j]
         /\ toServerQueue'[Len(toServerQueue) + 1] = m
         /\ toServerQueue' \in Seq(Messages)
  BY AppendProperties, LenProperties DEF TypeInv

\* The positions of the queue after a pop.
LEMMA QueuePop ==
  ASSUME TypeInv, toServerQueue # <<>>, toServerQueue' = Tail(toServerQueue)
  PROVE  /\ Len(toServerQueue) \in Nat \ {0} /\ Len(toServerQueue') = Len(toServerQueue) - 1
         /\ \A j \in 1 .. Len(toServerQueue) - 1 : toServerQueue'[j] = toServerQueue[j + 1]
         /\ Head(toServerQueue) = toServerQueue[1] /\ toServerQueue[1] \in Messages
         /\ toServerQueue' \in Seq(Messages)
  BY HeadTailProperties, EmptySeq, ElementOfSeq DEF TypeInv

\* A push that fits adds one message to what is queued.
LEMMA PushQueued ==
  ASSUME TypeInv, NEW m \in Messages, toServerQueue' = Append(toServerQueue, m), NEW z, NEW o
  PROVE  Queued(z, o)' <=> Queued(z, o) \/ (m.zop = z /\ m.object = o)
<1>1. PICK n \in Nat : n = Len(toServerQueue)  BY QueueAppend
<1>2. /\ Len(toServerQueue) = n /\ Len(toServerQueue') = n + 1
      /\ \A j \in 1 .. n : toServerQueue'[j] = toServerQueue[j]
      /\ toServerQueue'[n + 1] = m
  BY <1>1, QueueAppend
<1>3. QED  BY <1>2 DEF Queued

\* A pop takes the head and nothing else out of the queue.
LEMMA PopQueued ==
  ASSUME TypeInv, toServerQueue # <<>>, toServerQueue' = Tail(toServerQueue), NEW z, NEW o
  PROVE  Queued(z, o) <=> \/ Head(toServerQueue).zop = z /\ Head(toServerQueue).object = o
                          \/ Queued(z, o)'
<1>1. PICK n \in Nat \ {0} : n = Len(toServerQueue)  BY QueuePop
<1>2. /\ Len(toServerQueue) = n /\ Len(toServerQueue') = n - 1
      /\ \A j \in 1 .. n - 1 : toServerQueue'[j] = toServerQueue[j + 1]
      /\ Head(toServerQueue) = toServerQueue[1]
  BY <1>1, QueuePop
<1>3. ASSUME NEW j \in 1 .. n, j # 1 PROVE j - 1 \in 1 .. n - 1 /\ toServerQueue'[j - 1] = toServerQueue[j]
  BY <1>2, <1>3
<1>4. \A j \in 1 .. n - 1 : j + 1 \in 1 .. n /\ toServerQueue'[j] = toServerQueue[j + 1]
  BY <1>2
<1>5. ASSUME Queued(z, o)
      PROVE  (Head(toServerQueue).zop = z /\ Head(toServerQueue).object = o) \/ Queued(z, o)'
  BY <1>2, <1>3, <1>5, SMTT(30) DEF Queued
<1>6. ASSUME Queued(z, o)' PROVE Queued(z, o)
  BY <1>2, <1>4, <1>6 DEF Queued
<1>7. ASSUME Head(toServerQueue).zop = z, Head(toServerQueue).object = o PROVE Queued(z, o)
  BY <1>2, <1>7 DEF Queued
<1>8. QED  BY <1>5, <1>6, <1>7, SMTT(30)

\* What is known about a queued message stays known when messages are pushed
\* behind it.
LEMMA KnownStays ==
  ASSUME NEW k \in Nat \ {0}, KnownAt(k), clients' = clients,
         \A j \in 1 .. k : toServerQueue'[j] = toServerQueue[j]
  PROVE  KnownAt(k)'
<1>1. toServerQueue'[k] = toServerQueue[k] /\ \A j \in 1 .. k - 1 : toServerQueue'[j] = toServerQueue[j]
  OBVIOUS
<1>2. QED  BY <1>1 DEF KnownAt

\* A report is a message.
LEMMA ReportType ==
  ASSUME NEW e \in Slots, NEW zop \in {"New", "Packet", "Linkdead", "Disconnect"}
  PROVE  /\ Report(zop, e) \in Messages
         /\ Report(zop, e).zop = zop /\ Report(zop, e).object = e.object
  BY DEF Report, Messages, Slots

\* The pop and swap of udp_thread_cleanup_dead_clients: slot k goes, the last
\* client takes its place with the new index, and nothing else moves.
LEMMA PopAndSwapProperties ==
  ASSUME NEW t \in Seq(Slots), NEW k \in 1 .. Len(t)
  PROVE  /\ PopAndSwap(t, k) \in Seq(Slots)
         /\ Len(PopAndSwap(t, k)) = Len(t) - 1
         /\ \A i \in 1 .. Len(t) - 1 :
              PopAndSwap(t, k)[i] = IF i = k THEN [t[Len(t)] EXCEPT !.udpIndex = k] ELSE t[i]
<1> DEFINE u == IF k = Len(t) THEN t ELSE [t EXCEPT ![k] = [Last(t) EXCEPT !.udpIndex = k]]
<1>1. Len(t) \in Nat \ {0} /\ Last(t) = t[Len(t)] /\ t[Len(t)] \in Slots
  BY LenProperties, ElementOfSeq DEF Last
<1>2. [t[Len(t)] EXCEPT !.udpIndex = k] \in Slots
  BY <1>1 DEF Slots
<1>3. /\ u \in Seq(Slots) /\ Len(u) = Len(t)
      /\ \A i \in 1 .. Len(t) - 1 :
           u[i] = IF i = k THEN [t[Len(t)] EXCEPT !.udpIndex = k] ELSE t[i]
  BY <1>1, <1>2, ExceptSeq
<1>4. PopAndSwap(t, k) = SubSeq(u, 1, Len(u) - 1)
  BY DEF PopAndSwap, Front
<1> HIDE DEF u
<1>5. \A i \in 1 .. Len(u) - 1 : u[i] \in Slots
  BY <1>1, <1>3, ElementOfSeq
<1>6. 1 \in Int /\ Len(u) - 1 \in Int
  BY <1>1, <1>3
<1>7. /\ SubSeq(u, 1, Len(u) - 1) \in Seq(Slots)
      /\ Len(SubSeq(u, 1, Len(u) - 1)) = IF 1 <= Len(u) - 1 THEN (Len(u) - 1) - 1 + 1 ELSE 0
      /\ \A i \in 1 .. (Len(u) - 1) - 1 + 1 : SubSeq(u, 1, Len(u) - 1)[i] = u[1 + i - 1]
  BY <1>5, <1>6, SubSeqProperties
<1>8. \A i \in 1 .. Len(t) - 1 : SubSeq(u, 1, Len(u) - 1)[i] = u[i]
  BY <1>1, <1>3, <1>7
<1>9. Len(SubSeq(u, 1, Len(u) - 1)) = Len(t) - 1
  BY <1>1, <1>3, <1>7
<1>10. QED  BY <1>3, <1>4, <1>7, <1>8, <1>9

-----------------------------------------------------------------------------
(* What the steps of the UDP thread share.                                 *)

\* Only flags of the table's entries change.
SameSlots ==
  /\ Len(table') = Len(table)
  /\ \A k \in 1 .. Len(table) :
       /\ table'[k].addr = table[k].addr /\ table'[k].object = table[k].object
       /\ table'[k].udpIndex = table[k].udpIndex

\* A step that changes only flags keeps the one-to-one correspondence.
LEMMA SameSlotsKept ==
  ASSUME IInv, SameSlots
  PROVE  IndexInv' /\ \A o : InTable(o)' <=> InTable(o)
  BY DEF IInv, IndexInv, SameSlots, InTable

\* A step that leaves queue, client list and objects alone keeps who holds what.
LEMMA HoldersKept ==
  ASSUME IInv, SameSlots, UNCHANGED <<toServerQueue, clients, allocated, lost>>
  PROVE  KnownInv' /\ HolderInv' /\ IndexInv'
<1>1. IndexInv' /\ \A o : InTable(o)' <=> InTable(o)  BY SameSlotsKept
<1>2. \A o : /\ Announced(o)' <=> Announced(o)
             /\ Disconnecting(o)' <=> Disconnecting(o)
  BY DEF Announced, Disconnecting, Queued
<1>3. KnownInv'  BY DEF IInv, KnownInv, KnownAt
<1>4. HolderInv'  BY <1>1, <1>2 DEF IInv, HolderInv
<1>5. QED  BY <1>1, <1>3, <1>4

\* Handing a packet or a linkdead report about a client of the table to the
\* server thread keeps who holds what, whether or not the queue has room.
LEMMA HandOnKept ==
  ASSUME IInv, SameSlots, UNCHANGED <<clients, allocated, lost>>,
         NEW m \in Messages, m.zop \in {"Packet", "Linkdead"}, InTable(m.object),
         toServerQueue' = Push(toServerQueue, QueueSlots, m)
  PROVE  KnownInv' /\ HolderInv' /\ IndexInv'
<1>1. CASE ~Room(toServerQueue, QueueSlots)
  BY <1>1, HoldersKept DEF Push
<1>2. CASE Room(toServerQueue, QueueSlots)
  <2>0. TypeInv /\ m.object \in Objects  BY DEF IInv, Messages
  <2>1. toServerQueue' = Append(toServerQueue, m)  BY <1>2 DEF Push
  <2>n. PICK n \in Nat : n = Len(toServerQueue)
    BY <2>0, LenProperties DEF TypeInv
  <2>2. /\ Len(toServerQueue) = n /\ Len(toServerQueue') = n + 1
        /\ \A j \in 1 .. n : toServerQueue'[j] = toServerQueue[j]
        /\ toServerQueue'[n + 1] = m
    BY <2>0, <2>1, <2>n, QueueAppend
  <2>3. IndexInv' /\ \A o : InTable(o)' <=> InTable(o)  BY SameSlotsKept
  <2>4. Announced(m.object) /\ ~Disconnecting(m.object) /\ m.object \in allocated
    BY <2>0 DEF IInv, HolderInv
  <2>5. \A o : /\ Announced(o)' <=> Announced(o)
               /\ Disconnecting(o)' <=> Disconnecting(o)
    BY <2>0, <2>1, PushQueued DEF Announced, Disconnecting
  <2>6. KnownInv'
    <3>1. ASSUME NEW k \in 1 .. n PROVE KnownAt(k)'
      BY <2>2, <3>1 DEF IInv, KnownInv, KnownAt
    <3>2. KnownAt(n + 1)'
      BY <2>2, <2>4 DEF KnownAt, Announced, Disconnecting, Queued
    <3>3. QED  BY <2>2, <3>1, <3>2 DEF KnownInv
  <2>7. HolderInv'
    <3>1. \A j \in 1 .. Len(toServerQueue') : toServerQueue'[j].object \in allocated'
      BY <2>2, <2>4 DEF IInv, HolderInv
    <3>2. QED  BY <2>3, <2>5, <3>1 DEF IInv, HolderInv
  <2>8. QED  BY <2>3, <2>6, <2>7
<1>3. QED  BY <1>1, <1>2

\* One entry of the table gets another flag.
LEMMA FlagSet ==
  ASSUME TypeInv, NEW k \in 1 .. Len(table), NEW e \in Slots,
         e.addr = table[k].addr, e.object = table[k].object, e.udpIndex = table[k].udpIndex,
         table' = [table EXCEPT ![k] = e]
  PROVE  /\ table' \in Seq(Slots) /\ SameSlots
         /\ \A i \in 1 .. Len(table) : table'[i] = IF i = k THEN e ELSE table[i]
<1>1. table' \in Seq(Slots) /\ Len(table') = Len(table)
      /\ \A i \in 1 .. Len(table) : table'[i] = IF i = k THEN e ELSE table[i]
  BY ExceptSeq DEF TypeInv
<1>2. QED  BY <1>1 DEF SameSlots

\* A slot of the table is an entry, and the table's domain are its positions.
LEMMA SlotType ==
  ASSUME TypeInv
  PROVE  /\ DOMAIN table = 1 .. Len(table) /\ Len(table) \in Nat
         /\ \A k \in 1 .. Len(table) : table[k] \in Slots /\ InTable(table[k].object)
  BY LenProperties, ElementOfSeq DEF TypeInv, InTable

\* A push keeps the type of the queue.
LEMMA PushType ==
  ASSUME TypeInv, NEW m \in Messages
  PROVE  /\ Push(toServerQueue, QueueSlots, m) \in Seq(Messages)
         /\ Len(Push(toServerQueue, QueueSlots, m)) <= QueueSlots
  BY AppendProperties, LenProperties, UdpAssumption DEF TypeInv, Push, Room

-----------------------------------------------------------------------------
(* Each step preserves the inductive invariant.                            *)

\* A datagram of a known peer preserves the inductive invariant.
LEMMA ReadKnownInv ==
  ASSUME IInv, NEW a \in Addrs, NEW kind \in Kinds, Datagram(a, kind), ReadKnown(a, kind)
  PROVE  IInv'
<1>0. TypeInv  BY DEF IInv
<1>1. PICK k \in 1 .. Len(table) :
        /\ table' = [table EXCEPT ![k].quiet = FALSE]
        /\ toServerQueue' = IF ~table[k].ignore /\ kind = "data"
                            THEN Push(toServerQueue, QueueSlots, Report("Packet", table[k]))
                            ELSE toServerQueue
        /\ UNCHANGED <<pc, allocated>>
  BY <1>0, SlotType DEF ReadKnown, IndexesOf
<1>2. table[k] \in Slots /\ InTable(table[k].object)  BY <1>0, SlotType
<1>3. /\ table' \in Seq(Slots) /\ SameSlots
      /\ \A i \in 1 .. Len(table) : table'[i].dead = table[i].dead
  <2>1. PICK e \in Slots :
          /\ e.addr = table[k].addr /\ e.object = table[k].object
          /\ e.udpIndex = table[k].udpIndex /\ e.dead = table[k].dead
          /\ table' = [table EXCEPT ![k] = e]
    <3>1. [table[k] EXCEPT !.quiet = FALSE] \in Slots  BY <1>2 DEF Slots
    <3>2. QED  BY <1>1, <1>2, <3>1 DEF Slots
  <2>2. /\ table' \in Seq(Slots) /\ SameSlots
        /\ \A i \in 1 .. Len(table) : table'[i] = IF i = k THEN e ELSE table[i]
    BY <1>0, <2>1, FlagSet
  <2>3. QED  BY <2>1, <2>2
<1>4. /\ Report("Packet", table[k]) \in Messages
      /\ Report("Packet", table[k]).zop = "Packet"
      /\ Report("Packet", table[k]).object = table[k].object
  BY <1>2, ReportType
<1>5. UNCHANGED <<cursor, udpQueue, clients, lost, pc, allocated>> /\ sent' = sent + 1
      /\ sent < MaxDatagrams
  BY <1>1 DEF Datagram
<1>6. TypeInv'
  <2>1. toServerQueue' \in Seq(Messages) /\ Len(toServerQueue') <= QueueSlots
    BY <1>0, <1>1, <1>4, PushType DEF TypeInv
  <2>2. QED  BY <1>0, <1>3, <1>5, <2>1, UdpAssumption DEF TypeInv
<1>7. LoopInv'  BY <1>3, <1>5 DEF IInv, LoopInv, SameSlots, Datagram
<1>8. KnownInv' /\ HolderInv' /\ IndexInv'
  <2>1. CASE ~table[k].ignore /\ kind = "data"
    BY <1>1, <1>2, <1>3, <1>4, <1>5, <2>1, HandOnKept
  <2>2. CASE ~(~table[k].ignore /\ kind = "data")
    BY <1>1, <1>3, <1>5, <2>2, HoldersKept
  <2>3. QED  BY <2>1, <2>2
<1>9. QED  BY <1>6, <1>7, <1>8 DEF IInv

\* The first datagram of a peer, which creates and announces its object,
\* preserves the inductive invariant.
LEMMA NewClientInv ==
  ASSUME IInv, NEW a \in Addrs, NEW kind \in Kinds, Datagram(a, kind),
         IndexesOf(a) = {}, Room(toServerQueue, QueueSlots),
         NEW o \in Objects \ allocated,
         table' = Append(table, NewEntry(a, o)),
         toServerQueue' = toServerQueue \o Introduce(NewEntry(a, o), kind),
         allocated' = allocated \cup {o},
         pc' = IF kind = "data" THEN "redo" ELSE pc
  PROVE  IInv'
<1>0. TypeInv  BY SMTT(30) DEF IInv
<1>1. PICK l \in Nat : l = Len(table)  BY <1>0, SlotType
<1>2. PICK e \in Slots : /\ e = NewEntry(a, o) /\ e.addr = a /\ e.object = o
                         /\ e.udpIndex = l + 1 /\ ~e.dead
  <2>1. NewEntry(a, o) \in Slots /\ NewEntry(a, o).udpIndex = l + 1
        /\ NewEntry(a, o).addr = a /\ NewEntry(a, o).object = o /\ ~NewEntry(a, o).dead
    BY <1>1 DEF NewEntry, Slots
  <2>2. QED  BY <2>1
<1>3. /\ Len(table) = l /\ table' \in Seq(Slots) /\ Len(table') = l + 1
      /\ \A k \in 1 .. l : table'[k] = table[k]
      /\ table'[l + 1] = e
  BY <1>0, <1>1, <1>2, AppendProperties DEF TypeInv
<1>4. PICK m \in Messages : /\ m = Report("New", e) /\ m.zop = "New" /\ m.object = o
  BY <1>2, ReportType
<1>5. toServerQueue' = Append(toServerQueue, m)
  BY <1>0, <1>2, <1>4, AppendIsConcat DEF TypeInv, Introduce
<1>6. PICK n \in Nat : n = Len(toServerQueue)  BY <1>0, LenProperties DEF TypeInv
<1>7. /\ Len(toServerQueue) = n /\ Len(toServerQueue') = n + 1
      /\ \A j \in 1 .. n : toServerQueue'[j] = toServerQueue[j]
      /\ toServerQueue'[n + 1] = m /\ toServerQueue' \in Seq(Messages)
  BY <1>0, <1>5, <1>6, QueueAppend
<1>8. UNCHANGED <<cursor, udpQueue, clients, lost>> /\ sent' = sent + 1
      /\ sent < MaxDatagrams /\ pc = "reads"
  BY DEF Datagram
<1>9. TypeInv'
  <2>1. Len(toServerQueue') <= QueueSlots
    BY <1>7, UdpAssumption DEF Room
  <2>2. DOMAIN clients' \subseteq allocated' /\ allocated' \subseteq Objects
    BY <1>0, <1>8 DEF TypeInv
  <2>3. QED  BY <1>0, <1>3, <1>7, <1>8, <2>1, <2>2, UdpAssumption DEF TypeInv, Phases
<1>10. LoopInv'
  BY <1>3, <1>8 DEF IInv, LoopInv
<1>11. \A x : InTable(x)' <=> InTable(x) \/ x = o
  BY <1>2, <1>3 DEF InTable
<1>12. \A x : /\ Announced(x)' <=> Announced(x) \/ x = o
              /\ Disconnecting(x)' <=> Disconnecting(x)
  BY <1>0, <1>4, <1>5, <1>8, PushQueued DEF Announced, Disconnecting
<1>13. ~InTable(o) /\ ~Disconnecting(o) /\ o \notin lost /\ o \notin DOMAIN clients
       /\ \A j \in 1 .. n : toServerQueue[j].object # o
  BY <1>7 DEF IInv, TypeInv, HolderInv
<1>14. IndexInv'
  <2>1. \A k \in 1 .. l : table[k].addr # a /\ table[k].object # o
    BY <1>0, <1>3, <1>13, SlotType DEF IndexesOf, InTable
  <2>2. \A k \in 1 .. l + 1 : table'[k].udpIndex = k
    BY <1>2, <1>3 DEF IInv, IndexInv
  <2>3. \A k \in 1 .. l + 1 : k \in 1 .. l \/ k = l + 1
    OBVIOUS
  <2>4. \A j, k \in 1 .. l + 1 : table'[j].addr = table'[k].addr => j = k
    BY <1>2, <1>3, <2>1, <2>3 DEF IInv, IndexInv
  <2>5. \A j, k \in 1 .. l + 1 : table'[j].object = table'[k].object => j = k
    BY <1>2, <1>3, <2>1, <2>3 DEF IInv, IndexInv
  <2>6. QED  BY <1>3, <2>2, <2>4, <2>5 DEF IndexInv
<1>15. KnownInv'
  <2>1. ASSUME NEW k \in 1 .. n PROVE KnownAt(k)'
    <3>1. KnownAt(k)  BY <1>7 DEF IInv, KnownInv
    <3>2. \A j \in 1 .. k : toServerQueue'[j] = toServerQueue[j]  BY <1>7
    <3>3. k \in Nat \ {0} /\ clients' = clients  BY <1>8
    <3>4. QED  BY <3>1, <3>2, <3>3, KnownStays, Zenon
  <2>2. KnownAt(n + 1)'
    BY <1>4, <1>7, <1>8, <1>13 DEF KnownAt
  <2>3. QED  BY <1>7, <2>1, <2>2 DEF KnownInv
<1>16. HolderInv'
  <2>1. \A j \in 1 .. Len(toServerQueue') : toServerQueue'[j].object \in allocated'
    BY <1>4, <1>7 DEF IInv, HolderInv
  <2>2. QED  BY <1>8, <1>11, <1>12, <1>13, <2>1 DEF IInv, HolderInv
<1>17. QED  BY <1>9, <1>10, <1>14, <1>15, <1>16 DEF IInv

\* Every datagram preserves the inductive invariant.
LEMMA DatagramInv ==
  ASSUME IInv, NEW a \in Addrs, NEW kind \in Kinds, Datagram(a, kind)
  PROVE  IInv'
<1>1. CASE ReadKnown(a, kind)  BY <1>1, ReadKnownInv
<1>2. CASE ReadUnknown(a, kind)
  <2>1. CASE UNCHANGED <<table, pc, toServerQueue, allocated>>
    <3>1. UNCHANGED <<table, pc, cursor, toServerQueue, udpQueue, clients, allocated, lost>>
          /\ sent' \in 0 .. MaxDatagrams
      BY <2>1, UdpAssumption DEF Datagram, IInv, TypeInv
    <3>2. SameSlots  BY <3>1 DEF SameSlots
    <3>3. TypeInv' /\ LoopInv'  BY <3>1 DEF IInv, TypeInv, LoopInv
    <3>4. QED  BY <3>1, <3>2, <3>3, HoldersKept DEF IInv
  <2>2. CASE ~UNCHANGED <<table, pc, toServerQueue, allocated>>
    <3>1. PICK o \in Objects \ allocated :
            /\ table' = Append(table, NewEntry(a, o))
            /\ toServerQueue' = toServerQueue \o Introduce(NewEntry(a, o), kind)
            /\ allocated' = allocated \cup {o}
            /\ pc' = IF kind = "data" THEN "redo" ELSE pc
      BY <1>2, <2>2 DEF ReadUnknown
    <3>2. IndexesOf(a) = {} /\ Room(toServerQueue, QueueSlots)
      BY <1>2, <2>2 DEF ReadUnknown
    <3>3. QED  BY <3>1, <3>2, NewClientInv
  <2>3. QED  BY <2>1, <2>2
<1>3. QED  BY <1>1, <1>2 DEF Datagram

\* The second pass over the first datagram preserves the inductive invariant.
LEMMA RedoInv == ASSUME IInv, Redo PROVE IInv'
<1>0. TypeInv  BY DEF IInv
<1>1. PICK k \in 1 .. Len(table) : k = Len(table)
  <2>1. Len(table) > 0  BY DEF IInv, LoopInv, Redo
  <2>2. Len(table) \in 1 .. Len(table)  BY <1>0, <2>1, SlotType
  <2>3. QED  BY <2>2
<1>2. table[k] \in Slots /\ InTable(table[k].object)  BY <1>0, SlotType
<1>3. PICK m \in Messages : /\ m = Report("Packet", table[k])
                            /\ m.zop = "Packet" /\ m.object = table[k].object
  BY <1>2, ReportType
<1>4. toServerQueue' = Push(toServerQueue, QueueSlots, m)
      /\ UNCHANGED <<table, cursor, sent, udpQueue, clients, allocated, lost>>
      /\ pc' = "reads" /\ pc = "redo"
  BY <1>1, <1>3 DEF Redo, Last
<1>5. TypeInv'
  BY <1>0, <1>3, <1>4, PushType DEF TypeInv, Phases
<1>6. LoopInv'  BY <1>4 DEF IInv, LoopInv
<1>7. SameSlots  BY <1>4 DEF SameSlots
<1>8. QED  BY <1>2, <1>3, <1>4, <1>5, <1>6, <1>7, HandOnKept DEF IInv

\* Going from one phase of udp_thread_proc to the next preserves the inductive
\* invariant.
LEMMA PhaseInv ==
  ASSUME IInv, ReadsDone \/ CommandsDone \/ TimeoutsDone \/ CleanupDone
  PROVE  IInv'
<1>1. UNCHANGED <<table, sent, toServerQueue, udpQueue, clients, allocated, lost>>
  BY DEF ReadsDone, CommandsDone, TimeoutsDone, CleanupDone
<1>2. SameSlots  BY <1>1 DEF SameSlots
<1>3. TypeInv'
  BY <1>1 DEF IInv, TypeInv, Phases, ReadsDone, CommandsDone, TimeoutsDone, CleanupDone
<1>4. LoopInv'
  <2>1. Len(table) \in Nat  BY SlotType DEF IInv
  <2>2. QED
    BY <1>1, <2>1 DEF IInv, LoopInv, ReadsDone, CommandsDone, TimeoutsDone, CleanupDone
<1>5. QED  BY <1>1, <1>2, <1>3, <1>4, HoldersKept DEF IInv

\* A DropClient command preserves the inductive invariant.
LEMMA CommandInv == ASSUME IInv, Command PROVE IInv'
<1>0. TypeInv  BY DEF IInv
<1>1. UNCHANGED <<pc, cursor, sent, toServerQueue, clients, allocated, lost>>
  BY DEF Command
<1>2. DOMAIN table = 1 .. Len(table) /\ Len(table) \in Nat
      /\ \A k \in 1 .. Len(table) : table[k] \in Slots
  BY <1>0, SlotType
<1>3. PICK f \in [1 .. Len(table) -> Slots] :
        table' = f /\ \A k \in 1 .. Len(table) :
          f[k].addr = table[k].addr /\ f[k].object = table[k].object
          /\ f[k].udpIndex = table[k].udpIndex
  <2>1. \A k \in 1 .. Len(table) : [table[k] EXCEPT !.ignore = TRUE] \in Slots
    BY <1>2 DEF Slots
  <2>2. table' = [k \in 1 .. Len(table) |->
                   IF table[k].addr = Head(udpQueue) THEN [table[k] EXCEPT !.ignore = TRUE]
                                                     ELSE table[k]]
    BY <1>2 DEF Command
  <2>3. \A k \in 1 .. Len(table) :
          /\ table'[k] \in Slots /\ table'[k].addr = table[k].addr
          /\ table'[k].object = table[k].object /\ table'[k].udpIndex = table[k].udpIndex
    BY <1>2, <2>1, <2>2 DEF Slots
  <2>4. table' \in [1 .. Len(table) -> Slots]  BY <2>1, <2>2, <1>2
  <2>5. QED  BY <2>3, <2>4
<1>4. table' \in Seq(Slots) /\ Len(table') = Len(table)
  BY <1>2, <1>3
<1>5. SameSlots  BY <1>3, <1>4 DEF SameSlots
<1>6. TypeInv'
  <2>1. udpQueue' \in Seq(Addrs) /\ Len(udpQueue') <= CommandSlots
    BY <1>0, HeadTailProperties, LenProperties, UdpAssumption DEF TypeInv, Command
  <2>2. QED  BY <1>0, <1>1, <1>4, <2>1 DEF TypeInv
<1>7. LoopInv'  BY <1>1, <1>4 DEF IInv, LoopInv, Command
<1>8. QED  BY <1>1, <1>5, <1>6, <1>7, HoldersKept DEF IInv

\* One step of udp_thread_check_client_timeouts preserves the inductive invariant.
LEMMA CheckTimeoutInv == ASSUME IInv, CheckTimeout PROVE IInv'
<1>0. TypeInv  BY DEF IInv
<1>1. PICK k \in 1 .. Len(table) : k = cursor
  BY DEF IInv, LoopInv, CheckTimeout
<1>2. table[k] \in Slots /\ InTable(table[k].object)  BY <1>0, SlotType
<1>3. /\ UNCHANGED <<pc, sent, udpQueue, clients, allocated, lost>>
      /\ cursor' = k + 1 /\ pc = "timeouts"
  BY <1>1 DEF CheckTimeout
<1>4. CASE Expired(table[k])
  <2>1. PICK e \in Slots :
          /\ e.addr = table[k].addr /\ e.object = table[k].object
          /\ e.udpIndex = table[k].udpIndex
          /\ table' = [table EXCEPT ![k] = e]
    <3>1. [table[k] EXCEPT !.dead = TRUE] \in Slots  BY <1>2 DEF Slots
    <3>2. QED  BY <1>1, <1>2, <1>4, <3>1 DEF Slots, CheckTimeout
  <2>2. table' \in Seq(Slots) /\ SameSlots  BY <1>0, <2>1, FlagSet
  <2>3. PICK m \in Messages : /\ m = Report("Linkdead", table[k])
                              /\ m.zop = "Linkdead" /\ m.object = table[k].object
    BY <1>2, ReportType
  <2>4. toServerQueue' = Push(toServerQueue, QueueSlots, m)
    BY <1>1, <1>4, <2>3 DEF CheckTimeout, LinkdeadReport
  <2>5. TypeInv'  BY <1>0, <1>3, <2>2, <2>3, <2>4, PushType DEF TypeInv
  <2>6. LoopInv'  BY <1>3, <2>2 DEF LoopInv, SameSlots
  <2>7. QED  BY <1>2, <1>3, <2>2, <2>3, <2>4, <2>5, <2>6, HandOnKept DEF IInv
<1>5. CASE ~Expired(table[k])
  <2>1. UNCHANGED <<table, toServerQueue>>  BY <1>1, <1>5 DEF CheckTimeout
  <2>2. TypeInv' /\ SameSlots  BY <1>0, <1>3, <2>1 DEF TypeInv, SameSlots
  <2>3. LoopInv'  BY <1>3, <2>1 DEF LoopInv
  <2>4. QED  BY <1>3, <2>1, <2>2, <2>3, HoldersKept DEF IInv
<1>6. QED  BY <1>4, <1>5

\* A client growing quiet preserves the inductive invariant.
LEMMA GoQuietInv == ASSUME IInv, NEW k \in DOMAIN table, GoQuiet(k) PROVE IInv'
<1>0. TypeInv  BY DEF IInv
<1>1. k \in 1 .. Len(table) /\ table[k] \in Slots  BY <1>0, SlotType
<1>2. UNCHANGED <<pc, cursor, sent, toServerQueue, udpQueue, clients, allocated, lost>>
  BY DEF GoQuiet
<1>3. PICK e \in Slots :
        /\ e.addr = table[k].addr /\ e.object = table[k].object
        /\ e.udpIndex = table[k].udpIndex /\ e.dead = table[k].dead
        /\ table' = [table EXCEPT ![k] = e]
  <2>1. [table[k] EXCEPT !.quiet = TRUE] \in Slots  BY <1>1 DEF Slots
  <2>2. QED  BY <1>1, <2>1 DEF Slots, GoQuiet
<1>4. /\ table' \in Seq(Slots) /\ SameSlots
      /\ \A i \in 1 .. Len(table) : table'[i] = IF i = k THEN e ELSE table[i]
  BY <1>0, <1>1, <1>3, FlagSet
<1>5. TypeInv'  BY <1>0, <1>2, <1>4 DEF TypeInv
<1>6. LoopInv'
  <2>1. Len(table') = Len(table) /\ \A i \in 1 .. Len(table) : table'[i].dead = table[i].dead
    BY <1>3, <1>4 DEF SameSlots
  <2>2. Len(table) \in Nat  BY <1>0, SlotType
  <2>3. QED  BY <1>2, <2>1, <2>2 DEF IInv, LoopInv
<1>7. QED  BY <1>2, <1>4, <1>5, <1>6, HoldersKept DEF IInv

\* What one pop and swap of the sweep does to the slots of the table: the dead
\* client's object leaves it and every other object stays.
LEMMA SweepStep ==
  ASSUME IInv, Cleanup, table[cursor].dead
  PROVE  /\ cursor \in 1 .. Len(table) /\ cursor' = cursor
         /\ table' \in Seq(Slots) /\ Len(table') = Len(table) - 1
         /\ \A i \in 1 .. Len(table) - 1 :
              /\ table'[i].udpIndex = i
              /\ i # cursor => table'[i] = table[i]
              /\ i = cursor => /\ table'[i].addr = table[Len(table)].addr
                              /\ table'[i].object = table[Len(table)].object
         /\ \A o : InTable(o)' <=> InTable(o) /\ o # table[cursor].object
<1>0. TypeInv  BY DEF IInv
<1>1. PICK k \in 1 .. Len(table) : k = cursor
  BY DEF IInv, LoopInv, Cleanup
<1>2. PICK l \in Nat \ {0} : l = Len(table)
  <2>1. Len(table) \in Nat /\ k <= Len(table) /\ 1 <= k  BY <1>0, SlotType
  <2>2. Len(table) \in Nat \ {0}  BY <2>1
  <2>3. QED  BY <2>2
<1>3. table' = PopAndSwap(table, k) /\ cursor' = cursor
  BY <1>1 DEF Cleanup, CursorAfterPop
<1>4. /\ table' \in Seq(Slots) /\ Len(table') = l - 1
      /\ \A i \in 1 .. l - 1 :
           table'[i] = IF i = k THEN [table[l] EXCEPT !.udpIndex = k] ELSE table[i]
  BY <1>0, <1>2, <1>3, PopAndSwapProperties, SMTT(30) DEF TypeInv
<1>5. table[l] \in Slots  BY <1>0, <1>2, SlotType
<1>6. \A i \in 1 .. l - 1 :
        /\ i # k => table'[i] = table[i]
        /\ i = k => /\ table'[i].udpIndex = k /\ table'[i].addr = table[l].addr
                    /\ table'[i].object = table[l].object
  BY <1>4, <1>5 DEF Slots
<1>7. \A i \in 1 .. l - 1 : table'[i].udpIndex = i
  BY <1>2, <1>6 DEF IInv, IndexInv
<1>8. ASSUME NEW o PROVE InTable(o)' <=> InTable(o) /\ o # table[k].object
  <2>1. ASSUME NEW i \in 1 .. l - 1, table'[i].object = o
        PROVE  InTable(o) /\ o # table[k].object
    BY <1>1, <1>2, <1>6, <2>1 DEF IInv, IndexInv, InTable
  <2>2. ASSUME NEW i \in 1 .. l, table[i].object = o, o # table[k].object
        PROVE  \E j \in 1 .. l - 1 : table'[j].object = o
    <3>1. CASE i = l  BY <1>1, <1>2, <1>6, <2>2, <3>1
    <3>2. CASE i # l  BY <1>6, <2>2, <3>2
    <3>3. QED  BY <3>1, <3>2
  <2>3. QED  BY <1>2, <1>4, <2>1, <2>2 DEF InTable
<1>9. QED  BY <1>1, <1>2, <1>3, <1>4, <1>6, <1>7, <1>8

\* The removal of a dead client preserves the inductive invariant.
LEMMA RemoveDeadInv == ASSUME IInv, Cleanup, table[cursor].dead PROVE IInv'
<1>0. TypeInv  BY DEF IInv
<1>1. PICK k \in 1 .. Len(table) : k = cursor
  BY DEF IInv, LoopInv, Cleanup
<1>2. PICK l \in Nat \ {0} : l = Len(table)
  <2>1. Len(table) \in Nat /\ k <= Len(table) /\ 1 <= k  BY <1>0, SlotType
  <2>2. Len(table) \in Nat \ {0}  BY <2>1
  <2>3. QED  BY <2>2
<1>3. table[k] \in Slots /\ InTable(table[k].object)  BY <1>0, SlotType
<1>4. /\ cursor' = k /\ table' \in Seq(Slots) /\ Len(table') = l - 1
      /\ \A i \in 1 .. l - 1 :
           /\ table'[i].udpIndex = i
           /\ i # k => table'[i] = table[i]
           /\ i = k => table'[i].addr = table[l].addr /\ table'[i].object = table[l].object
      /\ \A o : InTable(o)' <=> InTable(o) /\ o # table[k].object
  BY <1>1, <1>2, SweepStep
<1>5. PICK m \in Messages : /\ m = Report("Disconnect", table[k])
                            /\ m.zop = "Disconnect" /\ m.object = table[k].object
  BY <1>3, ReportType
<1>6. /\ UNCHANGED <<pc, sent, udpQueue, clients, allocated>> /\ pc = "cleanup"
      /\ toServerQueue' = Push(toServerQueue, QueueSlots, m)
      /\ lost' = IF Room(toServerQueue, QueueSlots) THEN lost ELSE lost \cup {m.object}
  BY <1>1, <1>5 DEF Cleanup
<1>7. m.object \in Objects /\ m.object \in allocated /\ Announced(m.object)
      /\ ~Disconnecting(m.object) /\ m.object \notin lost
  BY <1>3, <1>5 DEF Slots, IInv, HolderInv
<1>8. TypeInv'
  BY <1>0, <1>4, <1>5, <1>6, <1>7, PushType DEF TypeInv
<1>9. LoopInv'
  <2>1. \A i \in 1 .. k - 1 : ~table[i].dead  BY <1>1, <1>6 DEF IInv, LoopInv
  <2>2. QED  BY <1>1, <1>2, <1>4, <1>6, <2>1 DEF LoopInv
<1>10. IndexInv'
  <2>1. \A i \in 1 .. l - 1 : table'[i].udpIndex = i  BY <1>4
  <2>2. \A i, j \in 1 .. l - 1 : table'[i].addr = table'[j].addr => i = j
    BY <1>2, <1>4, SMTT(30) DEF IInv, IndexInv
  <2>3. \A i, j \in 1 .. l - 1 : table'[i].object = table'[j].object => i = j
    BY <1>2, <1>4, SMTT(30) DEF IInv, IndexInv
  <2>4. QED  BY <1>4, <2>1, <2>2, <2>3 DEF IndexInv
<1>11. CASE ~Room(toServerQueue, QueueSlots)
  <2>1. toServerQueue' = toServerQueue /\ lost' = lost \cup {m.object}  BY <1>6, <1>11 DEF Push
  <2>2. KnownInv'  BY <1>6, <2>1 DEF IInv, KnownInv, KnownAt
  <2>3. \A o : /\ Announced(o)' <=> Announced(o)
               /\ Disconnecting(o)' <=> Disconnecting(o)
    BY <1>6, <2>1 DEF Announced, Disconnecting, Queued
  <2>4. HolderInv'  BY <1>4, <1>5, <1>6, <1>7, <2>1, <2>3 DEF IInv, HolderInv
  <2>5. QED  BY <1>8, <1>9, <1>10, <2>2, <2>4 DEF IInv
<1>12. CASE Room(toServerQueue, QueueSlots)
  <2>1. toServerQueue' = Append(toServerQueue, m) /\ lost' = lost  BY <1>6, <1>12 DEF Push
  <2>2. PICK n \in Nat : n = Len(toServerQueue)  BY <1>0, LenProperties DEF TypeInv
  <2>3. /\ Len(toServerQueue) = n /\ Len(toServerQueue') = n + 1
        /\ \A j \in 1 .. n : toServerQueue'[j] = toServerQueue[j]
        /\ toServerQueue'[n + 1] = m
    BY <1>0, <2>1, <2>2, QueueAppend
  <2>4. \A o : /\ Announced(o)' <=> Announced(o)
               /\ Disconnecting(o)' <=> Disconnecting(o) \/ o = m.object
    BY <1>0, <1>5, <1>6, <2>1, PushQueued DEF Announced, Disconnecting
  <2>5. KnownInv'
    <3>1. ASSUME NEW j \in 1 .. n PROVE KnownAt(j)'
      <4>1. KnownAt(j) /\ j \in Nat \ {0}  BY <2>3 DEF IInv, KnownInv
      <4>2. clients' = clients /\ \A i \in 1 .. j : toServerQueue'[i] = toServerQueue[i]
        BY <1>6, <2>3
      <4>3. QED  BY <4>1, <4>2, KnownStays, Zenon
    <3>2. KnownAt(n + 1)'
      BY <1>5, <1>6, <1>7, <2>3 DEF KnownAt, Announced, Disconnecting, Queued
    <3>3. QED  BY <2>3, <3>1, <3>2 DEF KnownInv
  <2>6. HolderInv'
    <3>1. \A j \in 1 .. Len(toServerQueue') : toServerQueue'[j].object \in allocated'
      BY <1>6, <1>7, <2>3 DEF IInv, HolderInv
    <3>2. QED  BY <1>4, <1>5, <1>6, <1>7, <2>1, <2>4, <3>1 DEF IInv, HolderInv
  <2>7. QED  BY <1>8, <1>9, <1>10, <2>5, <2>6 DEF IInv
<1>13. QED  BY <1>11, <1>12

\* One step of udp_thread_cleanup_dead_clients preserves the inductive invariant.
LEMMA CleanupInv == ASSUME IInv, Cleanup PROVE IInv'
<1>1. CASE table[cursor].dead  BY <1>1, RemoveDeadInv
<1>2. CASE ~table[cursor].dead
  <2>1. /\ UNCHANGED <<table, pc, sent, toServerQueue, udpQueue, clients, allocated, lost>>
        /\ cursor' = cursor + 1 /\ cursor <= Len(table) /\ pc = "cleanup"
    BY <1>2 DEF Cleanup
  <2>2. TypeInv' /\ SameSlots  BY <2>1 DEF IInv, TypeInv, SameSlots
  <2>3. LoopInv'
    <3>1. Len(table) \in Nat  BY SlotType DEF IInv
    <3>2. QED  BY <1>2, <2>1, <3>1 DEF IInv, LoopInv
  <2>4. QED  BY <2>1, <2>2, <2>3, HoldersKept DEF IInv
<1>3. QED  BY <1>1, <1>2

\* What the server thread's handlers have in common: the rest of the queue moves
\* up, and a step of theirs changes nothing of the UDP thread.
LEMMA ServePops ==
  ASSUME IInv, Serve
  PROVE  /\ TypeInv /\ toServerQueue # <<>> /\ toServerQueue' = Tail(toServerQueue)
         /\ UNCHANGED <<table, pc, cursor, sent, lost>>
         /\ LoopInv' /\ IndexInv' /\ \A o : InTable(o)' <=> InTable(o)
<1>1. /\ TypeInv /\ toServerQueue # <<>> /\ toServerQueue' = Tail(toServerQueue)
      /\ UNCHANGED <<table, pc, cursor, sent, lost>>
  BY DEF IInv, Serve, udp
<1>2. LoopInv'  BY <1>1 DEF IInv, LoopInv
<1>3. SameSlots  BY <1>1 DEF SameSlots
<1>4. QED  BY <1>1, <1>2, <1>3, SameSlotsKept

\* Handling an announcement preserves the inductive invariant.
LEMMA HandleNewInv == ASSUME IInv, Serve, HandleNew PROVE IInv'
<1>1. /\ TypeInv /\ toServerQueue # <<>> /\ toServerQueue' = Tail(toServerQueue)
      /\ UNCHANGED <<table, pc, cursor, sent, lost, udpQueue, allocated>>
      /\ LoopInv' /\ IndexInv' /\ \A o : InTable(o)' <=> InTable(o)
  BY ServePops, SMTT(30) DEF HandleNew
<1>2. PICK n \in Nat \ {0} : n = Len(toServerQueue)  BY <1>1, QueuePop
<1>3. /\ Len(toServerQueue) = n /\ Len(toServerQueue') = n - 1
      /\ \A j \in 1 .. n - 1 : toServerQueue'[j] = toServerQueue[j + 1]
      /\ toServerQueue' \in Seq(Messages)
  BY <1>1, <1>2, QueuePop
<1>4. PICK m \in Messages : m = toServerQueue[1] /\ m = Head(toServerQueue)
  BY <1>1, QueuePop
<1>5. /\ m.zop = "New" /\ DOMAIN clients' = DOMAIN clients \cup {m.object}
      /\ \A o \in DOMAIN clients' : clients'[o] = IF o = m.object THEN m.addr ELSE clients[o]
  BY <1>4 DEF HandleNew
<1>6. m.object \in allocated /\ m.addr \in Addrs /\ \A k \in 1 .. n : KnownAt(k)
  BY <1>3, <1>4 DEF IInv, HolderInv, Messages, KnownInv
<1>7. TypeInv'
  <2>1. DOMAIN clients' \subseteq allocated' /\ \A o \in DOMAIN clients' : clients'[o] \in Addrs
    BY <1>1, <1>5, <1>6 DEF TypeInv
  <2>2. Len(toServerQueue') <= QueueSlots  BY <1>1, <1>3, UdpAssumption DEF TypeInv
  <2>3. QED  BY <1>1, <1>3, <2>1, <2>2 DEF TypeInv
<1>8. KnownInv'
  <2> SUFFICES ASSUME NEW k \in 1 .. n - 1 PROVE KnownAt(k)'
    BY <1>3 DEF KnownInv
  <2>1. k + 1 \in 1 .. n /\ 1 \in 1 .. k + 1 - 1  OBVIOUS
  <2>2. KnownAt(k + 1) /\ toServerQueue'[k] = toServerQueue[k + 1]  BY <1>3, <1>6, <2>1
  <2>3. \A j \in 1 .. k - 1 : j + 1 \in 1 .. k + 1 - 1 /\ toServerQueue'[j] = toServerQueue[j + 1]
    BY <1>3
  <2>4. \A j \in 1 .. k + 1 - 1 : j = 1 \/ (j - 1 \in 1 .. k - 1 /\ toServerQueue'[j - 1] = toServerQueue[j])
    BY <1>3
  <2>5. QED  BY <1>4, <1>5, <2>1, <2>2, <2>3, <2>4 DEF KnownAt
<1>9. \A o : /\ Announced(o)' <=> Announced(o)
             /\ Disconnecting(o)' <=> Disconnecting(o)
  BY <1>1, <1>4, <1>5, PopQueued DEF Announced, Disconnecting
<1>10. HolderInv'
  <2>1. \A j \in 1 .. n - 1 : toServerQueue'[j].object \in allocated
    BY <1>3 DEF IInv, HolderInv
  <2>2. QED  BY <1>1, <1>3, <1>9, <2>1 DEF IInv, HolderInv
<1>11. QED  BY <1>1, <1>7, <1>8, <1>10 DEF IInv

\* Handling a packet or a linkdead report preserves the inductive invariant.
LEMMA HandleMessageInv == ASSUME IInv, Serve, HandlePacket \/ HandleLinkdead PROVE IInv'
<1>1. /\ TypeInv /\ toServerQueue # <<>> /\ toServerQueue' = Tail(toServerQueue)
      /\ UNCHANGED <<table, pc, cursor, sent, lost, clients, allocated>>
      /\ LoopInv' /\ IndexInv' /\ \A o : InTable(o)' <=> InTable(o)
  BY ServePops, SMTT(30) DEF HandlePacket, HandleLinkdead
<1>2. PICK n \in Nat \ {0} : n = Len(toServerQueue)  BY <1>1, QueuePop
<1>3. /\ Len(toServerQueue) = n /\ Len(toServerQueue') = n - 1
      /\ \A j \in 1 .. n - 1 : toServerQueue'[j] = toServerQueue[j + 1]
      /\ toServerQueue' \in Seq(Messages)
  BY <1>1, <1>2, QueuePop
<1>4. PICK m \in Messages : m = toServerQueue[1] /\ m = Head(toServerQueue)
  BY <1>1, QueuePop
<1>5. m.zop \in {"Packet", "Linkdead"}  BY <1>4 DEF HandlePacket, HandleLinkdead
<1>6. \A k \in 1 .. n : KnownAt(k)  BY <1>3 DEF IInv, KnownInv
<1>7. TypeInv'
  <2>1. udpQueue' \in Seq(Addrs) /\ Len(udpQueue') <= CommandSlots
    <3>1. CASE udpQueue' = udpQueue  BY <1>1, <3>1 DEF TypeInv
    <3>2. CASE udpQueue' # udpQueue
      <4>1. m.object \in DOMAIN clients /\ udpQueue' = Push(udpQueue, CommandSlots, clients[m.object])
        BY <1>4, <3>2 DEF HandlePacket, HandleLinkdead
      <4>2. clients[m.object] \in Addrs  BY <1>1, <4>1 DEF TypeInv
      <4>3. QED  BY <1>1, <4>1, <4>2, AppendProperties, LenProperties, UdpAssumption
                 DEF TypeInv, Push, Room
    <3>3. QED  BY <3>1, <3>2
  <2>2. Len(toServerQueue') <= QueueSlots  BY <1>1, <1>3, UdpAssumption DEF TypeInv
  <2>3. QED  BY <1>1, <1>3, <2>1, <2>2 DEF TypeInv
<1>8. KnownInv'
  <2> SUFFICES ASSUME NEW k \in 1 .. n - 1 PROVE KnownAt(k)'
    BY <1>3 DEF KnownInv
  <2>1. k + 1 \in 1 .. n  OBVIOUS
  <2>2. KnownAt(k + 1) /\ toServerQueue'[k] = toServerQueue[k + 1]  BY <1>3, <1>6, <2>1
  <2>3. \A j \in 1 .. k - 1 : j + 1 \in 1 .. k + 1 - 1 /\ toServerQueue'[j] = toServerQueue[j + 1]
    BY <1>3
  <2>4. \A j \in 1 .. k + 1 - 1 : j = 1 \/ (j - 1 \in 1 .. k - 1 /\ toServerQueue'[j - 1] = toServerQueue[j])
    BY <1>3
  <2>5. clients' = clients /\ toServerQueue[1].zop \notin {"New", "Disconnect"}
    BY <1>1, <1>4, <1>5
  <2>6. QED  BY <2>2, <2>3, <2>4, <2>5 DEF KnownAt
<1>9. \A o : /\ Announced(o)' <=> Announced(o)
             /\ Disconnecting(o)' <=> Disconnecting(o)
  BY <1>1, <1>4, <1>5, PopQueued DEF Announced, Disconnecting
<1>10. HolderInv'
  <2>1. \A j \in 1 .. n - 1 : toServerQueue'[j].object \in allocated
    BY <1>3 DEF IInv, HolderInv
  <2>2. QED  BY <1>1, <1>3, <1>9, <2>1 DEF IInv, HolderInv
<1>11. QED  BY <1>1, <1>7, <1>8, <1>10 DEF IInv

\* Handling a disconnect, which frees the object, preserves the inductive
\* invariant: no message about the object is behind it.
LEMMA HandleDisconnectInv == ASSUME IInv, Serve, HandleDisconnect PROVE IInv'
<1>1. /\ TypeInv /\ toServerQueue # <<>> /\ toServerQueue' = Tail(toServerQueue)
      /\ UNCHANGED <<table, pc, cursor, sent, lost, udpQueue>>
      /\ LoopInv' /\ IndexInv' /\ \A o : InTable(o)' <=> InTable(o)
  BY ServePops, SMTT(30) DEF HandleDisconnect
<1>2. PICK n \in Nat \ {0} : n = Len(toServerQueue)  BY <1>1, QueuePop
<1>3. /\ Len(toServerQueue) = n /\ Len(toServerQueue') = n - 1
      /\ \A j \in 1 .. n - 1 : toServerQueue'[j] = toServerQueue[j + 1]
      /\ toServerQueue' \in Seq(Messages)
  BY <1>1, <1>2, QueuePop
<1>4. PICK m \in Messages : m = toServerQueue[1] /\ m = Head(toServerQueue)
  BY <1>1, QueuePop
<1>5. /\ m.zop = "Disconnect" /\ DOMAIN clients' = DOMAIN clients \ {m.object}
      /\ \A o \in DOMAIN clients' : clients'[o] = clients[o]
      /\ allocated' = allocated \ {m.object}
  BY <1>4 DEF HandleDisconnect
<1>6. \A k \in 1 .. n : KnownAt(k)  BY <1>3 DEF IInv, KnownInv
<1>7. \A k \in 1 .. n - 1 : toServerQueue'[k].object # m.object
  <2> SUFFICES ASSUME NEW k \in 1 .. n - 1 PROVE toServerQueue'[k].object # m.object
    OBVIOUS
  <2>1. k + 1 \in 1 .. n /\ 1 \in 1 .. k + 1 - 1  OBVIOUS
  <2>2. KnownAt(k + 1) /\ toServerQueue'[k] = toServerQueue[k + 1]  BY <1>3, <1>6, <2>1
  <2>3. QED  BY <1>4, <1>5, <2>1, <2>2 DEF KnownAt
<1>8. TypeInv'
  <2>1. Len(toServerQueue') <= QueueSlots  BY <1>1, <1>3, UdpAssumption DEF TypeInv
  <2>2. QED  BY <1>1, <1>3, <1>5, <2>1 DEF TypeInv
<1>9. KnownInv'
  <2> SUFFICES ASSUME NEW k \in 1 .. n - 1 PROVE KnownAt(k)'
    BY <1>3 DEF KnownInv
  <2>1. k + 1 \in 1 .. n /\ toServerQueue'[k].object # m.object  BY <1>7
  <2>2. KnownAt(k + 1) /\ toServerQueue'[k] = toServerQueue[k + 1]  BY <1>3, <1>6, <2>1
  <2>3. \A j \in 1 .. k - 1 : j + 1 \in 1 .. k + 1 - 1 /\ toServerQueue'[j] = toServerQueue[j + 1]
    BY <1>3
  <2>4. \A j \in 1 .. k + 1 - 1 : j = 1 \/ (j - 1 \in 1 .. k - 1 /\ toServerQueue'[j - 1] = toServerQueue[j])
    BY <1>3
  <2>5. QED  BY <1>4, <1>5, <2>1, <2>2, <2>3, <2>4 DEF KnownAt
<1>10. ~Disconnecting(m.object)'
  BY <1>3, <1>7 DEF Disconnecting, Queued
<1>11. \A o : o # m.object => /\ Announced(o)' <=> Announced(o)
                              /\ Disconnecting(o)' <=> Disconnecting(o)
  BY <1>1, <1>4, <1>5, PopQueued DEF Announced, Disconnecting
<1>12. Disconnecting(m.object) /\ m.object \in Objects
  BY <1>1, <1>4, <1>5, PopQueued DEF Disconnecting, Messages
<1>13. ~InTable(m.object) /\ m.object \notin lost
  BY <1>12 DEF IInv, HolderInv
<1>14. HolderInv'
  <2>1. \A j \in 1 .. Len(toServerQueue') : toServerQueue'[j].object \in allocated'
    BY <1>3, <1>5, <1>7 DEF IInv, HolderInv
  <2>2. QED  BY <1>1, <1>5, <1>10, <1>11, <1>13, <2>1 DEF IInv, HolderInv
<1>15. QED  BY <1>1, <1>8, <1>9, <1>14 DEF IInv

\* The empty table and queues satisfy the inductive invariant.
LEMMA InitInv == Init => IInv
<1> SUFFICES ASSUME Init PROVE IInv
  OBVIOUS
<1>1. Len(table) = 0 /\ Len(toServerQueue) = 0 /\ Len(udpQueue) = 0 /\ DOMAIN clients = {}
  BY DEF Init
<1>2. TypeInv
  <2>1. table \in Seq(Slots) /\ toServerQueue \in Seq(Messages) /\ udpQueue \in Seq(Addrs)
    BY EmptySeq DEF Init
  <2>2. QED  BY <1>1, <2>1, UdpAssumption DEF Init, TypeInv, Phases
<1>3. LoopInv /\ IndexInv /\ KnownInv  BY <1>1 DEF Init, LoopInv, IndexInv, KnownInv
<1>4. HolderInv
  BY <1>1 DEF Init, HolderInv, InTable, Announced, Disconnecting, Queued
<1>5. QED  BY <1>2, <1>3, <1>4 DEF IInv

\* Every step of either thread preserves the inductive invariant.
LEMMA NextInv == ASSUME IInv, [Next]_vars PROVE IInv'
<1>1. CASE UNCHANGED vars
  <2>1. /\ UNCHANGED <<table, pc, cursor, sent, toServerQueue, udpQueue, clients, allocated, lost>>
        /\ SameSlots
    BY <1>1 DEF vars, udp, SameSlots
  <2>2. TypeInv' /\ LoopInv'  BY <2>1 DEF IInv, TypeInv, LoopInv
  <2>3. QED  BY <2>1, <2>2, HoldersKept DEF IInv
<1>2. CASE \E a \in Addrs, kind \in Kinds : Datagram(a, kind)  BY <1>2, DatagramInv
<1>3. CASE UdpLoop
  BY <1>3, RedoInv, PhaseInv, CommandInv, CheckTimeoutInv, CleanupInv DEF UdpLoop
<1>4. CASE TimePasses  BY <1>4, GoQuietInv DEF TimePasses
<1>5. CASE Serve
  BY <1>5, HandleNewInv, HandleMessageInv, HandleDisconnectInv DEF Serve
<1>6. QED  BY <1>1, <1>2, <1>3, <1>4, <1>5 DEF Next

-----------------------------------------------------------------------------
(* The theorems.                                                           *)

\* The inductive invariant holds in every reachable state.
THEOREM InductiveInvariant == Spec => []IInv
<1>1. Init => IInv  BY InitInv
<1>2. IInv /\ [Next]_vars => IInv'  BY NextInv
<1>3. QED  BY <1>1, <1>2, PTL DEF Spec

\* A client's udpIndex, through which the ack timestamp is written, is the slot
\* it stands in, and a peer has one slot, after any number of pops and swaps.
THEOREM SlotsAndIndexes == Spec => []IndexesMatchSlots
<1>1. ASSUME IInv PROVE IndexesMatchSlots
  <2>1. DOMAIN table = 1 .. Len(table)  BY <1>1, SlotType DEF IInv
  <2>2. QED  BY <1>1, <2>1 DEF IInv, IndexInv, IndexesMatchSlots, IndexesOf
<1>2. QED  BY <1>1, InductiveInvariant, PTL

\* The table never outgrows the peers.
LEMMA TableFits == ASSUME IInv PROVE Len(table) <= Cardinality(Addrs)
<1>1. DOMAIN table = 1 .. Len(table) /\ Len(table) \in Nat
      /\ \A k \in 1 .. Len(table) : table[k].addr \in Addrs
  BY SlotType DEF IInv, Slots
<1>2. PICK f : f = [k \in 1 .. Len(table) |-> table[k].addr]  OBVIOUS
<1>3. f \in Injection(1 .. Len(table), Addrs)
  BY <1>1, <1>2 DEF Injection, IsInjective, IInv, IndexInv
<1>4. Cardinality(1 .. Len(table)) <= Cardinality(Addrs)
  BY <1>3, FS_Injection, UdpAssumption
<1>5. Cardinality(1 .. Len(table)) = Len(table)
  BY <1>1, FS_Interval
<1>6. QED  BY <1>4, <1>5

\* Every variable keeps its type: in particular the table is never larger than
\* the number of peers and no queue larger than its blocks.
THEOREM TypeCorrect == Spec => []TypeOK
<1>1. ASSUME IInv PROVE TypeOK
  <2>1. Len(table) <= Cardinality(Addrs) /\ Len(table) \in Nat /\ Cardinality(Addrs) \in Nat
    BY <1>1, TableFits, SlotType, FS_CardinalityType, UdpAssumption DEF IInv
  <2>2. table \in [1 .. Len(table) -> Entries]
    <3>1. ASSUME NEW k \in 1 .. Len(table) PROVE table[k] \in Entries
      <4>1. table[k] \in Slots /\ table[k].udpIndex = k  BY <1>1, SlotType DEF IInv, IndexInv
      <4>2. k \in 1 .. Cardinality(Addrs)  BY <2>1
      <4>3. QED  BY <4>1, <4>2 DEF Slots, Entries
    <3>2. table \in [1 .. Len(table) -> Slots]  BY <1>1, LenProperties DEF IInv, TypeInv
    <3>3. QED  BY <3>1, <3>2
  <2>3. table \in BoundedSeq(Entries, Cardinality(Addrs))
    <3>1. Len(table) \in 0 .. Cardinality(Addrs)  BY <2>1
    <3>2. QED  BY <2>2, <3>1 DEF BoundedSeq, SeqOf
  <2>4. cursor \in 1 .. Cardinality(Addrs) + 1
    BY <1>1, <2>1 DEF IInv, LoopInv
  <2>5. QED  BY <1>1, <2>3, <2>4 DEF IInv, TypeInv, TypeOK
<1>2. QED  BY <1>1, InductiveInvariant, PTL

\* No handler of the server thread touches an object that it was not told of or
\* that was freed: the order of pushes in udp_thread.c suffices, whatever is
\* dropped because the queue is full.
THEOREM MessagesAreTimely == Spec => []KnownWhileUsed
<1>1. ASSUME IInv PROVE KnownWhileUsed
  <2>1. DOMAIN toServerQueue = 1 .. Len(toServerQueue)
    BY <1>1, LenProperties DEF IInv, TypeInv
  <2> SUFFICES ASSUME NEW k \in 1 .. Len(toServerQueue)
               PROVE  LET m     == toServerQueue[k]
                          prior == {j \in 1 .. k - 1 : toServerQueue[j].object = m.object}
                      IN IF m.zop = "New"
                         THEN prior = {} /\ m.object \notin DOMAIN clients
                         ELSE /\ \A j \in prior : toServerQueue[j].zop # "Disconnect"
                              /\ m.object \in DOMAIN clients
                                 \/ \E j \in prior : toServerQueue[j].zop = "New"
    BY <2>1 DEF KnownWhileUsed
  <2>2. KnownAt(k)  BY <1>1 DEF IInv, KnownInv
  <2>3. QED  BY <2>2 DEF KnownAt
<1>2. QED  BY <1>1, InductiveInvariant, PTL

\* Every allocated object has exactly one holder: a slot of the table, a
\* disconnect report, or the set of those leaked to a full queue.
THEOREM OneHolder == Spec => []ObjectsHaveOneHolder
<1>1. ASSUME IInv PROVE ObjectsHaveOneHolder
  <2>0. TypeInv  BY <1>1 DEF IInv
  <2>1. DOMAIN table = 1 .. Len(table) /\ Len(table) \in Nat
        /\ DOMAIN toServerQueue = 1 .. Len(toServerQueue)
    BY <2>0, SlotType, LenProperties DEF TypeInv
  <2>2. \A o : o \in TableObjects <=> InTable(o)
    BY <2>1 DEF TableObjects, InTable
  <2>3. \A o : o \in Departing <=> Disconnecting(o)
    BY <2>1 DEF Departing, Disconnecting, Queued
  <2>4. \A o : InTable(o) => o \in Objects
    BY <2>0, SlotType DEF InTable, Slots
  <2>5. \A o : Disconnecting(o) => o \in Objects
    <3>1. \A j \in 1 .. Len(toServerQueue) : toServerQueue[j] \in Messages
      BY <2>0, ElementOfSeq DEF TypeInv
    <3>2. QED  BY <3>1 DEF Disconnecting, Queued, Messages
  <2>6. allocated \subseteq Objects /\ lost \subseteq Objects  BY <2>0 DEF TypeInv
  <2>7. allocated = TableObjects \cup Departing \cup lost
    BY <1>1, <2>2, <2>3, <2>4, <2>5, <2>6 DEF IInv, HolderInv
  <2>8. TableObjects \cap (Departing \cup lost) = {} /\ Departing \cap lost = {}
    BY <1>1, <2>2, <2>3, <2>4, <2>5 DEF IInv, HolderInv
  <2>9. Cardinality(TableObjects) = Len(table)
    <3>1. PICK f : f = [k \in 1 .. Len(table) |-> table[k].object]  OBVIOUS
    <3>2. f \in Bijection(1 .. Len(table), TableObjects)
      BY <1>1, <2>1, <3>1 DEF Bijection, Injection, Surjection, IsInjective, TableObjects,
         IInv, IndexInv
    <3>3. IsFiniteSet(1 .. Len(table)) /\ Cardinality(1 .. Len(table)) = Len(table)
      <4>1. 1 \in Int /\ Len(table) \in Int  BY <2>1
      <4>2. /\ IsFiniteSet(1 .. Len(table))
            /\ Cardinality(1 .. Len(table)) = IF 1 > Len(table) THEN 0 ELSE Len(table) - 1 + 1
        BY <4>1, FS_Interval
      <4>3. QED  BY <2>1, <4>2
    <3>4. QED  BY <3>2, <3>3, FS_Bijection DEF ExistsBijection
  <2>10. QED  BY <2>7, <2>8, <2>9 DEF ObjectsHaveOneHolder
<1>2. QED  BY <1>1, InductiveInvariant, PTL

\* udp_thread_cleanup_dead_clients removes the dead and only the dead, for a
\* table of any size, although it rearranges the array it walks over.
THEOREM SweepIsExact == Spec => SweepRemovesTheDead
<1> DEFINE Swept == pc = "cleanup" =>
       /\ \A k \in DOMAIN table : ~table[k].dead =>
            \E j \in DOMAIN table' : table'[j].object = table[k].object
       /\ pc' # "cleanup" => \A j \in DOMAIN table' : ~table'[j].dead
<1>1. ASSUME IInv, IInv', [Next]_vars PROVE Swept
  <2> SUFFICES ASSUME pc = "cleanup" PROVE Swept
    OBVIOUS
  <2>1. DOMAIN table = 1 .. Len(table) /\ Len(table) \in Nat
    BY <1>1, SlotType DEF IInv
  <2>2. DOMAIN table' = 1 .. Len(table')
    BY <1>1, LenProperties DEF IInv, TypeInv
  <2>3. CASE UNCHANGED <<table, pc>>
    BY <2>3
  <2>4. CASE CleanupDone
    <3>1. table' = table /\ cursor > Len(table) /\ cursor \in 1 .. Len(table) + 1
      BY <1>1, <2>4 DEF CleanupDone, IInv, LoopInv
    <3>2. \A k \in 1 .. Len(table) : ~table[k].dead
      BY <1>1, <2>1, <3>1 DEF IInv, LoopInv
    <3>3. QED  BY <2>1, <3>1, <3>2
  <2>5. ASSUME Cleanup, table[cursor].dead PROVE Swept
    <3>1. /\ \A o : InTable(o)' <=> InTable(o) /\ o # table[cursor].object
          /\ cursor \in 1 .. Len(table)
      BY <1>1, <2>5, SweepStep
    <3>2. pc' = "cleanup"  BY <2>5 DEF Cleanup
    <3>3. ASSUME NEW k \in 1 .. Len(table), ~table[k].dead
          PROVE  \E j \in DOMAIN table' : table'[j].object = table[k].object
      <4>1. table[k].object # table[cursor].object
        BY <1>1, <2>5, <3>1, <3>3 DEF IInv, IndexInv
      <4>2. InTable(table[k].object)  BY DEF InTable
      <4>3. PICK o : o = table[k].object  OBVIOUS
      <4>4. InTable(o)'  BY <3>1, <4>1, <4>2, <4>3
      <4>5. QED  BY <2>2, <4>3, <4>4 DEF InTable
    <3>4. QED  BY <2>1, <3>2, <3>3
  <2>6. ASSUME Cleanup, ~table[cursor].dead PROVE Swept
    BY <2>3, <2>6 DEF Cleanup
  <2>7. ASSUME NEW k \in DOMAIN table, GoQuiet(k) PROVE Swept
    <3>1. pc' = "cleanup" /\ table' = [table EXCEPT ![k].quiet = TRUE]
      BY <2>7 DEF GoQuiet
    <3>2. \A j \in DOMAIN table : table'[j].object = table[j].object /\ DOMAIN table' = DOMAIN table
      <4>1. table[k] \in Slots  BY <1>1, <2>1, SlotType DEF IInv
      <4>2. QED  BY <3>1, <4>1 DEF Slots
    <3>3. QED  BY <3>1, <3>2
  <2>8. CASE Serve  BY <2>3, <2>8 DEF Serve, udp
  <2>9. CASE UNCHANGED vars  BY <2>3, <2>9 DEF vars, udp
  <2>10. QED
    BY <1>1, <2>4, <2>5, <2>6, <2>7, <2>8, <2>9 DEF Next, UdpLoop, TimePasses, Datagram, Redo,
       ReadsDone, Command, CommandsDone, CheckTimeout, TimeoutsDone
<1>2. IInv /\ IInv' /\ [Next]_vars => [Swept]_vars
  BY <1>1
<1>3. QED  BY <1>2, InductiveInvariant, PTL DEF Spec, SweepRemovesTheDead
=============================================================================
