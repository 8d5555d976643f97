-------------------------------- MODULE ZoneIn --------------------------------
(***************************************************************************)
(* A zone thread and the peers that zone in (zone_thread.c), with the part *)
(* of the UDP thread that turns a peer's ClientStub into its Client.       *)
(*                                                                         *)
(* The main thread hands over Clients (World); a peer connects and gets a  *)
(* ClientStub, says the name of its character in OP_ZoneEntry, and whoever *)
(* comes second is matched with the first by ip and name.  The UDP thread  *)
(* is then told to replace the stub by the Client and reports the stub,    *)
(* which the zone thread frees.                                            *)
(*                                                                         *)
(* The UDP thread's table is kept by address (UdpClients has its arrays).  *)
(* The thread runs one zone.  Of what a Client may send, camping is kept   *)
(* for its timers, and leaving; the other opcodes change no list here.     *)
(***************************************************************************)
EXTENDS Naturals, FiniteSets, SequencesExt, TimerPool

CONSTANTS
  Ips, Ports,
  Homes,          \* the ips the Clients' owners had at char select
  Stubs,          \* heap blocks the UDP thread's malloc can return
  Clients, Names,
  None,
  Sweep,          \* zt->timerUnconfirmedTimeouts
  CampTimers,     \* heap blocks for the camp timers: as many OP_CampStart are under way at most
  MaxPutOff,      \* no OP_CampStart while a timer is put off that far
  SweepPeriod, WaitTimeout, CampPeriod,   \* 5 s, 15 s and 30 s in the code
  MaxConnects, MaxPackets, MaxFailures    \* of the peers, and pushes or allocations that fail

ASSUME ZoneInAssumption ==
  /\ {SweepPeriod, WaitTimeout, CampPeriod} \subseteq Nat \ {0}
  /\ {MaxConnects, MaxPackets, MaxFailures, MaxPutOff} \subseteq Nat
  /\ Stubs \cap Clients = {} /\ None \notin Stubs \cup Clients \cup Names
  /\ Homes \subseteq Ips /\ Sweep \notin CampTimers

VARIABLES
  table,          \* the UDP thread's client at each address: [object, ignore] or None
  udpQueue, ztQueue,
  ipAddr,         \* ClientStub.ipAddr and Client.ipAddr, as the zone thread sets them
  allocated,      \* stubs and Clients allocated and not freed
  asked,          \* what each Client handed over was expected as: [ip, name] or None
  zoneAsked, zoneUp,
  completing,     \* the Client cmgr_check_client_load_complete may still drop, or None
  destroyed,      \* Clients it dropped after they were handed over
  expected,       \* zt->clientsExpected with its lookup
  unconfirmed,    \* zt->clientsUnconfirmed with its lookup
  valid,          \* zt->tblValidClientPtrs
  entered,        \* zone->clientsBroadcastAll
  pool,           \* zt->timerPool
  connects, packets, failures,
  said,           \* names said at each address over all its connections
  unsafe          \* a stub was replaced that is not matched, or a Client taken for a stub

main   == <<asked, zoneAsked, completing, destroyed>>
udp    == <<table, ipAddr, connects, packets, said>>
zt     == <<expected, unconfirmed, valid, entered, zoneUp, pool>>
vars   == <<main, udp, zt, udpQueue, ztQueue, allocated, failures, unsafe>>

Addrs == Ips \X Ports
Ip(a) == a[1]
Objects == Stubs \cup Clients

\* The UDP thread's clients, and what a Client is loaded for.
Entries == [object : Objects, ignore : BOOLEAN]
Owners == [ip : Homes, name : Names]

\* A null pointer is no address and no record.
ASSUME NullAssumption == None \notin Addrs \cup Entries \cup Owners

Message(zop, object, addr, name) == [zop |-> zop, object |-> object, addr |-> addr, name |-> name]
Command(zop, addr, client) == [zop |-> zop, addr |-> addr, client |-> client]

Spend(n) == failures + n <= MaxFailures /\ failures' = failures + n

\* "Swap and pop"
SwapPop(s, i) == [j \in 1 .. Len(s) - 1 |-> IF j = i THEN s[Len(s)] ELSE s[j]]

\* The addresses that may be read from a stub or a Client: from a freed block, any.
AddrsOf(o) == IF o \in allocated /\ ipAddr[o] # None THEN {ipAddr[o]} ELSE Addrs

\* stub->ipAddr, where the stub may be a Client that is not known as one.
StubAddrs(o) == IF o \in Stubs THEN AddrsOf(o) ELSE Addrs

Free(o) == allocated' = allocated \ {o} /\ ipAddr' = [ipAddr EXCEPT ![o] = None]

-----------------------------------------------------------------------------
(* The main thread, the peers and the UDP thread.                            *)

\* zmgr_add_client_from_char_select: CreateZone for the first, then AddClientExpected.
Expect(c, ip, name) ==
  /\ asked[c] = None
  /\ asked' = [asked EXCEPT ![c] = [ip |-> ip, name |-> name]]
  /\ allocated' = allocated \cup {c}
  /\ zoneAsked' = TRUE /\ completing' = c
  /\ ztQueue' = ztQueue \o (IF zoneAsked THEN <<>> ELSE <<Message("CreateZone", None, None, None)>>)
                        \o <<Message("AddClientExpected", c, None, None)>>
  /\ UNCHANGED <<udp, zt, udpQueue, destroyed, failures, unsafe>>

\* The rest of cmgr_check_client_load_complete, when char select cannot be told or the
\* list cannot grow: cmgr_drop_loading_client destroys the Client the zone thread has.
\* Its name is freed, the block itself never is.
DropHanded(c) ==
  /\ completing = c
  /\ completing' = None
  /\ destroyed' = destroyed \cup {c}
  /\ Spend(1)
  /\ UNCHANGED <<udp, zt, udpQueue, ztQueue, allocated, asked, zoneAsked, unsafe>>

\* A datagram from an unknown address: udp_thread_new_client.
Connect(a) ==
  /\ table[a] = None /\ connects < MaxConnects
  /\ connects' = connects + 1
  /\ \E s \in Stubs \ allocated :
       /\ allocated' = allocated \cup {s}
       /\ table' = [table EXCEPT ![a] = [object |-> s, ignore |-> FALSE]]
       /\ ztQueue' = Append(ztQueue, Message("NewClient", s, a, None))
  /\ UNCHANGED <<zt, udpQueue, ipAddr, main, packets, said, failures, unsafe>>

\* OP_ZoneEntry with a name
SayName(a, name) ==
  /\ table[a] # None /\ ~table[a].ignore /\ packets < MaxPackets
  /\ packets' = packets + 1
  /\ said' = [said EXCEPT ![a] = @ \cup {name}]
  /\ ztQueue' = Append(ztQueue, Message("ZoneEntry", table[a].object, None, name))
  /\ UNCHANGED <<zt, udpQueue, table, ipAddr, allocated, main, connects, failures, unsafe>>

\* OP_CampStart, as often as the Client likes.  Bounded are the ones under way at once,
\* queued or with a timer, and how far they put off a timer.
CampsUnderWay == Cardinality(CampTimers \cap Running(pool))
                 + Cardinality({k \in DOMAIN ztQueue : ztQueue[k].zop = "CampStart"})

Camp(a) ==
  /\ table[a] # None /\ ~table[a].ignore /\ table[a].object \in Clients
  /\ CampsUnderWay < Cardinality(CampTimers)
  /\ \A k \in DOMAIN pool.slots : pool.slots[k].left + CampPeriod <= MaxPutOff
  /\ ztQueue' = Append(ztQueue, Message("CampStart", table[a].object, None, None))
  /\ UNCHANGED <<main, udp, zt, udpQueue, allocated, failures, unsafe>>

\* OP_Unspawn; OP_CampStart of a GM does the same.
Leave(a) ==
  /\ table[a] # None /\ ~table[a].ignore /\ table[a].object \in Clients
  /\ packets < MaxPackets
  /\ packets' = packets + 1
  /\ ztQueue' = Append(ztQueue, Message("Unspawn", table[a].object, None, None))
  /\ UNCHANGED <<main, zt, udpQueue, table, ipAddr, allocated, connects, said, failures, unsafe>>

\* The peer has been silent for 15 s: udpc_report_disconnect, unless the queue is full.
GoSilent(a) ==
  /\ table[a] # None
  /\ table' = [table EXCEPT ![a] = None]
  /\ \/ /\ ztQueue' = Append(ztQueue, Message("ClientDisconnect", table[a].object, None, None))
        /\ UNCHANGED failures
     \/ Spend(1) /\ UNCHANGED ztQueue
  /\ UNCHANGED <<zt, udpQueue, ipAddr, allocated, main, connects, packets, said, unsafe>>

\* The zone thread has not matched the stub with a Client.
Unmatched(s) ==
  \/ \E k \in DOMAIN unconfirmed : unconfirmed[k].stub = s
  \/ \E k \in DOMAIN ztQueue : ztQueue[k].zop = "NewClient" /\ ztQueue[k].object = s

\* udp_thread_process_commands.  All commands name the client by its address.
UdpCommand ==
  /\ udpQueue # <<>>
  /\ udpQueue' = Tail(udpQueue)
  /\ LET cmd == Head(udpQueue)
         e == table[cmd.addr]
     IN
     \/ /\ e = None
        /\ UNCHANGED <<table, ztQueue, failures, unsafe>>
     \/ /\ e # None /\ cmd.zop \in {"DropClient", "ClientDisconnect"}
        /\ table' = [table EXCEPT ![cmd.addr].ignore = TRUE]
        /\ UNCHANGED <<ztQueue, failures, unsafe>>
     \/ /\ e # None /\ cmd.zop = "ReplaceClientObject"   \* udpc_replace_client_object
        /\ table' = [table EXCEPT ![cmd.addr].object = cmd.client]
        /\ unsafe' = (unsafe \/ e.object \in Clients \/ Unmatched(e.object))
        /\ \/ /\ ztQueue' = Append(ztQueue, Message("ReplaceClientObject", e.object, None, None))
              /\ UNCHANGED failures
           \/ Spend(1) /\ UNCHANGED ztQueue
  /\ UNCHANGED <<zt, ipAddr, allocated, main, connects, packets, said>>

-----------------------------------------------------------------------------
(* zt_transition_stub.                                                       *)

UnconfirmedIndex(s) == SelectInSeq(unconfirmed, LAMBDA u : u.stub = s)

WithoutStub(s) ==
  IF UnconfirmedIndex(s) = 0 THEN unconfirmed ELSE SwapPop(unconfirmed, UnconfirmedIndex(s))

\* Sets the Client's address, "it is stale", and pushes ReplaceClientObject.
Replace(s, c) ==
  \E a \in StubAddrs(s) :
    /\ ipAddr' = [ipAddr EXCEPT ![c] = a]
    /\ udpQueue' = Append(udpQueue, Command("ReplaceClientObject", a, c))

\* The push fails.
ReplaceFailed(s, c) ==
  /\ \E a \in StubAddrs(s) : ipAddr' = [ipAddr EXCEPT ![c] = a]
  /\ UNCHANGED udpQueue

\* Everything succeeds but, perhaps, the zone's list growing.
TransitionDone(s, c) ==
  /\ zoneUp
  /\ Replace(s, c)
  /\ valid' = valid \cup {c}
  /\ unconfirmed' = WithoutStub(s)
  /\ \/ entered' = entered \cup {c} /\ UNCHANGED failures
     \/ Spend(1) /\ UNCHANGED entered

\* The push fails, or an allocation after it, or the zone is not there: the stub stays
\* in the list although, past the push, it is going to be replaced.
TransitionFailed(s, c) ==
  /\ UNCHANGED <<unconfirmed, entered>>
  /\ \/ Spend(1) /\ ReplaceFailed(s, c) /\ UNCHANGED valid
     \/ Spend(1) /\ Replace(s, c) /\ valid' \in {valid, valid \cup {c}}
     \/ ~zoneUp /\ Replace(s, c) /\ valid' = valid \cup {c} /\ UNCHANGED failures

TransitionStub(s, c) == TransitionDone(s, c) \/ TransitionFailed(s, c)

-----------------------------------------------------------------------------
(* The messages of the zone thread's queue.                                  *)

noTransition == <<udpQueue, ipAddr, valid, entered>>

\* zt_handle_create_zone
HandleCreateZone ==
  /\ \/ zoneUp' = TRUE /\ UNCHANGED failures
     \/ Spend(1) /\ UNCHANGED zoneUp
  /\ UNCHANGED <<noTransition, expected, unconfirmed, allocated, pool>>

\* The name read from a Client: from a destroyed one, any, or none that a peer says.
NamesOf(c) == IF c \in destroyed THEN Names \cup {None} ELSE {asked[c].name}

\* zt_handle_add_client_expected: the first unconfirmed client that said the name
\* from the same ip, or a place in the list, if it can grow.
HandleAddClientExpected(c) ==
  /\ \E name \in NamesOf(c) :
       LET i == SelectInSeq(unconfirmed, LAMBDA u : u.name # None /\ u.ip = asked[c].ip /\ u.name = name) IN
       \/ /\ i # 0
          /\ TransitionStub(unconfirmed[i].stub, c)
          /\ UNCHANGED expected
       \/ /\ i = 0
          /\ \/ /\ expected' = Append(expected, [client |-> c, ip |-> asked[c].ip,
                                                 name |-> asked[c].name, left |-> WaitTimeout])
                /\ UNCHANGED failures
             \/ Spend(1) /\ UNCHANGED expected
          /\ UNCHANGED <<noTransition, unconfirmed>>
  /\ UNCHANGED <<zoneUp, allocated, pool>>

\* zt_handle_add_client_unconfirmed; when the list cannot grow the peer is dropped.
HandleNewClient(s, a) ==
  /\ ipAddr' = [ipAddr EXCEPT ![s] = a]
  /\ \/ /\ unconfirmed' = Append(unconfirmed, [stub |-> s, ip |-> Ip(a), name |-> None, left |-> WaitTimeout])
        /\ UNCHANGED <<udpQueue, failures>>
     \/ /\ Spend(1)
        /\ udpQueue' \in {udpQueue, Append(udpQueue, Command("DropClient", a, None))}
        /\ UNCHANGED unconfirmed
  /\ UNCHANGED <<valid, entered, zoneUp, expected, allocated, pool>>

\* Mutation: the name alone decides.
MatchesByName(e, ip, name, astray) == e.name = name

\* The lookup copies the Client's ip, and points to its name: that of a destroyed Client
\* may compare equal (astray) or not.
Matches(e, ip, name, astray) ==
  e.ip = ip /\ IF e.client \in destroyed THEN e.client \in astray ELSE e.name = name

\* zt_handle_to_server_packet with OP_ZoneEntry.  The list of transitional clients is
\* always empty: clientTransitionalCount never grows.  From a stub it is a name
\* (zt_handle_unconfirmed_client_name): the expected Client is removed from its list
\* even when the transition fails.
HandleZoneEntry(o, name) ==
  /\ \/ /\ o \in valid   \* client_packet_recv
        /\ UNCHANGED <<noTransition, expected, unconfirmed, failures>>
     \/ /\ o \notin valid
        /\ \E a \in StubAddrs(o), astray \in SUBSET destroyed :
             LET i == SelectInSeq(expected, LAMBDA e : Matches(e, Ip(a), name, astray)) IN
             \/ /\ i # 0
                /\ TransitionStub(o, expected[i].client)
                /\ expected' = SwapPop(expected, i)
             \/ /\ i = 0
                /\ unconfirmed' = [k \in DOMAIN unconfirmed |->
                     IF k = UnconfirmedIndex(o) THEN [unconfirmed[k] EXCEPT !.name = name] ELSE unconfirmed[k]]
                /\ UNCHANGED <<noTransition, expected, failures>>
  /\ UNCHANGED <<zoneUp, allocated, pool>>

\* client_on_camp_start, with a timer more each time, and cpr_handle_op_unspawn with
\* client_disconnect, of a known Client; of anything else, an opcode zt_handle_to_server_packet_stub does not know.
HandleLeave(zop, o) ==
  /\ \/ o \notin valid /\ UNCHANGED <<udpQueue, failures, pool>>
     \/ /\ o \in valid /\ zop = "CampStart"
        /\ \E t \in CampTimers \ Running(pool) : pool' = Started(pool, t, CampPeriod)
        /\ UNCHANGED <<udpQueue, failures>>
     \/ /\ o \in valid /\ zop = "Unspawn"
        /\ \/ /\ \E a \in AddrsOf(o) : udpQueue' = Append(udpQueue, Command("ClientDisconnect", a, None))
              /\ UNCHANGED failures
           \/ Spend(1) /\ UNCHANGED udpQueue
        /\ UNCHANGED pool
  /\ UNCHANGED <<valid, entered, zoneUp, expected, unconfirmed, allocated, ipAddr>>

\* Mutation: the stub is freed and stays in the list.
FreeOnly(s) == unconfirmed

\* zt_handle_unconfirmed_client_disconnect removes the stub from the list.
Unlisted(s) == WithoutStub(s)

\* zt_handle_client_disconnect: a known Client is left as it is ("fixme: handle").
HandleClientDisconnect(o) ==
  /\ \/ o \in valid /\ UNCHANGED <<unconfirmed, allocated, ipAddr>>
     \/ /\ o \notin valid
        /\ unconfirmed' = Unlisted(o)
        /\ Free(o)
  /\ UNCHANGED <<udpQueue, valid, entered, zoneUp, expected, failures, pool>>

\* zt_remove_transitional
HandleReplaced(o) ==
  /\ Free(o)
  /\ UNCHANGED <<udpQueue, valid, entered, zoneUp, expected, unconfirmed, failures, pool>>

\* A packet of a Client that is not in tblValidClientPtrs is taken for a stub's.
TakenForStub(m) == m.zop = "ZoneEntry" /\ m.object \in Clients \ valid

\* zt_process_commands, one message
HandleMessage ==
  /\ ztQueue # <<>>
  /\ ztQueue' = Tail(ztQueue)
  /\ LET m == Head(ztQueue) IN
     /\ \/ m.zop = "CreateZone" /\ HandleCreateZone
        \/ m.zop = "AddClientExpected" /\ HandleAddClientExpected(m.object)
        \/ m.zop = "NewClient" /\ HandleNewClient(m.object, m.addr)
        \/ m.zop = "ZoneEntry" /\ HandleZoneEntry(m.object, m.name)
        \/ m.zop \in {"CampStart", "Unspawn"} /\ HandleLeave(m.zop, m.object)
        \/ m.zop = "ClientDisconnect" /\ HandleClientDisconnect(m.object)
        \/ m.zop = "ReplaceClientObject" /\ HandleReplaced(m.object)
     /\ unsafe' = (unsafe \/ TakenForStub(m))
  /\ UNCHANGED <<table, connects, packets, said, main>>

-----------------------------------------------------------------------------
(* zt_thread_proc once its queue is empty: timer_pool_execute_callbacks.     *)

Lasting(w) == w.left > 0

\* One turn of the loops of zt_timer_check_unconfirmed_timeouts: an expired entry
\* goes, and what is swapped in is looked at next.
DrainOne(w) ==
  IF Lasting(w.items[w.i]) THEN [i |-> w.i + 1, items |-> w.items]
  ELSE [i |-> w.i, items |-> SwapPop(w.items, w.i)]

Drain(items) ==
  LET after[k \in 0 .. Len(items)] ==
        IF k = 0 THEN [i |-> 1, items |-> items] ELSE DrainOne(after[k - 1])
  IN after[Len(items)].items

\* zt_timer_check_unconfirmed_timeouts: a peer that is not expected is dropped, an
\* expected Client is forgotten.
SweepWaiters ==
  /\ expected' = Drain(expected)
  /\ unconfirmed' = Drain(unconfirmed)
  /\ \E heard \in SUBSET {k \in DOMAIN unconfirmed : ~Lasting(unconfirmed[k])},
        read \in [DOMAIN unconfirmed -> Addrs] :
       /\ \A k \in DOMAIN unconfirmed : read[k] \in AddrsOf(unconfirmed[k].stub)
       /\ udpQueue' = udpQueue \o
            SetToSeq({Command("DropClient", read[k], None) : k \in heard})
       /\ Spend(Cardinality({k \in DOMAIN unconfirmed : ~Lasting(unconfirmed[k])} \ heard))

\* One triggered timer: put off, and a camp timer destroys itself in its callback
\* (client_camp_callback).
RunTimer(p, triggered, k) ==
  LET t == p.slots[triggered[k]].timer
      q == Rearmed(p, triggered, k)
  IN IF t = Sweep THEN q ELSE Stopped(q, t)

ExecuteCallbacks ==
  /\ ztQueue = <<>> /\ Pending(pool)
  /\ LET s == Scanned(pool)
         after[k \in 0 .. Len(s.triggered)] ==
           IF k = 0 THEN s.pool ELSE RunTimer(after[k - 1], s.triggered, k)
         ran == {s.pool.slots[i].timer : i \in ToSet(s.triggered)}
     IN
     /\ pool' = after[Len(s.triggered)]
     /\ \/ Sweep \in ran /\ SweepWaiters
        \/ Sweep \notin ran /\ UNCHANGED <<expected, unconfirmed, udpQueue, failures>>
  /\ UNCHANGED <<udp, ztQueue, valid, entered, zoneUp, allocated, main, unsafe>>

Older(items) == [k \in DOMAIN items |-> [items[k] EXCEPT !.left = IF @ = 0 THEN 0 ELSE @ - 1]]

\* A unit of time goes by.  The thread polls every 25 ms: no timer is overdue.
Tick ==
  /\ ~Pending(pool)
  /\ pool' = Aged(pool)
  /\ expected' = Older(expected) /\ unconfirmed' = Older(unconfirmed)
  /\ UNCHANGED <<udp, udpQueue, ztQueue, valid, entered, zoneUp, allocated, main, failures, unsafe>>

-----------------------------------------------------------------------------

\* zt_create starts the sweep's timer before the thread.
Init ==
  /\ table = [a \in Addrs |-> None] /\ said = [a \in Addrs |-> {}]
  /\ udpQueue = <<>> /\ ztQueue = <<>>
  /\ ipAddr = [o \in Objects |-> None]
  /\ allocated = {} /\ asked = [c \in Clients |-> None]
  /\ zoneAsked = FALSE /\ zoneUp = FALSE /\ completing = None /\ destroyed = {}
  /\ expected = <<>> /\ unconfirmed = <<>> /\ valid = {} /\ entered = {}
  /\ pool = Started(EmptyPool({Sweep} \cup CampTimers), Sweep, SweepPeriod)
  /\ connects = 0 /\ packets = 0 /\ failures = 0 /\ unsafe = FALSE

Next ==
  \/ \E c \in Clients, ip \in Homes, name \in Names : Expect(c, ip, name)
  \/ \E c \in Clients : DropHanded(c)
  \/ \E a \in Addrs : Connect(a) \/ Camp(a) \/ Leave(a) \/ GoSilent(a)
  \/ \E a \in Addrs, name \in Names : SayName(a, name)
  \/ UdpCommand
  \/ HandleMessage
  \/ ExecuteCallbacks
  \/ Tick

Spec == Init /\ [][Next]_vars

\* Both threads poll their queues and the clock goes on; nothing is assumed of the peers.
FairSpec ==
  Spec /\ WF_vars(UdpCommand) /\ WF_vars(HandleMessage) /\ WF_vars(ExecuteCallbacks) /\ WF_vars(Tick)

-----------------------------------------------------------------------------

Released(o) == {k \in DOMAIN ztQueue :
                  ztQueue[k].zop \in {"ClientDisconnect", "ReplaceClientObject"} /\ ztQueue[k].object = o}

\* A ClientStub is freed once, when nobody uses it any more: while it is in the
\* unconfirmed list or in the UDP thread's table it is allocated, and no message
\* names it behind the report that makes the zone thread free it.  Excepted (unsafe)
\* is a stub replaced before it was matched: its transition failed after
\* ReplaceClientObject was pushed, or the command was meant for an earlier
\* connection from the same address, see the hazards; and a Client taken for a stub.
StubsLive ==
  unsafe \/
  /\ \A k \in DOMAIN unconfirmed : unconfirmed[k].stub \in allocated
  /\ \A a \in Addrs : table[a] # None =>
       table[a].object \in allocated /\ Released(table[a].object) = {}
  /\ \A k \in DOMAIN ztQueue : ztQueue[k].object \in Stubs =>
       /\ ztQueue[k].object \in allocated
       /\ \A r \in Released(ztQueue[k].object) : k <= r

\* Whoever controls a Client is the one it was loaded for: the peer's ip is the one
\* char select knows, the peer said the Client's name, the Client is in the zone
\* unless something failed, and no other peer controls it.  Excepted (unsafe) from the
\* ip and the name is what follows the use of a freed stub or of a Client as a stub,
\* and from the name a Client that the main thread destroyed after it handed it over.
PlaysItsOwn ==
  \A a \in Addrs :
    LET c == table[a].object IN
    table[a] # None /\ c \in Clients =>
      /\ unsafe \/ (asked[c].ip = Ip(a) /\ (c \in destroyed \/ asked[c].name \in said[a]))
      /\ c \in entered \/ failures > 0
      /\ \A b \in Addrs : table[b] # None /\ table[b].object = c => b = a

\* Nobody waits for ever while the sweep can do its work: once OP_CampStart is not sent
\* again and again, time and again no one who has waited for longer than the timeout is
\* left in either list, however far the camp timers that fired have put off the sweep
\* (timer_pool_execute_callbacks).  Without the condition it does not hold.
ExpiredAreSwept ==
  <>[](CampsUnderWay = 0) =>
    []<>(/\ \A k \in DOMAIN unconfirmed : Lasting(unconfirmed[k])
         /\ \A k \in DOMAIN expected : Lasting(expected[k]))
=============================================================================
