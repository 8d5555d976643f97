# A TLA+ model of zeq-server-trilogy

zeq-server-trilogy is a game server written in C. It is one process of many
threads that share almost nothing: each thread owns its data and hears from the
others through a queue (`RingBuf`) of fixed-size packets. This directory models
those queues, the reliable-delivery protocol on top of UDP, the table of UDP
clients whose objects two threads share, and a player's way through the server:
logging in, choosing a character, having it loaded and placed on a zone thread,
and taking control of it there; and the shutdown that may come at any point.

## The system

| Part | State | Operations | Hears from / talks to |
|---|---|---|---|
| **RingBuf** `ringbuf.c` | blocks with `hasBeenRead` / `hasBeenWritten`, four cursors, a semaphore | push (any thread), pop, wait, wait_for_packet (one thread) | every pair of threads |
| **UDP thread** `udp_thread.c`, `udp_client.c` | client table (parallel arrays), flags, timestamps, sockets | every 25 ms: read sockets, run commands, write, time out, clean up, keep-alive | sockets; commands from all server threads; reports to the thread that owns the port |
| **AckMgr** `ack_mgr.c` | per client: packets awaiting an ack, early datagrams, the ack counters | receive a datagram, an ack response; schedule; send cycle; keep-alive | called by the UDP thread |
| **Login thread** `login_thread.c`, `login_client.c` | list of `LoginClient`s and their `authState`; server list | version, credentials, banner, server list, status, session key, exit; two database answers | UDP, database, char select |
| **Char select thread** `char_select_thread.c` | authorisations awaiting a client, clients awaiting one, authorised clients | login info, name approval, create, delete, enter | UDP, database, login, main |
| **Main thread** `main_thread.c`, `client_mgr.c`, `zone_mgr.c` | clients being loaded, zone threads and their load, shutdown stage | load a character in two queries, start a zone, shut the threads down in order | all threads |
| **Zone threads** `zone_thread.c`, `zone.c`, `mob.c`, `client*.c` | expected, unconfirmed and active clients; zones and entity ids; timers | expect a client, confirm it, replace its stub, packets, timeouts | UDP, main, database |
| **Database thread** `db_thread.c`, `db_read.c`, `db_write.c` | open databases, a batch of writes and reads | drain the queue, run writes in a transaction, then reads, answer | every asker's queue |
| **Log thread** `log_thread.c` | open files | open, write, close | every thread |
| helpers | hash table, buffers, timers, packets, inventory, items, Lua | | |

What is hard here: the queue is lock-free and its wake-ups are counted apart
from its packets; objects allocated in one thread are freed in another, on a
message; commands and database answers name a client by an address (ip and port,
or a pointer) that may belong to another client by the time they are read; the
network loses, repeats and reorders in both directions while 16-bit counters
wrap; every push can fail on a full queue and most callers only log it; and
timeouts (15 s linkdead, 10 s authorisation, 5 s resend) race late arrivals.
`PROJECT.json` lists these hazards at the lines where they bite, with the
properties that would notice.

What makes each part correct:

* RingBuf: packets come out once, whole, in order; two threads never touch one
  block; nobody sleeps beside a packet.
* AckMgr: messages are handed on once, whole, in order; only what was received is
  acked; nothing is forgotten before the client has it; all of it arrives.
* UDP thread: an object is announced before it is used, freed once, and not while
  anyone still uses it; silent clients are forgotten.
* Login: nobody is authorised for an account they did not prove; every attempt
  is answered.
* Char select: a client acts only for an account the login thread authorised,
  each authorisation is used once, and nobody waits for ever.
* Main thread: a loaded `Client` has one owner at any time and goes to the thread
  of its zone; every zone-in is answered; the threads stop in order, all of them.
* Zone thread: a stub is not used after it is freed, whoever controls a `Client`
  is the one it was loaded for, and those who wait in vain are swept.

## Modules

| Module | Models | Extends / uses |
|---|---|---|
| `BoundedQueue` | abstract: a queue that accepts, publishes and hands out packets in order | |
| `RingBuf` | `ringbuf.c`, one action per atomic access | implements `BoundedQueue` |
| `RingBufProofs` | inductive invariant and theorems of `RingBuf`, refinement of `BoundedQueue` | `RingBuf`, `TLAPS` |
| `AckCmp` | `ack_cmp` and 16-bit ack arithmetic | |
| `AckRecv` | the receiving half of `ack_mgr.c`, with a client and a network | `AckCmp` |
| `AckRecvProofs` | inductive invariant and theorems of `AckRecv` | `AckRecv`, `TLAPS` |
| `AckSend` | the sending half of `ack_mgr.c`, with a client and a network | `AckCmp` |
| `AckSendProofs` | what `ack_cmp` computes across the rollover; inductive invariant and theorems of `AckSend` | `AckSend`, `TLAPS` |
| `UdpClients` | the client table of `udp_thread.c` and the objects it shares with a server thread | |
| `UdpClientsProofs` | inductive invariant and theorems of `UdpClients` | `UdpClients`, `TLAPS` |
| `Login` | `login_thread.c`, `login_client.c` and their two queries on `db_thread.c` | |
| `LoginProofs` | inductive invariant and theorems of `Login` | `Login`, `TLAPS` |
| `CharSelect` | `char_select_thread.c`, `char_select_client.c` and their four queries on `db_thread.c` | |
| `CharSelectProofs` | inductive invariant and theorems of `CharSelect` | `CharSelect`, `TLAPS` |
| `World` | the main thread: `client_mgr.c`, `zone_mgr.c`, the shutdown of `main_thread.c` | |
| `WorldProofs` | inductive invariant and theorems of `World` | `World`, `TLAPS` |
| `TimerPool` | `timer.c`, as operators on a pool | |
| `ZoneIn` | `zone_thread.c` with the UDP thread's side of it and camping (`client.c`) | `TimerPool` |
| `ZoneInProofs` | inductive invariant and theorems of `ZoneIn` | `ZoneIn`, `TLAPS` |

`Login`, `CharSelect`, `World` and `ZoneIn` follow one player: what `Login` grants, `CharSelect` receives as
`LoginAuth`; what `CharSelect` asks of the main thread (`toMain`) is `World`'s
`AskToZone`, and its answers are `CharSelect`'s `MainAnswers`; what `World` hands
over (`handed`) is `ZoneIn`'s `Expect`. Each module takes the other side of such an
interface as nondeterministic as its module leaves it.

Definitions whose comment starts with "Mutation:" are faulty variants of the
definition that follows them. They occur in no specification; each one breaks a
property when it takes that definition's place (`mutants` in `PROJECT.json`).

### RingBuf

Cursors are modelled unbounded; the block of a cursor is the cursor modulo
`Slots`. `pc[p]` walks a producer through `ringbuf_push` and
`ringbuf_push_impl`: load `writeEnd`, compare with `readStart`, compare-and-swap,
copy, set `hasBeenWritten`, then the loop that advances `writeStart` over written
blocks, then the signal. `cpc` does the same for the one consumer. A weak
compare-and-swap may fail for no reason (`ClaimFails`, `PopClaimFails`).
`mode` is how the consumer waits: `"poll"` (main, UDP and zone threads), `"drain"`
(database thread: one wait, then pop until empty), `"single"`
(`ringbuf_wait_for_packet`: log, login and char select threads).

`NoLap` is the one assumption: a producer does not sleep between reading
`writeEnd` and its compare-and-swap while the other threads push through a whole
lap of the ring (1024 blocks in the program). The indexes are 16-bit block
numbers, so after exactly one lap the compare-and-swap would succeed on a stale
check.

### AckRecv and AckSend

One connection, one direction each. In `AckRecv` a datagram is its ack request,
its fragment count and whether it carries the opcode; `packetQueue`,
`lowestAckInQueue`, `nextAckRequestExpected` and `lastAckSent` are the code's.
`ack_recv_packet` is split at its early returns: `RecvInOrder`, `RecvIgnored`,
`RecvQueued`. The scan for complete messages is a recursive function over the turns
of the code's loop (`ScanOne` is a turn, its record the loop's variables), and the
shift of the queue a function of what the scan took. `Garbage` is what the uninitialised `lowestAckInQueue` may
hold. `Channels` says what client and network do: `"ordered"` delivers in order,
`"waiting"` is a client that sends one datagram, waits for its ack and resends it,
with losses; `"any"` reorders. `early` becomes true when a datagram comes ahead of one
that is due, which only `"any"` lets happen. In `AckSend` a queued packet is its first ack
request and its fragment count; the client acks what it has without a gap, and
responses may be lost, repeated or arrive late. `received`, `early`, `messages`, `acks`
and the ordinals are history the properties use. Client and network are not in
the repository and are marked external in the map.

### UdpClients

`table` is the parallel arrays of `UdpThread` as one sequence of records. Each
phase of `udp_thread_proc` is a value of `pc`; the loops over the table take one
step per iteration, so the server thread runs between any two pushes. Time is the
flag `quiet`: 15 s have gone by since the last datagram. The server thread is the
login thread's handling of NewClient, packets, Linkdead and ClientDisconnect. The other
producers of its queue, the database thread and the main thread, name no client of the
table and are left out; what they cost is the wake-up of `RingBufSingle`, so nothing is
assumed of when the server thread reads.
Writes and keep-alives change nothing here; they are in `AckSend` and `AckRecv`.

### Login

One step per message the login thread handles. The order NewClient, packets,
Disconnect for one client is what `UdpClients` establishes (`KnownWhileUsed`).
The database thread has its queue, its batch of writes and reads and their order.
`session`, `typed`, `dropped` and `unlucky` in a `LoginClient` serve the
properties only. Hashes are modelled by what they decide: they are equal when the
passwords are. Every push to the UDP thread, to char select, to the database and
back, and every statement, may fail, `MaxFailures` times.

### CharSelect

One step per message. Time is `now`, in units; a wait begins only while the clock
can still pass its end (`CanWait`), so that every wait is seen to its end.
`clientsAwaitingAuth` and `authsAwaitingClient` are kept with their timeouts as
parallel sequences, as in the code, and rearranged by the code's pop and swap. A
client that sends its login info twice is listed twice and one entry outlives it:
`MayRead` lets a freed object's fields read as anything, and a drop may then hit
anyone. `until`, `drop`, `again`, `granted` and `admitted` serve the properties.
The checks of a new character (race, class, deity, stats) decide between a query
and a refusal and are left nondeterministic: `OpCreateCharacter` or `OpRefused`.

What the model shows and no property forbids: an authorisation that comes after
the client never finds it, so the client times out, though `char_select_thread.c:1268`
means to let it in (`NoneExpiredEarly` and `WaitersEnd` hold whether it does or not);
`isZoning` is not reset by
ZoneFailure, so a client that was refused cannot enter again; an approved name is
not tied to the name that is created.

### World

`mainQueue` holds what the other threads tell the main thread. The loading list
has the code's index: `StartLoading` writes at `cmgr->clientCount`, which nothing
increments. `Placements` is every outcome of `zmgr_get_or_start_zone`: known zone,
new thread, least loaded thread, or a failure on the way. `created` and `handed`
are the CreateZone and AddClientExpected messages in the zone threads' queues.
Slots of `zts` past `ztCount` keep what they held, because the swap and pop of a
stopped thread leaves other zones' `ztIndex` as it was, and a removed zone then
lowers the count of whichever thread is there, modulo 2^16.

Three exceptions in the properties are defects the model reaches, listed under
`hazards`: `lost`, a loading client overwritten by the next; `unlucky`, a `Client`
destroyed by the main thread after the zone thread got it; `late`, a zone thread
started after the zone threads were told to stop, which nobody stops.

### TimerPool and ZoneIn

`TimerPool` keeps, for every slot, the time left. `Rearmed` puts off slot `k` by
the period of the `k`-th triggered timer, as the code does (`triggerTimes[i]`
where `triggered[i]` was meant): with the sweep in slot 1 and a camp timer in slot
2 that fires alone, the sweep is put off by the camp timer's 30 s. Each OP_CampStart
starts a timer of its own, without a look at those under way (`Camp`). `CampTimers`
bounds how many are under way at once and `MaxPutOff` how far a timer may be put off for
another to start; neither bounds how often a `Client` camps. From `MaxPutOff = 7` on, with
the periods of the run, TLC finds the behaviour in which a `Client` that camps again and
again keeps the sweep from ever firing. So `ExpiredAreSwept` says what is left: if the
camping ends, those who have waited too long are swept.

`ZoneIn` keeps the UDP thread's table by address and the two queues between it and
the zone thread. `table[a].object` is the raw pointer both threads use;
`allocated` is the heap. A field read from freed memory may have any value
(`AddrsOf`, `StubAddrs`). `Homes` are the ips the `Client`s' owners had at char select:
peers may come from others. `zt_transition_stub` has its failures after the push of
ReplaceClientObject (`TransitionFailed`): the stub is then replaced, and freed,
while it is still in the unconfirmed list. The same happens when the command meets
the peer's next connection. And an OP_ZoneEntry of a `Client` that is not among the
valid pointers is handled as a stub's (`TakenForStub`). All three set `unsafe`, and
`StubsLive` says that nothing else uses a freed stub. `PlaysItsOwn` excepts `unsafe`
from the ip and the name: a freed stub that is still listed is matched by its entry,
but the address the `Client` is given is read from the freed stub. TLC finds that with
two `Client`s and three connections and no failure; the attempt to prove the property
without the exception led there, no smaller instance shows it. That a `Client` has one
player holds in any case; that it is in the zone, unless something failed.

The main thread pushes AddClientExpected before it tells char select and lists the
`Client`; when one of these fails it calls `client_destroy_no_zone` on what it has just
handed over (`DropHanded`, the last step of the same handler). That frees the strings the
`Client` points to and leaves its block allocated, so a `Client` in `destroyed` goes on
through the zone thread with a name that may compare as anything (`NamesOf`), and
`PlaysItsOwn` excepts its name. An expected `Client` that nobody comes for
is forgotten by the sweep and never freed ("fixme: inform the ClientMgr").

## Runs

| Run | Shows | Bounds |
|---|---|---|
| `RingBuf` | cursor order, exclusive blocks, FIFO, no stranded packet, refinement of `BoundedQueue`, delivery | 2 producers, 3 blocks, 4 pushes: the ring fills up and wraps, and both producers are inside a push together |
| `RingBufSingle` | **violation**: in mode `"single"` a packet is stranded until the next push | same |
| `AckRecv` | order, no false ack, queue contents, eventual ack | 5 datagrams, messages of 1 to 3 fragments: the queue grows twice and holds a partial message |
| `AckRecvReorder` | **violation**: after 1 and 3 the server acks 2, which has not come | 3 datagrams |
| `AckSend` | nothing dropped early, resends begin at the first missing fragment, everything arrives | 4 datagrams in packets of 1 to 3, starting at ack 0 and 65534 so that the counter wraps |
| `AckSendFragments` | **violation**: a resent last fragment has the wrong length | same |
| `UdpClients` | objects announced, freed once, indexes right, sweep complete, silent peers forgotten, their objects freed if the server thread keeps emptying its queue | 2 peers, 3 objects, queues of 3 and 1: both fill up; 3 datagrams: a peer comes back and an object is reused |
| `Login` | sessions and char select authorisations are proven, one query per attempt, attempts end | 2 connections, 2 names, 2 passwords, 3 attempts, 1 failure: two clients create one account, wrong passwords, a second login, a client gone before its answer |
| `CharSelect` | only authorised accounts are acted on, each authorisation once; no freed client listed; waits end, and not early | 2 connections, 1 authorisation, 2 login infos, 2 requests, 1 failure: both may want the one authorisation, either may wait, leave with queries outstanding or send login info twice |
| `World` | one owner per `Client`, the right zone thread, answers for all, shutdown in order, and to the end if the threads that pop one packet per permit find their Terminate | 2 zone-ins, 2 zones, 2 zone threads, 2 interrupts, 1 failure: two loads overlap, share a zone or not, and complete at every stage of the shutdown |
| `ZoneIn` | no stub used after it is freed, a `Client` played by its own peer, the waiting are swept once the camping ends | 2 ips, 2 stubs, 1 `Client`, 2 connections, 2 packets, 1 failure; the sweep every 2 units, a wait of 1, a camp of 3, one camp timer at a time, started any number of times, the sweep put off by up to 7: the camp timer fires alone and with the sweep, and can hold the sweep up for ever; the one failure may be the main thread's, which then destroys the `Client` |
| `LoginReuse` | **violation**: an answer reaches a new client at the old one's address | 1 address |

The violations are disagreements between the code and its own comments or
messages, quoted under `findings` in `PROJECT.json`:

* `ringbuf_wait_for_packet` may spend a wake-up before the packet it announces is
  visible. Threads that poll, and the database thread that drains, are not
  affected; the login, char select and log threads may be one packet behind until
  the next push. With a single producer it cannot happen.
* `ack_recv_packet` advances the expected ack past a gap: after 1 and 3 it expects 3 and
  acks 2, which has not come, and drops 2 as old when it does come.
* The resend of a partly acked packet does not shorten the data that is left.
* A database answer is matched to a client by address only.

`CharSelect`, `World` and `ZoneIn` also pass on larger instances that take longer
than a regular run should: `CharSelect` with 3 login infos (811,610 states), with 2
keys and 2 authorisations (688,701, 1 request), and with 2 accounts besides
(691,859, no failures); `World` with 3 zone-ins, 1 interrupt and no failures
(385,085); `ZoneIn` with 2 `Client`s, a wait of 2 and no failures, safety only (3.4
million).

Deadlock is checked in `UdpClients`, whose loop never ends. In the other runs the
system may really stop: clients and producers have no more to send.

### Fairness

* `RingBuf`: weak fairness of every started push and of the consumer's steps, and
  strong fairness of the claims, because a weak compare-and-swap does not fail for
  ever. Pushes need not begin.
* `AckRecv`, `AckSend`: weak fairness of the UDP thread's cycle (it runs every
  25 ms) and of the keep-alive (every 500 ms); the network delivers a datagram
  that is sent again and again, and the client answers.
* `UdpClients`: weak fairness of the UDP thread's loop, which polls, and of the passing
  of time. Nothing is assumed of the server thread: the login thread's queue has other
  producers too and is read one packet per permit, so a ClientDisconnect can lie there
  until the next push. `EventuallyForgotten` says that the UDP thread forgets every silent
  peer whatever the server thread does, and that the objects are freed if the queue is
  empty again and again.
* `Login`: weak fairness of the database thread, which drains, and of the login
  thread. The login thread waits with `ringbuf_wait_for_packet` and may be one
  packet behind, but a waiting client repeats its credentials ("The client spams
  this packet while we are dealing with it", `login_client.c:104`), and every
  repetition is a push that wakes it.

* `CharSelect`: weak fairness of the clock and of the sweep, which a timer of the
  main thread asks for every 5 s. Nothing is assumed of clients or the database.
* `World`: weak fairness of the main thread, of the termination of the UDP and zone
  threads, which poll, and of the database thread, which drains. Nothing is assumed of the
  login, char select and log threads, which wait with `ringbuf_wait_for_packet`: a
  Terminate may be stranded there as in `RingBufSingle`, and the main loop then waits for
  ever. `ShutdownEnds` says that nothing else holds it up.
* `ZoneIn`: weak fairness of both threads' polling, of the timers and of the clock.
  Nothing is assumed of the peers; that they stop camping is a condition of
  `ExpiredAreSwept`, not fairness.

## Proofs

Each `...Proofs` module proves its specification's properties for every value of the
constants that satisfies the named assumptions, along one pattern: an inductive
invariant `IInv` (checked with TLC on the run's instance before it was proved), a
lemma per action that it is kept, `InductiveInvariant: Spec => []IInv`, and the
properties of the runs as consequences.

| Module | Theorem | States |
|---|---|---|
| `RingBufProofs` | `TypeCorrect`, `CursorsStayOrdered`, `CopiesNeverRace`, `PacketsInOrder` | `TypeOK`, `CursorsOrdered`, `BlocksExclusive`, `FirstInFirstOut` |
| | `DrainersWake` | `NothingStranded` for consumers that poll or drain (`RingBufSingle` shows the third kind) |
| | `Refinement` | `ImplementsQueue` |
| `AckRecvProofs` | `TypeCorrect`, `HandedInOrder`, `AckedReceived`, `QueueIsExact` | `early \/ P` for `TypeOK`, `HandedOffInOrder`, `AckedWereReceived`, `QueueExact`, on every channel, under `Regular` |
| | `EarlyOnlyIfReordered` | `early` stays false on the channels `"ordered"` and `"waiting"`: there the four hold for the whole session |
| `AckSendProofs` | `LaterIsFuture`, `EarlierIsPast` | what `ack_cmp` computes on either side of the rollover |
| | `TypeCorrect`, `DroppedReceived`, `MissingResent` | `TypeOK`, `DroppedWereReceived`, `MissingAreResent` |
| `UdpClientsProofs` | `TypeCorrect`, `SlotsAndIndexes`, `MessagesAreTimely`, `OneHolder`, `SweepIsExact` | `TypeOK`, `IndexesMatchSlots`, `KnownWhileUsed`, `ObjectsHaveOneHolder`, `SweepRemovesTheDead` |
| `LoginProofs` | `TypeCorrect`, `SessionsProven`, `LoginAuthsProven`, `OneQueryPerAttempt` | `TypeOK`, `SessionsAreProven`, `LoginAuthsAreProven`, `AttemptsHaveOneQuery` |
| `CharSelectProofs` | `TypeCorrect`, `GrantsOnly`, `ListsAreLive`, `WaitsInFull` | `TypeOK`, `ActsOnGrants`, `ListedAreLive`, `NoneExpiredEarly` |
| `WorldProofs` | `OneOwner`, `HandedRight`, `StopOrder` | `ClientsHaveOneOwner`, `HandedToItsZone`, `StoppedInOrder` |
| `ZoneInProofs` | `AlwaysStubsLive`, `AlwaysPlaysItsOwn` | `StubsLive`, `PlaysItsOwn` |
| | `ClientInOnePlace` | a `Client` is in one queue, list, command or table slot at a time, once, and the zone thread has not freed its block; what the block points to the main thread may have destroyed |

Assumptions that are more than types: `NoLap` (a guard of the claim in `RingBuf`);
`AckAssumption`, that the modulus leaves room for both windows; `SendAssumption`, that
fewer datagrams than a window are scheduled in the run (so the counter wraps at most
once; nothing is proved of a connection that goes on longer); finite sets of
addresses (`UdpClients`) and of heap addresses (`CharSelect`); in `LoginProofs`,
`NoReuse`: malloc does not return an address that a query still names. The run
`LoginReuse` shows what happens without it: an answer is applied to a new client at
the old one's address. `CharSelect` has the same restriction as a guard of
`NewClient`; its `NullAssumption` says that `None` is not a client record, and that of `ZoneIn` that
`None` is no address, table entry or owner.

`AckRecvProofs` assumes `Regular`: the session's first datagram comes once, at most a
window (1024) of datagrams in the session, acks of at most 16 bits. The first leaves aside
the hazard at `udp_client.c:222`, that a repeated first datagram sets the expected ack back;
the second keeps old acks in the past of `ack_cmp`. The channel, the number of messages and
that of their fragments are free. On a channel that reorders, the theorems hold up to the
first datagram that comes ahead of one that is due (`early`); from there on nothing is
proved, and `AckRecvReorder` shows that the code then acks what it has not got.

**RingBuf.** `CursorsOrdered` alone is not inductive. `IInv` adds what each program
counter knows: a producer past its check saw a `readStart` that can only have grown; a
claimed block belongs to one producer until its flag is set; flags are set only
between the cursors that frame them, and the block a cursor waits at is cleared by
exactly one thread; the contents of every block between `readEnd` and `writeStart`
are the accepted packets of those positions. Two cursors less than a lap apart
have different blocks (`IdxDistinct`), which turns disjoint cursor ranges into
disjoint blocks; that arithmetic is proved once, from `DivMod`. For `Refinement` the
claim's compare-and-swap is the queue's accept, the advance of `writeStart` its publish
and the consumer's copy its take; every other step is a stutter.

**AckRecv.** The properties talk about the queue's ack requests; why they are right is
that the queue is the beginning of one message. `QueueInv` says it: what is handed off is
the client's first messages, and the `count` slots are the first datagrams of the next,
fewer than it has. `ChannelInv` says why no datagram comes before it is due where the
network keeps the order or the client waits: a waiting client has one outstanding, and in
order each datagram in flight has its predecessor ahead of it or received
(`EarlyOnlyAny`). With `"any"` one may come, and `UntilEarly` carries `IInv` up to that
step. Until then the ack requests received are an interval up to what is due
(`AckInv`), an old datagram is in the past (`OldIsPast`), and one that is due is the next
of the message in the queue (`DueIsNext`). What the scan makes of such a queue is proved
for any number of slots over its turns, by the least turn that would differ: it stops at
once while a fragment is missing (`ScanPartial`) and hands off the whole message with the
last one (`ScanWhole`).

**AckCmp.** `ack_cmp` calls an ack 1 to 1023 later Future and one 1 to 1024 earlier
Past, for every ack, on either side of the rollover.

**AckSend.** A packet is dropped because of an ack number; that the number stands for
what the client has needs `NumberInv`: all ack requests of a connection lie on one lap
of the counter, with 0 skipped at most once, and `lastAckReceived` is the number of an
ordinal up to which everything has arrived. Old and repeated responses then fall in
the past by `EarlierIsPast`.

**UdpClients.** `KnownWhileUsed` talks about positions of the queue, so `IInv` says for
each queued message what is ahead of it (`KnownAt`), who holds each object
(`HolderInv`), that slots, addresses and objects correspond one to one (`IndexInv`),
and what the loops have already passed (`LoopInv`), which is `SweepIsExact` when the
sweep ends.

**Login.** Every message about a live client belongs to that client's current attempt
(`MessageInv`), and each object is named by one message at most in the four queues
(`UniqueInv`). What a query asks, what the row it found says and what the client typed
are related along the way (`QueryOK`, `ReplyOK`).

**CharSelect.** `ActsOnGrants` needs the authorisations that wait to be counted with
those used: each is in the list or let a client in (`GrantInv`, with how often it
`Occurs`). That no freed client is listed needs that a client that logged in once is in
one list, once (`OnceInv`), because the loops of `cs_thread_remove_client_object` stop
at the first entry. `WaitInv` ties the timeout of an entry to its client and says that
such a client has no account yet, which is why, in the code as it is, an authorisation
that comes later does not find it; the property does not depend on that. `cs_thread_check_auth_timeouts` rearranges two arrays while it walks
them: `Sweep` is a recursive function over its turns, and what it leaves is proved
turn by turn (`SweepTurn`), for any number of turns by the least counterexample
(`SweepRuns`, `SweepLeaves`).

**World.** `StoppedInOrder` needs what every `shutdownState` knows of the threads told,
stopped and yet to report (`ShutdownInv`), and that no thread reports twice
(`NewsOnce`). `HandedToItsZone` needs the zone manager's tables to agree
(`PlaceInv`), which they do until the zone threads stop: the swap and pop of a stopped
thread breaks the other zones' `ztIndex`. `ClientsHaveOneOwner` needs that a zone-in in
the queue is for a client not seen before (`RequestInv`).

**ZoneIn.** A `Client` is passed on like a token: `TokenInv` says that it is in one place,
once, and its block allocated, whatever fails and whether or not the main thread has
destroyed it. For a stub the order of its messages matters:
its NewClient is the first in the queue and the report that frees it the last; before
the one it is not listed, and with the other it has left the table (`StubInv`). Its address is set when
NewClient is handled, and what it says afterwards was said at that address (`AddrInv`);
that is what ties the ip and name of a match to the address that
ReplaceClientObject seats (`PlayInv`). Both hold until `unsafe`. `ZoneInv` says that the
zone is created before the first `Client` arrives, or that failed. The sweep of each
list is a recursive function over its turns (`Drain`), which leaves some of the entries.

Only model-checked: the liveness properties (`EventuallyDelivered`,
`EventuallyReceived`, `EventuallyAcked`, `EventuallyForgotten`, `AttemptsEnd`,
`WaitersEnd`, `RequestsEnd`, `ShutdownEnds`, `ExpiredAreSwept`), because fairness is
beyond the prover. Every invariant and every action property of the runs is proved,
`NothingStranded` for the consumers that it holds of.

## Not modelled

* Byte layout: packet formats, checksums, encryption, alignment helpers, and the
  packets the zone sends. Nothing above depends on their contents.
* Allocation failures other than for a new UDP client's object.
* A `COMMIT` that fails after its answers were pushed, and databases that fail to
  open.
* Lua scripts, inventory and items, which are sequential game data; movement, chat
  and the other opcodes of a `Client` in its zone, which change no state another
  thread sees.
* The hash table, buffers, tables of ids and names (`zone_id.c`, the `enum2str`
  files), start-up, and the vendored headers under `win32/` (OpenSSL, SQLite, zlib),
  which are most of the repository's lines and none of its behaviour.
* Guild lists (ZOP_CS_AddGuild), item prototypes and the save of a camping client.
* Consequences that follow from the models and have no property: a message that is
  acked and then dropped because the server thread's queue is full; a disconnect
  report lost to a full queue, which leaks the object (`lost` in `UdpClients`); an
  ignored client that keeps sending and so never times out; a DropClient that is
  applied to the peer's next connection; two rows with the same account name.

## State of the project

Model and proofs are as far as they are meant to go: queues, protocol, client table,
login, char select, main thread and zone thread, with their safety proved. What could
follow is a connection that outlives one lap of the 16-bit acks (`AckSend` and `AckRecv`
assume less), and a single specification that joins `CharSelect`, `World` and `ZoneIn`
at their queues.
