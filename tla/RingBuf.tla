------------------------------- MODULE RingBuf -------------------------------
(***************************************************************************)
(* ringbuf.c: the lock-free bounded queue that carries every packet        *)
(* between the server's threads.  Many threads push; exactly one thread    *)
(* pops each queue (the thread that owns it).                              *)
(*                                                                         *)
(* Each action is one atomic operation of the code (a load, a store or a   *)
(* compare-and-swap of one of the atomics, or the copy of a block, which   *)
(* is not atomic: a thread whose pc is "write" or "read" is inside that    *)
(* copy).  The code keeps the four cursors as indices that wrap at         *)
(* slotCount; here a cursor counts how often it was advanced, the index    *)
(* the code stores is Idx(cursor), and every comparison the code makes     *)
(* compares indices.                                                       *)
(***************************************************************************)
EXTENDS Naturals, Sequences, FiniteSets

CONSTANTS
  Producers,   \* the threads that push
  Packets,     \* what can be pushed: an opcode with its payload
  NoPacket,    \* the content of a block no one has written
  Slots,       \* slotCount of ringbuf_create
  Modes,       \* the ways the consumer pops that are explored
  MaxPushes    \* bound: how many packets are pushed in a behaviour

ASSUME SlotsAssumption == Slots \in Nat /\ Slots >= 2  \* RINGBUF_MIN_PACKETS
ASSUME PacketAssumption == NoPacket \notin Packets
ASSUME ModeAssumption == Modes \subseteq {"poll", "drain", "single"}
ASSUME BoundAssumption == MaxPushes \in Nat

VARIABLES
  readStart, readEnd,      \* blocks before readStart are free again; readEnd is next to pop
  writeStart, writeEnd,    \* blocks before writeStart can be popped; writeEnd is next to claim
  hasBeenRead,             \* per block: read, and not yet passed by readStart
  hasBeenWritten,          \* per block: written, and not yet passed by writeStart
  data,                    \* per block: its opcode and payload
  semaphore,               \* the count of the semaphore
  pc,                      \* per producer: the operation it does next
  index,                   \* per producer: the local variable index
  block,                   \* per producer: the cursor of the block it claimed
  packet,                  \* per producer: the packet it pushes
  cpc,                     \* consumer: the operation it does next
  mode,                    \* consumer: the way it pops
  accepted,                \* history: the packets of the claimed blocks, in claim order
  delivered                \* history: the packets popped, in order

cursors == <<readStart, readEnd, writeStart, writeEnd>>
pvars   == <<pc, index, block, packet>>
cvars   == <<cpc, mode, delivered>>
vars    == <<cursors, hasBeenRead, hasBeenWritten, data, semaphore, pvars, cvars, accepted>>

Blocks == 0 .. Slots - 1
Idx(cursor) == cursor % Slots

PushPcs == {"idle", "load", "check", "claim", "write", "written",
            "advance", "clear", "bump", "signal"}
PopPcs  == {"wait", "check", "claim", "read", "readDone", "clear", "bump"}

\* A thread that polls pops until the queue is empty and comes back later (the
\* main, udp and zone threads); "drain" waits on the semaphore and then pops
\* until empty (the db thread); "single" is ringbuf_wait_for_packet, one wait
\* per pop (the log, login and character select threads).
FirstPc(m)     == IF m = "poll" THEN "check" ELSE "wait"

\* Mutation: a draining consumer goes back to the semaphore after each packet.
AfterPacketWaits(m) == FirstPc(m)

AfterPacket(m) == IF m = "single" THEN "wait" ELSE "check"
AfterEmpty(m)  == FirstPc(m)

Init ==
  /\ readStart = 0 /\ readEnd = 0 /\ writeStart = 0 /\ writeEnd = 0
  /\ hasBeenRead    = [b \in Blocks |-> FALSE]
  /\ hasBeenWritten = [b \in Blocks |-> FALSE]
  /\ data = [b \in Blocks |-> NoPacket]
  /\ semaphore = 0
  /\ pc     = [p \in Producers |-> "idle"]
  /\ index  = [p \in Producers |-> 0]
  /\ block  = [p \in Producers |-> 0]
  /\ packet = [p \in Producers |-> NoPacket]
  /\ mode \in Modes
  /\ cpc = FirstPc(mode)
  /\ accepted = <<>> /\ delivered = <<>>

-----------------------------------------------------------------------------
(* ringbuf_push.  A local variable that is no longer used is reset, so     *)
(* that states that differ in nothing else are the same.                   *)

Goto(p, from, to) == pc[p] = from /\ pc' = [pc EXCEPT ![p] = to]

\* The producers whose push may still claim a block.
Pushing == {p \in Producers : pc[p] \in {"load", "check", "claim"}}

BeginPush(p, v) ==
  /\ writeEnd + Cardinality(Pushing) < MaxPushes
  /\ Goto(p, "idle", "load")
  /\ packet' = [packet EXCEPT ![p] = v]
  /\ UNCHANGED <<cursors, hasBeenRead, hasBeenWritten, data, semaphore, index, block, cvars, accepted>>

LoadWriteEnd(p) ==
  /\ Goto(p, "load", "check")
  /\ index' = [index EXCEPT ![p] = writeEnd]
  /\ UNCHANGED <<cursors, hasBeenRead, hasBeenWritten, data, semaphore, block, packet, cvars, accepted>>

\* block->nextIndex == readStart: ringbuf_push returns ERR_OutOfSpace.
OutOfSpace(p) ==
  /\ Idx(index[p] + 1) = Idx(readStart)
  /\ Goto(p, "check", "idle")
  /\ index' = [index EXCEPT ![p] = 0] /\ packet' = [packet EXCEPT ![p] = NoPacket]
  /\ UNCHANGED <<cursors, hasBeenRead, hasBeenWritten, data, semaphore, block, cvars, accepted>>

\* Mutation: the test for a free block is missing.
HasRoomUnchecked(p) ==
  /\ Goto(p, "check", "claim")
  /\ UNCHANGED <<cursors, hasBeenRead, hasBeenWritten, data, semaphore, index, block, packet, cvars, accepted>>

HasRoom(p) ==
  /\ Idx(index[p] + 1) # Idx(readStart)
  /\ Goto(p, "check", "claim")
  /\ UNCHANGED <<cursors, hasBeenRead, hasBeenWritten, data, semaphore, index, block, packet, cvars, accepted>>

\* The timing assumption of the model: no producer is delayed between loading a
\* cursor and the compare-and-swap that depends on it for so long that the
\* others push a whole lap of the ring (1024 packets) meanwhile.
NoLap ==
  \A q \in Producers :
    /\ pc[q] \in {"check", "claim"} => writeEnd + 1 < index[q] + Slots
    /\ pc[q] = "clear" => writeEnd < index[q] + Slots

\* Mutation: writeEnd is stored instead of compared and swapped.
ClaimByStore(p) ==
  /\ Goto(p, "claim", "write")
  /\ writeEnd' = index[p] + 1
  /\ block'    = [block EXCEPT ![p] = index[p]]
  /\ accepted' = Append(accepted, packet[p])
  /\ UNCHANGED <<readStart, readEnd, writeStart, hasBeenRead, hasBeenWritten, data, semaphore, index, packet, cvars>>

ClaimWriteEnd(p) ==
  /\ Idx(writeEnd) = Idx(index[p])
  /\ NoLap
  /\ Goto(p, "claim", "write")
  /\ writeEnd' = writeEnd + 1
  /\ block'    = [block EXCEPT ![p] = writeEnd]
  /\ accepted' = Append(accepted, packet[p])
  /\ index'    = [index EXCEPT ![p] = 0]
  /\ UNCHANGED <<readStart, readEnd, writeStart, hasBeenRead, hasBeenWritten, data, semaphore, packet, cvars>>

\* The weak compare-and-swap fails when writeEnd moved, or spuriously.
ClaimFails(p) ==
  /\ Goto(p, "claim", "load")
  /\ index' = [index EXCEPT ![p] = 0]
  /\ UNCHANGED <<cursors, hasBeenRead, hasBeenWritten, data, semaphore, block, packet, cvars, accepted>>

\* Mutation: the payload is not copied into the block.
WriteNothing(p) ==
  /\ Goto(p, "write", "written")
  /\ UNCHANGED <<cursors, hasBeenRead, hasBeenWritten, data, semaphore, index, block, packet, cvars, accepted>>

WriteBlock(p) ==
  /\ Goto(p, "write", "written")
  /\ data' = [data EXCEPT ![Idx(block[p])] = packet[p]]
  /\ UNCHANGED <<cursors, hasBeenRead, hasBeenWritten, semaphore, index, block, packet, cvars, accepted>>

SetWritten(p) ==
  /\ Goto(p, "written", "advance")
  /\ hasBeenWritten' = [hasBeenWritten EXCEPT ![Idx(block[p])] = TRUE]
  /\ block' = [block EXCEPT ![p] = 0] /\ packet' = [packet EXCEPT ![p] = NoPacket]
  /\ UNCHANGED <<cursors, hasBeenRead, data, semaphore, index, cvars, accepted>>

LoadWriteStart(p) ==
  /\ Goto(p, "advance", "clear")
  /\ index' = [index EXCEPT ![p] = writeStart]
  /\ UNCHANGED <<cursors, hasBeenRead, hasBeenWritten, data, semaphore, block, packet, cvars, accepted>>

ClearWritten(p) ==
  /\ hasBeenWritten[Idx(index[p])]
  /\ Goto(p, "clear", "bump")
  /\ hasBeenWritten' = [hasBeenWritten EXCEPT ![Idx(index[p])] = FALSE]
  /\ UNCHANGED <<cursors, hasBeenRead, data, semaphore, index, block, packet, cvars, accepted>>

NothingToAdvance(p) ==
  /\ ~hasBeenWritten[Idx(index[p])]
  /\ Goto(p, "clear", "signal")
  /\ index' = [index EXCEPT ![p] = 0]
  /\ UNCHANGED <<cursors, hasBeenRead, hasBeenWritten, data, semaphore, block, packet, cvars, accepted>>

\* Mutation: writeStart is advanced over one block, not as far as possible.
BumpOnce(p) ==
  /\ Goto(p, "bump", "signal")
  /\ writeStart' = IF Idx(writeStart) = Idx(index[p]) THEN writeStart + 1 ELSE writeStart
  /\ index' = [index EXCEPT ![p] = 0]
  /\ UNCHANGED <<readStart, readEnd, writeEnd, hasBeenRead, hasBeenWritten, data, semaphore, block, packet, cvars, accepted>>

\* The compare-and-swap of writeStart; its result is ignored.
BumpWriteStart(p) ==
  /\ Goto(p, "bump", "advance")
  /\ writeStart' = IF Idx(writeStart) = Idx(index[p]) THEN writeStart + 1 ELSE writeStart
  /\ index' = [index EXCEPT ![p] = 0]
  /\ UNCHANGED <<readStart, readEnd, writeEnd, hasBeenRead, hasBeenWritten, data, semaphore, block, packet, cvars, accepted>>

Signal(p) ==
  /\ Goto(p, "signal", "idle")
  /\ semaphore' = semaphore + 1
  /\ UNCHANGED <<cursors, hasBeenRead, hasBeenWritten, data, index, block, packet, cvars, accepted>>

-----------------------------------------------------------------------------
(* ringbuf_wait, ringbuf_pop, ringbuf_wait_for_packet.  readEnd, readStart *)
(* and hasBeenRead are written by the consumer only, so its loads of them  *)
(* are part of the step that uses the loaded value.                        *)

CGoto(from, to) == cpc = from /\ cpc' = to

Wait ==
  /\ CGoto("wait", "check")
  /\ semaphore > 0
  /\ semaphore' = semaphore - 1
  /\ UNCHANGED <<cursors, hasBeenRead, hasBeenWritten, data, pvars, mode, accepted, delivered>>

\* ringbuf_pop returns ERR_Again.
PopEmpty ==
  /\ Idx(readEnd) = Idx(writeStart)
  /\ CGoto("check", AfterEmpty(mode))
  /\ UNCHANGED <<cursors, hasBeenRead, hasBeenWritten, data, semaphore, pvars, mode, accepted, delivered>>

\* Mutation: the blocks that are claimed, written or not, count as available.
PopClaimed ==
  /\ Idx(readEnd) # Idx(writeEnd)
  /\ CGoto("check", "claim")
  /\ UNCHANGED <<cursors, hasBeenRead, hasBeenWritten, data, semaphore, pvars, mode, accepted, delivered>>

PopAvailable ==
  /\ Idx(readEnd) # Idx(writeStart)
  /\ CGoto("check", "claim")
  /\ UNCHANGED <<cursors, hasBeenRead, hasBeenWritten, data, semaphore, pvars, mode, accepted, delivered>>

ClaimReadEnd ==
  /\ CGoto("claim", "read")
  /\ readEnd' = readEnd + 1
  /\ UNCHANGED <<readStart, writeStart, writeEnd, hasBeenRead, hasBeenWritten, data, semaphore, pvars, mode, accepted, delivered>>

PopClaimFails ==
  /\ CGoto("claim", "check")
  /\ UNCHANGED <<cursors, hasBeenRead, hasBeenWritten, data, semaphore, pvars, mode, accepted, delivered>>

\* Mutation: the packet is copied from the block after the claimed one.
ReadNextBlock ==
  /\ CGoto("read", "readDone")
  /\ delivered' = Append(delivered, data[Idx(readEnd)])
  /\ UNCHANGED <<cursors, hasBeenRead, hasBeenWritten, data, semaphore, pvars, mode, accepted>>

\* The block the consumer claimed is the one before readEnd.
ReadBlock ==
  /\ CGoto("read", "readDone")
  /\ delivered' = Append(delivered, data[Idx(readEnd - 1)])
  /\ UNCHANGED <<cursors, hasBeenRead, hasBeenWritten, data, semaphore, pvars, mode, accepted>>

SetRead ==
  /\ CGoto("readDone", "clear")
  /\ hasBeenRead' = [hasBeenRead EXCEPT ![Idx(readEnd - 1)] = TRUE]
  /\ UNCHANGED <<cursors, hasBeenWritten, data, semaphore, pvars, mode, accepted, delivered>>

ClearRead ==
  /\ hasBeenRead[Idx(readStart)]
  /\ CGoto("clear", "bump")
  /\ hasBeenRead' = [hasBeenRead EXCEPT ![Idx(readStart)] = FALSE]
  /\ UNCHANGED <<cursors, hasBeenWritten, data, semaphore, pvars, mode, accepted, delivered>>

BumpReadStart ==
  /\ CGoto("bump", "clear")
  /\ readStart' = readStart + 1
  /\ UNCHANGED <<readEnd, writeStart, writeEnd, hasBeenRead, hasBeenWritten, data, semaphore, pvars, mode, accepted, delivered>>

\* ringbuf_pop returns ERR_None.
PopReturns ==
  /\ ~hasBeenRead[Idx(readStart)]
  /\ CGoto("clear", AfterPacket(mode))
  /\ UNCHANGED <<cursors, hasBeenRead, hasBeenWritten, data, semaphore, pvars, mode, accepted, delivered>>

-----------------------------------------------------------------------------

\* What a producer does once it has begun, but for the claim of a block.
PushStep(p) ==
  \/ LoadWriteEnd(p) \/ OutOfSpace(p) \/ HasRoom(p)
  \/ WriteBlock(p) \/ SetWritten(p)
  \/ LoadWriteStart(p) \/ ClearWritten(p) \/ NothingToAdvance(p) \/ BumpWriteStart(p)
  \/ Signal(p)

PopStep ==
  \/ Wait \/ PopEmpty \/ PopAvailable \/ ReadBlock \/ SetRead
  \/ ClearRead \/ BumpReadStart \/ PopReturns

Next ==
  \/ \E p \in Producers :
       \/ \E v \in Packets : BeginPush(p, v)
       \/ PushStep(p) \/ ClaimWriteEnd(p) \/ ClaimFails(p)
  \/ PopStep \/ ClaimReadEnd \/ PopClaimFails

Spec == Init /\ [][Next]_vars

\* Every thread keeps running; a weak compare-and-swap does not fail for ever.
Fairness ==
  /\ \A p \in Producers : WF_vars(PushStep(p)) /\ SF_vars(ClaimWriteEnd(p))
  /\ WF_vars(PopStep) /\ SF_vars(ClaimReadEnd)

FairSpec == Spec /\ Fairness

-----------------------------------------------------------------------------
(* Properties                                                              *)

TypeOK ==
  /\ readStart \in Nat /\ readEnd \in Nat /\ writeStart \in Nat /\ writeEnd \in Nat
  /\ hasBeenRead \in [Blocks -> BOOLEAN] /\ hasBeenWritten \in [Blocks -> BOOLEAN]
  /\ data \in [Blocks -> Packets \cup {NoPacket}]
  /\ semaphore \in Nat
  /\ pc \in [Producers -> PushPcs]
  /\ index \in [Producers -> Nat] /\ block \in [Producers -> Nat]
  /\ packet \in [Producers -> Packets \cup {NoPacket}]
  /\ mode \in Modes /\ cpc \in PopPcs
  /\ accepted \in Seq(Packets) /\ delivered \in Seq(Packets)

\* The four cursors never overtake one another and at most Slots - 1 blocks are
\* in use (ringbuf_push's test of nextIndex against readStart, made before the
\* claim it guards, is still good when the claim succeeds).
CursorsOrdered ==
  /\ readStart <= readEnd /\ readEnd <= writeStart /\ writeStart <= writeEnd
  /\ writeEnd < readStart + Slots

\* No two threads copy into or out of the same block at the same time: the
\* copies of opcode and payload, which are not atomic, never race.
BlocksExclusive ==
  /\ \A p, q \in Producers :
       p # q /\ pc[p] = "write" /\ pc[q] = "write" => Idx(block[p]) # Idx(block[q])
  /\ \A p \in Producers :
       pc[p] = "write" /\ cpc = "read" => Idx(block[p]) # Idx(readEnd - 1)

\* The packets popped are the packets pushed, in the order the pushes claimed
\* their blocks: none lost, torn, duplicated or reordered.
FirstInFirstOut ==
  /\ Len(delivered) <= Len(accepted)
  /\ \A i \in 1 .. Len(delivered) : delivered[i] = accepted[i]

\* The consumer does not sleep on the semaphore while a packet can be popped
\* and no push is left to wake it.
NothingStranded ==
  ~ /\ cpc = "wait" /\ semaphore = 0
    /\ readEnd < writeStart
    /\ \A p \in Producers : pc[p] = "idle"

\* Every packet whose push claimed a block is popped in the end.
EventuallyDelivered ==
  \A n \in 1 .. MaxPushes : Len(accepted) >= n ~> Len(delivered) >= n

\* The blocks the consumer has copied out.
Copied == IF cpc = "read" THEN readEnd - 1 ELSE readEnd

\* The ring buffer implements the bounded queue of Slots - 1 packets.
Queue == INSTANCE BoundedQueue WITH
           Capacity <- Slots - 1,
           queue <- SubSeq(accepted, Copied + 1, writeEnd),
           ready <- writeStart - Copied,
           taken <- delivered
ImplementsQueue == Queue!Spec
=============================================================================
