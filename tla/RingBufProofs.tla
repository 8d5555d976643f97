---------------------------- MODULE RingBufProofs ----------------------------
(***************************************************************************)
(* For every number of slots, producers and packets, under the timing      *)
(* assumption NoLap: the ring buffer's cursors keep their order, no two    *)
(* threads copy the same block, packets come out in the order they were    *)
(* accepted, and a consumer that drains the queue is never left asleep     *)
(* with a packet to pop.                                                   *)
(***************************************************************************)
EXTENDS RingBuf, SequenceTheorems, TLAPS

\* A producer that has claimed a block and not yet marked it written.
Holds(p) == pc[p] \in {"write", "written"}

\* The consumer: between its claim and the advance of readStart exactly one
\* block is read, and hasBeenRead marks no other block.
ConsumerInv ==
  /\ cpc \in {"read", "readDone", "bump"} => readEnd = readStart + 1
  /\ cpc = "clear" => \/ readEnd = readStart
                      \/ readEnd = readStart + 1 /\ hasBeenRead[Idx(readStart)]
  /\ cpc \in {"wait", "check", "claim"} => readEnd = readStart
  /\ cpc = "claim" => readEnd < writeStart
  /\ \A b \in Blocks : hasBeenRead[b] =>
       cpc = "clear" /\ readEnd = readStart + 1 /\ b = Idx(readStart)

\* The producers' cursors: what a loaded index still says about the ring.
IndexInv ==
  \A p \in Producers :
    /\ pc[p] \in {"check", "claim"} => index[p] <= writeEnd /\ writeEnd < index[p] + Slots
    /\ pc[p] = "claim" /\ index[p] = writeEnd => writeEnd + 1 < readStart + Slots
    /\ pc[p] = "clear" => index[p] <= writeStart /\ writeEnd <= index[p] + Slots

\* A claimed block belongs to one producer and lies before writeEnd and not
\* before writeStart.
HoldInv ==
  /\ \A p \in Producers : Holds(p) =>
       /\ writeStart <= block[p] /\ block[p] < writeEnd
       /\ packet[p] = accepted[block[p] + 1]
  /\ \A p, q \in Producers : Holds(p) /\ Holds(q) /\ block[p] = block[q] => p = q
  /\ \A p \in Producers : pc[p] \in {"load", "check", "claim"} => packet[p] \in Packets

\* hasBeenWritten marks only blocks between writeStart and writeEnd that no
\* producer holds; one producer at most is about to advance writeStart, over a
\* block that is neither marked nor held.
WrittenInv ==
  /\ \A b \in Blocks : hasBeenWritten[b] =>
       \E k \in writeStart .. writeEnd - 1 :
         Idx(k) = b /\ \A p \in Producers : Holds(p) => block[p] # k
  /\ \A p \in Producers : pc[p] = "bump" =>
       /\ index[p] = writeStart /\ writeStart < writeEnd
       /\ ~hasBeenWritten[Idx(writeStart)]
       /\ \A q \in Producers : Holds(q) => block[q] # writeStart
  /\ \A p, q \in Producers : pc[p] = "bump" /\ pc[q] = "bump" => p = q

\* Every block in use that no producer is still writing contains its packet.
DataInv ==
  \A k \in Copied .. writeEnd - 1 :
    (\A p \in Producers : pc[p] = "write" => block[p] # k) => data[Idx(k)] = accepted[k + 1]

HistoryInv ==
  /\ Len(accepted) = writeEnd
  /\ Len(delivered) = Copied
  /\ \A i \in 1 .. Len(delivered) : delivered[i] = accepted[i]

IInv ==
  /\ TypeOK /\ CursorsOrdered /\ ConsumerInv /\ IndexInv
  /\ HoldInv /\ WrittenInv /\ DataInv /\ HistoryInv

\* While a packet can be popped and the consumer that drains the queue waits,
\* there is a signal or a producer on its way to give one.
AwakeInv ==
  mode # "single" /\ cpc = "wait" /\ readEnd < writeStart =>
    semaphore > 0 \/ \E p \in Producers : pc[p] \in {"advance", "clear", "bump", "signal"}

-----------------------------------------------------------------------------
(* Facts about block indices.                                              *)

\* Division by Slots, as the provers need it.
LEMMA DivMod ==
  \A a \in Nat : /\ a % Slots \in 0 .. Slots - 1
                 /\ a \div Slots \in Nat
                 /\ a = Slots * (a \div Slots) + (a % Slots)
  BY SlotsAssumption

\* Cursors in different laps are a lap apart.
LEMMA LapsApart == \A x, y \in Nat : x < y => Slots * x + Slots <= Slots * y
  BY SlotsAssumption

\* The index of a cursor is the index of a block.
LEMMA IdxType == \A k \in Nat : Idx(k) \in Blocks
  BY DivMod DEF Idx, Blocks

\* Two cursors less than a lap apart are stored as the same index only if they
\* are equal: what makes the code's comparisons of indices meaningful.
LEMMA IdxDistinct ==
  \A a, b \in Nat : a <= b /\ b < a + Slots /\ Idx(a) = Idx(b) => a = b
<1> SUFFICES ASSUME NEW a \in Nat, NEW b \in Nat, a <= b, b < a + Slots, Idx(a) = Idx(b)
             PROVE  a = b
  OBVIOUS
<1> DEFINE qa == a \div Slots
           qb == b \div Slots
<1>1. /\ qa \in Nat /\ a = Slots * qa + (a % Slots)
      /\ qb \in Nat /\ b = Slots * qb + (b % Slots)
      /\ a % Slots = b % Slots /\ a % Slots \in Nat
  BY DivMod, SlotsAssumption DEF Idx
<1>2. CASE qa < qb
  <2>1. Slots * qa + Slots <= Slots * qb  BY <1>1, <1>2, LapsApart
  <2>2. QED  BY <2>1, <1>1, SlotsAssumption
<1>3. CASE qb < qa
  <2>1. Slots * qb + Slots <= Slots * qa  BY <1>1, <1>3, LapsApart
  <2>2. QED  BY <2>1, <1>1, SlotsAssumption
<1>4. QED  BY <1>1, <1>2, <1>3

\* A cursor a whole lap ahead has the same index: why a full ring must be told
\* apart before the claim.
LEMMA IdxLap == \A k \in Nat : Idx(k + Slots) = Idx(k)
<1> SUFFICES ASSUME NEW k \in Nat PROVE Idx(k + Slots) = Idx(k)
  OBVIOUS
<1> DEFINE l == k + Slots
           qk == k \div Slots
           ql == l \div Slots
<1>1. /\ qk \in Nat /\ k = Slots * qk + (k % Slots) /\ k % Slots \in 0 .. Slots - 1
      /\ ql \in Nat /\ l = Slots * ql + (l % Slots) /\ l % Slots \in 0 .. Slots - 1
  BY DivMod, SlotsAssumption, SMTT(30)
<1>2. Slots * (qk + 1) = Slots * qk + Slots
  BY <1>1, SlotsAssumption
<1>3. CASE ql < qk + 1
  <2>1. Slots * ql + Slots <= Slots * (qk + 1)  BY <1>1, <1>3, LapsApart
  <2>2. QED  BY <2>1, <1>1, <1>2, SlotsAssumption
<1>4. CASE qk + 1 < ql
  <2>1. Slots * (qk + 1) + Slots <= Slots * ql  BY <1>1, <1>4, LapsApart
  <2>2. QED  BY <2>1, <1>1, <1>2, SlotsAssumption
<1>5. QED  BY <1>1, <1>2, <1>3, <1>4, SlotsAssumption DEF Idx

-----------------------------------------------------------------------------
(* Each step preserves the inductive invariant.                            *)

\* Entering ringbuf_push preserves the inductive invariant.
LEMMA BeginPushInv ==
  ASSUME IInv, NEW p \in Producers, NEW v \in Packets, BeginPush(p, v)
  PROVE  IInv'
<1>1. TypeOK'
  BY DEF IInv, TypeOK, BeginPush, Goto, cursors, cvars, PushPcs
<1>2. IndexInv'
  BY DEF IInv, IndexInv, BeginPush, Goto, cursors
<1>3. HoldInv'
  BY DEF IInv, TypeOK, HoldInv, Holds, BeginPush, Goto, cursors
<1>4. WrittenInv'
  BY DEF IInv, WrittenInv, Holds, BeginPush, Goto, cursors
<1>5. DataInv'
  BY DEF IInv, DataInv, Copied, BeginPush, Goto, cursors, cvars
<1>6. CursorsOrdered' /\ ConsumerInv' /\ HistoryInv'
  BY DEF IInv, CursorsOrdered, ConsumerInv, HistoryInv, Copied, BeginPush, cursors, cvars
<1>7. QED  BY <1>1, <1>2, <1>3, <1>4, <1>5, <1>6 DEF IInv

\* Loading writeEnd (ringbuf.c:150) preserves the inductive invariant.
LEMMA LoadWriteEndInv ==
  ASSUME IInv, NEW p \in Producers, LoadWriteEnd(p)
  PROVE  IInv'
<1>1. TypeOK'
  BY DEF IInv, TypeOK, LoadWriteEnd, Goto, cursors, cvars, PushPcs
<1>2. IndexInv'
  BY SlotsAssumption DEF IInv, TypeOK, IndexInv, LoadWriteEnd, Goto, cursors
<1>3. HoldInv'
  BY DEF IInv, HoldInv, Holds, LoadWriteEnd, Goto, cursors
<1>4. WrittenInv'
  BY DEF IInv, WrittenInv, Holds, LoadWriteEnd, Goto, cursors
<1>5. DataInv'
  BY DEF IInv, DataInv, Copied, LoadWriteEnd, Goto, cursors, cvars
<1>6. CursorsOrdered' /\ ConsumerInv' /\ HistoryInv'
  BY DEF IInv, CursorsOrdered, ConsumerInv, HistoryInv, Copied, LoadWriteEnd, cursors, cvars
<1>7. QED  BY <1>1, <1>2, <1>3, <1>4, <1>5, <1>6 DEF IInv

\* A push refused with ERR_OutOfSpace preserves the inductive invariant.
LEMMA OutOfSpaceInv ==
  ASSUME IInv, NEW p \in Producers, OutOfSpace(p)
  PROVE  IInv'
<1>1. TypeOK'
  BY DEF IInv, TypeOK, OutOfSpace, Goto, cursors, cvars, PushPcs
<1>2. IndexInv'
  BY DEF IInv, TypeOK, IndexInv, OutOfSpace, Goto, cursors
<1>3. HoldInv'
  BY DEF IInv, TypeOK, HoldInv, Holds, OutOfSpace, Goto, cursors
<1>4. WrittenInv'
  BY DEF IInv, WrittenInv, Holds, OutOfSpace, Goto, cursors
<1>5. DataInv'
  BY DEF IInv, DataInv, Copied, OutOfSpace, Goto, cursors, cvars
<1>6. CursorsOrdered' /\ ConsumerInv' /\ HistoryInv'
  BY DEF IInv, CursorsOrdered, ConsumerInv, HistoryInv, Copied, OutOfSpace, cursors, cvars
<1>7. QED  BY <1>1, <1>2, <1>3, <1>4, <1>5, <1>6 DEF IInv

\* The test for a free block (ringbuf.c:153) preserves the inductive invariant:
\* from then on a claim that finds writeEnd unmoved leaves one block free.
LEMMA HasRoomInv ==
  ASSUME IInv, NEW p \in Producers, HasRoom(p)
  PROVE  IInv'
<1>1. TypeOK'
  BY DEF IInv, TypeOK, HasRoom, Goto, cursors, cvars, PushPcs
<1>2. IndexInv'
  <2>1. writeEnd + 1 = readStart + Slots => Idx(writeEnd + 1) = Idx(readStart)
    BY IdxLap DEF IInv, TypeOK
  <2>2. index[p] = writeEnd => writeEnd + 1 < readStart + Slots
    BY <2>1, SlotsAssumption DEF IInv, TypeOK, CursorsOrdered, HasRoom
  <2>3. QED  BY <2>2 DEF IInv, TypeOK, IndexInv, HasRoom, Goto, cursors
<1>3. HoldInv'
  BY DEF IInv, HoldInv, Holds, HasRoom, Goto, cursors
<1>4. WrittenInv'
  BY DEF IInv, WrittenInv, Holds, HasRoom, Goto, cursors
<1>5. DataInv'
  BY DEF IInv, DataInv, Copied, HasRoom, Goto, cursors, cvars
<1>6. CursorsOrdered' /\ ConsumerInv' /\ HistoryInv'
  BY DEF IInv, CursorsOrdered, ConsumerInv, HistoryInv, Copied, HasRoom, cursors, cvars
<1>7. QED  BY <1>1, <1>2, <1>3, <1>4, <1>5, <1>6 DEF IInv

\* The claim of a block for writing preserves the inductive invariant.
LEMMA ClaimWriteEndInv ==
  ASSUME IInv, NEW p \in Producers, ClaimWriteEnd(p)
  PROVE  IInv'
<1>1. TypeOK'
  BY DEF IInv, TypeOK, HoldInv, ClaimWriteEnd, Goto, NoLap, cvars, PushPcs
<1>2. CursorsOrdered'
  BY IdxDistinct DEF IInv, TypeOK, CursorsOrdered, IndexInv, ClaimWriteEnd, Goto, NoLap
<1>3. IndexInv'
  BY SlotsAssumption DEF IInv, TypeOK, IndexInv, ClaimWriteEnd, Goto, NoLap
<1>4. HoldInv'
  BY IdxType, IdxDistinct DEF IInv, TypeOK, CursorsOrdered, IndexInv, HoldInv, HistoryInv,
     Holds, ClaimWriteEnd, Goto, NoLap
<1>5. WrittenInv'
  BY DEF IInv, TypeOK, WrittenInv, Holds, ClaimWriteEnd, Goto, NoLap
<1>6. DataInv'
  <2>0. Copied' = Copied /\ data' = data /\ writeEnd' - 1 = writeEnd
    BY DEF IInv, TypeOK, Copied, ClaimWriteEnd, cvars
  <2> SUFFICES ASSUME NEW k \in Copied .. writeEnd,
                      \A q \in Producers : pc'[q] = "write" => block'[q] # k
               PROVE  data[Idx(k)] = accepted'[k + 1]
    BY <2>0 DEF DataInv
  <2>1. block'[p] = writeEnd /\ pc'[p] = "write"
    BY DEF IInv, TypeOK, ClaimWriteEnd, Goto
  <2>2. k \in Copied .. writeEnd - 1
    BY <2>1 DEF IInv, TypeOK, Copied
  <2>3. \A q \in Producers : pc[q] = "write" => block[q] # k
    BY DEF IInv, TypeOK, ClaimWriteEnd, Goto
  <2>4. k \in Nat /\ k + 1 \in 1 .. Len(accepted)
    BY <2>2 DEF IInv, TypeOK, CursorsOrdered, ConsumerInv, HistoryInv, Copied
  <2>5. packet[p] \in Packets
    BY DEF IInv, HoldInv, ClaimWriteEnd, Goto
  <2>6. accepted'[k + 1] = accepted[k + 1]
    BY <2>4, <2>5 DEF IInv, TypeOK, ClaimWriteEnd
  <2>7. QED  BY <2>2, <2>3, <2>6 DEF IInv, DataInv
<1>7. HistoryInv'
  BY IdxType DEF IInv, TypeOK, CursorsOrdered, DataInv, HistoryInv, Copied, ClaimWriteEnd,
     Goto, NoLap, cvars, PopPcs
<1>8. ConsumerInv'
  BY DEF IInv, ConsumerInv, ClaimWriteEnd, NoLap, cvars
<1>9. QED  BY <1>1, <1>2, <1>3, <1>4, <1>5, <1>6, <1>7, <1>8 DEF IInv

\* A failed claim preserves the inductive invariant.
LEMMA ClaimFailsInv ==
  ASSUME IInv, NEW p \in Producers, ClaimFails(p)
  PROVE  IInv'
<1>1. TypeOK'
  BY DEF IInv, TypeOK, ClaimFails, Goto, cursors, cvars, PushPcs
<1>2. IndexInv'
  BY DEF IInv, TypeOK, IndexInv, ClaimFails, Goto, cursors
<1>3. HoldInv'
  BY DEF IInv, HoldInv, Holds, ClaimFails, Goto, cursors
<1>4. WrittenInv'
  BY DEF IInv, WrittenInv, Holds, ClaimFails, Goto, cursors
<1>5. DataInv'
  BY DEF IInv, DataInv, Copied, ClaimFails, Goto, cursors, cvars
<1>6. CursorsOrdered' /\ ConsumerInv' /\ HistoryInv'
  BY DEF IInv, CursorsOrdered, ConsumerInv, HistoryInv, Copied, ClaimFails, cursors, cvars
<1>7. QED  BY <1>1, <1>2, <1>3, <1>4, <1>5, <1>6 DEF IInv

\* Copying a packet into the claimed block preserves the inductive invariant:
\* the block is no other block in use.
LEMMA WriteBlockInv ==
  ASSUME IInv, NEW p \in Producers, WriteBlock(p)
  PROVE  IInv'
<1>1. TypeOK'
  BY DEF IInv, TypeOK, WriteBlock, Goto, cursors, cvars, PushPcs
<1>2. IndexInv'
  BY DEF IInv, IndexInv, WriteBlock, Goto, cursors
<1>3. HoldInv'
  BY DEF IInv, HoldInv, Holds, WriteBlock, Goto, cursors
<1>4. WrittenInv'
  BY DEF IInv, WrittenInv, Holds, WriteBlock, Goto, cursors
<1>5. DataInv'
  <2> SUFFICES ASSUME NEW k \in Copied .. writeEnd - 1,
                      \A q \in Producers : pc'[q] = "write" => block[q] # k
               PROVE  data'[Idx(k)] = accepted[k + 1]
    BY DEF DataInv, Copied, WriteBlock, cursors, cvars
  <2>1. k \in Nat /\ readStart <= k /\ Idx(k) \in Blocks
    BY IdxType DEF IInv, TypeOK, CursorsOrdered, ConsumerInv, Copied
  <2>2. CASE k = block[p]
    BY <2>1, <2>2 DEF IInv, TypeOK, HoldInv, Holds, WriteBlock, Goto
  <2>3. CASE k # block[p]
    <3>1. block[p] \in Nat /\ readStart <= block[p] /\ block[p] < writeEnd
      BY DEF IInv, TypeOK, CursorsOrdered, HoldInv, Holds, WriteBlock, Goto
    <3>2. Idx(k) # Idx(block[p])
      BY <2>1, <2>3, <3>1, IdxDistinct, SlotsAssumption DEF IInv, TypeOK, CursorsOrdered
    <3>3. data'[Idx(k)] = data[Idx(k)]
      BY <2>1, <3>2 DEF IInv, TypeOK, WriteBlock
    <3>4. \A q \in Producers : pc[q] = "write" => block[q] # k
      BY <2>3 DEF IInv, TypeOK, WriteBlock, Goto
    <3>5. QED  BY <3>3, <3>4 DEF IInv, DataInv
  <2>4. QED  BY <2>2, <2>3
<1>6. CursorsOrdered' /\ ConsumerInv' /\ HistoryInv'
  BY DEF IInv, CursorsOrdered, ConsumerInv, HistoryInv, Copied, WriteBlock, cursors, cvars
<1>7. QED  BY <1>1, <1>2, <1>3, <1>4, <1>5, <1>6 DEF IInv

\* Setting hasBeenWritten preserves the inductive invariant.
LEMMA SetWrittenInv ==
  ASSUME IInv, NEW p \in Producers, SetWritten(p)
  PROVE  IInv'
<1>1. TypeOK'
  BY DEF IInv, TypeOK, SetWritten, Goto, cursors, cvars, PushPcs
<1>2. IndexInv'
  BY DEF IInv, IndexInv, SetWritten, Goto, cursors
<1>3. HoldInv'
  BY DEF IInv, TypeOK, HoldInv, Holds, SetWritten, Goto, cursors
<1>4. WrittenInv'
  BY SlotsAssumption, IdxDistinct DEF IInv, TypeOK, CursorsOrdered, HoldInv, WrittenInv,
     Holds, SetWritten, Goto, cursors
<1>5. DataInv'
  BY DEF IInv, DataInv, Copied, SetWritten, Goto, cursors, cvars
<1>6. CursorsOrdered' /\ ConsumerInv' /\ HistoryInv'
  BY DEF IInv, CursorsOrdered, ConsumerInv, HistoryInv, Copied, SetWritten, cursors, cvars
<1>7. QED  BY <1>1, <1>2, <1>3, <1>4, <1>5, <1>6 DEF IInv

\* Loading writeStart preserves the inductive invariant.
LEMMA LoadWriteStartInv ==
  ASSUME IInv, NEW p \in Producers, LoadWriteStart(p)
  PROVE  IInv'
<1>1. TypeOK'
  BY DEF IInv, TypeOK, LoadWriteStart, Goto, cursors, cvars, PushPcs
<1>2. IndexInv'
  BY SlotsAssumption DEF IInv, TypeOK, CursorsOrdered, IndexInv, LoadWriteStart, Goto,
     cursors
<1>3. HoldInv'
  BY DEF IInv, HoldInv, Holds, LoadWriteStart, Goto, cursors
<1>4. WrittenInv'
  BY DEF IInv, WrittenInv, Holds, LoadWriteStart, Goto, cursors
<1>5. DataInv'
  BY DEF IInv, DataInv, Copied, LoadWriteStart, Goto, cursors, cvars
<1>6. CursorsOrdered' /\ ConsumerInv' /\ HistoryInv'
  BY DEF IInv, CursorsOrdered, ConsumerInv, HistoryInv, Copied, LoadWriteStart, cursors,
     cvars
<1>7. QED  BY <1>1, <1>2, <1>3, <1>4, <1>5, <1>6 DEF IInv

\* Clearing hasBeenWritten of the block at writeStart preserves the inductive
\* invariant: the thread that clears it is the only one to advance over it.
LEMMA ClearWrittenInv ==
  ASSUME IInv, NEW p \in Producers, ClearWritten(p)
  PROVE  IInv'
<1>1. TypeOK'
  BY DEF IInv, TypeOK, ClearWritten, Goto, cursors, cvars, PushPcs
<1>2. IndexInv'
  BY DEF IInv, IndexInv, ClearWritten, Goto, cursors
<1>3. HoldInv'
  BY DEF IInv, HoldInv, Holds, ClearWritten, Goto, cursors
<1>4. WrittenInv'
  BY SlotsAssumption, IdxType, IdxDistinct DEF IInv, TypeOK, IndexInv, WrittenInv, Holds,
     ClearWritten, Goto, cursors
<1>5. DataInv'
  BY DEF IInv, DataInv, Copied, ClearWritten, Goto, cursors, cvars
<1>6. CursorsOrdered' /\ ConsumerInv' /\ HistoryInv'
  BY DEF IInv, CursorsOrdered, ConsumerInv, HistoryInv, Copied, ClearWritten, cursors, cvars
<1>7. QED  BY <1>1, <1>2, <1>3, <1>4, <1>5, <1>6 DEF IInv

\* Leaving the advance loop of a push preserves the inductive invariant.
LEMMA NothingToAdvanceInv ==
  ASSUME IInv, NEW p \in Producers, NothingToAdvance(p)
  PROVE  IInv'
<1>1. TypeOK'
  BY DEF IInv, TypeOK, NothingToAdvance, Goto, cursors, cvars, PushPcs
<1>2. IndexInv'
  BY DEF IInv, TypeOK, IndexInv, NothingToAdvance, Goto, cursors
<1>3. HoldInv'
  BY DEF IInv, HoldInv, Holds, NothingToAdvance, Goto, cursors
<1>4. WrittenInv'
  BY DEF IInv, WrittenInv, Holds, NothingToAdvance, Goto, cursors
<1>5. DataInv'
  BY DEF IInv, DataInv, Copied, NothingToAdvance, Goto, cursors, cvars
<1>6. CursorsOrdered' /\ ConsumerInv' /\ HistoryInv'
  BY DEF IInv, CursorsOrdered, ConsumerInv, HistoryInv, Copied, NothingToAdvance, cursors,
     cvars
<1>7. QED  BY <1>1, <1>2, <1>3, <1>4, <1>5, <1>6 DEF IInv

\* Advancing writeStart preserves the inductive invariant.
LEMMA BumpWriteStartInv ==
  ASSUME IInv, NEW p \in Producers, BumpWriteStart(p)
  PROVE  IInv'
<1>1. TypeOK'
  BY DEF IInv, TypeOK, BumpWriteStart, Goto, cvars, PushPcs
<1>2. CursorsOrdered'
  BY DEF IInv, TypeOK, CursorsOrdered, WrittenInv, BumpWriteStart, Goto
<1>3. ConsumerInv'
  BY DEF IInv, TypeOK, ConsumerInv, BumpWriteStart, cvars
<1>4. IndexInv'
  BY DEF IInv, TypeOK, IndexInv, BumpWriteStart, Goto
<1>5. HoldInv'
  BY DEF IInv, TypeOK, HoldInv, WrittenInv, Holds, BumpWriteStart, Goto
<1>6. WrittenInv'
  BY DEF IInv, TypeOK, IndexInv, HoldInv, WrittenInv, HistoryInv, Holds, BumpWriteStart,
     Goto
<1>7. DataInv'
  BY DEF IInv, DataInv, Copied, BumpWriteStart, Goto, cvars
<1>8. HistoryInv'
  BY DEF IInv, HistoryInv, Copied, BumpWriteStart, cvars
<1>9. QED  BY <1>1, <1>2, <1>3, <1>4, <1>5, <1>6, <1>7, <1>8 DEF IInv

\* Signalling the semaphore preserves the inductive invariant.
LEMMA SignalInv ==
  ASSUME IInv, NEW p \in Producers, Signal(p)
  PROVE  IInv'
<1>1. TypeOK'
  BY DEF IInv, TypeOK, Signal, Goto, cursors, cvars, PushPcs
<1>2. IndexInv'
  BY DEF IInv, IndexInv, Signal, Goto, cursors
<1>3. HoldInv'
  BY DEF IInv, HoldInv, Holds, Signal, Goto, cursors
<1>4. WrittenInv'
  BY DEF IInv, WrittenInv, Holds, Signal, Goto, cursors
<1>5. DataInv'
  BY DEF IInv, DataInv, Copied, Signal, Goto, cursors, cvars
<1>6. CursorsOrdered' /\ ConsumerInv' /\ HistoryInv'
  BY DEF IInv, CursorsOrdered, ConsumerInv, HistoryInv, Copied, Signal, cursors, cvars
<1>7. QED  BY <1>1, <1>2, <1>3, <1>4, <1>5, <1>6 DEF IInv

\* Taking a permit of the semaphore preserves the inductive invariant.
LEMMA WaitInv ==
  ASSUME IInv, Wait
  PROVE  IInv'
<1>1. TypeOK'
  BY DEF IInv, TypeOK, Wait, CGoto, cursors, pvars, PopPcs
<1>2. ConsumerInv'
  BY DEF IInv, ConsumerInv, Wait, CGoto, cursors
<1>3. DataInv'
  BY DEF IInv, DataInv, Copied, Wait, CGoto, cursors, pvars
<1>4. HistoryInv'
  BY DEF IInv, HistoryInv, Copied, Wait, CGoto, cursors
<1>5. CursorsOrdered' /\ IndexInv' /\ HoldInv' /\ WrittenInv'
  BY DEF IInv, CursorsOrdered, IndexInv, HoldInv, Holds, WrittenInv, Wait, cursors, pvars
<1>6. QED  BY <1>1, <1>2, <1>3, <1>4, <1>5 DEF IInv

\* A pop that returns ERR_Again preserves the inductive invariant.
LEMMA PopEmptyInv ==
  ASSUME IInv, PopEmpty
  PROVE  IInv'
<1>1. TypeOK'
  BY DEF IInv, TypeOK, PopEmpty, CGoto, AfterEmpty, FirstPc, cursors, pvars, PopPcs
<1>2. ConsumerInv'
  BY DEF IInv, ConsumerInv, PopEmpty, CGoto, AfterEmpty, FirstPc, cursors
<1>3. DataInv'
  BY DEF IInv, DataInv, Copied, PopEmpty, CGoto, AfterEmpty, FirstPc, cursors, pvars
<1>4. HistoryInv'
  BY DEF IInv, HistoryInv, Copied, PopEmpty, CGoto, AfterEmpty, FirstPc, cursors
<1>5. CursorsOrdered' /\ IndexInv' /\ HoldInv' /\ WrittenInv'
  BY DEF IInv, CursorsOrdered, IndexInv, HoldInv, Holds, WrittenInv, PopEmpty, AfterEmpty,
     FirstPc, cursors, pvars
<1>6. QED  BY <1>1, <1>2, <1>3, <1>4, <1>5 DEF IInv

\* A pop that finds a packet preserves the inductive invariant.
LEMMA PopAvailableInv ==
  ASSUME IInv, PopAvailable
  PROVE  IInv'
<1>1. TypeOK'
  BY DEF IInv, TypeOK, PopAvailable, CGoto, cursors, pvars, PopPcs
<1>2. ConsumerInv'
  BY DEF IInv, TypeOK, CursorsOrdered, ConsumerInv, PopAvailable, CGoto, cursors
<1>3. DataInv'
  BY DEF IInv, DataInv, Copied, PopAvailable, CGoto, cursors, pvars
<1>4. HistoryInv'
  BY DEF IInv, HistoryInv, Copied, PopAvailable, CGoto, cursors
<1>5. CursorsOrdered' /\ IndexInv' /\ HoldInv' /\ WrittenInv'
  BY DEF IInv, CursorsOrdered, IndexInv, HoldInv, Holds, WrittenInv, PopAvailable, cursors,
     pvars
<1>6. QED  BY <1>1, <1>2, <1>3, <1>4, <1>5 DEF IInv

\* The claim of a block for reading preserves the inductive invariant.
LEMMA ClaimReadEndInv ==
  ASSUME IInv, ClaimReadEnd
  PROVE  IInv'
<1>1. TypeOK'
  BY DEF IInv, TypeOK, ClaimReadEnd, CGoto, pvars, PopPcs
<1>2. CursorsOrdered'
  BY DEF IInv, TypeOK, CursorsOrdered, ConsumerInv, ClaimReadEnd, CGoto
<1>3. ConsumerInv'
  BY DEF IInv, ConsumerInv, ClaimReadEnd, CGoto
<1>4. DataInv'
  <2>1. Copied' = readEnd /\ Copied = readEnd
    BY DEF IInv, TypeOK, ClaimReadEnd, CGoto, Copied
  <2>2. QED  BY <2>1 DEF IInv, DataInv, ClaimReadEnd, pvars
<1>5. HistoryInv'
  BY DEF IInv, IndexInv, HistoryInv, Copied, ClaimReadEnd, CGoto
<1>6. IndexInv' /\ HoldInv' /\ WrittenInv'
  BY DEF IInv, IndexInv, HoldInv, Holds, WrittenInv, ClaimReadEnd, pvars
<1>7. QED  BY <1>1, <1>2, <1>3, <1>4, <1>5, <1>6 DEF IInv

\* A spurious failure of that claim preserves the inductive invariant.
LEMMA PopClaimFailsInv ==
  ASSUME IInv, PopClaimFails
  PROVE  IInv'
<1>1. TypeOK'
  BY DEF IInv, TypeOK, PopClaimFails, CGoto, cursors, pvars, PopPcs
<1>2. ConsumerInv'
  BY DEF IInv, ConsumerInv, PopClaimFails, CGoto, cursors
<1>3. DataInv'
  BY DEF IInv, DataInv, Copied, PopClaimFails, CGoto, cursors, pvars
<1>4. HistoryInv'
  BY DEF IInv, HistoryInv, Copied, PopClaimFails, CGoto, cursors
<1>5. CursorsOrdered' /\ IndexInv' /\ HoldInv' /\ WrittenInv'
  BY DEF IInv, CursorsOrdered, IndexInv, HoldInv, Holds, WrittenInv, PopClaimFails, cursors,
     pvars
<1>6. QED  BY <1>1, <1>2, <1>3, <1>4, <1>5 DEF IInv

\* The block the consumer has claimed contains the next accepted packet.
LEMMA BlockReadIsAccepted ==
  ASSUME IInv, cpc = "read"
  PROVE  data[Idx(readEnd - 1)] = accepted[readEnd] /\ readEnd \in 1 .. Len(accepted)
<1>1. readEnd \in 1 .. writeEnd /\ Copied = readEnd - 1 /\ Len(accepted) = writeEnd
  BY DEF IInv, TypeOK, CursorsOrdered, ConsumerInv, HistoryInv, Copied
<1>2. \A p \in Producers : pc[p] = "write" => block[p] # readEnd - 1
  BY DEF IInv, TypeOK, CursorsOrdered, HoldInv, Holds
<1>3. data[Idx(readEnd - 1)] = accepted[(readEnd - 1) + 1]
  BY <1>1, <1>2 DEF IInv, TypeOK, DataInv
<1>4. QED  BY <1>1, <1>3

\* Copying the packet out of its block preserves the inductive invariant: it is
\* the next of the accepted packets.
LEMMA ReadBlockInv ==
  ASSUME IInv, ReadBlock
  PROVE  IInv'
<1>1. TypeOK'
  <2>1. data[Idx(readEnd - 1)] \in Packets
    BY BlockReadIsAccepted DEF IInv, TypeOK, ReadBlock, CGoto
  <2>2. QED  BY <2>1 DEF IInv, TypeOK, ReadBlock, CGoto, cursors, pvars, PopPcs
<1>2. ConsumerInv'
  BY DEF IInv, ConsumerInv, ReadBlock, CGoto, cursors
<1>3. DataInv'
  <2>1. Copied' = readEnd /\ Copied = readEnd - 1
    BY DEF ReadBlock, CGoto, Copied, cursors
  <2>2. QED  BY <2>1 DEF IInv, TypeOK, DataInv, ReadBlock, cursors, pvars
<1>4. HistoryInv'
  <2>1. Copied' = readEnd /\ Copied = readEnd - 1
    BY DEF ReadBlock, CGoto, Copied, cursors
  <2>2. data[Idx(readEnd - 1)] = accepted[readEnd] /\ readEnd \in 1 .. writeEnd
    BY BlockReadIsAccepted DEF IInv, HistoryInv, ReadBlock, CGoto
  <2>3. Len(delivered') = readEnd
    BY <2>1, <2>2 DEF IInv, TypeOK, HistoryInv, ReadBlock
  <2>4. ASSUME NEW i \in 1 .. readEnd PROVE delivered'[i] = accepted[i]
    BY <2>1, <2>2 DEF IInv, TypeOK, HistoryInv, ReadBlock
  <2>5. QED  BY <2>1, <2>3, <2>4 DEF IInv, HistoryInv, ReadBlock, cursors
<1>5. CursorsOrdered' /\ IndexInv' /\ HoldInv' /\ WrittenInv'
  BY DEF IInv, CursorsOrdered, IndexInv, HoldInv, Holds, WrittenInv, ReadBlock, cursors,
     pvars
<1>6. QED  BY <1>1, <1>2, <1>3, <1>4, <1>5 DEF IInv

\* Setting hasBeenRead preserves the inductive invariant.
LEMMA SetReadInv ==
  ASSUME IInv, SetRead
  PROVE  IInv'
<1>1. TypeOK'
  BY DEF IInv, TypeOK, SetRead, CGoto, cursors, pvars, PopPcs
<1>2. ConsumerInv'
  BY IdxType DEF IInv, TypeOK, ConsumerInv, SetRead, CGoto, cursors
<1>3. DataInv'
  BY DEF IInv, DataInv, Copied, SetRead, CGoto, cursors, pvars
<1>4. HistoryInv'
  BY DEF IInv, HistoryInv, Copied, SetRead, CGoto, cursors
<1>5. CursorsOrdered' /\ IndexInv' /\ HoldInv' /\ WrittenInv'
  BY DEF IInv, CursorsOrdered, IndexInv, HoldInv, Holds, WrittenInv, SetRead, cursors, pvars
<1>6. QED  BY <1>1, <1>2, <1>3, <1>4, <1>5 DEF IInv

\* Clearing hasBeenRead preserves the inductive invariant.
LEMMA ClearReadInv ==
  ASSUME IInv, ClearRead
  PROVE  IInv'
<1>1. TypeOK'
  BY DEF IInv, TypeOK, ClearRead, CGoto, cursors, pvars, PopPcs
<1>2. ConsumerInv'
  BY IdxType DEF IInv, TypeOK, ConsumerInv, ClearRead, CGoto, cursors
<1>3. DataInv'
  BY DEF IInv, DataInv, Copied, ClearRead, CGoto, cursors, pvars
<1>4. HistoryInv'
  BY DEF IInv, HistoryInv, Copied, ClearRead, CGoto, cursors
<1>5. CursorsOrdered' /\ IndexInv' /\ HoldInv' /\ WrittenInv'
  BY DEF IInv, CursorsOrdered, IndexInv, HoldInv, Holds, WrittenInv, ClearRead, cursors,
     pvars
<1>6. QED  BY <1>1, <1>2, <1>3, <1>4, <1>5 DEF IInv

\* Advancing readStart preserves the inductive invariant.
LEMMA BumpReadStartInv ==
  ASSUME IInv, BumpReadStart
  PROVE  IInv'
<1>1. TypeOK'
  BY DEF IInv, TypeOK, BumpReadStart, CGoto, pvars, PopPcs
<1>2. CursorsOrdered'
  BY SlotsAssumption DEF IInv, TypeOK, CursorsOrdered, ConsumerInv, BumpReadStart, CGoto
<1>3. ConsumerInv'
  BY DEF IInv, ConsumerInv, BumpReadStart, CGoto
<1>4. IndexInv'
  BY SlotsAssumption DEF IInv, TypeOK, IndexInv, BumpReadStart, pvars
<1>5. DataInv'
  BY DEF IInv, DataInv, Copied, BumpReadStart, CGoto, pvars
<1>6. HistoryInv'
  BY DEF IInv, HistoryInv, Copied, BumpReadStart, CGoto
<1>7. HoldInv' /\ WrittenInv'
  BY DEF IInv, HoldInv, Holds, WrittenInv, BumpReadStart, pvars
<1>8. QED  BY <1>1, <1>2, <1>3, <1>4, <1>5, <1>6, <1>7 DEF IInv

\* Returning from ringbuf_pop preserves the inductive invariant.
LEMMA PopReturnsInv ==
  ASSUME IInv, PopReturns
  PROVE  IInv'
<1>1. TypeOK'
  BY DEF IInv, TypeOK, PopReturns, CGoto, AfterPacket, cursors, pvars, PopPcs
<1>2. ConsumerInv'
  BY DEF IInv, ConsumerInv, PopReturns, CGoto, AfterPacket, cursors
<1>3. DataInv'
  BY DEF IInv, DataInv, Copied, PopReturns, CGoto, AfterPacket, cursors, pvars
<1>4. HistoryInv'
  BY DEF IInv, HistoryInv, Copied, PopReturns, CGoto, AfterPacket, cursors
<1>5. CursorsOrdered' /\ IndexInv' /\ HoldInv' /\ WrittenInv'
  BY DEF IInv, CursorsOrdered, IndexInv, HoldInv, Holds, WrittenInv, PopReturns,
     AfterPacket, cursors, pvars
<1>6. QED  BY <1>1, <1>2, <1>3, <1>4, <1>5 DEF IInv

\* A stuttering step preserves the inductive invariant.
LEMMA StutterInv == ASSUME IInv, UNCHANGED vars PROVE IInv'
  BY DEF IInv, TypeOK, CursorsOrdered, ConsumerInv, IndexInv, HoldInv, WrittenInv, DataInv,
         HistoryInv, Holds, Copied, vars, cursors, pvars, cvars

\* ringbuf_init establishes the inductive invariant.
LEMMA InitInv == Init => IInv
<1> SUFFICES ASSUME Init PROVE IInv
  OBVIOUS
<1>1. TypeOK
  BY DEF Init, TypeOK, FirstPc, PushPcs, PopPcs
<1>2. CursorsOrdered /\ IndexInv /\ HoldInv
  BY SlotsAssumption DEF Init, CursorsOrdered, IndexInv, HoldInv, Holds
<1>3. ConsumerInv /\ WrittenInv
  BY DEF Init, ConsumerInv, WrittenInv, FirstPc
<1>4. DataInv /\ HistoryInv
  BY DEF Init, DataInv, HistoryInv, Copied, FirstPc
<1>5. QED  BY <1>1, <1>2, <1>3, <1>4 DEF IInv

\* Every step of a producer or of the consumer preserves the inductive invariant.
LEMMA NextInv == ASSUME IInv, [Next]_vars PROVE IInv'
<1>1. CASE UNCHANGED vars  BY <1>1, StutterInv
<1>2. ASSUME NEW p \in Producers, NEW v \in Packets, BeginPush(p, v) PROVE IInv'
  BY <1>2, BeginPushInv
<1>3. ASSUME NEW p \in Producers, PushStep(p) PROVE IInv'
  BY <1>3, LoadWriteEndInv, OutOfSpaceInv, HasRoomInv, WriteBlockInv, SetWrittenInv,
     LoadWriteStartInv, ClearWrittenInv, NothingToAdvanceInv, BumpWriteStartInv, SignalInv
     DEF PushStep
<1>4. ASSUME NEW p \in Producers, ClaimWriteEnd(p) \/ ClaimFails(p) PROVE IInv'
  BY <1>4, ClaimWriteEndInv, ClaimFailsInv
<1>5. CASE PopStep
  BY <1>5, WaitInv, PopEmptyInv, PopAvailableInv, ReadBlockInv, SetReadInv, ClearReadInv,
     BumpReadStartInv, PopReturnsInv DEF PopStep
<1>6. CASE ClaimReadEnd \/ PopClaimFails
  BY <1>6, ClaimReadEndInv, PopClaimFailsInv
<1>7. QED  BY <1>1, <1>2, <1>3, <1>4, <1>5, <1>6 DEF Next

-----------------------------------------------------------------------------
(* The theorems.                                                           *)

\* The inductive invariant holds in every reachable state.
THEOREM InductiveInvariant == Spec => []IInv
<1>1. Init => IInv  BY InitInv
<1>2. IInv /\ [Next]_vars => IInv'  BY NextInv
<1>3. QED  BY <1>1, <1>2, PTL DEF Spec

\* Every variable of the ring buffer keeps its type; in particular nothing but
\* a pushed packet is ever popped.
THEOREM TypeCorrect == Spec => []TypeOK
<1>1. IInv => TypeOK  BY DEF IInv
<1>2. QED  BY <1>1, InductiveInvariant, PTL

\* The cursors of ringbuf.c never overtake one another, whatever the number of
\* pushing threads.
THEOREM CursorsStayOrdered == Spec => []CursorsOrdered
<1>1. IInv => CursorsOrdered  BY DEF IInv
<1>2. QED  BY <1>1, InductiveInvariant, PTL

\* No block is copied by two threads at once: the unsynchronised memcpys of
\* ringbuf_push_impl and ringbuf_pop_impl do not race.
THEOREM CopiesNeverRace == Spec => []BlocksExclusive
<1>1. ASSUME IInv PROVE BlocksExclusive
  <2>1. \A p \in Producers : pc[p] = "write" =>
          block[p] \in Nat /\ writeStart <= block[p] /\ block[p] < writeEnd
    BY <1>1 DEF IInv, TypeOK, HoldInv, Holds
  <2>2. writeEnd < writeStart + Slots /\ writeStart \in Nat /\ writeEnd \in Nat
    BY <1>1, SlotsAssumption DEF IInv, TypeOK, CursorsOrdered
  <2>3. ASSUME NEW p \in Producers, NEW q \in Producers, p # q, pc[p] = "write", pc[q] = "write"
        PROVE  Idx(block[p]) # Idx(block[q])
    <3>1. block[p] # block[q]  BY <1>1, <2>3 DEF IInv, HoldInv, Holds
    <3>2. QED  BY <2>1, <2>2, <2>3, <3>1, IdxDistinct, SlotsAssumption
  <2>4. ASSUME NEW p \in Producers, pc[p] = "write", cpc = "read"
        PROVE  Idx(block[p]) # Idx(readEnd - 1)
    <3>1. readEnd - 1 = readStart /\ readEnd <= writeStart /\ writeEnd < readStart + Slots
          /\ readStart \in Nat /\ readEnd \in Nat
      BY <1>1, <2>4 DEF IInv, TypeOK, CursorsOrdered, ConsumerInv
    <3>2. QED  BY <2>1, <2>2, <2>4, <3>1, IdxDistinct, SlotsAssumption
  <2>5. QED  BY <2>3, <2>4 DEF BlocksExclusive
<1>2. QED  BY <1>1, InductiveInvariant, PTL

\* The packets popped are a prefix of the packets accepted: no packet is lost,
\* torn, duplicated or reordered between two threads.
THEOREM PacketsInOrder == Spec => []FirstInFirstOut
<1>1. ASSUME IInv PROVE FirstInFirstOut
  <2>1. Copied <= writeEnd
    BY <1>1 DEF IInv, TypeOK, CursorsOrdered, Copied
  <2>2. QED  BY <1>1, <2>1 DEF IInv, HistoryInv, FirstInFirstOut
<1>2. QED  BY <1>1, InductiveInvariant, PTL

\* A step that follows the inductive invariant keeps AwakeInv.
LEMMA AwakeNext == ASSUME IInv, AwakeInv, [Next]_vars PROVE AwakeInv'
<1>1. CASE UNCHANGED vars
  BY <1>1 DEF AwakeInv, vars, cursors, pvars, cvars
<1>2. ASSUME NEW p \in Producers, NEW v \in Packets, BeginPush(p, v) PROVE AwakeInv'
  BY <1>2 DEF IInv, TypeOK, AwakeInv, BeginPush, Goto, cursors, cvars
<1>3. ASSUME NEW p \in Producers,
             LoadWriteEnd(p) \/ OutOfSpace(p) \/ HasRoom(p) \/ WriteBlock(p) \/ ClaimFails(p)
      PROVE  AwakeInv'
  BY <1>3 DEF IInv, TypeOK, AwakeInv, LoadWriteEnd, OutOfSpace, HasRoom, WriteBlock,
     ClaimFails,
              Goto, cursors, cvars
<1>4. ASSUME NEW p \in Producers, ClaimWriteEnd(p) PROVE AwakeInv'
  BY <1>4 DEF IInv, TypeOK, AwakeInv, ClaimWriteEnd, Goto, cvars
<1>5. ASSUME NEW p \in Producers,
             SetWritten(p) \/ LoadWriteStart(p) \/ ClearWritten(p) \/ NothingToAdvance(p)
      PROVE  AwakeInv'
  BY <1>5 DEF IInv, TypeOK, AwakeInv, SetWritten, LoadWriteStart, ClearWritten,
     NothingToAdvance,
              Goto, cursors, cvars
<1>6. ASSUME NEW p \in Producers, BumpWriteStart(p) PROVE AwakeInv'
  <2>1. pc'[p] = "advance"  BY <1>6 DEF IInv, TypeOK, BumpWriteStart, Goto
  <2>2. QED  BY <2>1 DEF AwakeInv
<1>7. ASSUME NEW p \in Producers, Signal(p) PROVE AwakeInv'
  <2>1. semaphore' > 0  BY <1>7 DEF IInv, TypeOK, Signal
  <2>2. QED  BY <2>1 DEF AwakeInv
<1>8. CASE PopEmpty
  <2>1. readEnd = writeStart
    BY <1>8, IdxDistinct, SlotsAssumption
       DEF IInv, TypeOK, CursorsOrdered, ConsumerInv, PopEmpty, CGoto
  <2>2. QED  BY <1>8, <2>1 DEF IInv, TypeOK, AwakeInv, PopEmpty, cursors
<1>9. CASE PopReturns
  BY <1>9 DEF AwakeInv, PopReturns, CGoto, AfterPacket
<1>10. CASE Wait \/ PopAvailable \/ ReadBlock \/ SetRead \/ ClearRead \/ BumpReadStart
            \/ ClaimReadEnd \/ PopClaimFails
  BY <1>10 DEF AwakeInv, Wait, PopAvailable, ReadBlock, SetRead, ClearRead, BumpReadStart,
               ClaimReadEnd, PopClaimFails, CGoto
<1>11. QED
  BY <1>1, <1>2, <1>3, <1>4, <1>5, <1>6, <1>7, <1>8, <1>9, <1>10 DEF Next, PushStep, PopStep

\* A thread that polls its queue, or that drains it after each wait, is never
\* left asleep with a packet in it: the semaphore may count fewer permits than
\* there are packets, and that is harmless as long as the consumer does not
\* wait once per packet.
THEOREM DrainersWake == Spec => [](mode # "single" => NothingStranded)
<1>1. Init => AwakeInv
  BY DEF Init, AwakeInv
<1>2. IInv /\ AwakeInv /\ [Next]_vars => AwakeInv'
  BY AwakeNext
<1>3. ASSUME AwakeInv PROVE mode # "single" => NothingStranded
  BY <1>3 DEF AwakeInv, NothingStranded
<1>4. QED  BY <1>1, <1>2, <1>3, InductiveInvariant, PTL DEF Spec

-----------------------------------------------------------------------------
(* The ring buffer implements BoundedQueue.                                *)

\* The part of a sequence from position m on.
LEMMA SuffixProperties ==
  ASSUME NEW S, NEW s \in Seq(S), NEW m \in 1 .. Len(s) + 1
  PROVE  /\ SubSeq(s, m, Len(s)) \in Seq(S)
         /\ Len(SubSeq(s, m, Len(s))) = Len(s) - m + 1
         /\ \A i \in 1 .. Len(s) - m + 1 : SubSeq(s, m, Len(s))[i] = s[m + i - 1]
<1>1. m \in Int /\ Len(s) \in Int /\ \A i \in m .. Len(s) : s[i] \in S
  BY LenProperties, ElementOfSeq
<1>2. QED  BY <1>1, SubSeqProperties

\* What a push adds at the end of a sequence it adds at the end of its suffix.
LEMMA SuffixOfAppend ==
  ASSUME NEW S, NEW s \in Seq(S), NEW e \in S, NEW m \in 1 .. Len(s) + 1
  PROVE  SubSeq(Append(s, e), m, Len(s) + 1) = Append(SubSeq(s, m, Len(s)), e)
<1> DEFINE t == Append(s, e)
           l == SubSeq(t, m, Len(s) + 1)
           r == Append(SubSeq(s, m, Len(s)), e)
<1>1. t \in Seq(S) /\ Len(t) = Len(s) + 1 /\ t[Len(s) + 1] = e
      /\ \A i \in 1 .. Len(s) : t[i] = s[i]
  BY AppendProperties
<1>2. m \in 1 .. Len(t) + 1  BY <1>1, LenProperties
<1>3. l \in Seq(S) /\ Len(l) = Len(s) + 1 - m + 1
      /\ \A i \in 1 .. Len(s) + 1 - m + 1 : l[i] = t[m + i - 1]
  BY <1>1, <1>2, SuffixProperties
<1>4. /\ SubSeq(s, m, Len(s)) \in Seq(S)
      /\ Len(SubSeq(s, m, Len(s))) = Len(s) - m + 1
      /\ \A i \in 1 .. Len(s) - m + 1 : SubSeq(s, m, Len(s))[i] = s[m + i - 1]
  BY SuffixProperties
<1>5. r \in Seq(S) /\ Len(r) = Len(s) - m + 1 + 1
      /\ \A i \in 1 .. Len(s) - m + 1 : r[i] = s[m + i - 1]
      /\ r[Len(s) - m + 1 + 1] = e
  BY <1>4, AppendProperties
<1>6. Len(s) \in Nat  BY LenProperties
<1>7. ASSUME NEW i \in 1 .. Len(l) PROVE l[i] = r[i]
  <2>1. CASE i = Len(s) - m + 1 + 1
    BY <1>1, <1>3, <1>5, <1>6, <2>1
  <2>2. CASE i # Len(s) - m + 1 + 1
    <3>1. i \in 1 .. Len(s) - m + 1 /\ m + i - 1 \in 1 .. Len(s)
      BY <1>3, <1>6, <2>2
    <3>2. QED  BY <1>1, <1>3, <1>5, <1>6, <3>1
  <2>3. QED  BY <2>1, <2>2
<1>8. Len(l) = Len(r)  BY <1>3, <1>5, <1>6
<1> HIDE DEF l, r
<1>9. l = r  BY <1>3, <1>5, <1>7, <1>8, SeqEqual
<1>10. QED  BY <1>9 DEF l, r

\* What the refinement mapping rests on: the packets between the blocks copied
\* out and writeEnd are those of the queue, and Copied is between the cursors.
LEMMA MappedQueue ==
  ASSUME IInv
  PROVE  /\ Copied \in Nat /\ writeStart \in Nat /\ writeEnd \in Nat
         /\ readStart <= Copied /\ Copied <= writeStart /\ writeStart <= writeEnd
         /\ accepted \in Seq(Packets) /\ Len(accepted) = writeEnd
         /\ Len(SubSeq(accepted, Copied + 1, writeEnd)) = writeEnd - Copied
<1>1. /\ Copied \in Nat /\ writeStart \in Nat /\ writeEnd \in Nat
      /\ readStart <= Copied /\ Copied <= writeStart /\ writeStart <= writeEnd
  BY DEF IInv, TypeOK, CursorsOrdered, ConsumerInv, Copied
<1>2. accepted \in Seq(Packets) /\ Len(accepted) = writeEnd
  BY DEF IInv, TypeOK, HistoryInv
<1>3. Copied + 1 \in 1 .. Len(accepted) + 1  BY <1>1, <1>2
<1>4. Len(SubSeq(accepted, Copied + 1, Len(accepted))) = Len(accepted) - (Copied + 1) + 1
  BY <1>2, <1>3, SuffixProperties
<1>5. QED  BY <1>1, <1>2, <1>4

\* The successful compare-and-swap of writeEnd is the step at which the queue
\* accepts the packet: the test for a free block made before it is still good.
LEMMA ClaimAccepts ==
  ASSUME IInv, NEW p \in Producers, ClaimWriteEnd(p)
  PROVE  Queue!Next
<1>1. packet[p] \in Packets
  BY DEF IInv, HoldInv, ClaimWriteEnd, Goto
<1>2. index[p] = writeEnd
  BY IdxDistinct DEF IInv, TypeOK, IndexInv, ClaimWriteEnd, Goto
<1>3. writeEnd + 1 < readStart + Slots /\ readStart \in Nat
  BY <1>2 DEF IInv, TypeOK, IndexInv, ClaimWriteEnd, Goto
<1>4. Len(SubSeq(accepted, Copied + 1, writeEnd)) < Slots - 1
  BY <1>3, MappedQueue, SlotsAssumption
<1>5. /\ accepted' = Append(accepted, packet[p])
      /\ writeEnd' = writeEnd + 1 /\ Copied' = Copied
      /\ writeStart' = writeStart /\ delivered' = delivered
  BY DEF ClaimWriteEnd, Copied, cvars
<1>6. SubSeq(accepted, Copied + 1, writeEnd)'
        = Append(SubSeq(accepted, Copied + 1, writeEnd), packet[p])
  <2>1. Copied + 1 \in 1 .. Len(accepted) + 1 /\ Len(accepted) = writeEnd
    BY MappedQueue
  <2>2. QED  BY <1>1, <1>5, <2>1, MappedQueue, SuffixOfAppend
<1>7. Queue!Accept(packet[p])
  BY <1>4, <1>5, <1>6 DEF Queue!Accept
<1>8. QED  BY <1>1, <1>7 DEF Queue!Next

\* The compare-and-swap of writeStart makes one more packet ready.
LEMMA BumpPublishes ==
  ASSUME IInv, NEW p \in Producers, BumpWriteStart(p)
  PROVE  Queue!Next
<1>1. writeStart' = writeStart + 1 /\ writeStart < writeEnd
  BY DEF IInv, WrittenInv, BumpWriteStart, Goto
<1>2. /\ accepted' = accepted /\ writeEnd' = writeEnd /\ Copied' = Copied
      /\ delivered' = delivered
  BY DEF BumpWriteStart, Copied, cvars
<1>3. Queue!Publish
  BY <1>1, <1>2, MappedQueue DEF Queue!Publish
<1>4. QED  BY <1>3 DEF Queue!Next

\* Copying the packet out of its block takes the head of the queue.
LEMMA ReadTakes ==
  ASSUME IInv, ReadBlock
  PROVE  Queue!Next
<1>1. data[Idx(readEnd - 1)] = accepted[readEnd] /\ readEnd \in 1 .. Len(accepted)
  BY BlockReadIsAccepted DEF ReadBlock, CGoto
<1>2. /\ Copied = readEnd - 1 /\ Copied' = readEnd
      /\ delivered' = Append(delivered, accepted[readEnd])
      /\ accepted' = accepted /\ writeEnd' = writeEnd /\ writeStart' = writeStart
  BY <1>1 DEF ReadBlock, CGoto, Copied, cursors
<1>3. readEnd <= writeStart /\ readEnd \in Nat
  BY DEF IInv, TypeOK, CursorsOrdered
<1>4. Copied + 1 = readEnd  BY <1>2, <1>3
<1>5. /\ Head(SubSeq(accepted, Copied + 1, writeEnd)) = accepted[readEnd]
      /\ Tail(SubSeq(accepted, Copied + 1, writeEnd)) = SubSeq(accepted, readEnd + 1, writeEnd)
  <2>1. readEnd \in 1 .. Len(accepted) /\ writeEnd \in readEnd .. Len(accepted)
    BY <1>1, MappedQueue
  <2>2. QED  BY <1>4, <2>1, MappedQueue, HeadTailOfSubSeq
<1>6. writeStart - Copied > 0 /\ (writeStart - Copied)' = writeStart - Copied - 1
  BY <1>2, <1>3, MappedQueue
<1>7. Queue!Take
  <2>1. SubSeq(accepted, Copied + 1, writeEnd)' = SubSeq(accepted, readEnd + 1, writeEnd)
    BY <1>2
  <2>2. QED  BY <1>2, <1>5, <1>6, <2>1, Zenon DEF Queue!Take
<1>8. QED  BY <1>7 DEF Queue!Next

\* Every other operation of ringbuf_push and ringbuf_pop leaves the queue as it is.
LEMMA OthersStutter ==
  ASSUME IInv, [Next]_vars, ~ReadBlock,
         \A p \in Producers : ~ClaimWriteEnd(p) /\ ~BumpWriteStart(p)
  PROVE  UNCHANGED Queue!vars
<1>1. /\ accepted' = accepted /\ writeEnd' = writeEnd /\ writeStart' = writeStart
      /\ delivered' = delivered /\ Copied' = Copied
  <2>1. CASE UNCHANGED vars
    BY <2>1 DEF vars, cursors, cvars, Copied
  <2>2. ASSUME NEW p \in Producers, NEW v \in Packets, BeginPush(p, v) PROVE <1>1
    BY <2>2 DEF BeginPush, cursors, cvars, Copied
  <2>3. ASSUME NEW p \in Producers, PushStep(p) \/ ClaimFails(p) PROVE <1>1
    BY <2>3 DEF PushStep, LoadWriteEnd, OutOfSpace, HasRoom, WriteBlock, SetWritten,
       LoadWriteStart, ClearWritten, NothingToAdvance, Signal, ClaimFails, cursors, cvars, Copied
  <2>4. CASE PopStep \/ PopClaimFails
    BY <2>4 DEF PopStep, Wait, PopEmpty, PopAvailable, SetRead, ClearRead, BumpReadStart,
       PopReturns, PopClaimFails, CGoto, AfterEmpty, AfterPacket, FirstPc, cursors, Copied
  <2>5. CASE ClaimReadEnd
    BY <2>5 DEF IInv, TypeOK, ClaimReadEnd, CGoto, Copied
  <2>6. QED  BY <2>1, <2>2, <2>3, <2>4, <2>5 DEF Next
<1>2. QED  BY <1>1 DEF Queue!vars

\* ringbuf.c implements the bounded first-in first-out queue its users rely on:
\* every operation on the atomics is an accept, a publish or a take of the
\* queue of Slots - 1 packets, or is invisible.
THEOREM Refinement == Spec => ImplementsQueue
<1>1. Init => Queue!Init
  <2> SUFFICES ASSUME Init PROVE Queue!Init
    OBVIOUS
  <2>1. Copied = 0 /\ writeEnd = 0 /\ writeStart = 0 /\ delivered = <<>>
    BY DEF Init, Copied, FirstPc
  <2>2. SubSeq(accepted, 0 + 1, 0) = <<>>
    BY SubSeqEmpty
  <2>3. QED  BY <2>1, <2>2 DEF Queue!Init
<1>2. IInv /\ [Next]_vars => [Queue!Next]_(Queue!vars)
  BY ClaimAccepts, BumpPublishes, ReadTakes, OthersStutter
<1>3. QED  BY <1>1, <1>2, InductiveInvariant, PTL DEF Spec, ImplementsQueue, Queue!Spec
=============================================================================
