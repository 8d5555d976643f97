-------------------------------- MODULE AckCmp --------------------------------
(***************************************************************************)
(* ack_mgr.c: acks are unsigned integers of 16 bits that wrap around, and  *)
(* ack_cmp decides whether one comes before or after another.              *)
(***************************************************************************)
EXTENDS Integers

CONSTANTS
  AckMod,      \* acks are 0 .. AckMod - 1; the code's uint16_t makes it 2^16
  AckWindow    \* ACK_CMP_WINDOW_HALF_SIZE

ASSUME AckAssumption ==
  AckMod \in Nat /\ AckWindow \in Nat /\ AckWindow >= 1 /\ AckMod >= 2 * AckWindow

Acks == 0 .. AckMod - 1

\* The conversion to uint16_t of an ack plus or minus something small.
AckAdd(ack, n) == (ack + n) % AckMod
AckSub(ack, n) == (ack + AckMod - n) % AckMod

\* expected + and - the window are computed as int: they do not wrap.
ack_cmp(got, expected) ==
  IF got = expected THEN "Present"
  ELSE IF \/ got > expected /\ got < expected + AckWindow
          \/ got < expected - AckWindow
       THEN "Future"
       ELSE "Past"
=============================================================================
