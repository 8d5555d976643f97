SPECIFICATION Spec
CONSTANTS
  Producers = {p1, p2}
  Packets = {a, b}
  NoPacket = NoPacket
  Slots = 3
  Modes = {"single"}
  MaxPushes = 4
INVARIANTS NothingStranded
CHECK_DEADLOCK FALSE
