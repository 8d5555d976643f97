SPECIFICATION FairSpec
CONSTANTS
  Producers = {p1, p2}
  Packets = {a, b}
  NoPacket = NoPacket
  Slots = 3
  Modes = {"poll", "drain"}
  MaxPushes = 4
INVARIANTS TypeOK CursorsOrdered BlocksExclusive FirstInFirstOut NothingStranded
PROPERTIES ImplementsQueue EventuallyDelivered
CHECK_DEADLOCK FALSE
