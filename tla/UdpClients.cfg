SPECIFICATION FairSpec
CONSTANTS
  Addrs = {a1, a2}
  Objects = {o1, o2, o3}
  QueueSlots = 3
  CommandSlots = 1
  MaxDatagrams = 3
INVARIANTS TypeOK KnownWhileUsed ObjectsHaveOneHolder IndexesMatchSlots
PROPERTIES SweepRemovesTheDead EventuallyForgotten
