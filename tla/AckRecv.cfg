SPECIFICATION FairSpec
CONSTANTS
  AckMod = 65536
  AckWindow = 1024
  FirstAck = 1
  Sizes = {1, 2, 3}
  MaxDatagrams = 5
  MaxInFlight = 4
  Garbage = {0, 513}
  Channels = {"ordered", "waiting"}
  ResendFirst = FALSE
CHECK_DEADLOCK FALSE
INVARIANTS TypeOK HandedOffInOrder AckedWereReceived QueueExact
PROPERTIES EventuallyAcked
