SPECIFICATION Spec
CONSTANTS
  AckMod = 65536
  AckWindow = 1024
  FirstAck = 1
  Sizes = {1}
  MaxDatagrams = 3
  MaxInFlight = 3
  Garbage = {0}
  Channels = {"any"}
  ResendFirst = FALSE
CHECK_DEADLOCK FALSE
INVARIANTS AckedWereReceived
