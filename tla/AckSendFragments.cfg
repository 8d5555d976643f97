SPECIFICATION Spec
CONSTANTS
  AckMod = 65536
  AckWindow = 1024
  FirstAcks = {0, 65534}
  FragCounts = {1, 2, 3}
  MaxDatagrams = 4
  MaxResponses = 2
CHECK_DEADLOCK FALSE
INVARIANTS FragmentsKeepLength
