SPECIFICATION FairSpec
CONSTANTS
  MaxPacket = 2
  Payload = {0, 1, 3, 5}
  Packets = 3
  FirstSeq = {0, 253, 255}
  Buffer = 3
INVARIANTS
  Faithful
  ConsecutiveNumbers
CHECK_DEADLOCK FALSE
