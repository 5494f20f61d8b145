SPECIFICATION FairSpec
CONSTANTS
  MaxPacket = 2
  Payload = {1, 2}
  Packets = 1
  FirstSeq = {0}
  Buffer = 2
PROPERTIES
  WriteEnds
CHECK_DEADLOCK FALSE
