\* Up to two bytes lost to parity/timeout errors, movement bytes without
\* bit 3: the packets stay in order while nothing is lost, every packet
\* handed on is decoded from its own bytes, and the sync check realigns the
\* stream after every loss.
CONSTANTS
  Byte0Vals <- MCByte0Vals
  DataVals <- MCCleanDataVals
  MaxPackets = 3
  MaxErrors = 2
SPECIFICATION Spec
INVARIANT TypeOK
INVARIANT InOrderDelivery
INVARIANT HandedPacketsDecode
INVARIANT MisalignedBoundedByErrors
\* The mouse stops after MaxPackets packets; the loop then idles.
CHECK_DEADLOCK FALSE
