\* One byte lost mid-packet: the spec's claim that no packet is built from
\* misaligned bytes fails.
CONSTANTS
  Byte0Vals <- MCByte0Vals
  DataVals <- MCDataVals
  MaxPackets = 3
  MaxErrors = 1
SPECIFICATION Spec
INVARIANT PacketAligned
CHECK_DEADLOCK FALSE
