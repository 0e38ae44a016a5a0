\* Pipelined requests over the rings: framing, flow control and the disk.
SPECIFICATION LiveSpec
CONSTANTS
  a = a
  b = b
  Torn = Torn
  Nothing = Nothing
  Values = {a, b}
  RingSize = 8
  HeaderSize = 2
  BlockSize = 2
  CapacitySize = 1
  CapacityBlocks = 2
  Requests <- MCRequests
  Starts = {0, 7}
  MaxRequests = 2
  MaxFaults = 1
CHECK_DEADLOCK FALSE
PROPERTIES
  DeviceSpec
  EveryRequestAnswered
