\* The YanFS block callbacks over the channel: pairing, failure, reentrancy.
SPECIFICATION AdapterLiveSpec
CONSTANTS
  a = a
  b = b
  Torn = Torn
  Nothing = Nothing
  Values = {a, b}
  RingSize = 8
  HeaderSize = 2
  BlockSize = 5
  CapacitySize = 1
  CapacityBlocks = 2
  Requests = {}
  Starts = {0, 7}
  MaxRequests = 2
  MaxFaults = 1
  TagModulus = 1
INVARIANTS
  ResultIsTrue
  AlarmMeansReentry
PROPERTIES
  CallReturns
