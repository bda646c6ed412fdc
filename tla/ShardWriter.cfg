\* Archives of at most two samples or three bytes, five calls, two failures.
SPECIFICATION WriterSpec

CONSTANTS
  MaxCount = 2
  MaxSize = 3
  StartShard = 2
  Samples <- MCSamples
  Bad = Bad
  MaxCalls = 5
  MaxFaults = 2

INVARIANTS
  AcceptedAreWhole
  ShardsFillUp
  HookedOnce
