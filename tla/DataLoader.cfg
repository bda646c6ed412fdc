\* One epoch of the loader: what it delivers, when it ends, that it shuts down.
SPECIFICATION FairSpec

CONSTANTS
  MaxWorkers = 3
  MaxSource = 5
  MaxNext = 2
  Unbounded = Unbounded
  Configs <- MCConfigs

INVARIANTS
  InOrder
  EndIsComplete

PROPERTIES
  DropTerminates
  NextReturns
  Delivery
