\* Streams of up to five items, chains of up to two adapters, three datasets.
SPECIFICATION ChainSpec

CONSTANTS
  Unlimited = Unlimited
  Plans <- MCPlans

INVARIANTS
  KeepsItsPromise
  NeverPolledAfterEnd
