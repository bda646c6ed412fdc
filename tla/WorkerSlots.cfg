\* Three contexts, alone and together, on a table of three slots.
SPECIFICATION RoomSpec

CONSTANTS
  Contexts = {0, 1, 2}
  MaxThreads = 3
  Identities <- MCIdentities
  Unset = Unset
  Callers = {0}
  MaxDepth <- MCDepth

INVARIANTS
  EverySearchFinds
  SlotsAreReturned

PROPERTY KeepsContextsApart
