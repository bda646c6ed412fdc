\* Two processes share a directory; one may exit and start again.
SPECIFICATION FairSpec

CONSTANTS
  p1 = p1
  p2 = p2
  r1 = r1
  r2 = r2
  r3 = r3
  Shards = {1, 2}
  Procs = {p1, p2}
  Readers = {r1, r3}
  Owner <- MCOwner
  Pids = {1, 2, 3}
  FirstPid <- MCFirstPid
  Disposals = {"resample", "unlink", "keep"}
  MaxCrashes = 1

INVARIANTS
  HolderOwnsItsShard
  NotPickedUpAgain

PROPERTIES
  ClaimsOfTheLivingStay
  AbandonedIsRecovered
  NextReturns
