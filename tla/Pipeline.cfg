\* One or two processes of one or two workers, two iterations of each.
SPECIFICATION FairSpec

CONSTANTS
  Urls <- MCUrls
  Mixes <- MCMixes
  Plans <- MCPlans
  Forever = Forever
  Unlimited = Unlimited
  MaxTeam = 2
  MaxItems = 4

INVARIANTS
  EachSampleOnce
  CacheIsAPass
  EpochLength
  EmptyIsReported

PROPERTIES
  NextReturns
