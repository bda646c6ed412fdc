\* Lists of two or three shards, one or two in flight, up to six items taken.
SPECIFICATION Spec

CONSTANTS
  Files <- MCFiles
  Broken = Broken
  Plans <- MCPlans
  Forever = Forever
  Unlimited = Unlimited
  MaxItems = 6

INVARIANTS
  SamplesAreRuns
  EpochsAreWhole
