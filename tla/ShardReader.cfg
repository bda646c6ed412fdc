\* Two shards of every shape, read with every handler.
SPECIFICATION FairSpec

CONSTANTS
  Readahead = 2
  Names <- MCNames
  Lower <- MCLower
  Inputs <- MCInputs
  Handlers = {"continue", "stop", "reraise"}

INVARIANTS
  SamplesAreRuns
  NothingLost

PROPERTY ThreadEnds
