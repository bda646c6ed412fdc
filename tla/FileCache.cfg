\* Two workers open three shards, two of one name, through a directory that
\* should hold one.
SPECIFICATION Spec

CONSTANTS
  Workers = {w1, w2}
  Urls <- MCUrls
  NameOf <- MCNameOf
  Budget = 1
  Retries = 2
  Validate = TRUE
  MaxFaults = 2
  MaxCrashes = 1

SYMMETRY Symmetry

INVARIANTS
  OpenedIsWhole
  RacesDoNotFail
  BoundedDirectory
  BadFilesAreCaught
