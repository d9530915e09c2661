SPECIFICATION FairSpec
CONSTANTS
  None = None
  Volumes = {1, 2, 3}
  Nodes = {n1}
  Targets = {t1}
  Devices = {d1}
  Bases = {b1}
  Records <- MCRecords
  MaxEntries = {0, 1, 2}
INVARIANTS
  TypeOK
  NothingMissed
  AbortJustified
  PageFull
PROPERTIES
  ScanSpec
  ListingEnds
