SPECIFICATION Spec
CONSTANTS
  ab = ab
  aUb = aUb
  c = c
  NoDoc = NoDoc
  State <- Names
  Schema <- Schemas3
  Batches <- Selections
  MaxJobs = 3
  MaxFaults = 1
INVARIANTS
  TypeOK
  ReportIsPrefix
PROPERTIES
  DestinationKept
  WritesAfterPreflight
  OkMeansInSync
