SPECIFICATION HistorySpec
CONSTANTS
  Records <- MCRecords
  MaxCopies = 2
  MaxTime = 2
  Retention = 1
  MaxRange = 2
  MaxLimit = 2
  MinBucket = 1
  DefaultBuckets = 2
  MaxBuckets = 5
  Deployment <- MCDeployment
  Requests <- MCRequests
  Probes <- MCProbes
  BaselineWindow = 3
  Discovery = 2
  Padding = 1
  MaxSlots = 1
  MinimumSamples = 2
  MaxRanges = 3
  IncidentWindows <- MCIncidents
INVARIANTS
  NothingIsSkipped
  AdaptersAgree
  EvidenceShowsTheEnd
  BaselineAvoidsDisruption
