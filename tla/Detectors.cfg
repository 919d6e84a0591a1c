\* Samples of one pod and logs of one pattern, late by at most one, with a failed
\* step or a crash; samples for the rules in any order, repeated at will; and
\* two failures, Kubernetes events or expired readings.
CONSTANTS
  Pods = {a}
  Levels = {0, 12}
  Trigger = 4
  Resolve = 3
  Window = 1
  MinSamples = 2
  MinConsecutive = 1
  ResolveConsecutive = 1
  Cooldown = 1
  Ttl = 2
  FailureTtl = 1
  StaleAfter = 1
  Repeated = 2
  MaxEvents = 4
  MaxTime = 2
  MaxLag = 1
  MaxFaults = 1
  MaxCycles = 1
  None = None
  Missing = Missing
  Telemetry <- MCSamples
  NumRules = 2
  Series = {"metric"}
  ObservationsNeeded <- MCObservations
  DurationNeeded <- MCDurations
  RestartThreshold = 2
  NotReadyDuration = 1
  DegradationDuration = 1
  Collected <- MCCollected
  Notices <- MCNotices
  MaxDisturbances = 2
  MaxNow = 1
SPECIFICATION DetectorsSpec
CHECK_DEADLOCK FALSE
INVARIANTS
  ToldIsKnown
  EachLogCountsOnce
  HealthClears
PROPERTIES
  JudgedByRecentBaseline
  HeldThroughout
