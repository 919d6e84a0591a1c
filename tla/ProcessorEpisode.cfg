\* A whole episode, each event delivered once, every fault; entry 2 is malformed.
SPECIFICATION Spec
CONSTANTS
  Telemetry <- MCEpisode
  NumRules = 1
  Series = {"memory", "log"}
  ObservationsNeeded <- MCNone
  DurationNeeded <- MCNone
  MaxDeliver = 1
  HandlersMayOverrun = FALSE
  Malformed = {2}
  Probes = {}
  StabilizationPeriod = 1
  RollbackMayFail = TRUE
  StateMayExpire = TRUE
INVARIANTS
  ResolvedMeansHealthy
