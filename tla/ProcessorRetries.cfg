\* Crashes, failing steps and retries at every step; entry 2 is a probe.
SPECIFICATION Spec
CONSTANTS
  Telemetry <- MCRelay
  NumRules = 2
  Series = {"memory", "log"}
  ObservationsNeeded <- MCNoneEach
  DurationNeeded <- MCNoneEach
  MaxDeliver = 2
  HandlersMayOverrun = FALSE
  Malformed = {}
  Probes = {2}
  StabilizationPeriod = 1
  RollbackMayFail = FALSE
  StateMayExpire = FALSE
INVARIANTS
  TrackedWhenQuiet
PROPERTIES
  ImplementsAtLeastOnce
