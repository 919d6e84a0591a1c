\* An OTLP batch with an invalid record, a refused REST batch and an accepted one.
CONSTANTS
  MaxStream = 5
  MaxDeliver = 2
  HandlersMayOverrun = FALSE
  collector = collector
  agent = agent
  Exporters = {collector, agent}
  Source <- Sources
  Batches <- BatchesOf
  MaxAttempts = 2
  Ttl = 3
  Lead = 2
  MaxTime = 4
  MaxFaults = 2
  None = None
SPECIFICATION Spec
CHECK_DEADLOCK FALSE
INVARIANTS
  StrictOrder
  RestartsCountedOnce
