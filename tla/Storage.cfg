\* A log and a malformed entry, redeliveries beside stale handlers, outages,
\* crashes and shutdowns; a batch fills with two deliveries of the log.
SPECIFICATION FairSpec
CONSTANTS
  MaxStream = 2
  MaxDeliver = 2
  HandlersMayOverrun = TRUE
  Kinds = {"log", "metric"}
  Malformed = "malformed"
  KindOf <- MCLogThenMalformed
  MaxBatchSize = 2
INVARIANTS
  AckedIsStored
PROPERTIES
  ImplementsAtLeastOnce
  EveryEntrySettles
