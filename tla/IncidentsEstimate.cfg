CONSTANTS
  None = None
  Anomalies = {"a", "b", "c"}
  Stories <- AllStories
  CorrelationWindow = 2
  StabilizationPeriod = 2
  MaxGap = 2
  MaxEvents = 4
  MaxIncidents = 2
  MaxDisturbances = 1
  MaxChanges = 3
  MaxRequests = 1
  MaxTicketFaults = 0
  Envelopes = {"e1"}
  MaxSockets = 1
  Contacts = {"ann"}
  NoContact = "-"
  Editors = {"x"}
  Ranges <- SomeRanges
  MaxEntries = 1
SPECIFICATION HandlingSpec
CHECK_DEADLOCK FALSE
PROPERTIES
  ResolvedGetsNoEstimate
