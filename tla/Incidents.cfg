CONSTANTS
  None = None
  Anomalies = {"a", "b", "c"}
  Stories <- AllStories
  CorrelationWindow = 2
  StabilizationPeriod = 2
  MaxGap = 2
  MaxEvents = 4
  MaxIncidents = 2
  MaxDisturbances = 1
  MaxChanges = 3
  MaxRequests = 1
  MaxTicketFaults = 2
  Envelopes = {"e1", "e2"}
  MaxSockets = 3
  Contacts = {"ann", "bob"}
  NoContact = "-"
  Editors = {"x", "y"}
  Ranges <- SomeRanges
  MaxEntries = 3
SPECIFICATION HandlingSpec
CHECK_DEADLOCK FALSE
INVARIANTS
  NothingForgotten
  ResolvedIsQuiet
  OneTicketMessage
  ClaimsAreHonest
  TicketShowsTheEnd
  NeverDeaf
  AssignmentLasts
PROPERTIES
  JoiningNeverLowers
