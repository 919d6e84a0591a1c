\* Two machines whose contexts have one name, two organizations, two jobs.
CONSTANTS
  home = home
  remote = remote
  operator = operator
  customer = customer
  default = default
  acme = acme
  Machines = {home, remote}
  Home = home
  ContextOf <- OneName
  Orgs = {default, acme}
  Default = default
  Admins = {operator, customer}
  OrgOf <- OneEach
  Tier <- Tiers
  Chosen = {}
  MaxJobs = 2
  MaxInFlight = 1
  MaxFailures = 1
  Nothing = Nothing
SPECIFICATION OnboardingSpec
CHECK_DEADLOCK FALSE
INVARIANTS
  AssignmentsStayInside
  IdentityIsUnique
PROPERTIES
  HistoryIsKept
  EveryOperationEnds
