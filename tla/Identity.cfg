\* Two requests of any kind about one account, with one crash or failed call.
CONSTANTS
  Requests = {r1, r2}
  Passwords = {p1, p2}
  Window = {1}
  NumCodes = 2
  MaxAttempts = 1
  MfaRequired = FALSE
  MaxFaults = 1
  First = first
SYMMETRY Symmetry
SPECIFICATION Spec
CHECK_DEADLOCK FALSE
INVARIANTS
  ChainVerifies
  OnceEach
  AnsweredMeansRecorded
