\* Two checkouts of one address, two handlers at a time, one failed call.
CONSTANTS
  alice = alice
  first = first
  second = second
  Emails = {alice}
  Sessions = {first, second}
  Buyer <- OneBuyer
  Registered = {}
  Tasks = {t1, t2}
  MaxEvents = 2
  MaxFaults = 1
  MaxIssues = 2
  MaxRequests = 1
  None = None
SPECIFICATION Spec
CHECK_DEADLOCK FALSE
INVARIANTS
  MailedOnce
  MailOpensAccount
PROPERTY PaidGetsAccount
