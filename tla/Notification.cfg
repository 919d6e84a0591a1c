\* One assigned SRE and the Admin, one crash or failed call, one handler at a time.
SPECIFICATION FairSpec
CONSTANTS
  Sre = Sre
  Admin = Admin
  w1 = w1
  r1 = r1
  Signal = Signal
  Recovery = Recovery
  None = None
  Api = Api
  Targets <- MCTargets
  Assigned <- MCAssigned
  Admins <- MCAdmins
  Voice <- MCAssigned
  Workers <- MCWorkers
  Requests <- MCOneRequest
  Signals <- MCSignals
  MaxEvents = 2
  MaxDeliver = 2
  MaxFaults = 1
  MaxRetries = 1
  MaxLost = 1
INVARIANTS
  AlertedOnce
  StoppedBySomebody
  EveryRecipientIsContacted
  FailureReachesAdmin
PROPERTY NoCallLeftInProgress
CHECK_DEADLOCK FALSE
