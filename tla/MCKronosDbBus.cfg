SPECIFICATION FairSpec
CONSTANTS
  n1 = n1
  n2 = n2
  c1 = c1
  r1 = r1
  Name = {n1, n2}
  Command = {c1}
  NameOf <- MCNameOf
  Request = {r1}
  Permits = 1
  Threshold = 0
  MaxHandlers = 1
  MaxPending = 1
  MaxAttempts = 2
  MaxFaults = 2
INVARIANT CreditsAgree
PROPERTIES DrainedFirst  HandlersComeBack
CHECK_DEADLOCK FALSE
