SPECIFICATION Spec
CONSTANTS
  home = home
  work = work
  Browsers = {home, work}
  None = None
  MaxRequests = 2
INVARIANTS
  TypeOK
  SessionsAreCurrent
  SingleUse
  FactorIsWhole
CHECK_DEADLOCK FALSE
