CONSTANTS
  m1 = m1
  m2 = m2
  m3 = m3
  none = none
  NoMM = none
  RootMM = m1
  Root = a
  NoThread = nobody
  Parent <- MCParent
  Ctx = {a, b, c}
  Servers = {p}
  MM = {m1, m2, m3}
  MaxCtx = 2
  MaxTries = 3
  MaxAsks = 4
  Faults = {"copyout", "busy", "dies"}
SPECIFICATION FairSpec
INVARIANTS ControlExact PublishedTrue StopsWithCause
PROPERTIES HistoryOnly OperationEnds
CHECK_DEADLOCK FALSE
