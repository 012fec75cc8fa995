SPECIFICATION FairSpec
CONSTANTS
  A = A
  B = B
  Ctx = {A, B}
  NoCtx = NoCtx
  NPages = 3
  Settings <- MCSettings
  
PROPERTY CallReturns
CHECK_DEADLOCK FALSE
