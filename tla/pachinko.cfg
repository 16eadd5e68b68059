CONSTANTS
  N = 5
  Unknown = Unknown
  NoPrize = NoPrize
  MaxCalls = 2
  Modules <- MCModules
SPECIFICATION Spec
INVARIANTS
  PachinkoTypeOK
  CallsReachTheirCallee
  FirstCallsRedirected
  EveryCalleeHasAPrize
