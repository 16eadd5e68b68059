CONSTANTS
  N = 3
  IgnoreNoInline = FALSE
  Exported = {1}
SPECIFICATION MCSpec
INVARIANTS
  TypeOK
  OneSiteWhenCombining
  
  
  ErasedHaveNoCallers
PROPERTIES
  NonCallersUntouched
  Terminates
  
