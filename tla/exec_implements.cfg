CONSTANTS
  Calls = {1, 2, 3, 4}
  Sites = {s1, s2}
  NoSite = NoSite
  Ignored = {}
  Stored = {}
  BodySplits = TRUE
  BareReturn = FALSE
  MaxBlockId = 8
  Vals = {v1, v2}
  None = None
  LiveAcross = FALSE
  Result <- MCResult
SPECIFICATION MCSpec
INVARIANTS
  FusedTypeOK
  

  
