CONSTANTS
  Calls = {1, 2}
  Sites = {s1}
  NoSite = NoSite
  Ignored = {}
  Stored = {}
  BodySplits = TRUE
  BareReturn = FALSE
  MaxBlockId = 8
  Vals = {v1, v2}
  None = None
  LiveAcross = TRUE
  Result <- MCResult
SPECIFICATION MCSpec
INVARIANT
  ReadsOwnResult
