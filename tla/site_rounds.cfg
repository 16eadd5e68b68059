CONSTANTS
  Calls = {c1, c2, c3, c4, c5, c6}
  Sites = {s1, s2, s3}
  NoSite = NoSite
  Ignored = {c1, c2}
  Stored = {c3}
  BodySplits = TRUE
  BareReturn = TRUE
  MaxBlockId = 12
SPECIFICATION Spec
SYMMETRY Symmetry
INVARIANT
  TypeOK
  CasesDistinct
  RoundTripWhileLive
  LookupSeesLoads
  OneSiteWhenCombining
  IdsBelowCallCount
  FusedCallsKeepTheirCase
