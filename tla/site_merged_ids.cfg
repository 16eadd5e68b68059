CONSTANTS
  Calls = {c1, c2, c3, c4}
  Sites = {s1, s2}
  NoSite = NoSite
  Ignored = {}
  Stored = {}
  BodySplits = FALSE
  BareReturn = FALSE
  MaxBlockId = 8
SPECIFICATION Spec
SYMMETRY Symmetry
INVARIANT
  MergedCallsStoreTheirId
