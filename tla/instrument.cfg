CONSTANTS
  N = 2
  OptNone = {2}
  MdNames = {name}
  Strings = {s1, s2}
  NoNode = NoNode
  MaxInsts = 4
  MaxBadInputs = 1
  MaxEdits = 2
  FirstId = 100
  Names <- MCNames
  Builtin <- MCBuiltin
  Texts <- MCTexts
  Bodies <- MCBodies
INIT MCInit
NEXT Next
INVARIANTS
  InstrumentTypeOK
  TagsAreFound
  MarkerLookupsAgree
  TrappedBlocks
  InstructionsAlone
  OrderKept
  
  
  ErrorTellsWhatRan
