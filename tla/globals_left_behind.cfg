CONSTANTS
  Fns = {"f", "g", "h", "puts"}
  OptNone = {"h"}
  Puts = "puts"
  MaxActs = 4
  MaxVisits = 3
  Modules <- MCModules
  Pipelines <- MCPipelines
INIT Init
NEXT Next
INVARIANT
  EntryAllocasAllCollected
