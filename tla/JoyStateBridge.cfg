SPECIFICATION HSpec
CONSTANTS
  Depth = 2
INVARIANTS
  TypeOK
PROPERTIES
  CommandsRestOnRecentTruth
  PressingActivates
