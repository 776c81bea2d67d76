SPECIFICATION Spec
CONSTANTS
  MaxHeight = 2
  MaxGen = 1
INVARIANTS
  FinalizedBlocksKept
  GrandpaAuxWithinChain
  NoStaleMapping
PROPERTIES
  FinalityIsForever
  MappingCatchesUp
