SPECIFICATION Spec
CONSTANTS
  ElemsPerChunk = 2
  MaxHeight = 25
  Classes <- MCClasses
  Numbers = {0, 1}
INVARIANTS
  TypeOK
  ListsCanonical
  IterationComplete
  OptionalsDecode
PROPERTIES
  WritesReachTheList
  RefinesPlainList
