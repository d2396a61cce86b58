SPECIFICATION Spec
CHECK_DEADLOCK FALSE
CONSTANTS
  OFFSET_BYTE_LENGTH = 4
  Programs <- MCPrograms
  FieldTypes <- MCFieldTypes
  Values = {0, 1}
  MaxRoots = 1
  MaxViews = 3
INVARIANTS
  TypeOK
  BackingsCanonical
  EncodingsDecode
  ProfilesPortable
  CompatibleTypesShareLayout
PROPERTIES
  WritesReachTheSource
