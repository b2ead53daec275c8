CONSTANTS
  NameOrder <- TwoNames
  Types = {INT, STR}
  Schemas = {s1, s2}
  Records = {r1, r2}
  NoSchema = NoSchema
  IndexWidth = 2
  MaxChanges = 4
SYMMETRY Interchangeable
SPECIFICATION SchemaSpec
INVARIANTS
  NamesReachUnshifted
  SameSchemaSameFields
  FieldsFitMemory
PROPERTIES
  LoadedIsSaved
