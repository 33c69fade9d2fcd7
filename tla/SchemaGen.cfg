SPECIFICATION FairSpec
CONSTANTS
  Names <- MCNames
  EnumNames <- MCEnums
  Graphs <- MCGraphs
  Roots = {"A"}
  Root = "root"
INVARIANTS
  IInv
  RefsResolve
  PlaceholdersAreActive
  SchemaSelfContained
  SchemaMinimal
PROPERTIES
  CompleteIsFinal
  Terminates
CHECK_DEADLOCK FALSE
