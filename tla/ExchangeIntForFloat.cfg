SPECIFICATION Spec
CONSTANTS
  Objects <- ObjectsOf
  Foreign <- ForeignOf
  Types = {"StateSnapshot"}
  Versions = {2}
  ForeignTypes = {}
  Readers = {2, 3}
  MaxHops = 1
  Depth = 2
  IntForFloat = TRUE
  EventMeta = FALSE
INVARIANT UpgradeIsLossless
CHECK_DEADLOCK FALSE
