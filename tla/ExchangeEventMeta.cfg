SPECIFICATION Spec
CONSTANTS
  Objects <- ObjectsOf
  Foreign <- ForeignOf
  Types = {}
  Versions = {}
  ForeignTypes = {"EventEnvelope"}
  Readers = {0, 2}
  MaxHops = 2
  Depth = 1
  IntForFloat = FALSE
  EventMeta = TRUE
INVARIANT UnknownFieldsIgnored
CHECK_DEADLOCK FALSE
