SPECIFICATION Spec
CONSTANTS
  Objects <- ObjectsOf
  Foreign <- ForeignOf
  Types = {}
  Versions = {}
  ForeignTypes = {"GenerationCandidate"}
  Readers = {2}
  MaxHops = 1
  Depth = 3
  IntForFloat = FALSE
  EventMeta = FALSE
INVARIANT EveryMajorGated
CHECK_DEADLOCK FALSE
