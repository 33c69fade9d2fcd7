SPECIFICATION Spec
CONSTANTS
  Objects <- ObjectsOf
  Foreign <- ForeignOf
  Types = {"ManuscriptRevision"}
  Versions = {2}
  ForeignTypes = {}
  Readers = {0, 2}
  MaxHops = 2
  Depth = 2
  IntForFloat = FALSE
  EventMeta = FALSE
INVARIANT AbsentMeansUnstated
CHECK_DEADLOCK FALSE
