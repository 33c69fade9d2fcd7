CONSTANTS
  TypeNames = {1, 2, 3}
  Shapes = {s1, s2, bad}
  Renderable = {s1, s2}
  Absent = Absent
  Torn = Torn
  MaxEdits = 3
  MaxKills = 1
SPECIFICATION FairSpec
INVARIANTS
  IInv
  TornOnlyByKill
PROPERTIES
  Regenerated
  KeepsFreshness
CHECK_DEADLOCK FALSE
