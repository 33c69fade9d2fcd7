CONSTANTS
  Books = {1, 2}
  NumScenes = 1
  Contents = {"first", "second"}
  Libraries = {"old", "new"}
  NumFiles = 2
  Uses <- MCUses
  Buildable <- MCBuildable
  Absent = Absent
  Torn = Torn
  MaxEdits = 2
  MaxKills = 1
SPECIFICATION FairSpec
INVARIANTS
  IInv
  CompletedRunMirrors
  GoldensOfBuildable
  GreenIsExact
PROPERTIES
  Repaired
  KeepsFreshness
CHECK_DEADLOCK FALSE
