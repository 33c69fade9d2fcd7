SPECIFICATION Spec
CONSTANTS
  Books = {1, 2}
  NumScenes = 0
  Contents = {"first", "second"}
  Libraries = {"old", "new"}
  NumFiles = 2
  Uses <- MCUses
  Buildable <- MCBuildable
  Absent = Absent
  Torn = Torn
  Commits <- MCCommits
INVARIANTS
  IInv
  GreenIsShipped
  VerdictIsAboutBuilt
