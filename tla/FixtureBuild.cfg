SPECIFICATION Spec
CONSTANTS
  Defs <- Variants
  Files = {"f1", "f2"}
  Entities = {"e"}
  Raws <- Texts
  MaxBuilds = 2
  MaxEdits = 2
INVARIANTS
  IInv
  EvidenceResolves
  TargetsExist
  QuotesStandForOnePlace
  KeysFollowScenes
  SceneVersionPinsText
  LineEndingsInvisible
CHECK_DEADLOCK FALSE
