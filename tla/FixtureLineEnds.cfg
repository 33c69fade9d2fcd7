SPECIFICATION Spec
CONSTANTS
  Defs <- OneDefinition
  Files = {"f1", "f2"}
  Entities = {"e"}
  Raws <- Texts
  MaxBuilds = 2
  MaxEdits = 1
INVARIANT TranslationInvalidates
CHECK_DEADLOCK FALSE
