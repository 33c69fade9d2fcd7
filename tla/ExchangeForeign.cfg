SPECIFICATION Spec
CONSTANTS
  Objects <- ObjectsOf
  Foreign <- ForeignOf
  Types = {}
  Versions = {}
  ForeignTypes = {"ManuscriptRevision", "StateSnapshot", "GenerationCandidate", "RunManifest",
                  "JobRecord", "EventEnvelope", "ExceptionRecord", "DigestEntry"}
  Readers <- AllMinors
  MaxHops = 2
  Depth = 2
  IntForFloat = FALSE
  EventMeta = FALSE
INVARIANTS
  AcceptedIsWellTyped
  ForwardedIsReadable
  ForwardedIsStable
  MajorGated
  UnknownFieldsIgnored
  WireValidates
  ValidIsDecoded
CHECK_DEADLOCK FALSE
