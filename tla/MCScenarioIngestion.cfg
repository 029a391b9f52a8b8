CONSTANTS
  Slot = {s1, s2}
  Handle = {h1, h2}
  NoTimer = NoTimer
  UseCase = {u1}
  Selection = {v1, v2}
  Status = {"candidate", "adopted"}
  Shared = Shared
  Waiting = Waiting
  NoChecksum = NoChecksum
  MaxEvents = 3
  MaxBatch = 2
SPECIFICATION SafetySpec
SYMMETRY Symmetry
INVARIANTS
  LeakOnlyByOverlap
  UpdatesSurvive
  HandoffMatchesStore
