CONSTANTS
  Slot = {s1, s2}
  Handle = {h1, h2}
  NoTimer = NoTimer
  UseCase = {u1}
  Selection = {v1}
  Status = {"candidate"}
  Shared = Shared
  Waiting = Waiting
  NoChecksum = NoChecksum
  MaxEvents = 2
  MaxBatch = 1
SPECIFICATION Spec
PROPERTIES
  CatchesUp
