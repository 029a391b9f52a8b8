CONSTANTS
  t1 = t1
  t2 = t2
  Tenant = {t1, t2}
  NoTenant = NoTenant
  Flow = {f1, f2}
  NoSnapshot = NoSnapshot
  MaxEdits = 3
  Seed <- MCSeed
  Client = {c1, c2}
  Request <- MCRequest
  Param = Param
  NoId = NoId
  NoData = NoData
SPECIFICATION MCSpec
SYMMETRY Symmetry
INVARIANTS
  NoNewDuplicates
  ReadYourWrites
  OnlyUpsertLeavesLifecycle
  AnswersAreCurrent
