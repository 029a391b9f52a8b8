CONSTANTS
  Change = {c1, c2}
  SubscriptionId = {"subscription", "s1"}
  EventId = {"event", "e1", "e2"}
  Absent = Absent
  Scope = {k1, k2}
  Unmapped = Unmapped
  Name = {"run-1", "Run 1", "scenario-library-snapshot"}
  Sanitized <- MCSanitized
  Content = {v1, v2}
  NoContent = NoContent
  Retention = 2
  MaxBatch = 2
  MaxStaged = 2
  MaxInstant = 2
  KnowledgeBase = {b1, b2}
  Index = {i1, i2}
  Batch = {h1, h2}
  None = None
  Caps = {1, 6}
  Unknown = Unknown
  MaxFailures = 2
  LastInstant = 11
  Signal = {1, 2, 3, 4, 5, 6, 7, 8}
  Used = {1, 2}
  Confidences <- MCConfidences
  AgeStep = 45
  MaxAge = 225
  Latencies = {0, 2600}
  MaxErrors = 10
  Action = {a1}
  Portfolio <- MCPortfolio
  NoName = NoName
  RateLimitPolicy <- MCRateLimitPolicy
  Payload <- MCPayload
  WindowHours = {1, 2}
  MaxMoment = 2
  Sample <- MCSample
  MaxSamples = 21
  Target = {0, 600}
  SloWindow = {0, 24}
  Reading <- MCReading
  NoReading = NoReading
  Epoch = 0
  FirstHour = 100
  LastHour = 154
  HourStep = 6
  Asked = {"SECURE"}
  Never = Never
SPECIFICATION MCSpec
\* Everything was answered, or staged, or the clock has ended.
CHECK_DEADLOCK FALSE
INVARIANTS
  AcceptedIsAccounted
  HandoffHolds
  ReadyInOrder
  ReplayLeavesOnlyTheTail
  EveryTenantAccounted
  DataKeepsFresh
PROPERTIES
  VerdictsAreMonotone
