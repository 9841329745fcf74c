SPECIFICATION PipelineSpec
CONSTANTS
  Workers = {1, 2}
  Statuses = {"assigned", "hidden", "deactivated"}
  DefaultCacheTTL = 2
  Messages = {1, 2, 3, 4, 5, 6}
  Kind <- MCKind
  Place <- MCPlace
  Scenarios <- MCScenarios
INVARIANTS
  TypeOK
  AckedIsAccountedFor
  HistoryTellsTheMove
  DeactivationTakesEffect
  NoCopyOutlivesItsTime
PROPERTIES
  EveryMessageAnswered
CHECK_DEADLOCK FALSE
