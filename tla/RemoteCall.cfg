SPECIFICATION Spec
CONSTANTS
  Callers = {"t1", "t2"}
  Interface <- MCInterface
  ClientConfigs <- MCClientConfigs
  ServerConfigs <- MCServerConfigs
  CallBound = 2
  Lost = Lost
  Nothing = Nothing
INVARIANTS
  AnswersLikeTheComponent
  ThrowingTearsNothing
  ClientChoosesCompression
CHECK_DEADLOCK FALSE
