SPECIFICATION MCSpec
CONSTANTS
  x = x
  y = y
  o1 = o1
  o2 = o2
  None = None
  Call = {1, 2, 3}
  Resource = {1, 2, 3}
  Content = {x, y}
  Operation = {o1, o2}
  Request <- Requests
  InitialFiles <- Files
  MaxChanges = 1
  DebugAssertions = TRUE
INVARIANTS
  AnswersTruthful
  CreatedAtMostOnce
  HoldingsSound
PROPERTIES
  NeverClobbers
  OutcomesFinal
  ImplementsContract
  CallsAnswered
CHECK_DEADLOCK FALSE
