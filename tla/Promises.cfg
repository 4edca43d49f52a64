SPECIFICATION Spec
CONSTANTS
  Plain = {1, 2}
  Budgets <- Scenarios
INVARIANTS
  SingleResolver
  ReactionsInOrder
  AdoptsOutcome
  OneWakeup
  AnswersInOrder
  CombinatorOutcome
  NothingForgotten
CHECK_DEADLOCK FALSE
