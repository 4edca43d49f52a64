CONSTANTS
  Calls = {c1, c2}
  Awaiters = {a1}
  JsThread = js
  Plain = plain
  MaxReloads = 1
SPECIFICATION FairSpec
INVARIANTS SettledAsRun AwaitAnswersTruly
PROPERTIES EveryPromiseSettles EveryAwaitReturns
CHECK_DEADLOCK FALSE
