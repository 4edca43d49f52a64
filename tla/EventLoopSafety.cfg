CONSTANTS
  Posters = {p1}
  Owner = owner
  JsThread = js
  NoThread = nobody
  SyncPosters = {p1, owner}
  MaxTasks = 3
  MaxResets = 2
  MaxStops = 1
  SIZE_MAX = 7
SPECIFICATION Spec
INVARIANTS TypeOK CounterAgrees NoLostWakeup SyncAnswerIsOwn ThreadOwned
PROPERTY ImplementsTaskService
CHECK_DEADLOCK FALSE
