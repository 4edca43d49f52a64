CONSTANTS
  Posters = {p1}
  Owner = owner
  JsThread = js
  NoThread = nobody
  SyncPosters = {p1, owner}
  MaxTasks = 2
  MaxResets = 2
  MaxStops = 1
  SIZE_MAX = 7
SPECIFICATION FairSpec
PROPERTIES EveryTaskCalled SyncCallsReturn JoinReturns
CHECK_DEADLOCK FALSE
