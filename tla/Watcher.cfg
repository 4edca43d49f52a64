CONSTANTS
  Files = {a, b, txt}
  JsFiles = {a, b}
  Kinds = {"create", "modify", "delete"}
  EditsBeforeWatch = FALSE
  MaxEdits = 4
  Answers = {TRUE}
SPECIFICATION FairSpec
INVARIANT ChangeNotForgotten
PROPERTY LoadedCatchesUp
CHECK_DEADLOCK FALSE
