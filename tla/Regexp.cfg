SPECIFICATION Spec
CONSTANTS
  Regexps <- MCRegexps
  Texts <- MCTexts
  Word = {"a", "b"}
INVARIANTS
  MatchExact
  StackWithinBound
PROPERTIES
  ExecReturns
