\* Accepting an item behind a doubled quote changes more than the string.
SPECIFICATION CompletionSpec
CONSTANTS
  Letter = {"L", "C", "x"}
  Entity <- MCEntity
  OneTarget <- MCOneTarget
  Start <- MCStart
  Typed <- MCTyped
  MaxTyped = 4
  Ending <- MCEnding
  Language <- MCLanguage
  Words <- AllWords
  MaxLines = 3
  FewWords = {"M", "END", "PRESS", "END_PRESS", "IF", "ENDIF"}
  MaxFewLines = 5
CHECK_DEADLOCK FALSE
INVARIANTS
  EditsAreSafe
