\* Trees of statements and expressions, and of definitions with their errors.
SPECIFICATION Spec
CONSTANTS
  Grammar <- MCGrammar
  Word <- Begins
  Texts <- MCTexts
INVARIANTS
  NamesHaveOneMeaning
  AnalysisIsAsAssumed
  CompletedTargetsAreReferences
  OutlineShowsDefinitions
  IncompleteMeansErrors
CHECK_DEADLOCK FALSE
