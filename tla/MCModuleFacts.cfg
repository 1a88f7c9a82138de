SPECIFICATION Spec
CONSTANTS
  Count = 2
  Edits <- SomeEdits
  MaxEdits = 2
VIEW Current
INVARIANTS TypeOK ResultsAreTrue AnswersAreFresh
PROPERTIES ProxyIsKept
