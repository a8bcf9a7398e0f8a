SPECIFICATION Spec
CONSTANTS
  Cells <- Typed
  Secrets <- Hidden
  User = "en"
  Pass = "pw"
  EnablePass = "secret"
  HistoryMax = 1
  MaxLine = 2
  MaxEntry = 3
  Size = 5
  Outputs <- Silent
INVARIANTS
  TypeOK
  StateMatchesPrivilege
  PasswordsStayHidden
  LineIsWhatWasTyped
PROPERTY
  QuestionMarkAnswers
CHECK_DEADLOCK FALSE
