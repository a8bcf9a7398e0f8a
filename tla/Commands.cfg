SPECIFICATION Spec
CONSTANTS
  Outputs <- Printed
  Lines <- Typed
  Vocabulary <- Spoken
INVARIANTS
  CommandsTypeOK
  ShowsWhatTheFiltersLeave
PROPERTIES
  RunsWhatWasMeant
  
CHECK_DEADLOCK FALSE
