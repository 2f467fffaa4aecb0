SPECIFICATION Spec
CONSTANTS
  Programs <- MCPrograms
  MaxLines = 5
  AppCatches = TRUE
PROPERTY OnlyKnownLeaks
PROPERTY ImplementsRclLifecycle
CHECK_DEADLOCK FALSE
