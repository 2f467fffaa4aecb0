SPECIFICATION Spec
CONSTANTS
  Programs <- MCPrograms
  MaxLines = 8
  AppCatches = TRUE
INVARIANT TypeOK
INVARIANT RawPointersValid
INVARIANT WatchedOutliveExecutor
PROPERTY ImplementsRclLifecycle
PROPERTY LeavingReleasesAll
CHECK_DEADLOCK FALSE
