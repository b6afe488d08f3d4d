SPECIFICATION Spec
CONSTANTS
  Operators = {"o1", "o2"}
  Collected = {"a"}
  NamespaceLabels <- MCNamespaceLabels
  Installs <- MCInstalls
  UserVersions <- MCUserVersions
  Fallback = 9
  NotGiven = NotGiven
  Nothing = Nothing
INVARIANTS TypeOK NothingMissedSilently VersionCoversAll
CHECK_DEADLOCK FALSE
