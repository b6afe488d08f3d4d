SPECIFICATION Spec
CONSTANTS
  Objects <- MCObjects
  OperatorNamespaces = {"o1", "w"}
  ResourcesNamespaces = {"w"}
  OperatorLabels <- MCOperatorLabels
  TypeFilterChoices <- MCTypeFilters
  LogFilterChoices <- MCLogFilters
  Versions = {100}
  FallbackVersion = 1000
INVARIANTS TypeOK OperatorIsKept TypeFiltersHold PodsFollowResource DiagnosedIsCollected OwnedPodsAreLogged
