SPECIFICATION FairSpec
CONSTANTS
  Tars <- MCTars
  Batch = {"version.json", "nodes.json"}
  MaxTries = 2
  Callers = {"stack", "agent"}
  Faults = {"diskFull", "delete", "source"}
INVARIANTS TypeOK QuietAfterReturn CompletedIsExplained ManifestIsWhole LatestCopyWins SomeErrorSurvives ClosedIsExplained
PROPERTIES IsExtraction Ends
