SPECIFICATION FairSpec
CONSTANTS
  es = es
  kb = kb
  Main = Main
  Handler = Handler
  None = None
  Jobs = {es}
  WithKeystore = {es}
  Faults = {"podVanishes", "deleteFails", "tombstone", "earlyTimer", "listFails", "streamCut", "emptyOutput", "interrupt"}
INVARIANTS LockDiscipline DoneSignalNotLost DoneMeansClean DoneIsExplained IndInv
PROPERTIES IsExtraction ReturnsUnlessStranded
CHECK_DEADLOCK FALSE
