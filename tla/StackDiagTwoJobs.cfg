SPECIFICATION Spec
CONSTANTS
  es = es
  kb = kb
  Main = Main
  Handler = Handler
  None = None
  Jobs = {es, kb}
  WithKeystore = {es, kb}
  Faults = {"listFails", "interrupt"}
INVARIANTS TypeOK CancelImpliesAllDone LastDeletionWakesUp
PROPERTY IsSession
SYMMETRY Symmetry
CHECK_DEADLOCK FALSE
