SPECIFICATION Spec
CONSTANTS
  es = es
  kb = kb
  Main = Main
  Handler = Handler
  None = None
  Jobs = {es}
  WithKeystore = {es}
  Faults = {}
INVARIANT MarkDoneNeverBlocks
CHECK_DEADLOCK FALSE
