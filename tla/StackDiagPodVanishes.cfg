SPECIFICATION FairSpec
CONSTANTS
  es = es
  kb = kb
  Main = Main
  Handler = Handler
  None = None
  Jobs = {es}
  WithKeystore = {es}
  Faults = {"podVanishes"}
PROPERTY Returns
CHECK_DEADLOCK FALSE
