SPECIFICATION FairSpec
CONSTANTS
  Window = {main, w}
  Main = main
  Prompter = {main}
  MaxReq = 2
  Cap = 2
INVARIANTS OwnRefusalsOnly
PROPERTIES NeverReadsTornDown SharedServed TeardownReturns
CHECK_DEADLOCK FALSE
