SPECIFICATION Spec
CONSTANTS
  Window = {main, w}
  Main = main
  Prompter = {main, w}
  MaxReq = 2
  Cap = 2
INVARIANT JoinNeverOverOwnCall
