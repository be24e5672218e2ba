SPECIFICATION FairSpec
CONSTANTS
  gui = gui
  mcpd = mcpd
  w1 = w1
  w2 = w2
  w3 = w3
  m1 = m1
  m2 = m2
  m3 = m3
  Process = {gui, mcpd}
  Writer = {w1, w2, w3}
  Migrator = {m1, m2, m3}
  Home <- MCHome
INVARIANTS HoldsExclude NoStaleHold
PROPERTY CallReturns
CHECK_DEADLOCK FALSE
