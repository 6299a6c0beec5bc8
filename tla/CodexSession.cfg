SPECIFICATION FairSpec
CONSTANTS
  s1 = s1
  s2 = s2
  other = other
  elsewhere = elsewhere
  Main = Main
  Sub = {s1, s2, other}
  Starter <- Starters
  Budget = 2
  Bounds <- TwoTrees
INVARIANTS
  ReportIsExact
  StopIsAtCap
PROPERTIES
  CapStops
