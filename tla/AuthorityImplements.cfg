SPECIFICATION FairSpec
CONSTANTS
  r1 = r1
  r2 = r2
  p1 = p1
  p2 = p2
  p3 = p3
  x = x
  y = y
  z = z
  shot = shot
  cont = cont
  cold = cold
  other = other
  Roots = {r1, r2}
  Parents = {p1, p2, p3}
  Children = {x, y, z}
  Calls = {shot, cold}
  RootOf <- MCRootOf
  Operation <- MCOperation
  ParentOf <- MCParentOf
  ChildOf <- MCChildOf
  RunIds <- MCRunIds
  NoChild = NoChild
  Nobody = Nobody
  Limits <- MCGlobalTight
  SeedLedgers <- MCSeedLedgers
  MaxCrashes = 1
PROPERTIES CallsSettle DrainCompletes ImplementsModel VerdictsAgree
CHECK_DEADLOCK FALSE
