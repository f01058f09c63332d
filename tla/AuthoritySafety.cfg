SPECIFICATION Spec
CONSTANTS
  r1 = r1
  r2 = r2
  p1 = p1
  p2 = p2
  p3 = p3
  x = x
  y = y
  z = z
  shot = shot
  cont = cont
  cold = cold
  other = other
  Roots = {r1, r2}
  Parents = {p1, p2, p3}
  Children = {x, y, z}
  Calls = {shot, cont, cold}
  RootOf <- MCRootOf
  Operation <- MCOperation
  ParentOf <- MCApartParentOf
  ChildOf <- MCApartChildOf
  RunIds <- MCCollidingRunIds
  NoChild = NoChild
  Nobody = Nobody
  Limits <- MCTwoActive
  SeedLedgers <- MCEmptyLedgers
  MaxCrashes = 1
INVARIANTS ActiveWithinLimits RegistryCoherent NoOrphanLease DrainedIsQuiet
CHECK_DEADLOCK FALSE
