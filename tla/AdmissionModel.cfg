SPECIFICATION Spec
CONSTANTS
  Roots = {r1, r2}
  Parents = {p1, p2}
  Children = {c1, c2}
  NoChild = NoChild
  Limits <- MCLimits
  SeedTotals = {0, 4}
  MaxPermits = 4
SYMMETRY MCSymmetry
INVARIANTS CountersAgree ActiveWithinLimits
PROPERTIES CumulativeNeverRefunded ChargedExactlyOnce
