SPECIFICATION Spec
CONSTANTS
  Procs = {A, B, P, Q}
  NoOne = NoOne
INVARIANTS OneOwner SoloTakeover
PROPERTY ReleaseRemovesOwn
SYMMETRY ProcSymmetry
CHECK_DEADLOCK FALSE
