SPECIFICATION Spec
CONSTANTS
  Procs = {A, P, Q}
  NoOne = NoOne
INVARIANT OneAuthority
SYMMETRY ProcSymmetry
CHECK_DEADLOCK FALSE
