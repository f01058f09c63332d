SPECIFICATION Spec
CONSTANTS
  Services = {a, b}
  NoService = NoService
  Runs = {r1, r2}
INVARIANT EveryActivationOwnsPermit
CHECK_DEADLOCK FALSE
