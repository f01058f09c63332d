SPECIFICATION FairSpec
CONSTANTS
  Services = {a, b}
  NoService = NoService
  Runs = {r1, r2}
INVARIANTS OwnershipCoversLedger ResourcesOutlivePermits NothingLeftBehind
PROPERTIES RegistersOnlyWhenQuiet NoUncoveredStart StartUpEnds DisposalCompletes
CHECK_DEADLOCK FALSE
