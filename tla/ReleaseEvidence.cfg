SPECIFICATION FairSpec
CONSTANTS
  release = release
  apart = apart
  Slots = {release, apart}
  Idle = Idle
  Collector = release
  Iterations = 20
  Children = 56
  ApartScripts = {"conformance", "crashJson", "stock", "verify"}
  MaxCollections = 1
  MaxOthers = 1
  Edits <- EditsChecked
  Moves <- MovesChecked
INVARIANTS CheckIsHonest  CrashEvidenceIsEarned EverythingGivenBack
PROPERTY CollectionSettles
CHECK_DEADLOCK FALSE
