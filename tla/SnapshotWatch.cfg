SPECIFICATION FairSpec
CONSTANTS
  Sessions = {s1, s2}
  NoSession = NoSession
  NoSnapshot = NoSnapshot
  MaxRevision = 1
  MaxEpochs = 2
  MaxStarts = 2
  MaxFailures = 1
INVARIANT ShownIsActive
PROPERTIES NeverBackwards LatestIsShown SupersededLoopsEnd
CHECK_DEADLOCK FALSE
