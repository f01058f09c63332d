SPECIFICATION FairSpec
CONSTANTS
  shot = shot
  parent = parent
  resumed = resumed
  Starts = {shot, parent, resumed}
  OneShots = {shot}
  Resumes = {resumed}
  OwnerOf <- MCOwnerOf
  NoOwner = NoOwner
INVARIANTS ReleasedAtMostOnce HeldWhileChildIsThere RejectedMeansReturned AncestorsOutliveDescendants
PROPERTY DisposalsSettle
CHECK_DEADLOCK FALSE
