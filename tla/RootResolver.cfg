SPECIFICATION FairSpec
CONSTANTS
  twig = twig
  leaf = leaf
  mid = mid
  top = top
  c1 = c1
  c2 = c2
  Sessions = {twig, leaf, mid, top}
  Claims <- MCClaims
  Calls = {c1, c2}
  Boot = Boot
  MaxHeaders = 3
  Root = Root
  None = None
INVARIANTS AnswersAreLineages FailsOnlyWithCause
PROPERTIES AnswersNeverChange WalksEnd
CHECK_DEADLOCK FALSE
