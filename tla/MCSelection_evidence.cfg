SPECIFICATION Spec
CONSTANTS
  Profile = {1, 2, 3}
  Free = Free
  MaxTime = 2
  FreshTtl = 1
  RetryBase = 1
  RetryMax = 2
  FailureLimit = 2
  Domain = {"d", "x"}
  Pool = {"q", "r"}
  MemberList <- Lists
  Definitions0 <- TwoPools
  Editor = {e1, e2}
  MaxRevision = 1
  Selector = {s1}
  Observer = {o1}
  First = {1}
CHECK_DEADLOCK FALSE
INVARIANT InLeaseReadAuthorises
