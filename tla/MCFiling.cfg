SPECIFICATION FairSpec
CONSTANTS
  Contents = {"a", "b"}
  MaxSources = 2
  MaxRevisions = 2
  MaxRequests = 3
  MaxReviews = 2
  MaxAccidents = 1
  Pending = {p1, p2, p3}
  None = None
  Torn = Torn
  Foreign = Foreign
  Idle = Idle
INVARIANTS AcknowledgedIsKept ClaimResolves PublishedWasApproved
PROPERTIES PagesStand FilingConverges
CHECK_DEADLOCK FALSE
