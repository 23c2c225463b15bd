SPECIFICATION FairSpec
CONSTANTS
  Broadcasts = {b1}
  MaxFence = 2
  MaxActive = 1
  MaxGrants = 2
  MaxFaults = 2
  LostAnswers = {"claim", "complete"}
CHECK_DEADLOCK FALSE
INVARIANTS
  AuthorityIsSettled
PROPERTIES
  OnlyReclaimsReopen
  DeletesFinishUnlessOvertaken
