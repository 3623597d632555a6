CONSTANTS
  Org = {o1}
  Request = {1}
  PositiveTTL = 2
  NegativeTTL = 1
  TokenTTL = 2
  PageSize = 1
  MaxChanges = 3
  MaxFailures = 1
  NoOrg = NoOrg
SPECIFICATION FairSpec
INVARIANTS MembersAreShown
PROPERTIES RevokedStaysRevoked MemberGetsIn LeaverIsOut
CHECK_DEADLOCK FALSE
