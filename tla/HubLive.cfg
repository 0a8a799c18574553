SPECIFICATION MCFairSpec
CONSTANTS
  s1 = s1
  s2 = s2
  s3 = s3
  s4 = s4
  alice = alice
  Sessions = {s1, s2}
  IdentityOf <- MCIdentityOf
  NoOne = NoOne
  BehaviorEnabled = FALSE
  Requests = {"page", "far"}
  MaxChats = 1
  MaxRequests = 0
  MaxDrops = 0
  MaxDay = 1
INVARIANTS NoRepeatedBanner NoGhostHolder
PROPERTIES ProceduresFinish
