SPECIFICATION MCSpec
CONSTANTS
  s1 = s1
  s2 = s2
  s3 = s3
  s4 = s4
  alice = alice
  Sessions = {s3, s4}
  IdentityOf <- MCIdentityOf
  NoOne = NoOne
  BehaviorEnabled = TRUE
  Requests = {"page"}
  MaxChats = 2
  MaxRequests = 1
  MaxDrops = 1
  MaxDay = 0
SYMMETRY Alike
INVARIANTS ClientsAreOpen ChainOrder SeamlessJoin
