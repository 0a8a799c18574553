SPECIFICATION MCSpec
CONSTANTS
  q1 = q1
  q2 = q2
  q3 = q3
  k1 = k1
  k2 = k2
  t1 = t1
  t2 = t2
  d1 = d1
  d2 = d2
  home = home
  away = away
  o1 = o1
  o2 = o2
  Desktops = {d1, d2}
  Addr <- From
  Addresses = {home, away}
  Roles = {"admin"}
  Tickets = {t1, t2}
  TicketTTL = 1
  NonceTTL = 0
  AuthTimeout = 1
  MaxPending = 1
  MaxDials = 2
  MaxReloads = 1
  MaxNow = 2
  KeyRoles = {"admin"}
  Creds = {k1, k2}
  Invites = {t1, t2}
  Requests = {q1, q2, q3}
  TTL = 0
  MaxCount = 2
  MaxTime = 1
  Operators = {o1, o2}
  RoleNames = {"admin", "mod"}
  Ids = {"i"}
  Prefixes = {"", "p"}
  Present = {"admin"}
  MaxWrites = 2
  MaxPeriods = 3
INVARIANTS SessionsProved  PasskeysHold RolesSettle
SYMMETRY Symmetry
CHECK_DEADLOCK FALSE
