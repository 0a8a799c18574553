SPECIFICATION MCSpec
CONSTANTS
  s1 = s1
  s2 = s2
  s3 = s3
  s4 = s4
  ip1 = ip1
  ip2 = ip2
  Sessions = {s1, s2, s3, s4}
  IPOf <- MCIPOf
  MaxConnectionsPerIP = 2
  MaxTotalConnections = 2
  MaxSerial = 3
SYMMETRY SameAddress
INVARIANTS CountersExact NamesExact CapHolds
