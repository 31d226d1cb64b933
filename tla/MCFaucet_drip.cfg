SPECIFICATION Spec
CONSTANTS
  a1 = a1
  q1 = q1
  q2 = q2
  Addrs <- OneAddr
  Reqs <- TwoReqs
  MaxDrips = 3
INVARIANTS
  NoDoubleDrip
