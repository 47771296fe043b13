SPECIFICATION FairSpec
CONSTANTS
  n1 = n1
  n2 = n2
  x1 = x1
  x2 = x2
  o1 = o1
  Free = Free
  Handlers = {x1, x2}
  Nodes = {n1, n2}
  Orders = {o1}
  Providers = {"epay", "stripe", "creem", "waffo", "pancake"}
  MaxFaults = 2
INVARIANTS TypeOK CreditedAtMostOnce
PROPERTY PaidIsCredited
