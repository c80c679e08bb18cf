SPECIFICATION Spec
CONSTANTS
  s1 = s1
  s2 = s2
  Senders = {s1, s2}
  Ops <- Clients
  Capacity = 2
  Estimates = {2}
  Maximum = 2
  Limit = 5
  MaxSends = 2
INVARIANTS
  LeaseAccounting
  SlotAccounting
  OnceInOrder
PROPERTY SendReturns
