SPECIFICATION Spec
CONSTANTS
  m1 = m1
  m2 = m2
  foreign = foreign
  Messages <- MCMessages
  Lengths <- MCLengths
  RandomId <- MCRandomId
  Foreign <- MCForeign
  Seeds = {4}
  FragmentIdMax = 4
  Capacity = 2
  AggregateMax = 4
  MessageMax = 3
  ReassemblyExpiry = 1
  WindowCapacity = 5
  OutboundExpires = 2
  InboundExpires = 2
  MaxNow = 2
INVARIANTS RefundsExact NoSilentLoss
PROPERTIES ServiceSpec
CHECK_DEADLOCK FALSE
