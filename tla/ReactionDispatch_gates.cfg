SPECIFICATION Spec
CONSTANTS
  e1 = e1
  a1 = a1
  a2 = a2
  NoItem = NoItem
  Events <- MCEvents
  Admins <- MCTwoAdmins
  TTL = 2
  MaxContext = 1
  MaxLeases = 2
  Cases <- MCCases
  Contexts = {0}
INVARIANTS
  TypeOK
  AuditedOnce
PROPERTIES
  ImplementsLadder
  ActiveLeaseKept
  SimulatedUnderLease
