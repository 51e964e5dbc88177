CONSTANTS
  None = None
  a = a
  b = b
  c = c
  Callers <- MCCallers
  Lifetimes <- MCLifetimes
  MaxTime = 2
SPECIFICATION Spec
INVARIANTS
  TypeOK
  SingleFlight
  ServedValidAtStart
  LockPassesOn
PROPERTIES
  FetchOnlyWhenDue
  ErrorOnlyWhenExpired
  ImplementsShared
  WaitersServed
