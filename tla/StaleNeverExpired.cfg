CONSTANTS
  None = None
  a = a
  b = b
  c = c
  Callers <- MCCallers
  Lifetimes <- MCLifetimes
  MaxTime = 4
SPECIFICATION Spec
INVARIANT StaleNeverExpired
