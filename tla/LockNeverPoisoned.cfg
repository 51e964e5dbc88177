CONSTANTS
  None = None
  a = a
  b = b
  c = c
  k1 = k1
  k2 = k2
  Callers <- MCCallers
  Keys <- MCKeys
SPECIFICATION Spec
INVARIANT LockNeverPoisoned
