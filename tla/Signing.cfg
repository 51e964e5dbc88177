CONSTANTS
  None = None
  Main = Main
  default = default
  role = role
  a = a
  b = b
  c = c
  Default = default
  Identities <- MCIdentities
  Requests <- MCRequests
SPECIFICATION Spec
INVARIANTS
  TypeOK
  ServingWarm
  SdkSetBeforeSigning
PROPERTY ImplementsShared
