CONSTANTS
  NumListeners = 2
  Connections = {1, 2}
  MaxSignals = 2
SPECIFICATION Spec
INVARIANTS
  TypeOK
  CleanExitCutsNobody
  HealthyMeansListening
PROPERTIES
  ShutdownOnlyAdvances
  SignalEndsProcess
