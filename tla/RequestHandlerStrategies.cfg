CONSTANTS
  None = None
  TargetIds <- MCTargetIds
  HttpMethods <- MCHttpMethods
  Statuses <- MCStatuses
  Configs <- StrategyConfigs
  Requests <- StrategyRequests
  TargetStatuses = {200, 404}
  MaxTargets = 2
SPECIFICATION Spec
INVARIANTS
  TypeOK
  ResponsesAttributed
  PanicsHaveCauses
PROPERTY ImplementsContract
