CONSTANTS
  None = None
  TargetIds <- MCTargetIds
  HttpMethods <- MCHttpMethods
  Statuses <- MCStatuses
  Configs <- SmallConfigs
  Requests <- StrategyRequests
  TargetStatuses = {200}
  MaxTargets = 2
SPECIFICATION Spec
INVARIANT TargetErrorsHandled
