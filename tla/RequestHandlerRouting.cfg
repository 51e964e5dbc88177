CONSTANTS
  None = None
  TargetIds <- MCTargetIds
  HttpMethods <- MCHttpMethods
  Statuses <- MCStatuses
  Configs <- MCConfigs
  Requests <- AnyRequest
  TargetStatuses = {200}
  MaxTargets = 3
SPECIFICATION Spec
INVARIANTS
  RoutedToOne
  AnswerAfterAllSettled
  NoSelfInflictedPanic
  PanicsHaveCauses
PROPERTIES
  ImplementsContract
  EveryStepProgresses
  EndsUnlessStalled
