CONSTANTS
  None = None
  Variables <- MCVariables
  Texts <- MCTexts
  HeaderNames <- MCHeaderNames
  RequestHeaderVariable <- MCRequestHeaderVariable
  ResponseHeaderVariable <- MCResponseHeaderVariable
  BadNames = {"bad name"}
  BadTexts = {"line break"}
  Files <- MCFiles
  Environments <- MCEnvironments
  Requests <- MCRequests
  Responses <- MCResponses
SPECIFICATION Spec
INVARIANT DefaultsYieldToRequest
