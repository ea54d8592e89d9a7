SPECIFICATION MCSpec
CONSTANTS
  None = None
  c1 = c1
  c2 = c2
  Calls <- MCCalls
  MaxFrame = 100
  BodyLength <- MCBodyLength
  Requests <- MCRequests
  Responses <- MCResponses
  ForeignRequests <- MCForeignRequests
  ForeignResponses <- MCForeignResponses
  Workers = 1
INVARIANTS AnswersAreOwn LiveOnlyWhenSaid LimitsAgree UnderstoodOrRefused
PROPERTY CallsEnd
CHECK_DEADLOCK FALSE
