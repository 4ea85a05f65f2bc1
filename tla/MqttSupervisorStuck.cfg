CONSTANTS
  Failures <- RouteFailure
  MaxEvents = 6
SPECIFICATION Spec
INVARIANT ConnectingHasAttempt
