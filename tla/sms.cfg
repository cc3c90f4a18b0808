SPECIFICATION Spec
CONSTANTS
  MaxRequests = 2
  MaxDeaths = 1
  MaxFaults = 2
INVARIANT SentWithinAttempts
PROPERTIES SentStaysSent RequestsAreSettled
CHECK_DEADLOCK FALSE
