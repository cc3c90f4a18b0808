SPECIFICATION Spec
CONSTANTS
  MaxRequests = 2
  MaxDeaths = 2
  MaxFaults = 0
PROPERTIES RequestsAreSettled
CHECK_DEADLOCK FALSE
