SPECIFICATION Spec
CONSTANTS
  Commands = {"disco", "derp", "control", "register", "suite"}
  MAX_SOURCES = 1
  MaxNow = 4
  Candidates = {"peer"}
  LISTEN = 3
  PROBE_INTERVAL = 2
  MaxDatagrams = 2
  DELIVERY = 2
  BUFFER = 5
  OtherLengths = {0, 4}
  MaxOthers = 2
  Scripts <- MCScripts
  Servers = {"good", "keyless", "refuses", "unproven"}
  HTTP_BUFFER = 7
  MAX_PLAINTEXT = 3
  MAX_PAYLOAD = 2
  MAX_FRAME = 3
  BODY = 3
  MaxRuns = 3
  MaxKeys = 4
  Processes <- MCProcesses
  Workers <- MCWorkers
  Checks <- MCChecks
  MaxFaults = 1
INVARIANTS Inv NothingSkipped  StoredWhole RegisteredIsStored NothingLeftBehind NoFalseFailures
PROPERTIES ExchangeEnds
CHECK_DEADLOCK FALSE
