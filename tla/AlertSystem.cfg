SPECIFICATION Spec
CONSTANTS
  malware = malware
  web_attack = web_attack
  port_scan = port_scan
  Keys <- ThreeRules
  SeverityOf <- ThreeSeverityOf
  Assignees = {ana}
  Nobody = Nobody
  MinOccurrences = 2
  Events <- MixedEvents
  r1 = r1
  Requests = {r1}
  Worker = Worker
  NoId = NoId
  NoAlert = NoAlert
  MaxAlerts = 2
  MaxOccurrences = 3
  MaxSaves = 1
  MaxRuns = 2
  StoreFaults = TRUE
INVARIANTS
  CopiesNeverAhead
  SuppressionEarned
  OneStoredAlertPerKeyAndRun
  EscalatedUnlessSkipped
CHECK_DEADLOCK FALSE
