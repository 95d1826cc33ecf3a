SPECIFICATION Spec
CONSTANTS
  brute_force = brute_force
  brute_plugin = brute_plugin
  repeated_failed_auth = repeated_failed_auth
  login1 = login1
  login2 = login2
  noise = noise
  Keys <- MCKeys
  SeverityOf <- MCSeverityOf
  Assignees = {}
  Nobody = Nobody
  MinOccurrences = 2
  Events <- Logins
  Malformed <- MCMalformed
  RulesOf <- MCRulesOf
  PluginsOf <- MCNoRules
  Evidence <- MCEvidence
  CorrelationKey = repeated_failed_auth
  Threshold = 3
  MaxAttempts = 3
  NoAlert = NoAlert
  NoEvent = NoEvent
  MaxFaults = 1
  MaxCrashes = 0
INVARIANTS
  ProcessedMatchesAlerted
CHECK_DEADLOCK FALSE
