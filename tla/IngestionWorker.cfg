SPECIFICATION FairSpec
CONSTANTS
  brute_force = brute_force
  brute_plugin = brute_plugin
  repeated_failed_auth = repeated_failed_auth
  login1 = login1
  login2 = login2
  noise = noise
  Keys <- MCKeys
  SeverityOf <- MCSeverityOf
  Assignees = {}
  Nobody = Nobody
  MinOccurrences = 2
  Events <- LoginsAndNoise
  Malformed <- MCMalformed
  RulesOf <- MCRulesOf
  PluginsOf <- MCPluginsOf
  Evidence <- MCEvidence
  CorrelationKey = repeated_failed_auth
  Threshold = 2
  MaxAttempts = 3
  NoAlert = NoAlert
  NoEvent = NoEvent
  MaxFaults = 2
  MaxCrashes = 1
INVARIANTS
  TypeOK
  LossesAccounted
  RuleCountedOnce
PROPERTIES
  DeliversAtMostOnce
  QueuedEventsSettle
  StopEndsWorkerUnlessIdle
CHECK_DEADLOCK FALSE
