SPECIFICATION DetectionSpec
CONSTANTS
  DetectionRules = {"brute-force", "suspicious-login"}
  Plugins = {"web-attack"}
  Events = {"login", "scan"}
  MatchedBy <- MCMatchedBy
  Outcomes = {"none", "match", "raises", "invalid"}
  Ttl = 2
  MaxNow = 5
INVARIANTS
  DetectionTypeOK
  SuppressedPassedBefore
PROPERTIES
  RepeatsAreSpaced
CHECK_DEADLOCK FALSE
