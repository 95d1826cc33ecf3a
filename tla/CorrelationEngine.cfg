SPECIFICATION Spec
CONSTANTS
  Rules <- MCRules
  RuleOf <- MCRuleOf
  Groups = {"a", "b"}
  Kinds = {"failure", "success", "other"}
  MaxTime = 2
  MaxTurns = 3
  MaxEvents = 4
INVARIANTS
  TypeOK
  MatchesAreSound
  NoPatternPending
  EvidenceConsumed
CHECK_DEADLOCK FALSE
