------------------------- MODULE MCCorrelationEngine -------------------------
(* Instance of CorrelationEngine for TLC: the two rules of                 *)
(* rules/correlation, with a shorter window and a threshold of 2.          *)
EXTENDS CorrelationEngine

MCRules == {"account-compromise", "repeated-failed-auth"}

MCRuleOf == [r \in Rules |->
  IF r = "account-compromise"
  THEN [mode |-> "sequence", seconds |-> 1, threshold |-> 1,
        conditions |-> <<{"failure"}, {"success"}>>]
  ELSE [mode |-> "threshold", seconds |-> 1, threshold |-> 2,
        conditions |-> <<{"failure"}>>]]
=============================================================================
