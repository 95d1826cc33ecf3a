-------------------------- MODULE MCDetectionEngine --------------------------
(* Instance of DetectionEngine for TLC: a failed login that both rules      *)
(* match and a scan that one does.                                          *)
EXTENDS DetectionEngine

MCMatchedBy == [e \in Events |-> IF e = "login" THEN DetectionRules ELSE {"brute-force"}]
=============================================================================
