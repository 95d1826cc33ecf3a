-------------------------- MODULE MCIngestionWorker --------------------------
(* Instances of IngestionWorker for TLC: failed logins that match a high   *)
(* severity rule and a medium plugin and are evidence for the correlation, *)
(* and a line that no parser accepts.                                      *)
EXTENDS IngestionWorker, TLC

CONSTANTS brute_force, brute_plugin, repeated_failed_auth,
          login1, login2, noise

MCKeys == {brute_force, brute_plugin, repeated_failed_auth}
MCSeverityOf == [k \in Keys |-> IF k = brute_plugin THEN "medium" ELSE "high"]

Logins == {login1, login2}
LoginsAndNoise == {login1, login2, noise}

MCRulesOf == [e \in Events |-> IF e \in Logins THEN <<brute_force>> ELSE <<>>]
MCPluginsOf == [e \in Events |-> IF e \in Logins THEN <<brute_plugin>> ELSE <<>>]
MCNoRules == [e \in Events |-> <<>>]
MCMalformed == Events \cap {noise}
MCEvidence == Events \cap Logins
=============================================================================
