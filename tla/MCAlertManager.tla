--------------------------- MODULE MCAlertManager ---------------------------
(* Instance of AlertManager for TLC: one key that escalation and           *)
(* suppression both concern, one that only suppression does, and one that  *)
(* the priority floor protects.                                            *)
EXTENDS AlertManager, TLC

CONSTANTS port_scan, brute_force, malware, i1, i2

MCKeys == {port_scan, brute_force, malware}
MCSeverityOf ==
  (port_scan :> "medium") @@ (brute_force :> "high") @@ (malware :> "critical")
MCSymmetry == Permutations({i1, i2})
=============================================================================
