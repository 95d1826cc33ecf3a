---------------------------- MODULE MCAlertSystem ----------------------------
(* Instance of AlertSystem for TLC.  malware and web_attack are high        *)
(* severity plugins that can match the same event, port_scan is a medium    *)
(* rule; escalation concerns the first two, suppression all three.  Some    *)
(* events yield two results, and a correlation after a detection: one alert *)
(* of an event may be past the threshold while another is new.              *)
EXTENDS AlertSystem, TLC

CONSTANTS malware, web_attack, port_scan, r1

EventOf(ds, cs) == [detections |-> ds, correlations |-> cs]

ThreeRules == {malware, web_attack, port_scan}
ThreeSeverityOf ==
  (malware :> "high") @@ (web_attack :> "high") @@ (port_scan :> "medium")
MixedEvents ==
  {EventOf(<<malware>>, <<>>), EventOf(<<port_scan>>, <<>>),
   EventOf(<<web_attack, malware>>, <<>>), EventOf(<<web_attack>>, <<malware>>)}
=============================================================================
