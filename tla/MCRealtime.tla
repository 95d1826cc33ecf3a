----------------------------- MODULE MCRealtime ------------------------------
(* Instance of Realtime for TLC: users who may see the alerts, and users who  *)
(* may see nothing.                                                           *)
EXTENDS Realtime

CONSTANTS alerts

MCGrants == {{alerts}, {}}
=============================================================================
