----------------------------- MODULE MCCollector -----------------------------
(* Instance of Collector for TLC. *)
EXTENDS Collector

CONSTANTS c1, c2

MCClients == {c1, c2}
=============================================================================
