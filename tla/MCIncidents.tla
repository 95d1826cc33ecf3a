----------------------------- MODULE MCIncidents -----------------------------
(* Instance of Incidents for TLC: PATCH requests of the text alone, of the   *)
(* status with the assignee, and of everything.                              *)
EXTENDS Incidents, TLC

CONSTANTS c1, c2, u1

MCChanges ==
  {[assignee |-> Nobody, status |-> "NONE", details |-> TRUE],
   [assignee |-> u1, status |-> "INVESTIGATING", details |-> FALSE],
   [assignee |-> u1, status |-> "CONTAINED", details |-> TRUE]}
MCSymmetry == Permutations({c1, c2})
=============================================================================
