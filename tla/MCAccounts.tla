------------------------------ MODULE MCAccounts -----------------------------
(* Instance of Accounts for TLC: two administrators and a user to create.     *)
EXTENDS Accounts, TLC

CONSTANTS c1, c2, u1, u2, u3, s1, s2

MCSymmetry == Permutations({c1, c2}) \cup Permutations({u1, u2})
                \cup Permutations({s1, s2})
=============================================================================
