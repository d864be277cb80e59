-------------------------- MODULE MCIdentityFiles --------------------------
(* Model values for IdentityFiles: two users, two texts.                   *)
EXTENDS IdentityFiles, TLC

CONSTANTS s1, s2, t1, t2

Symmetric == Permutations({s1, s2}) \cup Permutations({t1, t2})

=============================================================================
