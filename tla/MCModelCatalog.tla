--------------------------- MODULE MCModelCatalog ---------------------------
(* Model values for ModelCatalog: one config, two logins, two models, two  *)
(* workers and one editor.                                                 *)
EXTENDS ModelCatalog, TLC

CONSTANTS c1, l1, l2, n1, n2, w1, w2, e1

(* Logins, models and workers differ in nothing but their names.           *)
MCSymmetry ==
  Permutations({l1, l2}) \cup Permutations({n1, n2}) \cup Permutations({w1, w2})

=============================================================================
