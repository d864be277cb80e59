SPECIFICATION Spec
CONSTANTS
  c1 = c1
  l1 = l1
  l2 = l2
  n1 = n1
  n2 = n2
  w1 = w1
  w2 = w2
  e1 = e1
  Configs = {c1}
  Logins = {l1, l2}
  Names = {n1, n2}
  Workers = {w1, w2}
  Editors = {e1}
  Forms = {"sync", "typed", "blank"}
  Owners = {c1, "none"}
SYMMETRY MCSymmetry
INVARIANTS
  KeyOfLogin
  
PROPERTIES
  OnlyCreationCreates
  DefaultKept
