SPECIFICATION Spec
CONSTANTS
  s1 = s1
  s2 = s2
  t1 = t1
  t2 = t2
  Savers = {s1, s2}
  Starter = starter
  Texts = {t1, t2}
  Empty = empty
  Default = default
  NoText = notext
SYMMETRY Symmetric
INVARIANTS
  SyncedStays
PROPERTIES
  DefaultYields
