SPECIFICATION FairSpec
CONSTANTS
  portal = portal
  migrate = migrate
  Portals = {portal}
  Migrators = {migrate}
  Layouts <- MCLayouts
INVARIANTS
  ServesComplete
PROPERTIES
  RowsKept
  EventuallyServes
CHECK_DEADLOCK FALSE
