SPECIFICATION Spec
CONSTANTS
  Threads = {t1, t2}
  Apps = {a1, a2}
  MaxText = 1
  MaxActs = 3
INVARIANTS TypeOK EmbedsOwnPage SettledShowsUrl DeployPublishes
CHECK_DEADLOCK FALSE
SYMMETRY Symmetry
