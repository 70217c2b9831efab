SPECIFICATION FairSpec
CONSTANTS
  c1 = c1
  c2 = c2
  p1 = p1
  p2 = p2
  Customer = {c1, c2}
  Proc = {p1, p2}
  MaxDocs = 2
  MaxFailures = 1
  MaxCrashes = 1
INVARIANTS TypeOK QuietAcrossDeploy ServesGuarded
PROPERTIES MigrationGoesThrough IndexesHeal
CHECK_DEADLOCK FALSE
