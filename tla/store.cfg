SPECIFICATION FairSpec
CONSTANTS
  a1 = a1 a2 = a2 b1 = b1 b2 = b2 bad = bad run1 = run1 t1 = t1 row1 = row1 row2 = row2
  owner = owner uses = uses Nil = Nil
  AssetKeys = {a1, a2}
  RunKeys = {run1}
  TargetKeys = {t1}
  Bodies = {b1, b2, bad}
  ValidBodies = {b1, b2}
  Rows = {row1, row2, bad}
  ValidRows = {row1, row2}
  Relations = {uses}
  Roles = {owner, uses}
  Importers = {i1, i2}
  Files <- AllFiles
  Faults = {"busy", "crash"}
INVARIANTS TypeOK Consistent
PROPERTIES AtomicSpec RejectedForCause NothingIsLost ImportEnds
CHECK_DEADLOCK FALSE
