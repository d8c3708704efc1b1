SPECIFICATION EitherSpec
CONSTANTS
  gsel = gsel gora = gora gsce = gsce gsch = gsch profile = profile fault = fault
  ob1 = ob1 ob2 = ob2 ob3 = ob3 o1 = o1 o2 = o2 t1 = t1
  t2 = t2 t3 = t3 k11 = k11 k12 = k12 k21 = k21 k22 = k22
  deep = deep Nil = Nil
  AssetKeys = {gsel, gora, gsce, gsch, profile, fault, ob1, ob2, ob3, o1, o2}
  RunKeys = {"r1", "r2", "r3"}
  TargetKeys = {t1, t2, t3, k11, k12, k21, k22, deep}
  Bodies <- MCBodies
  ValidBodies <- MCBodies
  Rows <- MCRows
  ValidRows <- MCRows
  Relations = {"judged_by"}
  Roles = {}
  Files <- EitherFiles
  Readers = {q1}
  Refillers = {p1, p2}
  RefillKey <- Keys
  Limit = 2
  Workflows <- Either
INVARIANTS TypeOK NoBroadExecution NoSelfReplication
PROPERTIES OwnRunsOnly RefillRespectsQueue
CHECK_DEADLOCK FALSE
