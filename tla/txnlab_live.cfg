SPECIFICATION FairSpec
CONSTANTS
  r1 = r1 r2 = r2 fp1 = fp1 fp2 = fp2 net1 = net1 tidb = tidb tikv = tikv
  old = old new = new k1 = k1 k2 = k2 Nil = Nil
  Procs = {r1, r2}
  Points = {fp1, fp2}
  Objects = {net1}
  Components = {tidb, tikv}
  Images = {old, new}
  Keys = {k1, k2}
  HostOf <- LiveHostOf
  Configs <- LiveConfigs
  InitSpecs <- OneSpec
  Faults = {"lost", "timeout"}
  Rescuers = {}
PROPERTY FaultLiftedOrReported
CHECK_DEADLOCK FALSE
