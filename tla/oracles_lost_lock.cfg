SPECIFICATION Spec
CONSTANTS
  k1 = k1 k2 = k2 k3 = k3 Nil = Nil
  Keys = {k1, k2}
  Primary = k1
  Regions = 2
  TxnDefects = {"none"}
  LockDefects = {"none", "cleanup"}
INVARIANT DestroyedLockIsRed
CHECK_DEADLOCK FALSE
