SPECIFICATION Spec
CONSTANTS
  k1 = k1 k2 = k2 k3 = k3 Nil = Nil
  Keys = {k1, k2, k3}
  Primary = k1
  Regions = 2
  TxnDefects = {"none", "torn", "answer", "timestamp", "index", "replay", "mode"}
  LockDefects = {"none", "cleanup"}
INVARIANTS GreenIsProved RedIsADefect
CHECK_DEADLOCK FALSE
