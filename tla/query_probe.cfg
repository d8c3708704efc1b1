SPECIFICATION Spec
CONSTANTS
  NULL = NULL
  RowCount = 8
  LossAt = {1}
  OnlyCases <- MCOnlyCases
  Faulty = {"dynamic", "force", "no_hint"}
INVARIANTS
  DefectIsFound
  GreenIsEarned
  DatabaseGone
