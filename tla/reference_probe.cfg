SPECIFICATION Spec
CONSTANTS
  Probes = {"object_reference", "reference_matrix", "stateful_object", "masking_policy"}
  Near = 30
INVARIANTS
  DefectIsFound
  FindingIsReal
  GreenIsEarned
  NothingLeft
