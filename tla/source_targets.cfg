SPECIFICATION Spec
CONSTANTS
  f = f g = g h = h r1 = r1 r2 = r2 Nil = Nil
  Names = {f, g, h}
  Receivers = {r1, r2}
  Instances <- MCInstances
  PathSlug <- MCPathSlug
  NameSlug <- MCNameSlug
  PathRank <- MCPathRank
  NameRank <- MCNameRank
  SignalPaths = {}
  SignalNames = {}
  ScreenedPaths = {}
  PartitionPaths = {}
  Constructors = {}
  Recorded = {"heartbeat-token-precision"}
  Scanners = {s1}
INVARIANTS FunctionsFound OneCandidatePerSource
PROPERTIES ImportOnlyAdds NothingHeldBack
