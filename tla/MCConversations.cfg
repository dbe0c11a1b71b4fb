SPECIFICATION Spec
CONSTANTS
  Profile = {pa, pb}
  Workspace = {w1, w2}
  Version = {v1}
  TrustDomain = {d1, d2}
  Thread <- MCThreads2
  Conv = {c1, c2}
  Launch = {l1, l2}
  RolloutFile = {f1, f2}
  Fingerprint = {x1, x2}
  Client = {k1}
  BindLifecycle = {"clean", "unknown_crash"}
  Baselines <- MCBaselines
  MAX_LINEAGE_GENERATIONS = 2
  Absent = Absent
INVARIANTS TypeOK ValidDocument
PROPERTIES LineageImmutable TransitionFreezesWorkspace AmbiguityIsSticky
SYMMETRY MCSymmetry
CHECK_DEADLOCK FALSE
