SPECIFICATION HandoffSpec
CONSTANTS
  pa = pa
  pb = pb
  w1 = w1
  Profile = {pa, pb}
  Workspace = {w1}
  Version = {v1}
  TrustDomain = {d1}
  TrustedDomain = d1
  Thread <- MCThreads3
  Conv = {c1}
  Launch = {}
  RolloutFile <- MCThreads3
  Fingerprint <- MCPrints
  Client = {k1, k2}
  BindLifecycle = {"clean"}
  Baselines = {}
  MAX_LINEAGE_GENERATIONS = 2
  MAX_HANDOFF_STEPS = 8
  UserThreads <- MCOneOfA
  MaxKills = 1
  Absent = Absent
INVARIANTS HandoffTypeOK AtMostOneFork StepBoundSuffices AttachRunsHead
SYMMETRY MCDrivers
VIEW MCView
CHECK_DEADLOCK FALSE
