SPECIFICATION Spec
CONSTANTS
  Process = {p1, p2}
  Op <- MCOps
  Absent = Absent
INVARIANTS TypeOK AlwaysLoads AnswersAreHonest
PROPERTY ImplementsAtomicDocument
CHECK_DEADLOCK FALSE
