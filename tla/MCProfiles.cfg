SPECIFICATION FairSpec
CONSTANTS
  p1 = p1
  p2 = p2
  a = a
  b = b
  Id = {p1, p2}
  Alias = {a, b}
  Registered <- FirstDocument
  Client = {c1, c2}
  MaxCommands = 3
  FaultPlan <- Faults
  None = None
CHECK_DEADLOCK FALSE
INVARIANTS
  TypeOK
  RemovalConverges
  NoDanglingRow
  GoneStaysGone
  AliasesUnique
  LeaseProtects
PROPERTY CommandsEnd
