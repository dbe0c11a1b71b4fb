SPECIFICATION FairSpec
CONSTANTS
  Latched = {"hup", "int", "tstp", "winch"}
  Killable = {"anchor", "coordinator", "guardian"}
  MaxSignals = 2
  MaxTrouble = 2
INVARIANTS
  TypeOK InputOnlyThroughGate ExitMeansReleased
  CrossingFramesAbsorbed TerminalRestored
PROPERTIES CoordinatorSettles GuardianSettles
CHECK_DEADLOCK FALSE
