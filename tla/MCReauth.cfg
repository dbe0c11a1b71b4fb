SPECIFICATION FairSpec
CONSTANTS
  Client = {c1, c2}
  MaxTx = 2
  MaxCred = 4
  MaxKills = 2
  MaxPowerLoss = 1
  Nobody = Nobody
INVARIANTS
  TypeOK
  CredentialNeverLost
  ReportedIsDurable
  RefusesOnlyRotation
  OldNeverStrays
PROPERTIES
  NeverRollsBack
  JournalResolved
