\* Deploys from both sides, backups and restores that break anywhere.
CONSTANTS
  Rows = {r1}
  KeepDaily = 1
  MaxBackups = 3
  MaxDays = 2
SPECIFICATION Spec
INVARIANTS
  TypeOK
  NeverServesUnmigrated
  LastBackupHolds
