CONSTANTS
  Ids <- MCIds
  House = 0
  TableOf <- Table
  FirstRows <- First
  Writers = {w1}
  Restorers = {r1, r2}
  NoRow = NoRow
  FileBound = 1
SPECIFICATION FairBackupSpec
INVARIANTS BackupTypeOK BackupInv ExportIsClosed DeletesAreNeverRefused
PROPERTIES ReplacedWhole OnlyBudgetsRefuse EveryRestoreEnds
