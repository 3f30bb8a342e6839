CONSTANTS
  Ids <- MCIds
  House = 0
  TableOf <- Table
  FirstRows <- First
  Writers = {w1}
  Restorers = {r1}
  NoRow = NoRow
  FileBound = 1
SPECIFICATION BackupSpec
INVARIANTS RestoreGivesBack
