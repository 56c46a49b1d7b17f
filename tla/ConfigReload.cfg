\* Edits at every moment of a load and after it; a process that failed stops.
SPECIFICATION Spec
CONSTANTS
  sites = sites None = None
  Imports = {sites}
  Texts <- AllTexts
  TextsOf <- TextsOfFile
  Disks <- FirstDisks
  DirectExt = "hcl"
  Machines <- SomeMachines
  MaxEdits = 2
INVARIANTS TypeOK StrongestSourceWins OnlyUncheckedPanics
PROPERTY WatchedEditsArrive
CHECK_DEADLOCK FALSE
