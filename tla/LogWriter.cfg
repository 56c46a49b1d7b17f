\* Every logging configuration; four lines over three periods.
SPECIFICATION Spec
CONSTANTS
  Period = 2
  Sizes = {1, 3}
  StdoutBuf = 1
  FileBuf = 3
  StartTime = 1
  MaxTime = 6
  MaxLines = 4
INVARIANTS TypeOK NothingDropped FilesInDateOrder DueAtPeriodEnd
PROPERTIES ImplementsLog
