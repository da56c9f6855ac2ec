SPECIFICATION Spec
CONSTANTS
  prog = prog
  ko = ko
  None = None
  File <- FileNames
  Module = {ko}
  Elf <- FileNames
  Content = {c1, c2}
  Runtimes <- BothFiles
INVARIANTS TypeOK RootfsCurrent StrippedAsConfigured
CHECK_DEADLOCK FALSE
