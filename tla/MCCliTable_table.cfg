CONSTANTS
  Startup = "init"
  Ptp = "ptp"
  Cli = "cli"
  Programs <- MCPrograms
  Starter <- MCStarter
  Lines <- MCLines
  MaxCmds = 3
  MaxLines = 2
  Torn = "torn"
SPECIFICATION Spec
INVARIANTS
  HandleNames
  RunsWhatWasTyped
  HelpIsTidy
PROPERTY
  OnlyDuplicatesHang
CHECK_DEADLOCK FALSE
