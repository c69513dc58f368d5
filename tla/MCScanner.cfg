\* Every stream of up to seven bytes.  The scanner may stop at any of them.
SPECIFICATION Spec
CONSTANTS
  Char = {"a", "b", "/", "0"}
  Base32 = {"a", "b"}
  Nul = "0"
  RefLength = 3
  PathName = {"one", "two"}
  Requests <- MCRequests
  MaxStream = 7
INVARIANTS
  ReportsOnlyReferences
  FindsReferences
CHECK_DEADLOCK FALSE
