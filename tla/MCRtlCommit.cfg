SPECIFICATION Spec
CONSTANTS
  None = None
  Editable = {"rtl", "tb"}
  Docs <- MCDocs
  MaxCommits = 2
  MaxEdits = 2
  MaxFaults = 1
INVARIANTS
  RtlCommitIdentifiesSources
CHECK_DEADLOCK FALSE
