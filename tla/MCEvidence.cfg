SPECIFICATION Spec
CONSTANTS
  None = None
  Editable = {"rtl", "tb", "harness", "pins"}
  Docs <- MCDocs
  MaxCommits = 2
  MaxEdits = 2
  MaxFaults = 1
INVARIANTS
  ReceiptIsOfThisRun
  SetNeverLost
  AcceptedSetIsWhole
  CurrentMeansMeasured
PROPERTIES
  EvidenceRecovers
CHECK_DEADLOCK FALSE
