SPECIFICATION MCSpec
CONSTANTS
  None = None
  N = 2
  R = 2
  MaxDelta = 4
  Offsets = {0}
  Values = {0, 1}
  DATA_BASE = 1
  Alu <- MCAlu
  Imm <- MCImm
  Taken <- MCTaken
  Link <- MCLink
  SpikeLogs <- MCLogs
  Traces <- MCTraces
  Headers <- MCHeaders
  MaxSections = 3
  IMEM_LIMIT = 3
  DMEM_BASE = 4
  DMEM_LIMIT = 6
  Configurations <- MCConfigurations
  MaxCommits = 2
  MaxRuns = 3
  MaxFaults = 2
INVARIANTS
  MachinesAgree
  VerdictIsTrue
  NoChildOutlives
  ImagesAreExact
  SummaryIsOfOneRun
PROPERTIES
  ToolsTerminate
CHECK_DEADLOCK FALSE
