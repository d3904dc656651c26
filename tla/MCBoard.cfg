SPECIFICATION MCSpec
CONSTANTS
  Commits = {c1, c2}
  None = None
  Requested = {"build"}
  MaxCommits = 2
  MaxEdits = 1
  MaxFaults = 1
INVARIANTS
  PreparedIsPinned
  SocRecordIsGenuine
PROPERTIES
  PublishedIsKept
CHECK_DEADLOCK FALSE
