SPECIFICATION Spec
CONSTANTS
  None = None
  Latest = Latest
  Pinned = Pinned
  Heads <- Commits
  MaxRuns = 2
  MaxEdits = 2
CHECK_DEADLOCK FALSE
INVARIANTS
    SkipIsSafe
    DeployedIsCurrent
    DeployedExists
