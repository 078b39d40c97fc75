SPECIFICATION MCSpec
CONSTANTS
  c1 = c1
  c2 = c2
  Conns <- MCConns
  Mic = c1
  Roles <- MCRoles
  ActiveRole = "echo"
  Untitled <- MCUntitled
  Limit = 3
  MaxInputs = 3
  MaxFaults = 1
INVARIANTS
  FiledTogether
  Readable
  QuestionsAnswered
  TitleIsFirstQuestion
  RoleFollowsPrompt
CHECK_DEADLOCK FALSE
