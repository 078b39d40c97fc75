SPECIFICATION MCSpec
CONSTANTS
  Chars <- MCChars
  Size <- MCSize
  Terminals <- MCTerminals
  Commas <- MCCommas
  Digits <- MCDigits
  Point = "."
  Silent <- MCSilent
  MinBytes = 3
  SoftMaxBytes = 5
  FirstMinBytes = 2
  MaxChars = 4
  Alphabet <- MCAlphabet
  Time <- MCTime
  Calc <- MCCalc
  SysInfo <- MCSysInfo
  Lower <- MCLower
  MaxQuestion = 5
  Ids <- MCIds
  Prompts <- MCPrompts
  MaxRoles = 2
INVARIANTS
  SameSentences
  SpokenAsWritten
  AnswersAreRight
  ExpressionsAreSolved
  StartRoleOffered
CHECK_DEADLOCK FALSE
