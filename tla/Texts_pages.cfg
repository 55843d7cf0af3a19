SPECIFICATION MCSpec
CONSTANTS
  word = word
  space = space
  q1 = q1
  q2 = q2
  MaxLength = 9
  Alphabets = {{"space", "tab", "stop", "other"}, {"space", "newline", "other"}}
  Texts <- MCTextsOf
  MaxPages = 2
  Raws <- MCRaws
  PageTexts <- MCPages
  MaxChars = 6
  Overlap = 2
  Declined = Declined
  Words = {word, space}
  Blank = space
  MaxLines = 4
  MaxQuestions = 2
  Documents = {1, 2}
  Requests = {q1, q2}
  PageLimit = 2
  MaxUploads = 1
  MaxFaults = 1
INVARIANTS
  NothingLost
  PhrasesWhole
  ScreenTellsOutcome
PROPERTIES
  Terminates
  WaitingLeavesScreen
CHECK_DEADLOCK FALSE
