SPECIFICATION LoggingSpec
CONSTANTS
  LevelList <- MCLevelList
  Global = "Global"
  Unknown = "Unknown"
  Id = {"default", "perf", "x"}
  DefaultId = "default"
  Short = "x"
  File = {"log", "bad"}
  DefaultFile = "log"
  Bad = {"bad"}
  Null = "Null"
  MaxSteps = 4
  MaxLogPerCounter = 3
  MaxLevel = 9
  Alphabet <- MCAlphabet
  SuffixList <- MCSuffixes
  Statements <- MCStatements
  Levels <- MCLevels
  Texts <- MCTexts
  Arguments <- MCArguments
  NoValue = NoValue
  MaxHits = 7
  MaxCalls = 3
INVARIANTS
  Faithful
  OneStreamPerFile
  Occasional
  MatchesAsDefined
CHECK_DEADLOCK FALSE
