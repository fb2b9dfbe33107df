SPECIFICATION FairSpec
CONSTANTS
  MaxGames = 1
  MaxTurns = 2
  LobbyFirst = TRUE
  Settled = TRUE
  Patient = TRUE
PROPERTIES
  FinishedRobotLeaves
  RobotAnswers
