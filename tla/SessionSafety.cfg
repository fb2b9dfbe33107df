SPECIFICATION Spec
CONSTANTS
  MaxGames = 2
  MaxTurns = 2
  LobbyFirst = TRUE
  Settled = TRUE
  Patient = TRUE
INVARIANTS
  TypeOK
  
  
  TurnIsAnswered
  CallIsLegal
  SeatsAreKnown
  WaitingIsKnown
