SPECIFICATION Spec
CONSTANTS
  NumCards = 7
  NumPoints = 3
  HandSize = 2
  Refusal = {"ack", "trust"}
  MaxLosses = 1
  MaxUnread = 2
VIEW View
INVARIANTS
  TypeOK
  OwnHandIsExact
  SentCardsAreHeld
  CountersAreExact
