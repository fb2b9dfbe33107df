SPECIFICATION Spec
CONSTANTS
  LastChain = 11
  SoloLen = 5
  PairLen = 3
  ChargeLen <- MCChargeLen
  ControlCards = 6
  CARD_8 = 5
  CARD_T = 7
  CARD_J = 8
  CARD_K = 10
  LordLate = 10
  PlayerLate = 8
  LongChain = 8
  DealtCards = 17
  Deck <- MCDeck
  Deals <- MCDeals
  Tables <- MCTables
  Lords = {0, 1, 2}
  TakesOut <- TakesOutHand
  Shuffles <- MCShuffles
CHECK_DEADLOCK FALSE
INVARIANTS
  TypeOK ChoosesWell NeverRefused RecordsAreExact TakesItsWins SparesPartner
