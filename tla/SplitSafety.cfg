SPECIFICATION Spec
CONSTANTS
  LastChain = 5
  SoloLen = 3
  PairLen = 2
  Copies = {0, 1, 2, 3, 4}
  MaxCards = 7
  Kinds = {1, 2, 3, 4, 5}
CHECK_DEADLOCK FALSE
INVARIANTS
  TypeOK
  LostCardsFollowPairChains
  LastCardSplitIsComplete
  HandsArePlayable
