SPECIFICATION FairSpec
CONSTANTS
  Message <- Acks
  NoMessage = NoMessage
  Garbled = Garbled
  Deliveries = {"whole"}
  MaxWire = 2
  Robots = 2
  Seats = 2
  MinPlayerNums = {1}
  MaxPlayerNum = 1
  Refusable = {"VERIFY", "INIT_GAME"}
  Prompt = TRUE
PROPERTY
  HeaderRecovers
