SPECIFICATION FairSpec
CONSTANTS
  Message <- Acks
  NoMessage = NoMessage
  Garbled = Garbled
  Deliveries = {"whole", "cut"}
  MaxWire = 2
  Robots = 2
  Seats = 2
  MinPlayerNums = {0, 1}
  MaxPlayerNum = 1
  Refusable = {"NEED_ROBOT"}
  Prompt = TRUE
INVARIANTS
  TypeOK
  
PROPERTIES
  
  HeaderRecovers
  RoomIsServed
