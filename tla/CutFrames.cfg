SPECIFICATION Spec
CONSTANTS
  Message <- Acks
  NoMessage = NoMessage
  Garbled = Garbled
  Deliveries = {"cut"}
  MaxWire = 2
  Robots = 2
  Seats = 2
  MinPlayerNums = {1}
  MaxPlayerNum = 1
  Refusable = {"NEED_ROBOT"}
  Prompt = TRUE
INVARIANT
  MessagesAreWhole
