---------------------------- MODULE ReadFraming -----------------------------
(***************************************************************************)
(* EventProcess::OnReadEvent: how the bytes of a connection become         *)
(* messages. A frame is a length, a message id and a body. The stream is   *)
(* counted in units of half a length field, so that a frame can be cut     *)
(* anywhere it matters: inside a field, between fields, inside the body.   *)
(* A step of the loop is one turn of its while.                            *)
(***************************************************************************)
EXTENDS Integers, Sequences

CONSTANTS
  Message,  \* what a frame may say
  NoMessage,
  Garbled,  \* bytes that are no frame, or not all of one
  Deliveries,  \* how the network may bring frames: "whole", or "cut" anywhere
  MaxWire   \* Bound: frames sent and not yet read

ASSUME FramingAssumption == Deliveries \subseteq {"whole", "cut"} /\ MaxWire \in Nat \ {0}

VARIABLES
  delivery, \* how this network brings them
  wire,     \* frames of which a byte is not read yet
  got,      \* units of wire that have come into the read buffer
  off,      \* units of wire that were read
  reading,  \* OnReadEvent is in its loop
  msg       \* the message handed to the robot last

framing == <<delivery, wire, got, off, reading, msg>>

Field == 2                \* units of the length, and of the id
Body  == 2                \* units of a message
Frame == 2 * Field + Body

Sent == Frame * Len(wire)

InitFraming ==
  /\ delivery \in Deliveries
  /\ wire = <<>> /\ got = 0 /\ off = 0 /\ reading = FALSE /\ msg = NoMessage

-----------------------------------------------------------------------------
(* The peer sends a message.                                               *)
SendFrame(m) == Len(wire) < MaxWire /\ wire' = Append(wire, m) /\ UNCHANGED <<delivery, got, off, reading, msg>>

(* The connection is gone, with everything on it.                          *)
LoseFrames == wire' = <<>> /\ got' = 0 /\ off' = 0 /\ reading' = FALSE /\ UNCHANGED <<delivery, msg>>

(* Bytes come in and libevent calls OnReadEvent.                           *)
Arrive ==
  /\ ~reading /\ got < Sent
  /\ got' \in (got + 1)..Sent
  /\ delivery = "whole" => got' % Frame = 0
  /\ reading' = TRUE
  /\ UNCHANGED <<delivery, wire, off, msg>>

(* Mutant: what was read is still counted as in the buffer.                *)
KeepsLength(n) ==
  /\ wire' = SubSeq(wire, 1 + n \div Frame, Len(wire))
  /\ got' = got
  /\ off' = n % Frame

(* Reading goes on at unit n: the frames before it are done with.          *)
MoveTo(n) ==
  /\ wire' = SubSeq(wire, 1 + n \div Frame, Len(wire))
  /\ got' = got - Frame * (n \div Frame)
  /\ off' = n % Frame

(* Nothing is left, and the callback returns.                              *)
BufferEmpty ==
  /\ reading /\ off = got
  /\ reading' = FALSE /\ UNCHANGED <<delivery, wire, got, off, msg>>

(* The length, or the id after it, is not all there: what there is of them *)
(* has been read, and the loop ends.                                       *)
FieldCut ==
  /\ reading /\ off < got /\ got - off < 2 * Field
  /\ MoveTo(got) /\ reading' = FALSE /\ UNCHANGED <<delivery, msg>>

(* Bytes from the middle of a frame read as a length of zero.              *)
LengthZero ==
  /\ reading /\ got - off >= Field /\ off # 0
  /\ MoveTo(off + Field) /\ reading' = FALSE /\ UNCHANGED <<delivery, msg>>

(* The units a length read at off says follow: from the middle of a frame  *)
(* any number, which may be more than there are.                           *)
LengthsRead == IF off = 0 THEN {Body} ELSE 1..(got - off)

(* Mutant: reading goes on behind the length field.                        *)
BodyWithId(n) ==
  LET there == got - off - 2 * Field IN
  /\ MoveTo(off + Field + (IF n < there THEN n ELSE there))
  /\ msg' = IF off = 0 /\ n <= there THEN Head(wire) ELSE Garbled

(* A body of n units, or what there is of it, is read and handed over. The *)
(* bytes that are missing are those the allocation happens to hold: such a *)
(* message is taken for one that does not parse.                           *)
TakeBody(n) ==
  LET there == got - off - 2 * Field IN
  /\ MoveTo(off + 2 * Field + (IF n < there THEN n ELSE there))
  /\ msg' = IF off = 0 /\ n <= there THEN Head(wire) ELSE Garbled

(* A turn of the loop that hands a message to RobotProcess; goOn says      *)
(* whether RobotProcess returned anything but CLOSE_CONNECTION.            *)
HandOver(goOn) ==
  /\ reading /\ got - off >= 2 * Field
  /\ \E n \in LengthsRead : TakeBody(n)
  /\ reading' = goOn
  /\ UNCHANGED delivery

ReadingEnds == BufferEmpty \/ FieldCut \/ LengthZero

-----------------------------------------------------------------------------
(* Every message is handed over whole.                                     *)
MessagesAreWhole == msg # Garbled

(* While the network cuts no frame, the messages handed over are the ones  *)
(* sent, in their order, each once: reading is the channel that the other  *)
(* modules take it for.                                                    *)
Channel == INSTANCE FrameChannel WITH
  Message <- Message \cup {NoMessage}, queue <- wire, msg <- msg
ImplementsChannel ==
  Channel!Init /\ [][delivery = "whole" => Channel!Next]_<<wire, msg>>
=============================================================================
