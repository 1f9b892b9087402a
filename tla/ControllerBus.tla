----------------------------- MODULE ControllerBus -----------------------------
(***************************************************************************)
(* The serial bus of the controller and memory card ports                  *)
(* (src/controller.c): exchangePacket, which goes on while the device      *)
(* acknowledges, and sendPacketNoAcknowledge, against devices (external)   *)
(* that may be missing or whose acknowledgements may be lost.  A byte      *)
(* takes 32 us on the bus.                                                 *)
(***************************************************************************)
EXTENDS Integers, Sequences

CONSTANTS Plugs,      \* what may be plugged into the two ports
          RxSize,     \* bytes that the serial port keeps: 8
          MaxFaults   \* bound on the acknowledgements that come too late

ASSUME BusAssumption ==
    /\ Plugs \subseteq [0..1 -> SUBSET {"pad", "card", "mcp"}]
    /\ RxSize \in Nat \ {0} /\ MaxFaults \in Nat

VARIABLES
    bpc,                \* where the packet functions are
    packet, left,       \* the packet; what is still to be sent of it
    response,           \* what exchangePacket has read
    tx, rx, dsr, dtr,   \* serial port: to send, received, flag, select
    plugged,            \* the devices at each port
    heard, owes,        \* device: bytes of this packet, a pulse to come
    faults

portVars   == <<tx, rx, dsr, dtr>>
deviceVars == <<plugged, heard, owes, faults>>
callVars   == <<bpc, packet, left, response>>
busVars    == <<callVars, portVars, deviceVars>>

ADDR_CONTROLLER == 1
ADDR_MEMORY_CARD == 129
CMD_POLL == 66
CMD_CARD_IDENTIFY == 83
CMD_GAME_ID_PING == 32
CMD_GAME_ID_SEND == 33

\* The packets of getButtonPress, checkMCPpresent and sendGameID; the answer
\* to the last one is not looked at.
Packet(p, a, r, n) == [port |-> p, address |-> a, request |-> r, answer |-> n]
Poll(p)     == Packet(p, ADDR_CONTROLLER, <<CMD_POLL, 0, 0, 0>>, 32)
Identify(p) == Packet(p, ADDR_MEMORY_CARD, <<CMD_CARD_IDENTIFY>>, 9)
Ping(p)     == Packet(p, ADDR_MEMORY_CARD, <<CMD_GAME_ID_PING, 0, 0, 0, 0>>, 5)
GameID(p, id) == Packet(p, ADDR_MEMORY_CARD,
                        <<CMD_GAME_ID_SEND, 0, Len(id) + 1>> \o id \o <<0>>, 0)

BusInit == /\ bpc = "idle" /\ packet = Poll(0) /\ left = << >>
           /\ response = << >> /\ tx = << >> /\ rx = << >>
           /\ dsr = FALSE /\ dtr = FALSE
           /\ plugged \in Plugs
           /\ heard = << >> /\ owes = FALSE /\ faults = 0

-------------------------------------------------------------------------------
(* Both packet functions begin alike: the port is selected, an old          *)
(* acknowledgement dropped, DTR asserted and the address sent.              *)

Exchanging == packet.answer > 0

Call(p) ==
    /\ bpc = "idle" /\ bpc' = "address"
    /\ packet' = p /\ left' = p.request /\ response' = << >>
    /\ dsr' = FALSE /\ dtr' = TRUE /\ heard' = << >> /\ owes' = FALSE
    /\ UNCHANGED <<tx, rx, plugged, faults>>

SendAddress ==
    /\ bpc = "address" /\ tx = << >>
    /\ tx' = <<packet.address>>
    /\ bpc' = IF Exchanging THEN "ack" ELSE "drain"
    /\ UNCHANGED <<packet, left, response, rx, dsr, dtr, deviceVars>>

\* waitForAcknowledge resets the flag so that it can be set again.  After the
\* address what has been received so far is dropped.
Acknowledged ==
    /\ bpc = "ack" /\ dsr /\ dsr' = FALSE
    /\ bpc' = IF heard = <<packet.address>> THEN "drain" ELSE "byte"
    /\ UNCHANGED <<packet, left, response, tx, rx, dtr, deviceVars>>

\* No pulse within DSR_TIMEOUT, 120 us: there is none, or it is late.
\* (Patient: a bug that waits for ever.)
Patient == FALSE
TimedOut == tx = << >> /\ ~dsr

NoAcknowledge ==
    /\ bpc = "ack" /\ TimedOut /\ bpc' = "release"
    /\ (owes => faults < MaxFaults)
    /\ faults' = IF owes THEN faults + 1 ELSE faults
    /\ UNCHANGED <<packet, left, response, portVars, plugged, heard, owes>>

\* sendPacketNoAcknowledge gets here BYTE_DELAY, 30 us, after the address,
\* whose answer may not have arrived yet.  (KeepsRest: a bug, no drain.)
KeepsRest == UNCHANGED rx
DropRest == rx' = << >>

Drain ==
    /\ bpc = "drain" /\ DropRest /\ bpc' = "byte"
    /\ UNCHANGED <<packet, left, response, tx, dsr, dtr, deviceVars>>

\* Whether the loop goes on: to the length of the answer, or of the request.
More == IF Exchanging THEN Len(response) < packet.answer ELSE left # << >>

\* exchangeByte: one byte on its way and one waiting at most.  A request that
\* is shorter than the answer is padded with zeroes.
SendByte ==
    /\ bpc = "byte" /\ More /\ Len(tx) < 2 /\ bpc' = "receive"
    /\ tx' = Append(tx, IF left = << >> THEN 0 ELSE Head(left))
    /\ left' = IF left = << >> THEN left ELSE Tail(left)
    /\ UNCHANGED <<packet, response, rx, dsr, dtr, deviceVars>>

ReceiveByte ==
    /\ bpc = "receive" /\ rx # << >> /\ rx' = Tail(rx)
    /\ IF Exchanging
       THEN bpc' = "ack" /\ response' = Append(response, Head(rx))
       ELSE bpc' = "byte" /\ UNCHANGED response
    /\ UNCHANGED <<packet, left, tx, dsr, dtr, deviceVars>>

LastByte ==
    /\ bpc = "byte" /\ ~More /\ bpc' = "release"
    /\ UNCHANGED <<packet, left, response, portVars, deviceVars>>

\* DTR_DELAY, 150 us, is enough for what is still to be sent.
\* (AtOnce: a bug that does not wait.)
AtOnce == TRUE
SentAll == tx = << >>

Release ==
    /\ bpc = "release" /\ SentAll
    /\ dtr' = FALSE /\ owes' = FALSE /\ bpc' = "idle"
    /\ UNCHANGED <<packet, left, response, tx, rx, dsr, plugged, heard, faults>>

PacketStep == \/ SendAddress \/ Acknowledged \/ NoAcknowledge \/ Drain
              \/ SendByte \/ ReceiveByte \/ LastByte \/ Release

-------------------------------------------------------------------------------
(* What the callers make of an answer. *)

\* A byte of the answer; what is not received is not initialised, here 0.
At(k) == IF k <= Len(response) THEN response[k] ELSE 0

\* getButtonPress: bytes 3 and 4, or no buttons.  (AnyAnswer: a bug.)
NoButtons == << >>
AnyAnswer == IF At(2) # 90 THEN NoButtons ELSE <<At(3), At(4)>>
Buttons == IF Len(response) < 4 \/ At(2) # 90 THEN NoButtons
                                              ELSE <<At(3), At(4)>>

\* checkMCPpresent.  (AnyCard: a bug that takes every card for one.)
AnyCard == At(5) = 255 \/ Len(response) > 0
IsMCP == Len(response) = 5 /\ At(4) = 39 /\ At(5) = 255

-------------------------------------------------------------------------------
(* Devices (external).  A device that is addressed answers every byte with  *)
(* one of its own and pulses DSR unless it has no more to say; a card that  *)
(* is not a MemCard PRO gives up at an unknown command.                     *)

AddressOf(d) == IF d = "pad" THEN ADDR_CONTROLLER ELSE ADDR_MEMORY_CARD

Talks(bytes) == {d \in plugged[packet.port] : AddressOf(d) = bytes[1]}

AnswerLength(d, c) ==
    CASE d = "pad" -> 4
      [] d # "pad" /\ c = CMD_CARD_IDENTIFY -> 9
      [] d = "mcp" /\ c = CMD_GAME_ID_PING -> 5
      [] OTHER -> 1

\* The k-th byte of an answer: 0x5A, 0x27 and 0xFF where the driver looks.
AnswerByte(d, c, k) ==
    CASE d = "pad" /\ k = 2 -> 90
      [] c = CMD_GAME_ID_PING /\ k = 4 -> 39
      [] c = CMD_GAME_ID_PING /\ k = 5 -> 255
      [] OTHER -> 100 + k

\* The answer to the last of these bytes; an idle line reads 0xFF.
Answer(bytes) ==
    LET k == Len(bytes) - 1
    IN  IF \E d \in Talks(bytes) : k > 0 /\ k <= AnswerLength(d, bytes[2])
        THEN AnswerByte(CHOOSE d \in Talks(bytes) : TRUE, bytes[2], k)
        ELSE 255

Pulses(bytes) ==
    LET k == Len(bytes) - 1
    IN  \E d \in Talks(bytes) : k = 0 \/ k < AnswerLength(d, bytes[2])

\* The port receives a byte; the last of a full one is lost.
Receive(byte) ==
    rx' = Append(IF Len(rx) < RxSize THEN rx ELSE SubSeq(rx, 1, RxSize - 1), byte)

ByteSent ==
    /\ tx # << >> /\ tx' = Tail(tx)
    /\ IF dtr
       THEN /\ heard' = Append(heard, Head(tx))
            /\ Receive(Answer(heard')) /\ owes' = Pulses(heard')
       ELSE Receive(255) /\ UNCHANGED <<heard, owes>>
    /\ UNCHANGED <<callVars, dsr, dtr, plugged, faults>>

Pulse ==
    /\ owes /\ dsr' = TRUE /\ owes' = FALSE
    /\ UNCHANGED <<callVars, tx, rx, dtr, plugged, heard, faults>>

Device == ByteSent \/ Pulse

-------------------------------------------------------------------------------
(* Properties *)

\* The bus's part of the type invariant of the modules built on it: the serial
\* port is never given more to send than it can hold (controller.c:112).
BusTypeOK ==
    /\ bpc \in {"idle", "address", "ack", "drain", "byte", "receive", "release"}
    /\ plugged \in Plugs /\ packet.port \in 0..1 /\ Len(tx) <= 2 /\ Len(rx) <= RxSize
    /\ dsr \in BOOLEAN /\ dtr \in BOOLEAN /\ owes \in BOOLEAN
    /\ faults \in 0..MaxFaults

\* What exchangePacket has read is the beginning of what the device answers
\* to this packet: no byte of an earlier packet, none twice and none left out,
\* wherever an acknowledgement was lost (controller.c:143-166).
AnswersThisPacket ==
    dtr /\ Exchanging => \A k \in 1..Len(response) :
        k < Len(heard) /\ response[k] = Answer(SubSeq(heard, 1, k + 1))

\* A packet without acknowledgements is sent whole while the device is
\* selected (controller.c:219-225).
SentWhole ==
    [][bpc = "release" /\ bpc' = "idle" /\ ~Exchanging
         => heard = <<packet.address>> \o packet.request]_busVars
===============================================================================
