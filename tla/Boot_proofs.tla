------------------------------- MODULE Boot_proofs -------------------------------
(***************************************************************************)
(* For any discs, any devices at the two ports and any bounds on what goes *)
(* wrong: answers belong to the packet that was sent, devices are found as *)
(* they are plugged in, packets to the memory cards are sent whole, and    *)
(* the restart is clean.                                                   *)
(***************************************************************************)
EXTENDS Boot, SequenceTheorems, TLAPS

(* What goes over the bus: bytes, and the characters of a game's id. *)
Bytes   == Nat \union STRING
Places  == {"idle", "address", "ack", "drain", "byte", "receive", "release"}
PacketSet == [port : 0..1, address : {ADDR_CONTROLLER, ADDR_MEMORY_CARD},
              request : Seq(Bytes) \ {<< >>}, answer : Nat]

BusTypes ==
    /\ bpc \in Places /\ packet \in PacketSet
    /\ left \in Seq(Bytes) /\ response \in Seq(Nat)
    /\ tx \in Seq(Bytes) /\ Len(tx) <= 2 /\ rx \in Seq(Nat) /\ Len(rx) <= RxSize
    /\ heard \in Seq(Bytes)
    /\ dsr \in BOOLEAN /\ dtr \in BOOLEAN /\ owes \in BOOLEAN
    /\ plugged \in Plugs /\ faults \in 0..MaxFaults

(* Between two packets, and before the address, nothing is on its way. *)
Rest ==
    /\ dtr = (bpc # "idle")
    /\ bpc \in {"idle", "address"} => tx = << >> /\ owes = FALSE
    /\ bpc = "address" => /\ heard = << >> /\ response = << >> /\ dsr = FALSE
                          /\ left = packet.request

(* A packet with acknowledgements, exchangePacket's: how many bytes each     *)
(* side has said, whether an acknowledgement is due, and what was answered.  *)
Quiet   == dsr = FALSE /\ owes = FALSE
AckDue  == /\ Pulses(heard) <=> dsr = TRUE \/ owes = TRUE
           /\ dsr = TRUE => owes = FALSE
Turns ==
    /\ bpc = "ack" =>
          \/ /\ Len(tx) = 1 /\ tx[1] = packet.address /\ heard = << >>
             /\ response = << >> /\ Quiet
          \/ /\ tx = << >> /\ Len(heard) = Len(response) + 1 /\ AckDue
             /\ response = << >> \/ rx = << >>
    /\ bpc = "drain" => /\ tx = << >> /\ response = << >> /\ Len(heard) = 1
                        /\ Quiet /\ Pulses(heard)
    /\ bpc = "byte" => /\ tx = << >> /\ rx = << >> /\ Len(heard) = Len(response) + 1
                       /\ Quiet /\ Pulses(heard)
    /\ bpc = "receive" =>
          /\ Len(response) < packet.answer
          /\ \/ /\ Len(tx) = 1 /\ rx = << >> /\ Len(heard) = Len(response) + 1
                /\ Quiet
                /\ response = << >> => tx[1] = packet.request[1]
             \/ /\ tx = << >> /\ Len(rx) = 1 /\ rx[1] = Answer(heard)
                /\ Len(heard) = Len(response) + 2 /\ AckDue
    /\ bpc \in {"release", "idle"} =>
          /\ tx = << >> /\ Len(heard) = Len(response) + 1
          /\ faults = 0 /\ Len(response) < packet.answer => ~Pulses(heard)
Said ==
    /\ Len(response) <= packet.answer
    /\ \A k \in 1..Len(response) :
          k < Len(heard) /\ response[k] = Answer(SubSeq(heard, 1, k + 1))
    /\ Len(heard) >= 1 => heard[1] = packet.address
    /\ Len(heard) >= 2 => heard[2] = packet.request[1]
    /\ bpc \in {"ack", "drain", "byte"} /\ response = << >> => left = packet.request
Exchange == Exchanging /\ Turns /\ Said

(* A packet without, sendPacketNoAcknowledge's: what the device has heard,   *)
(* what is on its way and what is still to be sent are the packet.           *)
Whole(p) == <<p.address>> \o p.request
Sending ==
    /\ ~Exchanging /\ bpc # "ack"
    /\ bpc # "address" => (heard \o tx) \o left = Whole(packet)
    /\ bpc \in {"release", "idle"} => left = << >>

BusInv == BusTypes /\ Rest

(* Which packet main waits for. *)
Asking == {"identified", "pinged", "polled"}
Packeted ==
    /\ at \in Asking => Exchange
    /\ at = "sent" => Sending
    /\ at \notin Asking \union {"sent"} => bpc = "idle"
    /\ at = "polled" => packet = Poll(0)
    /\ at = "pinged" => packet = Ping(port)
    /\ at = "sent" => packet = GameID(port, GameIdOf(config))

Reading  == {"type", "descriptor", "root", "config", "send", "sent"}
Restarts == {"stubs", "arm", "bios", "bios alt", "shell loaded", "shell", "game"}
MainTypes ==
    /\ at \in {"identify", "menu", "restart"} \union Asking \union Reading \union Restarts
    /\ port \in 0..1 /\ present \subseteq 0..1 /\ disc \in Discs
    /\ command \in {"none", "fast", "slow"} /\ failures \in 0..MaxFailures
    /\ swaps \in 0..MaxSwaps /\ sony \in BOOLEAN /\ armed \in BOOLEAN
    /\ config \in Texts

(* The console, from the first step of the restart to the program's own.    *)
Before == {"identify", "menu", "restart"} \union Asking \union Reading
Console ==
    /\ armed = TRUE => at = "bios alt"
    /\ at \in Restarts => irqs = FALSE
    /\ at \in {"stubs", "arm", "game"} => sony = TRUE /\ command = "fast"
    /\ at = "arm" => stubs = TRUE /\ shell = "dummy"
    /\ at \in {"bios", "shell"} => command = "slow" \/ sony = FALSE
    /\ at \in Before \union {"stubs", "bios"} => shell = "none"
    /\ at = "bios alt" /\ armed = FALSE => command = "slow" \/ sony = FALSE
    /\ at = "bios alt" /\ armed = TRUE =>
           stubs = TRUE /\ shell = "dummy" /\ sony = TRUE /\ command = "fast"
    /\ at = "shell loaded" =>
           IF shell = "dummy" THEN sony = TRUE /\ command = "fast"
                              ELSE command = "slow" \/ sony = FALSE
    /\ at \in (Reading \ {"type"}) \union {"restart"} \union Restarts
           /\ command = "fast" /\ failures = 0 => disc.ps
IInv == BusInv /\ Packeted /\ MainTypes /\ Console

-------------------------------------------------------------------------------
(* Bytes and answers.                                                       *)

LEMMA NatBytes == Nat \subseteq Bytes /\ 0 \in Bytes
BY DEF Bytes

LEMMA AnswerType == ASSUME NEW b \in Seq(Bytes) PROVE Answer(b) \in Nat
<1>1. Len(b) \in Nat BY LenProperties
<1> DEFINE k == Len(b) - 1
<1>2. ASSUME NEW d, NEW c, k > 0 PROVE AnswerByte(d, c, k) \in Nat
      BY <1>1, <1>2 DEF AnswerByte
<1>3. CASE \E d \in Talks(b) : k > 0 /\ k <= AnswerLength(d, b[2])
  <2>1. k > 0 BY <1>3
  <2>2. AnswerByte(CHOOSE d \in Talks(b) : TRUE, b[2], k) \in Nat BY <1>2, <2>1
  <2> QED BY <1>3, <2>2 DEF Answer
<1>4. CASE ~(\E d \in Talks(b) : k > 0 /\ k <= AnswerLength(d, b[2]))
      BY <1>4 DEF Answer
<1> QED BY <1>3, <1>4

LEMMA PulsesBoolean == \A b : Pulses(b) \in BOOLEAN
BY DEF Pulses

(* What was heard before stays the beginning of what was heard. *)
LEMMA Beginnings ==
  ASSUME NEW S, NEW s \in Seq(S), NEW x \in S, NEW n \in 1..Len(s)
  PROVE  SubSeq(Append(s, x), 1, n) = SubSeq(s, 1, n)
<1>1. Len(s) \in Nat BY LenProperties
<1>2. PICK t : t = Append(s, x) OBVIOUS
<1>3. t \in Seq(S) /\ Len(t) = Len(s) + 1 /\ \A i \in 1..Len(s) : t[i] = s[i]
      BY <1>2, AppendProperties
<1>4. n \in Nat /\ n <= Len(s) BY <1>1
<1>5. \A i \in 1..n : s[i] \in S /\ t[i] \in S
      BY <1>1, <1>3, <1>4, ElementOfSeq
<1>6. PICK u : u = SubSeq(s, 1, n) OBVIOUS
<1>7. PICK v : v = SubSeq(t, 1, n) OBVIOUS
<1>8. u \in Seq(S) /\ Len(u) = n /\ \A i \in 1..n : u[i] = s[i]
  <2>1. /\ u \in Seq(S) /\ Len(u) = IF 1 <= n THEN n - 1 + 1 ELSE 0
        /\ \A i \in 1..n - 1 + 1 : u[i] = s[1 + i - 1]
        BY <1>4, <1>5, <1>6, SubSeqProperties
  <2> QED BY <1>4, <2>1
<1>9. v \in Seq(S) /\ Len(v) = n /\ \A i \in 1..n : v[i] = t[i]
  <2>1. /\ v \in Seq(S) /\ Len(v) = IF 1 <= n THEN n - 1 + 1 ELSE 0
        /\ \A i \in 1..n - 1 + 1 : v[i] = t[1 + i - 1]
        BY <1>4, <1>5, <1>7, SubSeqProperties
  <2> QED BY <1>4, <2>1
<1>10. u = v
  <2>1. \A i \in 1..n : u[i] = v[i] BY <1>1, <1>3, <1>8, <1>9
  <2> QED BY <1>8, <1>9, <2>1, SeqEqual
<1> QED BY <1>2, <1>6, <1>7, <1>10

(* A byte passes from what is to be sent to what was heard. *)
LEMMA Passes ==
  ASSUME NEW S, NEW s \in Seq(S), NEW t \in Seq(S), t # << >>
  PROVE  Append(s, Head(t)) \o Tail(t) = s \o t
<1>1. Head(t) \in S /\ Tail(t) \in Seq(S) /\ Len(Tail(t)) = Len(t) - 1
      /\ \A i \in 1..Len(Tail(t)) : Tail(t)[i] = t[i + 1]
      BY HeadTailProperties
<1>2. Head(t) = t[1] OBVIOUS
<1>3. Len(s) \in Nat /\ Len(t) \in Nat \ {0} BY LenProperties, EmptySeq
<1>4. PICK h : h = Head(t) OBVIOUS
<1>5. PICK r : r = Tail(t) OBVIOUS
<1>6. PICK a : a = Append(s, h) OBVIOUS
<1>7. /\ a \in Seq(S) /\ Len(a) = Len(s) + 1 /\ a[Len(s) + 1] = h
      /\ \A i \in 1..Len(s) : a[i] = s[i]
      BY <1>1, <1>4, <1>6, AppendProperties
<1>8. r \in Seq(S) BY <1>1, <1>5
<1>9. PICK b : b = a \o r OBVIOUS
<1>10. PICK c : c = s \o t OBVIOUS
<1>11. /\ b \in Seq(S) /\ Len(b) = Len(a) + Len(r)
       /\ \A i \in 1..Len(a) + Len(r) :
             b[i] = IF i <= Len(a) THEN a[i] ELSE r[i - Len(a)]
  <2>1. a \in Seq(S) /\ r \in Seq(S) BY <1>7, <1>8
  <2> QED BY <1>9, <2>1, ConcatProperties
<1>12. /\ c \in Seq(S) /\ Len(c) = Len(s) + Len(t)
       /\ \A i \in 1..Len(s) + Len(t) :
             c[i] = IF i <= Len(s) THEN s[i] ELSE t[i - Len(s)]
       BY <1>10, ConcatProperties
<1>13. Len(b) = Len(c) BY <1>1, <1>3, <1>5, <1>7, <1>11, <1>12
<1>14. ASSUME NEW i \in 1..Len(b) PROVE b[i] = c[i]
  <2>1. i \in 1..Len(a) + Len(r) /\ i \in 1..Len(s) + Len(t)
        BY <1>11, <1>12, <1>13
  <2>2. CASE i <= Len(s) BY <1>3, <1>7, <1>11, <1>12, <2>1, <2>2
  <2>3. CASE i = Len(s) + 1
    <3>1. b[i] = h BY <1>3, <1>7, <1>11, <2>1, <2>3
    <3>2. c[i] = t[i - Len(s)] /\ i - Len(s) = 1 BY <1>3, <1>12, <2>1, <2>3
    <3> QED BY <1>2, <1>4, <3>1, <3>2
  <2>4. CASE i > Len(s) + 1
    <3>1. b[i] = r[i - (Len(s) + 1)] BY <1>3, <1>7, <1>11, <2>1, <2>4
    <3>2. c[i] = t[i - Len(s)] BY <1>3, <1>12, <2>1, <2>4
    <3>3. i - (Len(s) + 1) \in 1..Len(r) /\ (i - (Len(s) + 1)) + 1 = i - Len(s)
          BY <1>1, <1>3, <1>5, <1>7, <1>11, <2>1, <2>4
    <3>4. r[i - (Len(s) + 1)] = t[(i - (Len(s) + 1)) + 1] BY <1>1, <1>5, <3>3
    <3> QED BY <3>1, <3>2, <3>3, <3>4
  <2> QED BY <1>3, <2>1, <2>2, <2>3, <2>4
<1>15. b = c BY <1>11, <1>12, <1>13, <1>14, SeqEqual
<1> QED BY <1>4, <1>5, <1>6, <1>9, <1>10, <1>15

-------------------------------------------------------------------------------
(* Types of the bus, and what is at rest between two packets.               *)

LEMMA RxLength ==
  ASSUME BusTypes, NEW b \in Nat, Receive(b)
  PROVE  /\ rx' \in Seq(Nat) /\ Len(rx') <= RxSize
         /\ rx = << >> => Len(rx') = 1 /\ rx'[1] = b
<1>1. RxSize \in Nat /\ RxSize > 0 BY BusAssumption
<1>2. rx \in Seq(Nat) /\ Len(rx) <= RxSize /\ Len(rx) \in Nat
      BY LenProperties DEF BusTypes
<1>3. PICK s : s = IF Len(rx) < RxSize THEN rx ELSE SubSeq(rx, 1, RxSize - 1) OBVIOUS
<1>4. s \in Seq(Nat) /\ Len(s) < RxSize /\ Len(s) \in Nat
  <2>1. CASE Len(rx) < RxSize BY <1>2, <1>3, <2>1
  <2>2. CASE ~(Len(rx) < RxSize)
    <3>1. s = SubSeq(rx, 1, RxSize - 1) BY <1>3, <2>2
    <3>2. \A i \in 1..RxSize - 1 : rx[i] \in Nat
          BY <1>1, <1>2, <2>2, ElementOfSeq
    <3>3. RxSize - 1 \in Int BY <1>1
    <3>4. /\ s \in Seq(Nat)
          /\ Len(s) = IF 1 <= RxSize - 1 THEN RxSize - 1 - 1 + 1 ELSE 0
          BY <3>1, <3>2, <3>3, SubSeqProperties
    <3> QED BY <1>1, <3>4
  <2> QED BY <2>1, <2>2
<1>5. rx' = Append(s, b) BY <1>3 DEF Receive
<1>6. rx' \in Seq(Nat) /\ Len(rx') = Len(s) + 1 /\ rx'[Len(s) + 1] = b
      BY <1>4, <1>5, AppendProperties
<1>7. rx = << >> => s = << >>
  <2>1. rx = << >> => Len(rx) = 0 OBVIOUS
  <2> QED BY <1>1, <1>3, <2>1
<1>8. s = << >> => Len(s) = 0 OBVIOUS
<1> QED BY <1>1, <1>4, <1>6, <1>7, <1>8

(* A byte is sent only while the device is selected. *)
LEMMA SentSelected ==
  ASSUME BusInv, ByteSent
  PROVE  /\ bpc \notin {"idle", "address"}
         /\ heard' = Append(heard, Head(tx)) /\ tx' = Tail(tx) /\ tx # << >>
         /\ Receive(Answer(heard')) /\ owes' = Pulses(heard')
         /\ UNCHANGED <<callVars, dsr, dtr, plugged, faults>>
<1>1. tx # << >> BY DEF ByteSent
<1>2. bpc \notin {"idle", "address"} BY <1>1 DEF BusInv, Rest
<1>3. dtr = (bpc # "idle") BY DEF BusInv, Rest
<1>4. dtr BY <1>2, <1>3, Zenon
<1> QED BY <1>1, <1>2, <1>4 DEF ByteSent

LEMMA ByteSentTypes ==
  ASSUME BusInv, ByteSent
  PROVE  BusTypes' /\ Rest' /\ heard' \in Seq(Bytes)
<1>1. BusTypes BY DEF BusInv
<1>2. /\ bpc \notin {"idle", "address"}
      /\ heard' = Append(heard, Head(tx)) /\ tx' = Tail(tx) /\ tx # << >>
      /\ Receive(Answer(heard')) /\ owes' = Pulses(heard')
      /\ UNCHANGED <<bpc, packet, left, response, dsr, dtr, plugged, faults>>
      BY SentSelected DEF callVars
<1>3. Head(tx) \in Bytes /\ tx' \in Seq(Bytes) /\ Len(tx') = Len(tx) - 1
      BY <1>1, <1>2, HeadTailProperties DEF BusTypes
<1>4. heard' \in Seq(Bytes) BY <1>1, <1>2, <1>3, AppendProperties DEF BusTypes
<1>5. PICK a \in Nat : a = Answer(heard') BY <1>4, AnswerType
<1>6. rx' \in Seq(Nat) /\ Len(rx') <= RxSize BY <1>1, <1>2, <1>5, RxLength
<1>7. owes' \in BOOLEAN BY <1>2, PulsesBoolean, Zenon
<1>8. Len(tx') <= 2
  <2>1. Len(tx) \in Nat /\ Len(tx) <= 2 BY <1>1, LenProperties DEF BusTypes
  <2> QED BY <1>3, <2>1
<1>9. BusTypes' BY <1>1, <1>2, <1>3, <1>4, <1>6, <1>7, <1>8 DEF BusTypes
<1>10. Rest'
  <2>1. dtr = (bpc # "idle") BY DEF BusInv, Rest
  <2>2. dtr' = (bpc' # "idle") BY <1>2, <2>1, Zenon
  <2> QED BY <1>2, <2>2 DEF Rest
<1> QED BY <1>4, <1>9, <1>10

LEMMA PulseTypes == ASSUME BusInv, Pulse PROVE BusTypes' /\ Rest'
<1>1. /\ owes /\ dsr' = TRUE /\ owes' = FALSE
      /\ UNCHANGED <<bpc, packet, left, response, tx, rx, dtr, plugged, heard, faults>>
      BY DEF Pulse, callVars
<1>2. bpc \notin {"idle", "address"}
  <2>1. owes # FALSE BY <1>1, Zenon
  <2> QED BY <2>1 DEF BusInv, Rest
<1>3. dtr' = (bpc' # "idle") BY <1>1, Zenon DEF BusInv, Rest
<1> QED BY <1>1, <1>2, <1>3 DEF BusInv, BusTypes, Rest

LEMMA StepTypes == ASSUME BusInv, PacketStep PROVE BusTypes' /\ Rest'
<1>1. BusTypes /\ Rest BY DEF BusInv
<1> DEFINE Selected == dtr' = (bpc' # "idle")
<1>2. ASSUME bpc # "idle", bpc' # "idle", dtr' = dtr PROVE Selected
  <2>1. dtr = (bpc # "idle") BY DEF BusInv, Rest
  <2> QED BY <1>2, <2>1, Zenon
<1> HIDE DEF Selected
<1>3. ASSUME SendAddress PROVE BusTypes' /\ Rest'
  <2>1. packet.address \in Bytes /\ packet.address \in Nat
        BY <1>1, NatBytes DEF BusTypes, PacketSet, ADDR_CONTROLLER, ADDR_MEMORY_CARD
  <2>2. tx' \in Seq(Bytes) /\ Len(tx') = 1 BY <1>3, <2>1 DEF SendAddress
  <2>3. /\ bpc = "address" /\ bpc' \in {"ack", "drain"}
        /\ UNCHANGED <<packet, left, response, rx, dsr, dtr, plugged, heard, owes, faults>>
        BY <1>3 DEF SendAddress, deviceVars
  <2>4. Selected BY <1>2, <2>3
  <2> QED BY <1>1, <2>2, <2>3, <2>4 DEF BusTypes, Rest, Selected, Places
<1>4. ASSUME Acknowledged PROVE BusTypes' /\ Rest'
  <2>1. /\ bpc = "ack" /\ bpc' \in {"drain", "byte"} /\ dsr' = FALSE
        /\ UNCHANGED <<packet, left, response, tx, rx, dtr, plugged, heard, owes, faults>>
        BY <1>4 DEF Acknowledged, deviceVars
  <2>2. Selected BY <1>2, <2>1
  <2> QED BY <1>1, <2>1, <2>2 DEF BusTypes, Rest, Selected, Places
<1>5. ASSUME NoAcknowledge PROVE BusTypes' /\ Rest'
  <2>1. /\ bpc = "ack" /\ bpc' = "release"
        /\ UNCHANGED <<packet, left, response, tx, rx, dsr, dtr, plugged, heard, owes>>
        BY <1>5 DEF NoAcknowledge, portVars
  <2>2. Selected BY <1>2, <2>1
  <2>3. faults' \in 0..MaxFaults
    <3>1. faults \in Nat /\ faults <= MaxFaults /\ MaxFaults \in Nat
          BY <1>1, BusAssumption DEF BusTypes
    <3>2. CASE owes
      <4>1. faults < MaxFaults /\ faults' = faults + 1
            BY <1>5, <3>2, Zenon DEF NoAcknowledge
      <4> QED BY <3>1, <4>1
    <3>3. CASE ~owes
      <4>1. faults' = faults BY <1>5, <3>3, Zenon DEF NoAcknowledge
      <4> QED BY <3>1, <4>1
    <3> QED BY <3>2, <3>3
  <2> QED BY <1>1, <2>1, <2>2, <2>3 DEF BusTypes, Rest, Selected, Places
<1>6. ASSUME Drain PROVE BusTypes' /\ Rest'
  <2>1. /\ bpc = "drain" /\ bpc' = "byte" /\ rx' = << >>
        /\ UNCHANGED <<packet, left, response, tx, dsr, dtr, plugged, heard, owes, faults>>
        BY <1>6 DEF Drain, DropRest, deviceVars
  <2>2. Selected BY <1>2, <2>1
  <2>3. rx' \in Seq(Nat) /\ Len(rx') <= RxSize BY <2>1, BusAssumption
  <2> QED BY <1>1, <2>1, <2>2, <2>3 DEF BusTypes, Rest, Selected, Places
<1>7. ASSUME SendByte PROVE BusTypes' /\ Rest'
  <2>1. /\ bpc = "byte" /\ bpc' = "receive" /\ Len(tx) < 2
        /\ tx' = Append(tx, IF left = << >> THEN 0 ELSE Head(left))
        /\ left' = IF left = << >> THEN left ELSE Tail(left)
        /\ UNCHANGED <<packet, response, rx, dsr, dtr, plugged, heard, owes, faults>>
        BY <1>7 DEF SendByte, deviceVars
  <2>2. Selected BY <1>2, <2>1
  <2>3. PICK b : b = IF left = << >> THEN 0 ELSE Head(left) OBVIOUS
  <2>4. b \in Bytes /\ left' \in Seq(Bytes)
        BY <1>1, <2>1, <2>3, HeadTailProperties, NatBytes DEF BusTypes
  <2>5. tx' = Append(tx, b) BY <2>1, <2>3
  <2>6. tx' \in Seq(Bytes) /\ Len(tx') = Len(tx) + 1
        BY <1>1, <2>4, <2>5, AppendProperties DEF BusTypes
  <2>7. Len(tx') <= 2
    <3>1. Len(tx) \in Nat BY <1>1, LenProperties DEF BusTypes
    <3> QED BY <2>1, <2>6, <3>1
  <2> QED BY <1>1, <2>1, <2>2, <2>4, <2>6, <2>7 DEF BusTypes, Rest, Selected, Places
<1>8. ASSUME ReceiveByte PROVE BusTypes' /\ Rest'
  <2>1. /\ bpc = "receive" /\ rx # << >> /\ rx' = Tail(rx) /\ bpc' \in {"ack", "byte"}
        /\ response' \in {response, Append(response, Head(rx))}
        /\ UNCHANGED <<packet, left, tx, dsr, dtr, plugged, heard, owes, faults>>
        BY <1>8 DEF ReceiveByte, deviceVars
  <2>2. Selected BY <1>2, <2>1
  <2>3. rx' \in Seq(Nat) /\ Len(rx') = Len(rx) - 1 /\ Head(rx) \in Nat
        BY <1>1, <2>1, HeadTailProperties DEF BusTypes
  <2>4. response' \in Seq(Nat)
    <3>1. response \in Seq(Nat) BY <1>1 DEF BusTypes
    <3>2. PICK h \in Nat : h = Head(rx) BY <2>3
    <3>3. Append(response, h) \in Seq(Nat) BY <3>1, AppendProperties
    <3> QED BY <2>1, <3>1, <3>2, <3>3
  <2>5. Len(rx') <= RxSize
    <3>1. Len(rx) \in Nat /\ Len(rx) <= RxSize /\ RxSize \in Nat
          BY <1>1, LenProperties, BusAssumption DEF BusTypes
    <3> QED BY <2>3, <3>1
  <2> QED BY <1>1, <2>1, <2>2, <2>3, <2>4, <2>5 DEF BusTypes, Rest, Selected, Places
<1>9. ASSUME LastByte PROVE BusTypes' /\ Rest'
  <2>1. /\ bpc = "byte" /\ bpc' = "release"
        /\ UNCHANGED <<packet, left, response, tx, rx, dsr, dtr, plugged, heard, owes, faults>>
        BY <1>9 DEF LastByte, portVars, deviceVars
  <2>2. Selected BY <1>2, <2>1
  <2> QED BY <1>1, <2>1, <2>2 DEF BusTypes, Rest, Selected, Places
<1>10. ASSUME Release PROVE BusTypes' /\ Rest'
  <2>1. /\ bpc = "release" /\ bpc' = "idle" /\ dtr' = FALSE /\ owes' = FALSE
        /\ tx = << >>
        /\ UNCHANGED <<packet, left, response, tx, rx, dsr, plugged, heard, faults>>
        BY <1>10 DEF Release, SentAll
  <2>2. Selected BY <2>1, Zenon DEF Selected
  <2> QED BY <1>1, <2>1, <2>2 DEF BusTypes, Rest, Selected, Places
<1> QED BY <1>3, <1>4, <1>5, <1>6, <1>7, <1>8, <1>9, <1>10 DEF PacketStep

-------------------------------------------------------------------------------
(* A packet with acknowledgements.                                          *)

LEMMA SaidStays ==
  ASSUME BusInv, Said, UNCHANGED <<packet, left, response, heard, plugged>>,
         bpc \in {"ack", "drain", "byte"} \/ bpc' \notin {"ack", "drain", "byte"}
  PROVE  Said'
<1>1. \A b : Answer(b)' = Answer(b)
      BY DEF Answer, Talks
<1> QED BY <1>1 DEF Said

LEMMA Lengths ==
  ASSUME BusTypes
  PROVE  /\ Len(heard) \in Nat /\ Len(response) \in Nat /\ Len(tx) \in Nat
         /\ Len(rx) \in Nat /\ packet.answer \in Nat
         /\ heard = << >> <=> Len(heard) = 0
         /\ response = << >> <=> Len(response) = 0
         /\ tx = << >> <=> Len(tx) = 0
         /\ rx = << >> <=> Len(rx) = 0
<1>1. /\ heard \in Seq(Bytes) /\ tx \in Seq(Bytes)
      /\ response \in Seq(Nat) /\ rx \in Seq(Nat)
      BY DEF BusTypes
<1>2. packet.answer \in Nat BY DEF BusTypes, PacketSet
<1>3. \A S : \A s \in Seq(S) : Len(s) \in Nat /\ (s = << >> <=> Len(s) = 0)
      BY LenProperties, EmptySeq
<1> QED BY <1>1, <1>2, <1>3, Zenon

LEMMA OneHeard ==
  ASSUME BusTypes, Said, Len(heard) = 1 PROVE heard = <<packet.address>>
<1>1. heard \in Seq(Bytes) BY DEF BusTypes
<1>2. heard[1] = packet.address BY DEF Said
<1>3. packet.address \in Bytes
      BY NatBytes DEF BusTypes, PacketSet, ADDR_CONTROLLER, ADDR_MEMORY_CARD
<1>4. PICK t : t = <<packet.address>> OBVIOUS
<1>5. t \in Seq(Bytes) /\ Len(t) = 1 /\ t[1] = packet.address BY <1>3, <1>4
<1>6. \A i \in 1..Len(heard) : heard[i] = t[i] BY <1>2, <1>5
<1>7. heard = t BY <1>1, <1>5, <1>6, SeqEqual
<1> QED BY <1>4, <1>7

LEMMA SameTalk ==
  ASSUME UNCHANGED <<packet, plugged>>
  PROVE  \A b : Pulses(b)' = Pulses(b) /\ Answer(b)' = Answer(b)
BY DEF Pulses, Answer, Talks

LEMMA ExchangeAddress ==
  ASSUME BusInv, Exchanging, SendAddress PROVE Exchange'
<1>1. BusTypes /\ Rest BY DEF BusInv
<1>2. /\ bpc = "address" /\ tx' = <<packet.address>> /\ bpc' = "ack"
      /\ UNCHANGED <<packet, left, response, rx, dsr, dtr, plugged, heard, owes, faults>>
      BY DEF SendAddress, deviceVars
<1>3. /\ heard = << >> /\ response = << >> /\ left = packet.request
      /\ dsr = FALSE /\ owes = FALSE
      BY <1>1, <1>2 DEF Rest
<1>4. Exchanging' BY <1>2 DEF Exchanging
<1>5. Turns' BY <1>2, <1>3 DEF Turns, Quiet
<1>6. Said'
  <2>1. packet.answer \in Nat BY <1>1, Lengths
  <2>2. Len(heard) = 0 /\ Len(response) = 0 BY <1>3
  <2> QED BY <1>2, <1>3, <2>1, <2>2 DEF Said
<1> QED BY <1>4, <1>5, <1>6 DEF Exchange

LEMMA ExchangeAck == ASSUME BusInv, Exchange, Acknowledged PROVE Exchange'
<1>1. BusTypes /\ Turns /\ Said BY DEF BusInv, Exchange
<1>2. /\ bpc = "ack" /\ dsr /\ dsr' = FALSE
      /\ bpc' = IF heard = <<packet.address>> THEN "drain" ELSE "byte"
      /\ UNCHANGED <<packet, left, response, tx, rx, dtr, plugged, heard, owes, faults>>
      BY DEF Acknowledged, deviceVars
<1>3. dsr = TRUE
  <2>1. dsr \in BOOLEAN BY <1>1 DEF BusTypes
  <2> QED BY <1>2, <2>1, Zenon
<1>4. ~Quiet BY <1>3 DEF Quiet
<1>5. /\ tx = << >> /\ Len(heard) = Len(response) + 1 /\ AckDue
      /\ response = << >> \/ rx = << >>
      BY <1>1, <1>2, <1>4 DEF Turns
<1>6. owes = FALSE /\ Pulses(heard)
      BY <1>3, <1>5 DEF AckDue
<1>7. Exchanging' BY <1>2 DEF Exchanging, Exchange
<1>8. Said' BY <1>1, <1>2, SaidStays DEF BusInv
<1>9. Quiet' /\ Pulses(heard)' BY <1>2, <1>6, SameTalk DEF Quiet
<1>10. heard = <<packet.address>> => Len(heard) = 1 OBVIOUS
<1>11. Turns'
  <2>1. CASE heard = <<packet.address>>
    <3>1. Len(response) = 0 BY <1>1, <1>5, <1>10, <2>1, Lengths
    <3>2. response = << >> BY <1>1, <3>1, Lengths
    <3>3. bpc' = "drain" BY <1>2, <2>1
    <3> QED BY <1>2, <1>5, <1>9, <1>10, <2>1, <3>2, <3>3 DEF Turns
  <2>2. CASE heard # <<packet.address>>
    <3>1. Len(heard) # 1 BY <1>1, <2>2, OneHeard
    <3>2. rx = << >> BY <1>1, <1>5, <3>1, Lengths
    <3>3. bpc' = "byte" BY <1>2, <2>2
    <3> QED BY <1>2, <1>5, <1>9, <3>2, <3>3 DEF Turns
  <2> QED BY <2>1, <2>2
<1> QED BY <1>7, <1>8, <1>11 DEF Exchange

(* Without a late one, there is no acknowledgement only if none is due.      *)
LEMMA ExchangeNoAck == ASSUME BusInv, Exchange, NoAcknowledge PROVE Exchange'
<1>1. BusTypes /\ Turns /\ Said BY DEF BusInv, Exchange
<1>2. /\ bpc = "ack" /\ bpc' = "release" /\ tx = << >> /\ ~dsr
      /\ UNCHANGED <<packet, left, response, tx, rx, dsr, dtr, plugged, heard, owes>>
      /\ faults' = IF owes THEN faults + 1 ELSE faults
      BY DEF NoAcknowledge, TimedOut, portVars
<1>3. dsr = FALSE
  <2>1. dsr \in BOOLEAN BY <1>1 DEF BusTypes
  <2> QED BY <1>2, <2>1, Zenon
<1>4. Len(heard) = Len(response) + 1 /\ AckDue
  <2>1. Len(tx) # 1 BY <1>1, <1>2, Lengths
  <2> QED BY <1>1, <1>2, <2>1 DEF Turns
<1>5. faults' = 0 => ~Pulses(heard)
  <2>1. CASE owes = TRUE
    <3>1. faults' = faults + 1 BY <1>2, <2>1, Zenon
    <3>2. faults \in Nat BY <1>1, BusAssumption DEF BusTypes
    <3> QED BY <3>1, <3>2
  <2>2. CASE owes = FALSE BY <1>3, <1>4, <2>2, Zenon DEF AckDue
  <2>3. owes \in BOOLEAN BY <1>1 DEF BusTypes
  <2> QED BY <2>1, <2>2, <2>3
<1>6. Exchanging' BY <1>2 DEF Exchanging, Exchange
<1>7. Said' BY <1>1, <1>2, SaidStays DEF BusInv
<1>8. Pulses(heard)' = Pulses(heard) BY <1>2, SameTalk
<1>9. Turns'
  <2>1. (faults' = 0 /\ Len(response') < packet'.answer) => ~Pulses(heard)'
        BY <1>5, <1>8, Zenon
  <2> QED BY <1>2, <1>4, <2>1 DEF Turns
<1> QED BY <1>6, <1>7, <1>9 DEF Exchange

LEMMA ExchangeDrain == ASSUME BusInv, Exchange, Drain PROVE Exchange'
<1>1. BusTypes /\ Turns /\ Said BY DEF BusInv, Exchange
<1>2. /\ bpc = "drain" /\ bpc' = "byte" /\ rx' = << >>
      /\ UNCHANGED <<packet, left, response, tx, dsr, dtr, plugged, heard, owes, faults>>
      BY DEF Drain, DropRest, deviceVars
<1>3. tx = << >> /\ response = << >> /\ Len(heard) = 1 /\ Quiet /\ Pulses(heard)
      BY <1>1, <1>2 DEF Turns
<1>4. Exchanging' BY <1>2 DEF Exchanging, Exchange
<1>5. Said' BY <1>1, <1>2, SaidStays DEF BusInv
<1>6. Quiet' /\ Pulses(heard)' BY <1>2, <1>3, SameTalk DEF Quiet
<1>7. Len(heard) = Len(response) + 1
  <2>1. Len(response) = 0 BY <1>3
  <2> QED BY <1>3, <2>1
<1>8. Turns' BY <1>2, <1>3, <1>6, <1>7 DEF Turns
<1> QED BY <1>4, <1>5, <1>8 DEF Exchange

LEMMA ExchangeSend == ASSUME BusInv, Exchange, SendByte PROVE Exchange'
<1>1. BusTypes /\ Turns /\ Said /\ Exchanging BY DEF BusInv, Exchange
<1>2. /\ bpc = "byte" /\ bpc' = "receive" /\ More
      /\ tx' = Append(tx, IF left = << >> THEN 0 ELSE Head(left))
      /\ UNCHANGED <<packet, response, rx, dsr, dtr, plugged, heard, owes, faults>>
      BY DEF SendByte, deviceVars
<1>3. tx = << >> /\ rx = << >> /\ Len(heard) = Len(response) + 1 /\ Quiet
      BY <1>1, <1>2 DEF Turns
<1>4. Len(response) < packet.answer BY <1>1, <1>2 DEF More
<1>5. PICK b : b = IF left = << >> THEN 0 ELSE Head(left) OBVIOUS
<1>6. tx' = <<b>> BY <1>2, <1>3, <1>5
<1>7. Len(tx') = 1 /\ tx'[1] = b BY <1>6
<1>8. response = << >> => b = packet.request[1]
  <2> SUFFICES ASSUME response = << >> PROVE b = packet.request[1] OBVIOUS
  <2>1. left = packet.request BY <1>1, <1>2 DEF Said
  <2>2. left # << >> /\ left \in Seq(Bytes) BY <1>1, <2>1 DEF BusTypes, PacketSet
  <2>3. Head(left) = left[1] OBVIOUS
  <2> QED BY <1>5, <2>1, <2>2, <2>3
<1>9. Exchanging' BY <1>1, <1>2 DEF Exchanging
<1>10. Said'
  <2>1. \A k : Answer(k)' = Answer(k) BY <1>2, SameTalk
  <2> QED BY <1>1, <1>2, <2>1 DEF Said
<1>11. Quiet' BY <1>2, <1>3 DEF Quiet
<1>12. Turns' BY <1>2, <1>3, <1>4, <1>7, <1>8, <1>11 DEF Turns
<1> QED BY <1>9, <1>10, <1>12 DEF Exchange

LEMMA FullSeq == ASSUME NEW S, NEW s \in Seq(S) PROVE SubSeq(s, 1, Len(s)) = s
<1>1. PICK n \in Nat : n = Len(s) BY LenProperties
<1>2. \A i \in 1..n : s[i] \in S BY <1>1, ElementOfSeq
<1>3. PICK u : u = SubSeq(s, 1, n) OBVIOUS
<1>4. /\ u \in Seq(S) /\ Len(u) = IF 1 <= n THEN n - 1 + 1 ELSE 0
      /\ \A i \in 1..n - 1 + 1 : u[i] = s[1 + i - 1]
      BY <1>1, <1>2, <1>3, SubSeqProperties
<1>5. Len(u) = n /\ \A i \in 1..n : u[i] = s[i] BY <1>1, <1>4
<1>6. u = s BY <1>1, <1>4, <1>5, SeqEqual
<1> QED BY <1>1, <1>3, <1>6

LEMMA ExchangeReceive == ASSUME BusInv, Exchange, ReceiveByte PROVE Exchange'
<1>1. BusTypes /\ Turns /\ Said /\ Exchanging BY DEF BusInv, Exchange
<1>2. /\ bpc = "receive" /\ rx # << >> /\ rx' = Tail(rx)
      /\ bpc' = "ack" /\ response' = Append(response, Head(rx))
      /\ UNCHANGED <<packet, left, tx, dsr, dtr, plugged, heard, owes, faults>>
      BY <1>1 DEF ReceiveByte, deviceVars
<1>3. /\ Len(response) < packet.answer /\ tx = << >> /\ Len(rx) = 1
      /\ rx[1] = Answer(heard) /\ Len(heard) = Len(response) + 2 /\ AckDue
      BY <1>1, <1>2 DEF Turns
<1>4. rx \in Seq(Nat) /\ response \in Seq(Nat) /\ heard \in Seq(Bytes)
      BY <1>1 DEF BusTypes
<1>5. rx' = << >>
  <2>1. rx' \in Seq(Nat) /\ Len(rx') = 0
        BY <1>2, <1>3, <1>4, HeadTailProperties
  <2> QED BY <2>1, EmptySeq
<1>6. PICK a \in Nat : a = Answer(heard) BY <1>4, AnswerType
<1>7. response' = Append(response, a)
  <2>1. Head(rx) = rx[1] OBVIOUS
  <2> QED BY <1>2, <1>3, <1>6, <2>1
<1>8. /\ response' \in Seq(Nat) /\ Len(response') = Len(response) + 1
      /\ response'[Len(response) + 1] = a
      /\ \A i \in 1..Len(response) : response'[i] = response[i]
      BY <1>4, <1>7, AppendProperties
<1>9. /\ Len(response) \in Nat /\ Len(heard) \in Nat /\ packet.answer \in Nat
      BY <1>1, Lengths
<1>10. Exchanging' BY <1>1, <1>2 DEF Exchanging
<1>11. Len(heard) = Len(response') + 1 BY <1>3, <1>8, <1>9
<1>12. AckDue'
  <2>1. Pulses(heard)' = Pulses(heard) BY <1>2, SameTalk
  <2> QED BY <1>2, <1>3, <2>1, Zenon DEF AckDue
<1>13. Turns' BY <1>2, <1>3, <1>5, <1>11, <1>12 DEF Turns
<1>14. Said'
  <2>1. \A b : Answer(b)' = Answer(b) BY <1>2, SameTalk
  <2>2. Len(response') <= packet'.answer BY <1>2, <1>3, <1>8, <1>9
  <2>3. ASSUME NEW k \in 1..Len(response')
        PROVE k < Len(heard') /\ response'[k] = Answer(SubSeq(heard, 1, k + 1))'
    <3>1. CASE k \in 1..Len(response)
      <4>1. k < Len(heard) /\ response[k] = Answer(SubSeq(heard, 1, k + 1))
            BY <1>1, <3>1 DEF Said
      <4>2. response'[k] = response[k] BY <1>8, <3>1
      <4>3. Answer(SubSeq(heard, 1, k + 1))' = Answer(SubSeq(heard, 1, k + 1))
            BY <1>2, <2>1
      <4> QED BY <1>2, <4>1, <4>2, <4>3
    <3>2. CASE k = Len(response) + 1
      <4>1. k < Len(heard) /\ k + 1 = Len(heard) BY <1>3, <1>9, <3>2
      <4>2. SubSeq(heard, 1, k + 1) = heard BY <1>4, <4>1, FullSeq
      <4>3. response'[k] = Answer(heard) BY <1>6, <1>8, <3>2
      <4>4. Answer(SubSeq(heard, 1, k + 1))' = Answer(heard) BY <1>2, <2>1, <4>2
      <4> QED BY <1>2, <4>1, <4>3, <4>4
    <3> QED BY <1>8, <1>9, <3>1, <3>2
  <2>4. response' # << >>
    <3>1. Len(response') # 0 BY <1>8, <1>9
    <3> QED BY <3>1
  <2>5. (Len(heard) >= 1 => heard[1] = packet.address)
        /\ (Len(heard) >= 2 => heard[2] = packet.request[1])
        BY <1>1 DEF Said
  <2> QED BY <1>2, <2>2, <2>3, <2>4, <2>5 DEF Said
<1> QED BY <1>10, <1>13, <1>14 DEF Exchange

LEMMA ExchangeLast == ASSUME BusInv, Exchange, LastByte PROVE Exchange'
<1>1. BusTypes /\ Turns /\ Said /\ Exchanging BY DEF BusInv, Exchange
<1>2. /\ bpc = "byte" /\ ~More /\ bpc' = "release"
      /\ UNCHANGED <<packet, left, response, tx, rx, dsr, dtr, plugged, heard, owes, faults>>
      BY DEF LastByte, portVars, deviceVars
<1>3. tx = << >> /\ Len(heard) = Len(response) + 1 BY <1>1, <1>2 DEF Turns
<1>4. ~(Len(response) < packet.answer) BY <1>1, <1>2 DEF More
<1>5. Exchanging' BY <1>1, <1>2 DEF Exchanging
<1>6. Said' BY <1>1, <1>2, SaidStays
<1>7. Turns' BY <1>2, <1>3, <1>4 DEF Turns
<1> QED BY <1>5, <1>6, <1>7 DEF Exchange

LEMMA ExchangeRelease == ASSUME BusInv, Exchange, Release PROVE Exchange'
<1>1. BusTypes /\ Turns /\ Said /\ Exchanging BY DEF BusInv, Exchange
<1>2. /\ bpc = "release" /\ bpc' = "idle"
      /\ UNCHANGED <<packet, left, response, tx, rx, dsr, plugged, heard, faults>>
      BY DEF Release
<1>3. /\ tx = << >> /\ Len(heard) = Len(response) + 1
      /\ faults = 0 /\ Len(response) < packet.answer => ~Pulses(heard)
      BY <1>1, <1>2 DEF Turns
<1>4. Exchanging' BY <1>1, <1>2 DEF Exchanging
<1>5. Said' BY <1>1, <1>2, SaidStays
<1>6. Pulses(heard)' = Pulses(heard) BY <1>2, SameTalk
<1>7. (faults' = 0 /\ Len(response') < packet'.answer) => ~Pulses(heard)'
      BY <1>2, <1>3, <1>6, Zenon
<1>8. Turns' BY <1>2, <1>3, <1>7 DEF Turns
<1> QED BY <1>4, <1>5, <1>8 DEF Exchange

LEMMA ExchangePulse == ASSUME BusInv, Exchange, Pulse PROVE Exchange'
<1>1. BusTypes /\ Turns /\ Said /\ Exchanging BY DEF BusInv, Exchange
<1>2. /\ owes /\ dsr' = TRUE /\ owes' = FALSE
      /\ UNCHANGED <<bpc, packet, left, response, tx, rx, dtr, plugged, heard, faults>>
      BY DEF Pulse, callVars
<1>3. owes = TRUE
  <2>1. owes \in BOOLEAN BY <1>1 DEF BusTypes
  <2> QED BY <1>2, <2>1, Zenon
<1>4. ~Quiet BY <1>3 DEF Quiet
<1>5. Pulses(heard)' = Pulses(heard) BY <1>2, SameTalk
<1>6. AckDue => AckDue' BY <1>2, <1>3, <1>5, Zenon DEF AckDue
<1>7. Exchanging' BY <1>1, <1>2 DEF Exchanging
<1>8. Said' BY <1>1, <1>2, SaidStays
<1>9. Answer(heard)' = Answer(heard) BY <1>2, SameTalk
<1>10. CASE bpc = "ack"
  <2>1. /\ tx = << >> /\ Len(heard) = Len(response) + 1 /\ AckDue
        /\ response = << >> \/ rx = << >>
        BY <1>1, <1>4, <1>10 DEF Turns
  <2> QED BY <1>2, <1>6, <1>7, <1>8, <1>10, <2>1 DEF Turns, Exchange
<1>11. CASE bpc = "receive"
  <2>1. /\ Len(response) < packet.answer
        /\ tx = << >> /\ Len(rx) = 1 /\ rx[1] = Answer(heard)
        /\ Len(heard) = Len(response) + 2 /\ AckDue
        BY <1>1, <1>4, <1>11 DEF Turns
  <2> QED BY <1>2, <1>6, <1>7, <1>8, <1>9, <1>11, <2>1 DEF Turns, Exchange
<1>12. CASE bpc \in {"release", "idle"}
  <2>1. /\ tx = << >> /\ Len(heard) = Len(response) + 1
        /\ faults = 0 /\ Len(response) < packet.answer => ~Pulses(heard)
        BY <1>1, <1>12 DEF Turns
  <2>2. (faults' = 0 /\ Len(response') < packet'.answer) => ~Pulses(heard)'
        BY <1>2, <1>5, <2>1, Zenon
  <2> QED BY <1>2, <1>7, <1>8, <1>12, <2>1, <2>2 DEF Turns, Exchange
<1>13. CASE bpc = "address" BY <1>3, <1>13 DEF BusInv, Rest
<1>14. bpc \notin {"drain", "byte"} BY <1>1, <1>4 DEF Turns
<1>15. bpc \in Places BY <1>1 DEF BusTypes
<1> QED BY <1>10, <1>11, <1>12, <1>13, <1>14, <1>15 DEF Places

LEMMA ExchangeByteSent == ASSUME BusInv, Exchange, ByteSent PROVE Exchange'
<1>1. BusTypes /\ Turns /\ Said /\ Exchanging BY DEF BusInv, Exchange
<1>2. /\ bpc \notin {"idle", "address"}
      /\ heard' = Append(heard, Head(tx)) /\ tx' = Tail(tx) /\ tx # << >>
      /\ Receive(Answer(heard')) /\ owes' = Pulses(heard')
      /\ UNCHANGED <<bpc, packet, left, response, dsr, dtr, plugged, faults>>
      BY SentSelected DEF callVars
<1>3. /\ bpc \in {"ack", "receive"} /\ Len(tx) = 1 /\ Quiet
      /\ bpc = "ack" => tx[1] = packet.address /\ heard = << >> /\ response = << >>
      /\ bpc = "receive" =>
            /\ rx = << >> /\ Len(heard) = Len(response) + 1
            /\ Len(response) < packet.answer
            /\ response = << >> => tx[1] = packet.request[1]
      BY <1>1, <1>2 DEF Turns, BusTypes, Places
<1>4. heard \in Seq(Bytes) /\ tx \in Seq(Bytes) BY <1>1 DEF BusTypes
<1>5. PICK x \in Bytes : x = Head(tx) BY <1>2, <1>4, HeadTailProperties
<1>6. PICK h : h = heard' OBVIOUS
<1>7. h = Append(heard, x) BY <1>2, <1>5, <1>6
<1>8. /\ h \in Seq(Bytes) /\ Len(h) = Len(heard) + 1 /\ h[Len(heard) + 1] = x
      /\ \A i \in 1..Len(heard) : h[i] = heard[i]
      BY <1>4, <1>7, AppendProperties
<1>9. /\ Len(response) \in Nat /\ Len(heard) \in Nat /\ packet.answer \in Nat
      /\ (heard = << >> => Len(heard) = 0) /\ (response = << >> <=> Len(response) = 0)
      BY <1>1, Lengths
<1>10. x = tx[1] BY <1>5
<1>11. tx' = << >>
  <2>1. tx' \in Seq(Bytes) /\ Len(tx') = 0
        BY <1>2, <1>3, <1>4, HeadTailProperties
  <2> QED BY <2>1, EmptySeq
<1>12. \A b : Answer(b)' = Answer(b) /\ Pulses(b)' = Pulses(b) BY <1>2, SameTalk
<1>13. Answer(heard)' = Answer(h)
  <2>1. Answer(heard)' = Answer(h)' BY <1>6
  <2> QED BY <1>12, <2>1
<1>14. Pulses(heard)' = Pulses(h)
  <2>1. Pulses(heard)' = Pulses(h)' BY <1>6
  <2> QED BY <1>12, <2>1
<1>15. AckDue'
  <2>1. owes' = Pulses(h) /\ Pulses(h) \in BOOLEAN BY <1>2, <1>6, PulsesBoolean
  <2>2. dsr' = FALSE BY <1>2, <1>3 DEF Quiet
  <2> QED BY <1>14, <2>1, <2>2, Zenon DEF AckDue
<1>16. Exchanging' BY <1>1, <1>2 DEF Exchanging
<1>17. rx = << >> => Len(rx') = 1 /\ rx'[1] = Answer(heard)'
  <2>1. PICK a \in Nat : a = Answer(h) BY <1>8, AnswerType
  <2>2. Receive(a) BY <1>2, <1>6, <2>1
  <2>3. rx = << >> => Len(rx') = 1 /\ rx'[1] = a BY <1>1, <2>2, RxLength
  <2> QED BY <1>13, <2>1, <2>3
<1>18. bpc = "ack" => Len(h) = 1 /\ h[1] = packet.address /\ Len(response) = 0
  <2>1. bpc = "ack" => Len(heard) = 0 /\ Len(response) = 0 BY <1>3, <1>9
  <2> QED BY <1>3, <1>8, <1>10, <2>1
<1>19. bpc = "receive" =>
         Len(h) = Len(response) + 2 /\ Len(heard) = Len(response) + 1
      BY <1>3, <1>8, <1>9
<1>20. Turns'
  <2>1. CASE bpc = "ack"
    <3>1. Len(heard') = Len(response') + 1 BY <1>2, <1>6, <1>18, <2>1
    <3>2. response' = << >> BY <1>2, <1>3, <2>1
    <3> QED BY <1>2, <1>11, <1>15, <2>1, <3>1, <3>2 DEF Turns
  <2>2. CASE bpc = "receive"
    <3>1. Len(heard') = Len(response') + 2 BY <1>2, <1>6, <1>19, <2>2
    <3>2. Len(rx') = 1 /\ rx'[1] = Answer(heard)' BY <1>3, <1>17, <2>2
    <3>3. Len(response') < packet'.answer BY <1>2, <1>3, <2>2
    <3> QED BY <1>2, <1>11, <1>15, <2>2, <3>1, <3>2, <3>3 DEF Turns
  <2> QED BY <1>3, <2>1, <2>2
<1>21. Said'
  <2>1. Len(response) <= packet.answer BY <1>1 DEF Said
  <2>2. ASSUME NEW k \in 1..Len(response)
        PROVE k < Len(h) /\ response[k] = Answer(SubSeq(h, 1, k + 1))
    <3>1. k < Len(heard) /\ response[k] = Answer(SubSeq(heard, 1, k + 1))
          BY <1>1 DEF Said
    <3>2. k + 1 \in 1..Len(heard) /\ k < Len(h) BY <1>8, <1>9, <3>1
    <3>3. SubSeq(h, 1, k + 1) = SubSeq(heard, 1, k + 1)
          BY <1>4, <1>7, <3>2, Beginnings
    <3> QED BY <3>1, <3>2, <3>3
  <2>3. \A k \in 1..Len(response) :
           k < Len(h) /\ response[k] = Answer(SubSeq(h, 1, k + 1))'
        BY <1>12, <2>2
  <2>4. h[1] = packet.address
    <3>1. CASE bpc = "ack" BY <1>18, <3>1
    <3>2. CASE bpc = "receive"
      <4>1. Len(heard) >= 1 BY <1>9, <1>19, <3>2
      <4>2. heard[1] = packet.address BY <1>1, <4>1 DEF Said
      <4> QED BY <1>8, <1>9, <4>1, <4>2
    <3> QED BY <1>3, <3>1, <3>2
  <2>5. Len(h) >= 2 => h[2] = packet.request[1]
    <3>1. CASE bpc = "ack"
      <4>1. Len(h) = 1 BY <1>18, <3>1
      <4>2. ~(Len(h) >= 2) BY <4>1
      <4> QED BY <4>2, Zenon
    <3>2. CASE bpc = "receive" /\ response = << >>
      <4>1. Len(heard) = 1 BY <1>9, <1>19, <3>2
      <4>2. h[2] = x BY <1>8, <4>1
      <4> QED BY <1>3, <1>10, <3>2, <4>2
    <3>3. CASE bpc = "receive" /\ response # << >>
      <4>1. Len(heard) >= 2 BY <1>9, <1>19, <3>3
      <4>2. heard[2] = packet.request[1] BY <1>1, <4>1 DEF Said
      <4> QED BY <1>8, <1>9, <4>1, <4>2
    <3> QED BY <1>3, <3>1, <3>2, <3>3
  <2>6. bpc \in {"ack", "drain", "byte"} /\ response = << >> => left = packet.request
        BY <1>1 DEF Said
  <2> QED BY <1>2, <1>6, <2>1, <2>3, <2>4, <2>5, <2>6 DEF Said
<1> QED BY <1>16, <1>20, <1>21 DEF Exchange

LEMMA ExchangeStep ==
  ASSUME BusInv, Exchange, PacketStep \/ Device PROVE Exchange'
<1>1. Exchanging BY DEF Exchange
<1> QED BY <1>1, ExchangeAddress, ExchangeAck, ExchangeNoAck, ExchangeDrain,
           ExchangeSend, ExchangeReceive, ExchangeLast, ExchangeRelease,
           ExchangeByteSent, ExchangePulse DEF PacketStep, Device

-------------------------------------------------------------------------------
(* A packet without acknowledgements.                                       *)

LEMMA SendingStep ==
  ASSUME BusInv, Sending, PacketStep \/ Device PROVE Sending'
<1>1. BusTypes /\ Rest /\ ~Exchanging /\ bpc # "ack" BY DEF BusInv, Sending
<1>2. /\ heard \in Seq(Bytes) /\ tx \in Seq(Bytes) /\ left \in Seq(Bytes)
      BY <1>1 DEF BusTypes
<1>3. bpc # "address" => (heard \o tx) \o left = Whole(packet) BY DEF Sending
<1>4. ASSUME UNCHANGED <<packet, left, tx, heard>>, bpc' \notin {"ack", "address"},
             bpc # "address", bpc' \in {"release", "idle"} => left = << >>
      PROVE  Sending'
      BY <1>1, <1>3, <1>4 DEF Sending, Exchanging, Whole
<1>5. ASSUME SendAddress PROVE Sending'
  <2>1. /\ bpc = "address" /\ tx' = <<packet.address>> /\ bpc' = "drain"
        /\ UNCHANGED <<packet, left, heard>>
        BY <1>1, <1>5 DEF SendAddress, deviceVars
  <2>2. heard = << >> /\ left = packet.request BY <1>1, <2>1 DEF Rest
  <2>3. packet.address \in Bytes
        BY <1>1, NatBytes DEF BusTypes, PacketSet, ADDR_CONTROLLER, ADDR_MEMORY_CARD
  <2>4. PICK t : t = <<packet.address>> OBVIOUS
  <2>5. t \in Seq(Bytes) BY <2>3, <2>4
  <2>6. << >> \o t = t BY <2>5, ConcatEmptySeq
  <2>7. (heard \o t) \o left = Whole(packet) BY <2>2, <2>4, <2>6 DEF Whole
  <2>8. ~Exchanging' BY <1>1, <2>1 DEF Exchanging
  <2> QED BY <2>1, <2>4, <2>7, <2>8 DEF Sending
<1>6. ASSUME Drain PROVE Sending'
  <2>1. /\ bpc = "drain" /\ bpc' = "byte" /\ UNCHANGED <<packet, left, tx, heard>>
        BY <1>6 DEF Drain, deviceVars
  <2> QED BY <1>4, <2>1
<1>7. ASSUME SendByte PROVE Sending'
  <2>1. /\ bpc = "byte" /\ bpc' = "receive" /\ left # << >>
        /\ tx' = Append(tx, Head(left)) /\ left' = Tail(left)
        /\ UNCHANGED <<packet, heard>>
        BY <1>1, <1>7 DEF SendByte, More, deviceVars
  <2>2. PICK h \in Bytes : h = Head(left) BY <1>2, <2>1, HeadTailProperties
  <2>3. PICK r \in Seq(Bytes) : r = Tail(left) BY <1>2, <2>1, HeadTailProperties
  <2>4. PICK w : w = Append(tx, h) OBVIOUS
  <2>5. w \in Seq(Bytes) BY <1>2, <2>4, AppendProperties
  <2>6. w \o r = tx \o left BY <1>2, <2>1, <2>2, <2>3, <2>4, Passes
  <2>7. (heard \o w) \o r = heard \o (w \o r)
    <3>1. heard \in Seq(Bytes) /\ w \in Seq(Bytes) /\ r \in Seq(Bytes)
          BY <1>2, <2>3, <2>5
    <3>2. \A a, b, c \in Seq(Bytes) : (a \o b) \o c = a \o (b \o c)
          BY ConcatAssociative
    <3> QED BY <3>1, <3>2, Zenon
  <2>8. (heard \o tx) \o left = heard \o (tx \o left) BY <1>2, ConcatAssociative
  <2>9. (heard \o w) \o r = Whole(packet) BY <1>3, <2>1, <2>6, <2>7, <2>8
  <2>10. ~Exchanging' BY <1>1, <2>1 DEF Exchanging
  <2> QED BY <2>1, <2>2, <2>3, <2>4, <2>9, <2>10 DEF Sending
<1>8. ASSUME ReceiveByte PROVE Sending'
  <2>1. /\ bpc = "receive" /\ bpc' = "byte" /\ UNCHANGED <<packet, left, tx, heard>>
        BY <1>1, <1>8 DEF ReceiveByte, deviceVars
  <2> QED BY <1>4, <2>1
<1>9. ASSUME LastByte PROVE Sending'
  <2>1. /\ bpc = "byte" /\ bpc' = "release" /\ left = << >>
        /\ UNCHANGED <<packet, left, tx, heard>>
        BY <1>1, <1>9 DEF LastByte, More, portVars, deviceVars
  <2> QED BY <1>4, <2>1
<1>10. ASSUME Release PROVE Sending'
  <2>1. bpc = "release" /\ bpc' = "idle" /\ UNCHANGED <<packet, left, tx, heard>>
        BY <1>10 DEF Release
  <2>2. left = << >> BY <2>1 DEF Sending
  <2> QED BY <1>4, <2>1, <2>2
<1>11. ASSUME ByteSent PROVE Sending'
  <2>1. /\ bpc \notin {"idle", "address"} /\ heard' = Append(heard, Head(tx))
        /\ tx' = Tail(tx) /\ tx # << >> /\ UNCHANGED <<bpc, packet, left>>
        BY <1>11, SentSelected DEF callVars
  <2>2. heard' \o tx' = heard \o tx
        BY <1>2, <2>1, Passes
  <2>3. ~Exchanging' BY <1>1, <2>1 DEF Exchanging
  <2>4. Whole(packet)' = Whole(packet) BY <2>1 DEF Whole
  <2>5. (heard' \o tx') \o left' = Whole(packet') BY <1>3, <2>1, <2>2
  <2> QED BY <1>1, <2>1, <2>3, <2>5 DEF Sending
<1>12. ASSUME Pulse PROVE Sending'
  <2>1. UNCHANGED <<bpc, packet, left, tx, heard>> /\ owes
        BY <1>12 DEF Pulse, callVars
  <2>2. bpc # "address"
    <3>1. owes # FALSE BY <2>1, Zenon
    <3> QED BY <1>1, <3>1 DEF Rest
  <2> QED BY <1>1, <1>4, <2>1, <2>2 DEF Sending
<1>13. ~Acknowledged /\ ~NoAcknowledge BY <1>1 DEF Acknowledged, NoAcknowledge
<1> QED BY <1>5, <1>6, <1>7, <1>8, <1>9, <1>10, <1>11, <1>12, <1>13
        DEF PacketStep, Device

-------------------------------------------------------------------------------
(* main.                                                                    *)

LEMMA CallKeeps ==
  ASSUME BusInv, NEW p \in PacketSet, Call(p)
  PROVE  /\ BusTypes' /\ Rest' /\ packet' = p
         /\ p.answer > 0 => Exchange'
         /\ p.answer = 0 => Sending'
<1>1. BusTypes /\ Rest BY DEF BusInv
<1>2. /\ bpc = "idle" /\ bpc' = "address" /\ packet' = p /\ left' = p.request
      /\ response' = << >> /\ dsr' = FALSE /\ dtr' = TRUE /\ heard' = << >>
      /\ owes' = FALSE /\ UNCHANGED <<tx, rx, plugged, faults>>
      BY DEF Call
<1>3. tx = << >> BY <1>1, <1>2 DEF Rest
<1>4. p.request \in Seq(Bytes) /\ p.answer \in Nat BY DEF PacketSet
<1>5. response' \in Seq(Nat) /\ heard' \in Seq(Bytes) /\ Len(heard') = 0
      /\ Len(response') = 0
      BY <1>2
<1>6. BusTypes' BY <1>1, <1>2, <1>4, <1>5 DEF BusTypes, Places
<1>7. dtr' = (bpc' # "idle") BY <1>2, Zenon
<1>8. Rest' BY <1>2, <1>3, <1>7 DEF Rest
<1>9. ASSUME p.answer > 0 PROVE Exchange'
  <2>1. Exchanging' BY <1>2, <1>9 DEF Exchanging
  <2>2. Turns' BY <1>2 DEF Turns
  <2>3. Said' BY <1>2, <1>4, <1>5 DEF Said
  <2> QED BY <2>1, <2>2, <2>3 DEF Exchange
<1>10. ASSUME p.answer = 0 PROVE Sending'
  <2>1. ~Exchanging' BY <1>2, <1>10 DEF Exchanging
  <2> QED BY <1>2, <2>1 DEF Sending
<1> QED BY <1>2, <1>6, <1>8, <1>9, <1>10

LEMMA Joined ==
  \A a, b \in Seq(Bytes) : a \o b \in Seq(Bytes) /\ Len(a \o b) = Len(a) + Len(b)
BY ConcatProperties

LEMMA PacketTypes ==
  ASSUME NEW p \in 0..1
  PROVE  /\ Poll(p) \in PacketSet /\ Poll(p).answer = 32
         /\ Identify(p) \in PacketSet /\ Identify(p).answer = 9
         /\ Ping(p) \in PacketSet /\ Ping(p).answer = 5
         /\ \A t \in Texts : GameID(p, GameIdOf(t)) \in PacketSet
                             /\ GameID(p, GameIdOf(t)).answer = 0
<1>1. Poll(p) \in PacketSet /\ Poll(p).answer = 32
  <2>1. <<CMD_POLL, 0, 0, 0>> \in Seq(Bytes) \ {<< >>}
        BY NatBytes DEF CMD_POLL
  <2> QED BY <2>1 DEF Poll, Packet, PacketSet
<1>2. Identify(p) \in PacketSet /\ Identify(p).answer = 9
  <2>1. <<CMD_CARD_IDENTIFY>> \in Seq(Bytes) \ {<< >>}
        BY NatBytes DEF CMD_CARD_IDENTIFY
  <2> QED BY <2>1 DEF Identify, Packet, PacketSet
<1>3. Ping(p) \in PacketSet /\ Ping(p).answer = 5
  <2>1. <<CMD_GAME_ID_PING, 0, 0, 0, 0>> \in Seq(Bytes) \ {<< >>}
        BY NatBytes DEF CMD_GAME_ID_PING
  <2> QED BY <2>1 DEF Ping, Packet, PacketSet
<1>4. ASSUME NEW t \in Texts
      PROVE  GameID(p, GameIdOf(t)) \in PacketSet /\ GameID(p, GameIdOf(t)).answer = 0
  <2>1. PICK id : id = GameIdOf(t) OBVIOUS
  <2>2. id \in Seq(STRING) BY <2>1, TextsAssumption
  <2>3. id \in Seq(Bytes)
    <3>1. STRING \subseteq Bytes BY DEF Bytes
    <3>2. \A i \in 1..Len(id) : id[i] \in Bytes BY <2>2, <3>1, ElementOfSeq
    <3> QED BY <2>2, <3>2, SeqDef, LenProperties
  <2>4. Len(id) \in Nat BY <2>3, LenProperties
  <2>5. PICK b : b = <<CMD_GAME_ID_SEND, 0, Len(id) + 1>> OBVIOUS
  <2>6. b \in Seq(Bytes) /\ Len(b) = 3 BY <2>4, <2>5, NatBytes DEF CMD_GAME_ID_SEND
  <2>7. PICK z : z = <<0>> OBVIOUS
  <2>8. z \in Seq(Bytes) /\ Len(z) = 1 BY <2>7, NatBytes
  <2>9. PICK c : c = b \o id OBVIOUS
  <2>10. c \in Seq(Bytes) /\ Len(c) = Len(b) + Len(id)
         BY <2>3, <2>6, <2>9, Joined, Zenon
  <2>11. PICK r : r = c \o z OBVIOUS
  <2>12. r \in Seq(Bytes) /\ Len(r) = Len(c) + Len(z)
         BY <2>8, <2>10, <2>11, Joined, Zenon
  <2>13. r # << >>
    <3>1. Len(r) # 0 BY <2>4, <2>6, <2>8, <2>10, <2>12
    <3> QED BY <3>1
  <2>14. GameID(p, GameIdOf(t)) = Packet(p, ADDR_MEMORY_CARD, r, 0)
        BY <2>1, <2>5, <2>7, <2>9, <2>11 DEF GameID
  <2> QED BY <2>12, <2>13, <2>14 DEF Packet, PacketSet
<1> QED BY <1>1, <1>2, <1>3, <1>4

LEMMA InitInv == ASSUME Init PROVE IInv
<1>1. BusInit /\ at = "identify" /\ port = 0 /\ present = {} /\ command = "none"
      /\ disc = MenuDisc /\ config = << >> /\ failures = 0 /\ swaps = 0
      /\ sony \in Kernels /\ armed = FALSE /\ shell = "none"
      BY DEF Init
<1>2. BusTypes
  <2>1. Poll(0) \in PacketSet BY PacketTypes
  <2>2. << >> \in Seq(Bytes) /\ << >> \in Seq(Nat) /\ Len(<< >>) = 0 OBVIOUS
  <2>3. RxSize \in Nat /\ MaxFaults \in Nat BY BusAssumption
  <2>4. faults \in 0..MaxFaults /\ 0 <= RxSize BY <1>1, <2>3 DEF BusInit
  <2>5. /\ bpc \in Places /\ packet \in PacketSet /\ plugged \in Plugs
        /\ dsr \in BOOLEAN /\ dtr \in BOOLEAN /\ owes \in BOOLEAN
        BY <1>1, <2>1 DEF BusInit, Places
  <2>6. left = << >> /\ response = << >> /\ tx = << >> /\ rx = << >> /\ heard = << >>
        BY <1>1 DEF BusInit
  <2> QED BY <2>2, <2>4, <2>5, <2>6 DEF BusTypes
<1>3. Rest
  <2>1. dtr = (bpc # "idle") BY <1>1, Zenon DEF BusInit
  <2> QED BY <1>1, <2>1 DEF Rest, BusInit
<1>4. Packeted BY <1>1 DEF Packeted, BusInit, Asking
<1>5. MainTypes
  <2>1. failures \in 0..MaxFailures /\ swaps \in 0..MaxSwaps BY <1>1, BootAssumption
  <2>2. config \in Texts BY <1>1 DEF Texts
  <2>3. disc \in Discs /\ sony \in BOOLEAN BY <1>1, BootAssumption
  <2>4. at \in {"identify", "menu", "restart"} /\ present \subseteq 0..1
        /\ command \in {"none", "fast", "slow"} /\ armed \in BOOLEAN
        BY <1>1, Zenon
  <2>5. port \in 0..1 BY <1>1
  <2> QED BY <2>1, <2>2, <2>3, <2>4, <2>5 DEF MainTypes
<1>6. Console BY <1>1 DEF Console, Restarts, Before, Reading, Asking
<1> QED BY <1>2, <1>3, <1>4, <1>5, <1>6 DEF IInv, BusInv

LEMMA BusStays ==
  ASSUME BusInv, UNCHANGED busVars
  PROVE  /\ BusTypes' /\ Rest' /\ UNCHANGED <<bpc, packet>>
         /\ Exchange => Exchange'
         /\ Sending => Sending'
<1>1. UNCHANGED <<bpc, packet, left, response, tx, rx, dsr, dtr, plugged, heard, owes, faults>>
      BY DEF busVars, callVars, portVars, deviceVars
<1>2. BusTypes' /\ Rest' BY <1>1 DEF BusInv, BusTypes, Rest
<1>3. \A b : Pulses(b)' = Pulses(b) /\ Answer(b)' = Answer(b) BY <1>1, SameTalk
<1>4. Sending => Sending' BY <1>1 DEF Sending, Exchanging, Whole
<1>5. ASSUME Exchange PROVE Exchange'
  <2>1. Exchanging /\ Turns /\ Said BY <1>5 DEF Exchange
  <2>2. Said' BY <1>1, <1>3, <2>1 DEF Said
  <2>3. Exchanging' BY <1>1, <2>1 DEF Exchanging
  <2>4. Turns'
    <3>1. Pulses(heard)' = Pulses(heard) /\ Answer(heard)' = Answer(heard)
          BY <1>1, <1>3
    <3>2. AckDue => AckDue' BY <1>1, <3>1, Zenon DEF AckDue
    <3> QED BY <1>1, <2>1, <3>1, <3>2 DEF Turns, Quiet
  <2> QED BY <2>2, <2>3, <2>4 DEF Exchange
<1> QED BY <1>1, <1>2, <1>4, <1>5

(* What the serial bus does leaves main where it is, waiting for a packet.   *)
LEMMA PacketsGoOn ==
  ASSUME IInv, PacketStep \/ Device, UNCHANGED bootVars PROVE IInv'
<1>1. BusInv /\ Packeted /\ MainTypes /\ Console BY DEF IInv
<1>2. UNCHANGED <<at, port, present, buttons, command, disc, lba, root, config,
                  failures, swaps, cardId, sony, irqs, stubs, armed, shell>>
      BY DEF bootVars, menuVars, discVars, consoleVars
<1>3. UNCHANGED packet
      BY DEF PacketStep, Device, SendAddress, Acknowledged, NoAcknowledge, Drain,
             SendByte, ReceiveByte, LastByte, Release, ByteSent, Pulse, callVars
<1>4. BusTypes' /\ Rest'
      BY <1>1, StepTypes, ByteSentTypes, PulseTypes DEF Device
<1>5. bpc # "idle"
  <2>1. ASSUME PacketStep PROVE bpc # "idle"
        BY <2>1 DEF PacketStep, SendAddress, Acknowledged, NoAcknowledge, Drain,
                    SendByte, ReceiveByte, LastByte, Release
  <2>2. ASSUME ByteSent PROVE bpc # "idle" BY <1>1, <2>2, SentSelected
  <2>3. ASSUME Pulse PROVE bpc # "idle"
    <3>1. owes # FALSE BY <2>3, Zenon DEF Pulse
    <3> QED BY <1>1, <3>1 DEF BusInv, Rest
  <2> QED BY <2>1, <2>2, <2>3 DEF Device
<1>6. Packeted'
  <2>1. CASE at \in Asking
    <3>1. Exchange BY <1>1, <2>1 DEF Packeted
    <3>2. Exchange' BY <1>1, <3>1, ExchangeStep
    <3> QED BY <1>1, <1>2, <1>3, <2>1, <3>2 DEF Packeted, Asking
  <2>2. CASE at = "sent"
    <3>1. Sending BY <1>1, <2>2 DEF Packeted
    <3>2. Sending' BY <1>1, <3>1, SendingStep
    <3>3. packet = GameID(port, GameIdOf(config)) BY <1>1, <2>2 DEF Packeted
    <3>4. packet' = GameID(port, GameIdOf(config))' BY <1>2, <1>3, <3>3
    <3> QED BY <1>2, <2>2, <3>2, <3>4 DEF Packeted, Asking
  <2>3. CASE at \notin Asking \union {"sent"} BY <1>1, <1>5, <2>3 DEF Packeted
  <2> QED BY <2>1, <2>2, <2>3
<1>7. MainTypes' BY <1>1, <1>2 DEF MainTypes
<1>8. Console' BY <1>1, <1>2 DEF Console
<1> QED BY <1>4, <1>6, <1>7, <1>8 DEF IInv, BusInv

(* Until the restart, main leaves the console alone.                        *)
LEMMA ConsoleStays ==
  ASSUME Console, at \in Before, at' \in Before, UNCHANGED consoleVars,
         at' \in (Reading \ {"type"}) \union {"restart"} /\ command' = "fast"
             /\ failures' = 0 => disc'.ps
  PROVE  Console'
BY DEF Console, Before, Asking, Reading, Restarts, consoleVars

(* The steps that call a packet function.                                   *)
LEMMA Calls ==
  ASSUME IInv, IdentifyCard \/ PingCard \/ PollPad \/ (SendID /\ port \in present)
  PROVE  IInv'
<1>1. BusInv /\ Packeted /\ MainTypes /\ Console /\ port \in 0..1
      BY DEF IInv, MainTypes
<1> DEFINE Stays == UNCHANGED <<port, present, buttons, command, disc, lba, root,
                        config, failures, swaps, cardId, sony, irqs, stubs, armed, shell>>
<1> DEFINE Called(p, from, to) ==
             p \in PacketSet /\ Call(p) /\ at = from /\ at' = to /\ Stays
<1>2. ASSUME NEW from \in Before, NEW to \in Before, NEW p,
             to \in Asking \/ from = "send", Called(p, from, to)
      PROVE  BusTypes' /\ Rest' /\ MainTypes' /\ Console'
  <2>1. BusTypes' /\ Rest' BY <1>1, <1>2, CallKeeps
  <2>2. MainTypes' BY <1>1, <1>2 DEF MainTypes, Before
  <2>3. Console'
    <3>1. at \in Before /\ at' \in Before /\ UNCHANGED consoleVars
          BY <1>2 DEF consoleVars
    <3>2. at' \in (Reading \ {"type"}) \union {"restart"} /\ command' = "fast"
             /\ failures' = 0 => disc'.ps
          BY <1>1, <1>2 DEF Console, Reading, Asking, Restarts
    <3> QED BY <1>1, <3>1, <3>2, ConsoleStays
  <2> QED BY <2>1, <2>2, <2>3
<1>3. ASSUME IdentifyCard PROVE IInv'
  <2>1. Called(Identify(port), "identify", "identified")
        BY <1>1, <1>3, PacketTypes DEF IdentifyCard, menuVars, discVars, consoleVars
  <2>2. BusTypes' /\ Rest' /\ MainTypes' /\ Console'
        BY <1>2, <2>1 DEF Before, Asking
  <2>3. Exchange' BY <1>1, <2>1, CallKeeps, PacketTypes
  <2>4. Packeted' BY <2>1, <2>3 DEF Packeted, Asking
  <2> QED BY <2>2, <2>4 DEF IInv, BusInv
<1>4. ASSUME PingCard PROVE IInv'
  <2>1. Called(Ping(port), "identified", "pinged")
        BY <1>1, <1>4, PacketTypes DEF PingCard, menuVars, discVars, consoleVars
  <2>2. BusTypes' /\ Rest' /\ MainTypes' /\ Console'
        BY <1>2, <2>1 DEF Before, Asking
  <2>3. Exchange' /\ packet' = Ping(port) BY <1>1, <2>1, CallKeeps, PacketTypes
  <2>4. packet' = Ping(port)' BY <2>1, <2>3
  <2>5. Packeted' BY <2>1, <2>3, <2>4 DEF Packeted, Asking
  <2> QED BY <2>2, <2>5 DEF IInv, BusInv
<1>5. ASSUME PollPad PROVE IInv'
  <2>1. Called(Poll(0), "menu", "polled")
        BY <1>1, <1>5, PacketTypes DEF PollPad, menuVars, discVars, consoleVars
  <2>2. BusTypes' /\ Rest' /\ MainTypes' /\ Console'
        BY <1>2, <2>1 DEF Before, Asking
  <2>3. Exchange' /\ packet' = Poll(0) BY <1>1, <2>1, CallKeeps, PacketTypes
  <2>4. Packeted' BY <2>1, <2>3 DEF Packeted, Asking, Poll
  <2> QED BY <2>2, <2>4 DEF IInv, BusInv
<1>6. ASSUME SendID /\ port \in present PROVE IInv'
  <2>0. config \in Texts BY <1>1 DEF MainTypes
  <2>1. Called(GameID(port, GameIdOf(config)), "send", "sent")
        BY <1>1, <1>6, <2>0, PacketTypes DEF SendID, menuVars, discVars, consoleVars
  <2>2. BusTypes' /\ Rest' /\ MainTypes' /\ Console'
        BY <1>2, <2>1 DEF Before, Reading
  <2>3. Sending' /\ packet' = GameID(port, GameIdOf(config))
        BY <1>1, <2>0, <2>1, CallKeeps, PacketTypes
  <2>4. packet' = GameID(port, GameIdOf(config))' BY <2>1, <2>3
  <2>5. Packeted' BY <2>1, <2>3, <2>4 DEF Packeted, Asking
  <2> QED BY <2>2, <2>5 DEF IInv, BusInv
<1> QED BY <1>3, <1>4, <1>5, <1>6

(* The other steps that main takes before the restart.                      *)
LEMMA Between ==
  ASSUME IInv, UNCHANGED busVars, bpc = "idle", at \in Before,
         at' \in Before \ (Asking \union {"sent"}), MainTypes',
         UNCHANGED consoleVars,
         at' \in (Reading \ {"type"}) \union {"restart"} /\ command' = "fast"
             /\ failures' = 0 => disc'.ps
  PROVE  IInv'
<1>1. BusTypes' /\ Rest' /\ bpc' = "idle" BY BusStays DEF IInv
<1>2. Console' BY ConsoleStays DEF IInv
<1>3. Packeted' BY <1>1 DEF Packeted, Asking
<1> QED BY <1>1, <1>2, <1>3 DEF IInv, BusInv

LEMMA Steps ==
  ASSUME IInv,
         \/ CardChecked \/ PadPolled \/ CheckType \/ ReadDescriptor \/ ReadRoot
         \/ LoadConfig \/ (SendID /\ port \notin present) \/ IDSent
         \/ \E d \in Discs : Mount(d)
  PROVE  IInv'
<1>1. Packeted /\ MainTypes /\ Console BY DEF IInv
<1>2. Failure => failures' \in 0..MaxFailures /\ failures' # 0
  <2>1. failures \in Nat BY <1>1 DEF MainTypes
  <2> QED BY <2>1, BootAssumption DEF Failure
<1>3. NextPort \in 0..1 BY DEF NextPort
<1>4. at \in (Reading \ {"type"}) \union {"restart"} /\ command = "fast"
          /\ failures = 0 => disc.ps
      BY <1>1 DEF Console
<1>5. at \notin Asking \union {"sent"} => bpc = "idle" BY <1>1 DEF Packeted
<1>6. ASSUME CardChecked PROVE IInv'
  <2>1. /\ at = "pinged" /\ bpc = "idle" /\ port' = NextPort
        /\ present' = IF IsMCP THEN present \union {port} ELSE present
        /\ at' \in {"identify", "menu"}
        /\ UNCHANGED <<busVars, buttons, command, disc, lba, root, config, failures,
                       swaps, cardId, consoleVars>>
        BY <1>6 DEF CardChecked, menuVars, discVars
  <2>2. present' \subseteq 0..1 BY <1>1, <2>1 DEF MainTypes
  <2>3. MainTypes' BY <1>1, <1>3, <2>1, <2>2 DEF MainTypes, consoleVars
  <2> QED BY <2>1, <2>3, Between DEF Before, Asking, Reading
<1>7. ASSUME PadPolled PROVE IInv'
  <2>1. /\ at = "polled" /\ bpc = "idle" /\ at' = "menu"
        /\ UNCHANGED <<busVars, port, present, command, disc, lba, root, config,
                       failures, swaps, cardId, consoleVars>>
        BY <1>7 DEF PadPolled, discVars
  <2>2. MainTypes' BY <1>1, <2>1 DEF MainTypes, consoleVars
  <2> QED BY <2>1, <2>2, Between DEF Before, Asking, Reading
<1>8. ASSUME NEW d \in Discs, Mount(d) PROVE IInv'
  <2>1. /\ at = "menu" /\ at' = "type" /\ command' \in {"fast", "slow"}
        /\ disc' \in {d, disc} /\ (UNCHANGED failures \/ Failure)
        /\ UNCHANGED <<busVars, port, present, buttons, lba, root, config, swaps,
                       cardId, consoleVars>>
        BY <1>8 DEF Mount
  <2>2. MainTypes'
    <3>1. failures' \in 0..MaxFailures BY <1>1, <1>2, <2>1 DEF MainTypes
    <3> QED BY <1>1, <2>1, <3>1 DEF MainTypes, consoleVars, Reading
  <2>3. bpc = "idle" BY <1>5, <2>1 DEF Asking
  <2> QED BY <2>1, <2>2, <2>3, Between DEF Before, Asking, Reading
<1>9. ASSUME CheckType PROVE IInv'
  <2>1. /\ at = "type"
        /\ UNCHANGED <<busVars, port, present, buttons, disc, lba, root, config,
                       swaps, cardId, consoleVars>>
        BY <1>9 DEF CheckType
  <2>2. PICK is : /\ DiscTyped(is)
                  /\ (is = disc.ps /\ UNCHANGED failures) \/ Failure
        BY <1>9 DEF CheckType, IsPlayStation
  <2>3. at' \in {"descriptor", "restart"} /\ command' \in {command, "slow"}
        BY <2>2 DEF DiscTyped
  <2>4. command' = "fast" => is
    <3>1. ASSUME ~is PROVE command' = "slow"
          BY <2>2, <3>1, Zenon DEF DiscTyped
    <3> QED BY <3>1
  <2>5. failures' \in 0..MaxFailures BY <1>1, <1>2, <2>2 DEF MainTypes
  <2>6. MainTypes' BY <1>1, <2>1, <2>3, <2>5 DEF MainTypes, consoleVars, Reading
  <2>7. bpc = "idle" BY <1>5, <2>1 DEF Asking
  <2>8. command' = "fast" /\ failures' = 0 => disc'.ps
        BY <1>2, <2>1, <2>2, <2>4, Zenon
  <2> QED BY <2>1, <2>3, <2>6, <2>7, <2>8, Between DEF Before, Asking, Reading
<1> DEFINE Moves(from, to) ==
       /\ at \in from /\ at' \in to /\ bpc = "idle" /\ port' \in 0..1
       /\ UNCHANGED failures \/ Failure
       /\ config' \in Texts
       /\ UNCHANGED <<busVars, present, buttons, command, disc, swaps, consoleVars>>
<1>10. ASSUME NEW from \in SUBSET (Reading \ {"type"}),
              NEW to \in SUBSET (Before \ (Asking \union {"sent"})), Moves(from, to)
       PROVE  IInv'
  <2>1. failures' \in 0..MaxFailures /\ (failures' = 0 => failures = 0)
        BY <1>1, <1>2, <1>10 DEF MainTypes
  <2>2. MainTypes' BY <1>1, <1>10, <2>1 DEF MainTypes, consoleVars, Before
  <2>3. at \in Before BY <1>10 DEF Before
  <2> QED BY <1>4, <1>10, <2>1, <2>2, <2>3, Between
<1>11. Reading \ {"type", "sent"} \subseteq Before \ (Asking \union {"sent"})
       /\ "restart" \in Before \ (Asking \union {"sent"})
       BY DEF Reading, Before, Asking
<1>12. at \in Reading \ {"sent"} => bpc = "idle" BY <1>5 DEF Reading, Asking
<1>13. port \in 0..1 /\ config \in Texts /\ disc \in Discs BY <1>1 DEF MainTypes
<1>14. ASSUME ReadDescriptor PROVE IInv'
  <2>1. Moves({"descriptor"}, {"root", "restart"})
        BY <1>12, <1>13, <1>14 DEF ReadDescriptor, menuVars, Reading
  <2> QED BY <1>10, <1>11, <2>1 DEF Reading
<1>15. ASSUME ReadRoot PROVE IInv'
  <2>1. Moves({"root"}, {"config"})
        BY <1>12, <1>13, <1>15 DEF ReadRoot, menuVars, Reading
  <2> QED BY <1>10, <1>11, <2>1 DEF Reading
<1>16. ASSUME LoadConfig PROVE IInv'
  <2>1. config' \in Texts BY <1>13, <1>16 DEF LoadConfig, Texts
  <2>2. Moves({"config"}, {"send", "restart"})
        BY <1>12, <1>13, <1>16, <2>1 DEF LoadConfig, menuVars, Reading
  <2> QED BY <1>10, <1>11, <2>2 DEF Reading
<1>17. ASSUME SendID /\ port \notin present PROVE IInv'
  <2>1. Moves({"send"}, {"send", "restart"})
        BY <1>3, <1>13, <1>17 DEF SendID, menuVars, discVars
  <2> QED BY <1>10, <1>11, <2>1 DEF Reading
<1>18. ASSUME IDSent PROVE IInv'
  <2>1. Moves({"sent"}, {"send", "restart"})
        BY <1>3, <1>13, <1>18 DEF IDSent, menuVars, discVars
  <2> QED BY <1>10, <1>11, <2>1 DEF Reading
<1> QED BY <1>6, <1>7, <1>8, <1>9, <1>14, <1>15, <1>16, <1>17, <1>18

LEMMA Replugged == ASSUME IInv, Replug PROVE IInv'
<1>1. BusTypes /\ Rest /\ Packeted /\ MainTypes /\ Console BY DEF IInv, BusInv
<1>2. /\ at = "menu" /\ swaps < MaxSwaps /\ swaps' = swaps + 1 /\ plugged' \in Plugs
      /\ UNCHANGED <<bpc, packet, left, response, tx, rx, dsr, dtr, heard, owes, faults,
                     at, port, present, command, disc, config, failures, sony, irqs,
                     stubs, armed, shell>>
      BY DEF Replug, callVars, portVars, menuVars, discVars, consoleVars
<1>3. BusTypes' /\ Rest' BY <1>1, <1>2 DEF BusTypes, Rest
<1>4. Packeted' BY <1>1, <1>2 DEF Packeted, Asking
<1>5. swaps' \in 0..MaxSwaps BY <1>1, <1>2, BootAssumption DEF MainTypes
<1>6. MainTypes' BY <1>1, <1>2, <1>5 DEF MainTypes
<1>7. Console' BY <1>1, <1>2 DEF Console
<1> QED BY <1>3, <1>4, <1>6, <1>7 DEF IInv, BusInv

LEMMA Restarted == ASSUME IInv, Restart PROVE IInv'
<1>1. Packeted /\ MainTypes /\ Console BY DEF IInv
<1>2. UNCHANGED <<busVars, port, present, buttons, command, disc, lba, root, config,
                  failures, swaps, cardId>>
      BY DEF Restart, menuVars, discVars
<1>3. /\ at \in {"restart"} \union Restarts /\ at' \in Restarts
      /\ UNCHANGED sony /\ armed' \in {TRUE, FALSE, armed}
      BY DEF Restart, SoftReset, ResetInterrupts, CopyStubs, ArmBreakpoint, ResetPath,
             LoadShell, RunShell, Disarm, Restarts
<1>4. BusTypes' /\ Rest' /\ bpc' = bpc BY <1>2, BusStays DEF IInv
<1>5. bpc = "idle" BY <1>1, <1>3 DEF Packeted, Restarts, Asking
<1>6. Packeted' BY <1>3, <1>4, <1>5 DEF Packeted, Restarts, Asking
<1>7. MainTypes' BY <1>1, <1>2, <1>3 DEF MainTypes
<1>8. armed \in BOOLEAN /\ sony \in BOOLEAN BY <1>1 DEF MainTypes
<1>9. at' \in (Reading \ {"type"}) \union {"restart"} \union Restarts
          /\ command' = "fast" /\ failures' = 0 => disc'.ps
      BY <1>1, <1>2, <1>3 DEF Console
<1>10. Console'
  <2>1. CASE SoftReset
        BY <1>1, <1>2, <1>9, <2>1 DEF SoftReset, Console, Restarts, Before, Reading, Asking
  <2>2. CASE ResetInterrupts
    <3>1. at' = IF sony = TRUE THEN "stubs" ELSE "bios" BY <1>8, <2>2 DEF ResetInterrupts
    <3>2. /\ at = "restart" /\ command = "fast" /\ irqs' = FALSE
          /\ UNCHANGED <<sony, stubs, armed, shell>>
          BY <2>2 DEF ResetInterrupts
    <3> QED BY <1>1, <1>2, <1>8, <1>9, <3>1, <3>2
            DEF Console, Restarts, Before, Reading, Asking
  <2>3. CASE CopyStubs
        BY <1>1, <1>2, <1>9, <2>3 DEF CopyStubs, Console, Restarts, Before, Reading, Asking
  <2>4. CASE ArmBreakpoint
        BY <1>1, <1>2, <1>9, <2>4 DEF ArmBreakpoint, Console, Restarts, Before, Reading, Asking
  <2>5. CASE ResetPath
        BY <1>1, <1>2, <1>9, <2>5 DEF ResetPath, Console, Restarts, Before, Reading, Asking
  <2>6. CASE LoadShell
    <3>1. /\ at = "bios alt" /\ at' = "shell loaded"
          /\ \/ armed = TRUE /\ stubs = TRUE /\ armed' = FALSE /\ shell' = shell
             \/ ~(armed = TRUE /\ stubs = TRUE) /\ shell' = "bios" /\ armed' = armed
          /\ UNCHANGED <<sony, irqs, stubs>>
      <4>1. stubs = TRUE \/ armed = FALSE BY <1>1, <1>8, <2>6 DEF LoadShell, Console
      <4>2. CASE armed = TRUE /\ stubs = TRUE
            BY <2>6, <4>2, Zenon DEF LoadShell, Disarm
      <4>3. CASE armed = FALSE BY <2>6, <4>3, Zenon DEF LoadShell
      <4> QED BY <1>8, <4>1, <4>2, <4>3
    <3>2. CASE armed = TRUE
          BY <1>1, <1>2, <1>9, <3>1, <3>2 DEF Console, Restarts, Before, Reading, Asking
    <3>3. CASE armed = FALSE
          BY <1>1, <1>2, <1>9, <3>1, <3>3 DEF Console, Restarts, Before, Reading, Asking
    <3> QED BY <1>8, <3>2, <3>3
  <2>7. CASE RunShell
        BY <1>1, <1>2, <1>9, <2>7 DEF RunShell, Console, Restarts, Before, Reading, Asking
  <2> QED BY <2>1, <2>2, <2>3, <2>4, <2>5, <2>6, <2>7 DEF Restart
<1> QED BY <1>4, <1>6, <1>7, <1>10 DEF IInv, BusInv

LEMMA Inductive == IInv /\ [Next]_vars => IInv'
<1> SUFFICES ASSUME IInv, [Next]_vars PROVE IInv' OBVIOUS
<1>1. CASE UNCHANGED vars
  <2>1. UNCHANGED busVars /\ UNCHANGED bootVars BY <1>1 DEF vars
  <2>2. UNCHANGED <<at, port, present, buttons, command, disc, lba, root, config,
                    failures, swaps, cardId, sony, irqs, stubs, armed, shell>>
        BY <2>1 DEF bootVars, menuVars, discVars, consoleVars
  <2>3. BusTypes' /\ Rest' /\ UNCHANGED <<bpc, packet>>
        /\ (Exchange => Exchange') /\ (Sending => Sending')
        BY <2>1, BusStays DEF IInv
  <2>4. MainTypes' BY <2>2 DEF IInv, MainTypes
  <2>5. Console' BY <2>2 DEF IInv, Console
  <2>6. packet = GameID(port, GameIdOf(config))
           => packet' = GameID(port, GameIdOf(config))'
        BY <2>2, <2>3
  <2>7. packet = Ping(port) => packet' = Ping(port)' BY <2>2, <2>3
  <2>8. Packeted' BY <2>2, <2>3, <2>6, <2>7 DEF IInv, Packeted
  <2> QED BY <2>3, <2>4, <2>5, <2>8 DEF IInv, BusInv
<1>2. CASE Run
  <2>1. ASSUME SendID PROVE IInv' BY <2>1, Calls, Steps
  <2> QED BY <1>2, <2>1, Calls, Steps, Restarted DEF Run
<1>3. CASE (PacketStep \/ Device) /\ UNCHANGED bootVars BY <1>3, PacketsGoOn
<1>4. CASE Replug BY <1>4, Replugged
<1>5. CASE \E d \in Discs : Mount(d) BY <1>5, Steps
<1> QED BY <1>1, <1>2, <1>3, <1>4, <1>5 DEF Next

LEMMA Invariance == Spec => []IInv
<1>1. Init => IInv BY InitInv
<1> QED BY <1>1, Inductive, PTL DEF Spec

-------------------------------------------------------------------------------
(* Every variable keeps its type, and no more than two bytes are ever on     *)
(* their way to the serial port (controller.c:112), whatever is plugged in.  *)
THEOREM TypeCorrect == Spec => []TypeOK
<1>1. IInv => TypeOK
  <2> SUFFICES ASSUME IInv PROVE TypeOK OBVIOUS
  <2>1. BusTypes /\ MainTypes BY DEF IInv, BusInv
  <2>2. BusTypeOK BY <2>1 DEF BusTypes, BusTypeOK, Places, PacketSet
  <2> QED BY <2>1, <2>2 DEF MainTypes, TypeOK, Asking, Reading, Restarts
<1> QED BY <1>1, Invariance, PTL

(* What exchangePacket has read is the beginning of the device's answer to   *)
(* this packet, wherever an acknowledgement was lost (controller.c:143-166). *)
THEOREM AnswersBelong == Spec => []AnswersThisPacket
<1>1. IInv => AnswersThisPacket
  <2> SUFFICES ASSUME IInv, dtr, Exchanging
               PROVE  \A k \in 1..Len(response) :
                  k < Len(heard) /\ response[k] = Answer(SubSeq(heard, 1, k + 1))
      BY DEF AnswersThisPacket
  <2>1. bpc # "idle"
    <3>1. dtr = (bpc # "idle") BY DEF IInv, BusInv, Rest
    <3> QED BY <3>1, Zenon
  <2>2. Exchange BY <2>1 DEF IInv, Packeted, Sending
  <2> QED BY <2>2 DEF Exchange, Said
<1> QED BY <1>1, Invariance, PTL

(* The game's id reaches the device whole (controller.c:219-225).            *)
THEOREM SendsWhole == Spec => SentWhole
<1>1. IInv /\ [Next]_vars =>
        [bpc = "release" /\ bpc' = "idle" /\ ~Exchanging
           => heard = <<packet.address>> \o packet.request]_busVars
  <2> SUFFICES ASSUME IInv, Next, bpc = "release", bpc' = "idle", ~Exchanging
               PROVE  heard = <<packet.address>> \o packet.request
      BY DEF vars
  <2>1. Sending BY DEF IInv, Packeted, Exchange
  <2>2. (heard \o tx) \o left = Whole(packet) /\ left = << >> BY <2>1 DEF Sending
  <2>3. tx = << >>
    <3>1. Release
      <4>1. UNCHANGED bpc \/ (PacketStep \/ Device) \/ bpc = "idle"
        <5>1. UNCHANGED busVars => UNCHANGED bpc BY DEF busVars, callVars
        <5>2. Restart => UNCHANGED busVars BY DEF Restart
        <5>3. Run => UNCHANGED busVars \/ bpc = "idle"
              BY <5>2 DEF Run, IdentifyCard, PingCard, CardChecked, PollPad, PadPolled,
                 CheckType, ReadDescriptor, ReadRoot, LoadConfig, SendID, IDSent, Call
        <5>4. Replug => UNCHANGED bpc BY DEF Replug, callVars
        <5>5. ASSUME NEW d, Mount(d) PROVE UNCHANGED busVars BY <5>5 DEF Mount
        <5> QED BY <5>1, <5>3, <5>4, <5>5 DEF Next
      <4>2. PacketStep BY <4>1 DEF Device, ByteSent, Pulse, callVars
      <4> QED BY <4>2 DEF PacketStep, SendAddress, Acknowledged, NoAcknowledge, Drain,
                          SendByte, ReceiveByte, LastByte
    <3> QED BY <3>1 DEF Release, SentAll
  <2>4. heard \in Seq(Bytes) BY DEF IInv, BusInv, BusTypes
  <2>5. heard \o << >> = heard BY <2>4, ConcatEmptySeq
  <2>6. (heard \o << >>) \o << >> = heard BY <2>5
  <2>7. heard = Whole(packet) BY <2>2, <2>3, <2>6
  <2> QED BY <2>7 DEF Whole
<1>2. [][Next]_vars /\ []IInv => SentWhole BY <1>1, PTL DEF SentWhole
<1> QED BY <1>2, Invariance, PTL DEF Spec

(* Whichever way main went, with whatever failures: the restart starts the   *)
(* program of a PlayStation disc without the shell only when it was asked    *)
(* for and the kernel is Sony's, and leaves no interrupt or breakpoint on    *)
(* (system.c:128-177).                                                       *)
THEOREM RestartIsClean == Spec => []RestartClean
<1>1. IInv => RestartClean
  <2> SUFFICES ASSUME IInv PROVE RestartClean OBVIOUS
  <2>1. Console /\ MainTypes BY DEF IInv
  <2>2. at \in {"game", "shell"} => irqs = FALSE /\ armed = FALSE
        BY <2>1 DEF Console, Restarts, MainTypes
  <2>3. at = "game" => sony = TRUE /\ command = "fast" BY <2>1 DEF Console
  <2>4. at = "game" => (failures = 0 => disc.ps)
        BY <2>1, <2>3 DEF Console, Restarts
  <2>5. at = "shell" => command = "slow" \/ sony = FALSE BY <2>1 DEF Console
  <2> QED BY <2>2, <2>3, <2>4, <2>5, Zenon DEF RestartClean
<1> QED BY <1>1, Invariance, PTL

-------------------------------------------------------------------------------
(* What main finds.  The devices that take this packet for theirs:          *)
Takers  == {d \in plugged[packet.port] : AddressOf(d) = packet.address}
Command == packet.request[1]

LEMMA Takes ==
  ASSUME NEW b, b[1] = packet.address PROVE Talks(b) = Takers
BY DEF Talks, Takers

LEMMA Beginning ==
  ASSUME NEW S, NEW s \in Seq(S), NEW n \in 1..Len(s)
  PROVE  Len(SubSeq(s, 1, n)) = n /\ \A i \in 1..n : SubSeq(s, 1, n)[i] = s[i]
<1>1. Len(s) \in Nat /\ n \in Nat /\ n <= Len(s) BY LenProperties
<1>2. \A i \in 1..n : s[i] \in S BY <1>1, ElementOfSeq
<1>3. PICK u : u = SubSeq(s, 1, n) OBVIOUS
<1>4. /\ u \in Seq(S) /\ Len(u) = IF 1 <= n THEN n - 1 + 1 ELSE 0
      /\ \A i \in 1..n - 1 + 1 : u[i] = s[1 + i - 1]
      BY <1>1, <1>2, <1>3, SubSeqProperties
<1>5. Len(u) = n /\ \A i \in 1..n : u[i] = s[i] BY <1>1, <1>4
<1> QED BY <1>3, <1>5

(* Each byte of the answer is one of a taker's, as long as one has more to   *)
(* say, and 0xFF afterwards.                                                *)
LEMMA EachByte ==
  ASSUME BusTypes, Exchange, NEW k \in 1..Len(response)
  PROVE  /\ (\E d \in Takers : k <= AnswerLength(d, Command))
               => response[k] = AnswerByte(CHOOSE d \in Takers : TRUE, Command, k)
         /\ ~(\E d \in Takers : k <= AnswerLength(d, Command)) => response[k] = 255
<1>0. Said BY DEF Exchange
<1>1. k < Len(heard) /\ response[k] = Answer(SubSeq(heard, 1, k + 1))
      BY <1>0 DEF Said
<1>2. heard \in Seq(Bytes) /\ Len(heard) \in Nat /\ Len(response) \in Nat
      BY Lengths DEF BusTypes
<1>3. k \in Nat /\ k > 0 /\ k + 1 \in 1..Len(heard) BY <1>1, <1>2
<1>4. Len(heard) >= 1 /\ Len(heard) >= 2 BY <1>1, <1>2, <1>3
<1>5. heard[1] = packet.address /\ heard[2] = Command BY <1>0, <1>4 DEF Said, Command
<1>6. PICK b : b = SubSeq(heard, 1, k + 1) OBVIOUS
<1>7. Len(b) = k + 1 /\ \A i \in 1..k + 1 : b[i] = heard[i]
      BY <1>2, <1>3, <1>6, Beginning
<1>8. b[1] = packet.address /\ b[2] = Command /\ Len(b) - 1 = k
      BY <1>3, <1>5, <1>7
<1>9. Talks(b) = Takers BY <1>8, Takes
<1>11. Answer(b) = IF \E d \in Takers : k > 0 /\ k <= AnswerLength(d, Command)
                   THEN AnswerByte(CHOOSE d \in Takers : TRUE, Command, k) ELSE 255
       BY <1>8, <1>9 DEF Answer
<1>12. (\E d \in Takers : k > 0 /\ k <= AnswerLength(d, Command))
          <=> \E d \in Takers : k <= AnswerLength(d, Command)
       BY <1>3
<1> QED BY <1>1, <1>6, <1>11, <1>12, Zenon

(* When no acknowledgement came too late, the answer ended because it had    *)
(* all that was asked for or because no taker had more to say.              *)
LEMMA AllOfIt ==
  ASSUME BusTypes, Exchange, bpc = "idle", faults = 0,
         NEW d \in Takers, AnswerLength(d, Command) \in Nat
  PROVE  \/ Len(response) >= packet.answer
         \/ Len(response) >= AnswerLength(d, Command)
<1>1. Turns /\ Said BY DEF Exchange
<1>2. Len(heard) = Len(response) + 1
      /\ (Len(response) < packet.answer => ~Pulses(heard))
      BY <1>1 DEF Turns
<1>3. /\ Len(heard) \in Nat /\ Len(response) \in Nat /\ packet.answer \in Nat
      BY Lengths
<1>4. heard[1] = packet.address BY <1>1, <1>2, <1>3 DEF Said
<1>5. Talks(heard) = Takers BY <1>4, Takes
<1>6. PICK n \in Nat : n = AnswerLength(d, Command) OBVIOUS
<1>7. CASE Len(response) = 0
  <2>1. Len(heard) - 1 = 0 BY <1>2, <1>3, <1>7
  <2>2. Pulses(heard) BY <1>5, <2>1 DEF Pulses
  <2> QED BY <1>2, <1>3, <2>2
<1>8. CASE Len(response) # 0
  <2>1. Len(heard) >= 2 /\ Len(heard) - 1 = Len(response) BY <1>2, <1>3, <1>8
  <2>2. heard[2] = Command BY <1>1, <2>1 DEF Said, Command
  <2>3. Len(response) < n => Pulses(heard)
        BY <1>5, <1>6, <2>1, <2>2 DEF Pulses
  <2> QED BY <1>2, <1>3, <1>6, <2>3
<1> QED BY <1>7, <1>8

LEMMA Plugged ==
  ASSUME BusTypes, NEW p \in 0..1 PROVE plugged[p] \subseteq {"pad", "card", "mcp"}
BY BusAssumption DEF BusTypes

LEMMA PadFound ==
  ASSUME IInv, at = "polled", bpc = "idle"
  PROVE  IF "pad" \in plugged[0]
         THEN Buttons \in {<<AnswerByte("pad", CMD_POLL, 3), AnswerByte("pad", CMD_POLL, 4)>>}
                \union (IF faults > 0 THEN {NoButtons} ELSE {})
         ELSE Buttons = NoButtons
<1>1. BusTypes /\ Exchange /\ packet = Poll(0)
      BY DEF IInv, BusInv, Packeted, Asking
<1>2. /\ packet.port = 0 /\ packet.address = ADDR_CONTROLLER
      /\ Command = CMD_POLL /\ packet.answer = 32
      BY <1>1 DEF Poll, Packet, Command
<1>3. Takers = {d \in plugged[0] : d = "pad"}
  <2>1. \A d \in plugged[0] : AddressOf(d) = ADDR_CONTROLLER <=> d = "pad"
        BY DEF AddressOf, ADDR_CONTROLLER, ADDR_MEMORY_CARD
  <2> QED BY <1>2, <2>1 DEF Takers
<1>4. AnswerLength("pad", Command) = 4 BY DEF AnswerLength
<1>5. Len(response) \in Nat /\ faults \in Nat
      BY <1>1, Lengths, BusAssumption DEF BusTypes
<1>6. Len(response) < 4 => Buttons = NoButtons BY DEF Buttons
<1>7. ASSUME NEW k \in 1..Len(response)
      PROVE  /\ (\E d \in Takers : k <= AnswerLength(d, Command))
                   => response[k] = AnswerByte(CHOOSE d \in Takers : TRUE, Command, k)
             /\ ~(\E d \in Takers : k <= AnswerLength(d, Command)) => response[k] = 255
      BY <1>1, EachByte
<1>8. CASE "pad" \in plugged[0]
  <2>1. Takers = {"pad"} BY <1>3, <1>8
  <2>2. (CHOOSE d \in Takers : TRUE) = "pad" BY <2>1
  <2>3. ASSUME Len(response) < 4 PROVE faults > 0
    <3>1. "pad" \in Takers /\ AnswerLength("pad", Command) = 4
          BY <1>2, <1>4, <2>1
    <3>2. faults # 0
      <4>1. ASSUME faults = 0 PROVE FALSE
        <5>1. Len(response) >= packet.answer \/ Len(response) >= 4
              BY <1>1, <3>1, <4>1, AllOfIt
        <5> QED BY <1>2, <1>5, <2>3, <5>1
      <4> QED BY <4>1
    <3> QED BY <1>5, <3>2
  <2>4. ASSUME ~(Len(response) < 4)
        PROVE  Buttons = <<AnswerByte("pad", CMD_POLL, 3), AnswerByte("pad", CMD_POLL, 4)>>
    <3>1. ASSUME NEW k \in 1..4 PROVE At(k) = AnswerByte("pad", Command, k)
      <4>1. k \in 1..Len(response) /\ k <= Len(response) BY <1>5, <2>4
      <4>2. \E d \in Takers : k <= AnswerLength(d, Command) BY <1>4, <2>1
      <4>3. response[k] = AnswerByte("pad", Command, k)
            BY <1>7, <2>2, <4>1, <4>2, Zenon
      <4> QED BY <4>1, <4>3 DEF At
    <3>2. 2 \in 1..4 /\ 3 \in 1..4 /\ 4 \in 1..4 OBVIOUS
    <3>3. AnswerByte("pad", Command, 2) = 90
          BY <1>2 DEF AnswerByte, CMD_POLL, CMD_GAME_ID_PING
    <3>4. At(2) = 90 BY <3>1, <3>2, <3>3
    <3> QED BY <1>2, <2>4, <3>1, <3>2, <3>4 DEF Buttons
  <2> QED BY <1>6, <1>8, <2>3, <2>4
<1>9. CASE "pad" \notin plugged[0]
  <2>1. Takers = {} BY <1>3, <1>9
  <2>2. ASSUME ~(Len(response) < 4) PROVE Buttons = NoButtons
    <3>1. 2 \in 1..Len(response) /\ 2 <= Len(response) BY <1>5, <2>2
    <3>2. ~(\E d \in Takers : 2 <= AnswerLength(d, Command)) BY <2>1
    <3>3. PICK k : k = 2 OBVIOUS
    <3>4. response[k] = 255 BY <1>7, <3>1, <3>2, <3>3, Zenon
    <3>5. At(2) # 90 BY <3>1, <3>3, <3>4 DEF At
    <3> QED BY <3>5 DEF Buttons
  <2> QED BY <1>6, <1>9, <2>2
<1> QED BY <1>8, <1>9

LEMMA CardFound ==
  ASSUME IInv, at = "pinged", bpc = "idle"
  PROVE  /\ IsMCP => "mcp" \in plugged[port]
         /\ "mcp" \in plugged[port] /\ faults = 0 => IsMCP
<1>1. BusTypes /\ Exchange /\ packet = Ping(port) /\ port \in 0..1
      BY DEF IInv, BusInv, Packeted, Asking, MainTypes
<1>2. /\ packet.port = port /\ packet.address = ADDR_MEMORY_CARD
      /\ Command = CMD_GAME_ID_PING /\ packet.answer = 5
      BY <1>1 DEF Ping, Packet, Command
<1>3. Takers = {d \in plugged[port] : d # "pad"}
  <2>1. \A d \in plugged[port] : AddressOf(d) = ADDR_MEMORY_CARD <=> d # "pad"
        BY DEF AddressOf, ADDR_CONTROLLER, ADDR_MEMORY_CARD
  <2> QED BY <1>2, <2>1 DEF Takers
<1>4. plugged[port] \subseteq {"pad", "card", "mcp"} BY <1>1, Plugged
<1>5. /\ AnswerLength("mcp", Command) = 5 /\ AnswerLength("card", Command) = 1
      BY <1>2 DEF AnswerLength, CMD_GAME_ID_PING, CMD_CARD_IDENTIFY
<1>6. Len(response) \in Nat /\ Len(response) <= 5
      BY <1>1, <1>2, Lengths DEF Exchange, Said
<1>7. ASSUME NEW k \in 1..Len(response)
      PROVE  /\ (\E d \in Takers : k <= AnswerLength(d, Command))
                   => response[k] = AnswerByte(CHOOSE d \in Takers : TRUE, Command, k)
             /\ ~(\E d \in Takers : k <= AnswerLength(d, Command)) => response[k] = 255
      BY <1>1, EachByte
<1>8. ASSUME IsMCP PROVE "mcp" \in plugged[port]
  <2>1. Len(response) = 5 /\ At(4) = 39 BY <1>8 DEF IsMCP
  <2>2. response[4] = 39 BY <2>1 DEF At
  <2>3. 4 \in 1..Len(response) BY <2>1
  <2>4. response[4] # 255 BY <2>2
  <2>5. PICK d \in Takers : 4 <= AnswerLength(d, Command)
    <3>1. PICK k : k = 4 OBVIOUS
    <3>2. k \in 1..Len(response) /\ response[k] # 255 BY <2>3, <2>4, <3>1
    <3>3. \E d \in Takers : k <= AnswerLength(d, Command) BY <1>7, <3>2, Zenon
    <3> QED BY <3>1, <3>3
  <2>6. d \in plugged[port] /\ d # "pad" BY <1>3, <2>5
  <2>7. d # "card" BY <1>5, <2>5
  <2> QED BY <1>4, <2>6, <2>7
<1>9. ASSUME "mcp" \in plugged[port], faults = 0 PROVE IsMCP
  <2>1. "mcp" \in Takers BY <1>3, <1>9
  <2>2. Len(response) = 5
    <3>1. AnswerLength("mcp", Command) = 5 BY <1>2, <1>5
    <3>2. Len(response) >= packet.answer \/ Len(response) >= 5
          BY <1>1, <1>9, <2>1, <3>1, AllOfIt
    <3>3. PICK n : n = Len(response) OBVIOUS
    <3>4. n >= 5 BY <1>2, <3>2, <3>3
    <3>5. n \in Nat /\ n <= 5 BY <1>6, <3>3
    <3>6. n = 5 BY <3>4, <3>5
    <3> QED BY <3>3, <3>6
  <2>3. ASSUME NEW k \in 4..5
        PROVE  At(k) = AnswerByte(CHOOSE d \in Takers : TRUE, Command, k)
    <3>1. k \in 1..Len(response) /\ k <= Len(response) BY <2>2
    <3>2. \E d \in Takers : k <= AnswerLength(d, Command) BY <1>5, <2>1
    <3>3. response[k] = AnswerByte(CHOOSE d \in Takers : TRUE, Command, k)
          BY <1>7, <3>1, <3>2, Zenon
    <3> QED BY <3>1, <3>3 DEF At
  <2>4. \A d : AnswerByte(d, Command, 4) = 39 /\ AnswerByte(d, Command, 5) = 255
        BY <1>2 DEF AnswerByte, CMD_GAME_ID_PING
  <2>5. 4 \in 4..5 /\ 5 \in 4..5 OBVIOUS
  <2>6. At(4) = 39 /\ At(5) = 255 BY <2>3, <2>4, <2>5
  <2> QED BY <2>2, <2>6 DEF IsMCP
<1> QED BY <1>8, <1>9

(* Whatever is plugged in where: what is not there is never found, and what  *)
(* is there is, unless an acknowledgement came too late (controller.c:190,   *)
(* 245).                                                                     *)
THEOREM FindsWhatIsThere == Spec => []FindsDevices
<1>1. IInv => FindsDevices BY PadFound, CardFound DEF FindsDevices
<1> QED BY <1>1, Invariance, PTL

-------------------------------------------------------------------------------
(* The game's id.  What a disc holds: a configuration that is listed is      *)
(* found, and its first line names the game.                                *)
DiscsHold ==
    \A d \in Discs :
        /\ LbaToFile(Sector(d.root), "SYSTEM.CNF;1") # 0 <=> Listed(d)
        /\ Listed(d) => GameIdOf(d.config) = d.path

(* The card at this port is to know the game; and it does if it was told.    *)
Due(p)   == p \in present /\ "mcp" \in plugged[p] /\ disc.ps /\ Listed(disc)
Knows(p) == cardId[p] = IF Due(p) THEN disc.path ELSE << >>
Ids ==
    /\ DOMAIN cardId = 0..1
    /\ at \in {"menu", "polled", "type", "descriptor", "root", "config"} => port = 0
    /\ at \in Before \ {"send", "sent", "restart"} => \A p \in 0..1 : cardId[p] = << >>
    /\ at = "sent" => port \in present
    /\ failures = 0 =>
          /\ at \in {"descriptor", "root", "config"} => disc.ps
          /\ at = "root" => lba = disc.rootLba
          /\ at = "config" => root = Sector(disc.root)
          /\ at \in {"send", "sent"} => disc.ps /\ Listed(disc) /\ config = disc.config
          /\ at \in {"send", "sent"} => /\ cardId[1] = << >>
                                        /\ port = 0 => cardId[0] = << >>
                                        /\ port = 1 => Knows(0)
          /\ at \in {"restart"} \union Restarts => Knows(0) /\ Knows(1)

LEMMA JoinedBytes ==
  \A a, b \in Seq(Bytes) : \A i \in 1..Len(a) + Len(b) :
     (a \o b)[i] = IF i <= Len(a) THEN a[i] ELSE b[i - Len(a)]
BY ConcatProperties

LEMMA HeardID ==
  ASSUME NEW id \in Seq(Bytes), NEW p, NEW h, h = Whole(GameID(p, id))
  PROVE  Len(h) > 4 /\ SubSeq(h, 5, Len(h) - 1) = id
<1>1. PICK n \in Nat : n = Len(id) BY LenProperties
<1>2. PICK a : a = <<ADDR_MEMORY_CARD>> OBVIOUS
<1>3. PICK b : b = <<CMD_GAME_ID_SEND, 0, n + 1>> OBVIOUS
<1>4. PICK z : z = <<0>> OBVIOUS
<1>5. /\ a \in Seq(Bytes) /\ Len(a) = 1 /\ b \in Seq(Bytes) /\ Len(b) = 3
      /\ z \in Seq(Bytes) /\ Len(z) = 1
      BY <1>1, <1>2, <1>3, <1>4, NatBytes DEF ADDR_MEMORY_CARD, CMD_GAME_ID_SEND
<1>6. PICK c : c = b \o id OBVIOUS
<1>7. PICK r : r = c \o z OBVIOUS
<1>8. h = a \o r
      BY <1>1, <1>2, <1>3, <1>4, <1>6, <1>7 DEF Whole, GameID, Packet
<1>9. c \in Seq(Bytes) /\ Len(c) = Len(b) + Len(id) BY <1>5, <1>6, Joined, Zenon
<1>10. r \in Seq(Bytes) /\ Len(r) = Len(c) + Len(z) BY <1>5, <1>7, <1>9, Joined, Zenon
<1>11. h \in Seq(Bytes) /\ Len(h) = Len(a) + Len(r)
  <2>1. a \o r \in Seq(Bytes) /\ Len(a \o r) = Len(a) + Len(r)
        BY <1>5, <1>10, Joined, Zenon
  <2> QED BY <1>8, <2>1
<1>12. Len(h) = n + 5 /\ Len(r) = n + 4 /\ Len(c) = n + 3
       BY <1>1, <1>5, <1>9, <1>10, <1>11
<1>13. ASSUME NEW i \in 1..n PROVE h[4 + i] = id[i]
  <2>1. PICK x : x = 4 + i OBVIOUS
  <2>2. PICK y : y = 3 + i OBVIOUS
  <2>3. /\ x \in 1..Len(a) + Len(r) /\ ~(x <= Len(a)) /\ x - Len(a) = y
        /\ y \in 1..Len(c) + Len(z) /\ y <= Len(c)
        /\ y \in 1..Len(b) + Len(id) /\ ~(y <= Len(b)) /\ y - Len(b) = i
        BY <1>1, <1>5, <1>12, <2>1, <2>2
  <2>4. h[x] = r[x - Len(a)]
    <3>1. (a \o r)[x] = r[x - Len(a)] BY <1>5, <1>10, <2>3, JoinedBytes, Zenon
    <3> QED BY <1>8, <3>1
  <2>5. r[y] = c[y] BY <1>5, <1>7, <1>9, <2>3, JoinedBytes, Zenon
  <2>6. c[y] = id[y - Len(b)] BY <1>5, <1>6, <2>3, JoinedBytes, Zenon
  <2> QED BY <2>1, <2>3, <2>4, <2>5, <2>6
<1>14. PICK u : u = SubSeq(h, 5, n + 4) OBVIOUS
<1>15. \A i \in 5..n + 4 : h[i] \in Bytes
       BY <1>1, <1>11, <1>12, ElementOfSeq
<1>16. /\ u \in Seq(Bytes) /\ Len(u) = IF 5 <= n + 4 THEN (n + 4) - 5 + 1 ELSE 0
       /\ \A i \in 1..(n + 4) - 5 + 1 : u[i] = h[5 + i - 1]
       BY <1>1, <1>14, <1>15, SubSeqProperties
<1>17. Len(u) = n /\ \A i \in 1..n : u[i] = h[4 + i] BY <1>1, <1>16
<1>18. u = id BY <1>1, <1>13, <1>16, <1>17, SeqEqual
<1>19. Len(h) - 1 = n + 4 /\ Len(h) > 4 BY <1>1, <1>12
<1> QED BY <1>14, <1>18, <1>19

LEMMA CardIsTold ==
  ASSUME IInv, at = "sent", bpc = "idle"
  PROVE  Len(heard) > 4 /\ SubSeq(heard, 5, Len(heard) - 1) = GameIdOf(config)
<1>1. /\ BusTypes /\ Rest /\ Sending /\ packet = GameID(port, GameIdOf(config))
      /\ config \in Texts
      BY DEF IInv, BusInv, Packeted, Asking, MainTypes
<1>2. tx = << >> /\ left = << >> /\ (heard \o tx) \o left = Whole(packet)
      BY <1>1 DEF Rest, Sending
<1>3. heard \in Seq(Bytes) BY <1>1 DEF BusTypes
<1>4. heard = Whole(packet) BY <1>2, <1>3, ConcatEmptySeq
<1>5. PICK id : id = GameIdOf(config) OBVIOUS
<1>6. id \in Seq(STRING) BY <1>1, <1>5, TextsAssumption
<1>7. id \in Seq(Bytes)
  <2>1. STRING \subseteq Bytes BY DEF Bytes
  <2>2. \A i \in 1..Len(id) : id[i] \in Bytes BY <1>6, <2>1, ElementOfSeq
  <2> QED BY <1>6, <2>2, SeqDef, LenProperties
<1>8. heard = Whole(GameID(port, id)) BY <1>1, <1>4, <1>5
<1> QED BY <1>5, <1>7, <1>8, HeardID

LEMMA IdStays ==
  ASSUME Ids, UNCHANGED <<at, port, present, disc, lba, root, config, failures, cardId,
                          plugged>>
  PROVE  Ids'
BY DEF Ids, Knows, Due, Listed

LEMMA IdBefore ==
  ASSUME IInv, Ids,
         \/ IdentifyCard \/ PingCard \/ CardChecked \/ PollPad \/ PadPolled \/ Replug
         \/ \E d \in Discs : Mount(d)
  PROVE  Ids'
<1>1. port \in 0..1 BY DEF IInv, MainTypes
<1>2. /\ at \in {"identify", "identified", "pinged", "menu", "polled"}
      /\ at' \in {"identify", "identified", "pinged", "menu", "polled", "type"}
      /\ UNCHANGED cardId
      BY DEF IdentifyCard, PingCard, CardChecked, PollPad, PadPolled, Replug, Mount
<1>3. at' \in {"menu", "polled", "type"} => port' = 0
      BY <1>1 DEF Ids, IdentifyCard, PingCard, CardChecked, PollPad, PadPolled, Replug,
                  Mount, NextPort
<1>4. \A p \in 0..1 : cardId[p] = << >>
      BY <1>2 DEF Ids, Before, Asking
<1> QED BY <1>2, <1>3, <1>4 DEF Ids, Before, Asking, Reading, Restarts

LEMMA IdReading ==
  ASSUME IInv, Ids, DiscsHold,
         CheckType \/ ReadDescriptor \/ ReadRoot \/ LoadConfig
  PROVE  Ids'
<1>1. failures \in Nat /\ disc \in Discs BY DEF IInv, MainTypes
<1>2. Failure => failures' # 0 BY <1>1 DEF Failure
<1>3. /\ at \in {"type", "descriptor", "root", "config"}
      /\ at' \in {"descriptor", "root", "config", "send", "restart"}
      /\ UNCHANGED <<port, present, disc, cardId, plugged>>
      BY DEF CheckType, DiscTyped, ReadDescriptor, ReadRoot, LoadConfig, busVars,
             deviceVars
<1>4. /\ port = 0 /\ cardId[0] = << >> /\ cardId[1] = << >> /\ DOMAIN cardId = 0..1
      BY <1>3 DEF Ids, Before, Asking, Reading
<1>5. ASSUME failures' = 0, at' = "restart" PROVE ~Due(0) /\ ~Due(1)
  <2>1. CASE CheckType
    <3>1. DiscTyped(disc.ps) BY <1>2, <1>5, <2>1 DEF CheckType, IsPlayStation
    <3>2. present = {} \/ ~disc.ps
      <4>1. ASSUME disc.ps, present # {} PROVE FALSE
        <5>1. at' = "descriptor" BY <3>1, <4>1, Zenon DEF DiscTyped
        <5> QED BY <1>5, <5>1
      <4> QED BY <4>1
    <3> QED BY <3>2 DEF Due
  <2>2. CASE ReadDescriptor
    <3>1. ~disc.ps BY <1>2, <1>5, <2>2 DEF ReadDescriptor, IsPlayStation
    <3> QED BY <3>1 DEF Due
  <2>3. CASE ReadRoot BY <1>5, <2>3 DEF ReadRoot
  <2>4. CASE LoadConfig
    <3>1. /\ at = "config" /\ failures = 0 /\ lba' = 0
          /\ lba' = LbaToFile(root, "SYSTEM.CNF;1")
          BY <1>2, <1>5, <2>4 DEF LoadConfig
    <3>2. root = Sector(disc.root) BY <3>1 DEF Ids
    <3>3. ~Listed(disc) BY <1>1, <3>1, <3>2 DEF DiscsHold
    <3> QED BY <3>3 DEF Due
  <2> QED BY <2>1, <2>2, <2>3, <2>4
<1>6. ASSUME failures' = 0, at' \in {"descriptor", "root", "config"} PROVE disc.ps
  <2>1. CASE CheckType
    <3>1. DiscTyped(disc.ps) BY <1>2, <1>6, <2>1 DEF CheckType, IsPlayStation
    <3>2. at' # "restart" BY <1>6
    <3> QED BY <3>1, <3>2, Zenon DEF DiscTyped
  <2>2. CASE ReadDescriptor BY <1>2, <1>6, <2>2 DEF ReadDescriptor, IsPlayStation
  <2>3. CASE ReadRoot BY <1>2, <1>6, <2>3 DEF ReadRoot, Ids
  <2>4. CASE LoadConfig BY <1>6, <2>4 DEF LoadConfig
  <2> QED BY <2>1, <2>2, <2>3, <2>4
<1>7. ASSUME failures' = 0, at' = "root" PROVE lba' = disc.rootLba
      BY <1>2, <1>7 DEF CheckType, DiscTyped, ReadDescriptor, ReadRoot, LoadConfig
<1>8. ASSUME failures' = 0, at' = "config" PROVE root' = Sector(disc.root)
  <2>1. ReadRoot
        BY <1>8 DEF CheckType, DiscTyped, ReadDescriptor, ReadRoot, LoadConfig
  <2>2. at = "root" /\ failures = 0 BY <1>2, <1>8, <2>1 DEF ReadRoot
  <2>3. lba = disc.rootLba BY <2>2 DEF Ids
  <2> QED BY <1>2, <1>8, <2>1, <2>3 DEF ReadRoot
<1>9. ASSUME failures' = 0, at' = "send"
      PROVE  disc.ps /\ Listed(disc) /\ config' = disc.config
  <2>1. LoadConfig
        BY <1>9 DEF CheckType, DiscTyped, ReadDescriptor, ReadRoot, LoadConfig
  <2>2. /\ at = "config" /\ failures = 0 /\ config' = disc.config
        /\ lba' # 0 /\ lba' = LbaToFile(root, "SYSTEM.CNF;1")
        BY <1>2, <1>9, <2>1 DEF LoadConfig
  <2>3. root = Sector(disc.root) /\ disc.ps BY <2>2 DEF Ids
  <2>4. Listed(disc) BY <1>1, <2>2, <2>3 DEF DiscsHold
  <2> QED BY <2>2, <2>3, <2>4
<1>10. Listed(disc)' = Listed(disc) BY <1>3 DEF Listed
<1>11. ASSUME failures' = 0, at' = "restart" PROVE Knows(0)' /\ Knows(1)'
  <2>1. Due(0)' = Due(0) /\ Due(1)' = Due(1) BY <1>3, <1>10 DEF Due
  <2> QED BY <1>3, <1>4, <1>5, <1>11, <2>1 DEF Knows
<1>12. /\ DOMAIN cardId' = 0..1 /\ port' = 0 /\ cardId'[0] = << >> /\ cardId'[1] = << >>
       /\ disc' = disc
       BY <1>3, <1>4
<1>13. at' \in {"descriptor", "root", "config", "send", "restart"} BY <1>3
<1>14. at' # "sent" /\ at' \notin Restarts BY <1>3 DEF Restarts
<1>15. ASSUME failures' = 0
       PROVE  /\ at' \in {"descriptor", "root", "config"} => disc'.ps
              /\ at' = "root" => lba' = disc'.rootLba
              /\ at' = "config" => root' = Sector(disc'.root)
              /\ at' \in {"send", "sent"} => disc'.ps /\ Listed(disc)' /\ config' = disc'.config
              /\ at' \in {"send", "sent"} => /\ cardId'[1] = << >>
                                             /\ port' = 0 => cardId'[0] = << >>
                                             /\ port' = 1 => Knows(0)'
              /\ at' \in {"restart"} \union Restarts => Knows(0)' /\ Knows(1)'
       BY <1>6, <1>7, <1>8, <1>9, <1>10, <1>11, <1>12, <1>14, <1>15
<1> QED BY <1>12, <1>14, <1>15 DEF Ids

LEMMA IdSending ==
  ASSUME IInv, Ids, DiscsHold, SendID \/ IDSent PROVE Ids'
<1>1. port \in 0..1 /\ disc \in Discs BY DEF IInv, MainTypes
<1>2. /\ at \in {"send", "sent"} /\ at' \in {"send", "sent", "restart"}
      /\ UNCHANGED <<present, disc, lba, root, config, failures, plugged>>
      BY DEF SendID, IDSent, Call, busVars, deviceVars, discVars
<1>3. DOMAIN cardId = 0..1 /\ (at = "sent" => port \in present) BY DEF Ids
<1>4. failures = 0 =>
         /\ disc.ps /\ Listed(disc) /\ config = disc.config /\ cardId[1] = << >>
         /\ port = 0 => cardId[0] = << >>
         /\ port = 1 => Knows(0)
      BY <1>2 DEF Ids
<1>5. Listed(disc)' = Listed(disc) BY <1>2 DEF Listed
<1>6. \A p : Due(p)' = Due(p) BY <1>2, <1>5 DEF Due
<1>7. CASE SendID /\ port \in present
  <2>1. at' = "sent" /\ UNCHANGED <<port, cardId>> BY <1>7 DEF SendID
  <2>2. Knows(0)' = Knows(0) BY <1>2, <1>6, <2>1 DEF Knows
  <2> QED BY <1>2, <1>3, <1>4, <1>5, <1>7, <2>1, <2>2
          DEF Ids, Before, Asking, Reading, Restarts
(* The port is done with: its card knows the game if it is to.              *)
<1> PICK q \in 0..1 : q = port BY <1>1
<1>8. ASSUME DOMAIN cardId' = 0..1, port' = NextPort,
             at' = IF port = 0 THEN "send" ELSE "restart",
             failures = 0 => Knows(q)',
             \A p \in 0..1 : p # q => cardId'[p] = cardId[p]
      PROVE  Ids'
  <2>1. CASE q = 0
    <3>1. at' = "send" /\ port' = 1 /\ cardId'[1] = cardId[1]
          BY <1>8, <2>1 DEF NextPort
    <3>2. failures = 0 => Knows(0)' BY <1>8, <2>1
    <3> QED BY <1>2, <1>4, <1>5, <1>8, <3>1, <3>2 DEF Ids, Before, Asking, Reading, Restarts
  <2>2. CASE q = 1
    <3>1. at' = "restart" /\ port' = 0 /\ cardId'[0] = cardId[0]
          BY <1>8, <2>2 DEF NextPort
    <3>2. failures = 0 => Knows(0)'
      <4>1. failures = 0 => Knows(0) BY <1>4, <2>2
      <4>2. Knows(0) => Knows(0)' BY <1>2, <1>6, <3>1 DEF Knows
      <4> QED BY <4>1, <4>2
    <3>3. failures = 0 => Knows(1)' BY <1>8, <2>2
    <3> QED BY <1>2, <1>8, <3>1, <3>2, <3>3 DEF Ids, Before, Asking, Reading, Restarts
  <2> QED BY <2>1, <2>2
<1>9. failures = 0 => cardId[q] = << >> BY <1>1, <1>4
<1>10. CASE SendID /\ port \notin present
  <2>1. /\ at' = IF port = 0 THEN "send" ELSE "restart"
        /\ port' = NextPort /\ UNCHANGED cardId
        BY <1>10 DEF SendID
  <2>2. ~Due(q) BY <1>10 DEF Due
  <2>3. failures = 0 => Knows(q)'
    <3>1. ~Due(q)' BY <1>6, <2>2
    <3>2. failures = 0 => cardId'[q] = << >> BY <1>9, <2>1
    <3> QED BY <3>1, <3>2 DEF Knows
  <2> QED BY <1>3, <1>8, <2>1, <2>3
<1>11. CASE IDSent
  <2>1. /\ at = "sent" /\ bpc = "idle" /\ port' = NextPort
        /\ at' = IF port = 0 THEN "send" ELSE "restart"
        /\ cardId' = IF "mcp" \in plugged[q] /\ Len(heard) > 4
                     THEN [cardId EXCEPT ![q] = SubSeq(heard, 5, Len(heard) - 1)]
                     ELSE cardId
        BY <1>11 DEF IDSent
  <2>2. Len(heard) > 4 /\ SubSeq(heard, 5, Len(heard) - 1) = GameIdOf(config)
        BY <2>1, CardIsTold
  <2>3. DOMAIN cardId' = 0..1 /\ \A p \in 0..1 : p # q => cardId'[p] = cardId[p]
        BY <1>3, <2>1
  <2>4. failures = 0 => Knows(q)'
    <3> SUFFICES ASSUME failures = 0 PROVE Knows(q)' OBVIOUS
    <3>1. q \in present BY <1>3, <2>1
    <3>2. disc.ps /\ Listed(disc) /\ config = disc.config BY <1>4
    <3>3. GameIdOf(config) = disc.path BY <1>1, <3>2 DEF DiscsHold
    <3>4. CASE "mcp" \in plugged[q]
      <4>1. cardId'[q] = disc.path BY <1>3, <2>1, <2>2, <3>3, <3>4
      <4>2. Due(q)' BY <1>6, <3>1, <3>2, <3>4 DEF Due
      <4> QED BY <1>2, <4>1, <4>2 DEF Knows
    <3>5. CASE "mcp" \notin plugged[q]
      <4>1. cardId'[q] = << >> BY <1>9, <2>1, <3>5
      <4>2. ~Due(q)' BY <1>6, <3>5 DEF Due
      <4> QED BY <4>1, <4>2 DEF Knows
    <3> QED BY <3>4, <3>5
  <2> QED BY <1>8, <2>1, <2>3, <2>4
<1> QED BY <1>7, <1>10, <1>11

LEMMA IdRestart == ASSUME IInv, Ids, Restart PROVE Ids'
<1>1. UNCHANGED <<port, present, disc, config, failures, cardId, plugged>>
      BY DEF Restart, busVars, deviceVars, discVars
<1>2. at \in {"restart"} \union Restarts /\ at' \in Restarts
      BY DEF Restart, SoftReset, ResetInterrupts, CopyStubs, ArmBreakpoint, ResetPath,
             LoadShell, RunShell, Restarts
<1>3. \A p : Knows(p)' = Knows(p) BY <1>1 DEF Knows, Due, Listed
<1>4. failures = 0 => Knows(0) /\ Knows(1) BY <1>2 DEF Ids
<1> QED BY <1>1, <1>2, <1>3, <1>4 DEF Ids, Before, Asking, Reading, Restarts

LEMMA IdsInductive == ASSUME DiscsHold PROVE IInv /\ Ids /\ [Next]_vars => Ids'
<1> SUFFICES ASSUME IInv, Ids, [Next]_vars PROVE Ids' OBVIOUS
<1>1. CASE UNCHANGED vars
      BY <1>1, IdStays DEF vars, bootVars, discVars, busVars, deviceVars
<1>2. CASE Run BY <1>2, IdBefore, IdReading, IdSending, IdRestart DEF Run
<1>3. CASE (PacketStep \/ Device) /\ UNCHANGED bootVars
  <2>1. UNCHANGED plugged
        BY <1>3 DEF PacketStep, Device, SendAddress, Acknowledged, NoAcknowledge, Drain,
             SendByte, ReceiveByte, LastByte, Release, ByteSent, Pulse, deviceVars
  <2> QED BY <1>3, <2>1, IdStays DEF bootVars, discVars
<1>4. CASE Replug BY <1>4, IdBefore
<1>5. CASE \E d \in Discs : Mount(d) BY <1>5, IdBefore
<1> QED BY <1>1, <1>2, <1>3, <1>4, <1>5 DEF Next

(* The restart begins with every MemCard PRO that was found knowing the game *)
(* whose disc is mounted, and told nothing of a disc without one             *)
(* (main.c:696-729), if nothing failed on the way.                           *)
THEOREM IdReaches == ASSUME DiscsHold PROVE Spec => []IdArrives
<1>1. Init => IInv /\ Ids
  <2>1. Init => IInv BY InitInv
  <2>2. Init => Ids BY DEF Init, Ids, Before, Asking, Reading, Restarts
  <2> QED BY <2>1, <2>2
<1>2. IInv /\ Ids /\ [Next]_vars => (IInv /\ Ids)' BY Inductive, IdsInductive
<1>3. IInv /\ Ids => IdArrives
  <2> SUFFICES ASSUME IInv, Ids, failures = 0, at \in {"restart", "game", "shell"}
               PROVE  \A p \in 0..1 : Knows(p)
      BY DEF IdArrives, Knows, Due
  <2>1. Knows(0) /\ Knows(1) BY DEF Ids, Restarts
  <2>2. \A p \in 0..1 : p = 0 \/ p = 1 OBVIOUS
  <2> QED BY <2>1, <2>2
<1> QED BY <1>1, <1>2, <1>3, PTL DEF Spec
===============================================================================
