-------------------------- MODULE StreamRing_proofs ---------------------------
(***************************************************************************)
(* For a ring of any size, any feeding and any timing of the SPU: while    *)
(* sounds are uploaded only between songs, the ring's indexes, its count   *)
(* and the SPU interrupt stay consistent with each other.                  *)
(***************************************************************************)
EXTENDS StreamRing, TLAPS

(* What each stage of the main thread and a pending interrupt rely on.     *)
Phases ==
    /\ irqOff <=> pc = "feeding"
    /\ pc = "started" => isPlaying /\ buffered > 0 /\ ~irqEnable /\ ~pending
    /\ pc = "stopping" => ~irqEnable /\ ~pending
    /\ pc = "uploading" => ~isPlaying /\ ~saved
    /\ ~isPlaying => ~irqEnable
    /\ pending /\ isPlaying => buffered > 0
    /\ pc = "feeding" => left + buffered + PlayingChunk <= NumChunks

IInv == TypeOK /\ RingConsistent /\ IRQOffOnUnderrun /\ Phases

-------------------------------------------------------------------------------
(* Arithmetic modulo the ring's size and modulo the width of the count *)

(* The next slot is a slot (stream.c:163, 185). *)
LEMMA FollowRange ==
  ASSUME NEW s \in Slots PROVE Follow(s) \in Slots
BY RingAssumption DEF RingAssumption, Slots, Follow

(* A number below the modulus is its own remainder. *)
LEMMA ModSmall ==
  ASSUME NEW n \in Nat, NEW x \in Nat, x < n PROVE x % n = x
OBVIOUS

(* A number less than twice the modulus is reduced by taking it off once. *)
LEMMA ModOnce ==
  ASSUME NEW n \in Nat, NEW x \in Nat, n <= x, x < n + n PROVE x % n = x - n
OBVIOUS

(* A chunk more: the tail moves, the head stays. *)
LEMMA AddChunk ==
  ASSUME NEW h \in Slots, NEW b \in 0..NumChunks - 1
  PROVE  Follow((h + b) % NumChunks) = (h + (b + 1)) % NumChunks
<1> DEFINE t == h + b
<1>0. /\ NumChunks \in Nat /\ t \in Nat /\ t + 1 < NumChunks + NumChunks
      /\ h + (b + 1) = t + 1
      BY RingAssumption DEF RingAssumption, Slots
<1> HIDE DEF t
<1>1. CASE t < NumChunks
  <2>1. t % NumChunks = t BY <1>0, <1>1, ModSmall
  <2> QED BY <1>0, <2>1 DEF Follow, t
<1>2. CASE NumChunks <= t
  <2>1. t % NumChunks = t - NumChunks
    <3>1. t < NumChunks + NumChunks BY <1>0
    <3> QED BY Zenon, <1>0, <1>2, <3>1, ModOnce
  <2>2. (t + 1) % NumChunks = t + 1 - NumChunks
    <3>1. t + 1 \in Nat /\ NumChunks <= t + 1 BY <1>0, <1>2
    <3>2. (t + 1) % NumChunks = (t + 1) - NumChunks BY <1>0, <3>1, ModOnce
    <3> QED BY <3>2, <1>0
  <2>3. (t - NumChunks) + 1 \in Nat /\ (t - NumChunks) + 1 < NumChunks
        BY <1>0, <1>2
  <2>4. ((t - NumChunks) + 1) % NumChunks = (t - NumChunks) + 1
        BY <1>0, <2>3, ModSmall
  <2>5. (t - NumChunks) + 1 = t + 1 - NumChunks BY <1>0
  <2> QED BY <1>0, <2>1, <2>2, <2>4, <2>5 DEF Follow, t
<1> QED BY <1>0, <1>1, <1>2

(* A chunk less: the head moves, the tail stays. *)
LEMMA RemoveChunk ==
  ASSUME NEW h \in Slots, NEW b \in 1..NumChunks
  PROVE  (Follow(h) + (b - 1)) % NumChunks = (h + b) % NumChunks
<1>0. /\ NumChunks \in Nat /\ h \in Nat /\ b \in Nat
      /\ h < NumChunks /\ 0 < b /\ b <= NumChunks
      BY RingAssumption DEF RingAssumption, Slots
<1>1. CASE h + 1 < NumChunks
  <2>1. Follow(h) = h + 1 BY <1>0, <1>1, ModSmall DEF Follow
  <2>2. h + 1 + (b - 1) = h + b BY <1>0
  <2> QED BY <2>1, <2>2
<1>2. CASE h + 1 = NumChunks
  <2>1. Follow(h) = 0 BY <1>0, <1>2, ModOnce DEF Follow
  <2>2. h + b \in Nat /\ NumChunks <= h + b /\ h + b < NumChunks + NumChunks
        BY <1>0, <1>2
  <2>3. \A x \in Nat : NumChunks <= x /\ x < NumChunks + NumChunks
                         => x % NumChunks = x - NumChunks
        BY Zenon, <1>0, ModOnce
  <2>4. h + b - NumChunks = b - 1 BY <1>0, <1>2
  <2>5. b - 1 \in Nat /\ b - 1 < NumChunks BY <1>0
  <2>6. (b - 1) % NumChunks = b - 1 BY <1>0, <2>5, ModSmall
  <2>7. 0 + (b - 1) = b - 1 BY <1>0
  <2>8. (h + b) % NumChunks = b - 1
    <3> DEFINE t == h + b
    <3>1. t \in Nat /\ NumChunks <= t /\ t < NumChunks + NumChunks BY <2>2
    <3>2. t - NumChunks = b - 1 BY <1>0, <1>2
    <3> HIDE DEF t
    <3>3. t % NumChunks = t - NumChunks BY Zenon, <2>3, <3>1
    <3>4. t % NumChunks = b - 1 BY <3>2, <3>3
    <3> QED BY <3>4 DEF t
  <2> QED BY <2>1, <2>6, <2>7, <2>8
<1> QED BY <1>0, <1>1, <1>2

(* The 16-bit count does not wrap while it counts chunks of the ring. *)
LEMMA CountExact ==
  ASSUME NEW b \in 0..NumChunks
  PROVE  /\ b > 0 => CountDown(b) = b - 1
         /\ b < NumChunks => (b + 1) % CountModulus = b + 1
BY RingAssumption, ModSmall DEF RingAssumption, CountDown

-------------------------------------------------------------------------------

(* The initial state satisfies the invariant. *)
LEMMA InitIInv == Init => IInv
<1> SUFFICES ASSUME Init PROVE IInv
    OBVIOUS
<1>1. NumChunks \in Nat /\ NumChunks > 1 /\ MaxFeed \in Nat
      BY RingAssumption DEF RingAssumption
<1>2. BooleanTypes BY Zenon DEF Init, BooleanTypes
<1>3. RingTypes BY <1>1 DEF Init, RingTypes, Slots
<1>4. SPUTypes BY <1>1 DEF Init, SPUTypes, Slots
<1>5. RingConsistent BY <1>1, ModSmall DEF Init, RingConsistent
<1>6. IRQOffOnUnderrun /\ Phases BY DEF Init, IRQOffOnUnderrun, Phases
<1> QED BY <1>2, <1>3, <1>4, <1>5, <1>6 DEF IInv, TypeOK

(* Booleans stay Booleans. *)
LEMMA NextBooleans ==
  ASSUME BooleanTypes, Next PROVE BooleanTypes'
<1> USE DEF BooleanTypes, ring, spu, hw, vars
<1>1. CASE Load BY Zenon, <1>1 DEF Load
<1>2. CASE Start BY Zenon, <1>2 DEF Start
<1>3. CASE Started BY Zenon, <1>3 DEF Started, TakeChunk, ConfigureIRQ
<1>4. CASE StopIRQ BY Zenon, <1>4 DEF StopIRQ
<1>5. CASE StopVoices BY Zenon, <1>5 DEF StopVoices
<1>6. ASSUME NEW n \in 0..MaxFeed, FeedBegin(n) PROVE BooleanTypes'
      BY Zenon, <1>6 DEF FeedBegin
<1>7. CASE FeedChunk BY Zenon, <1>7 DEF FeedChunk
<1>8. CASE FeedEnd
      BY Zenon, <1>8 DEF FeedEnd, RearmAfterFeed, NoRearm, ConfigureIRQ
<1>9. CASE UploadBegin BY Zenon, <1>9 DEF UploadBegin
<1>10. CASE UploadEnd BY Zenon, <1>10 DEF UploadEnd
<1>11. CASE HandleIRQ
       BY Zenon, <1>11 DEF HandleIRQ, TakeChunk, ConfigureIRQ
<1>12. CASE EndOfChunk BY Zenon, <1>12 DEF EndOfChunk
<1> QED BY Zenon, <1>1, <1>2, <1>3, <1>4, <1>5, <1>6, <1>7, <1>8, <1>9, <1>10,
        <1>11, <1>12 DEF Next, MainStep, Client

(* What taking a chunk does to a ring that holds one. *)
LEMMA TakesOne ==
  ASSUME IInv, TakeChunk, buffered > 0, tail' = tail
  PROVE  /\ head' \in Slots /\ buffered' = buffered - 1
         /\ tail' = (head' + buffered') % NumChunks
         /\ irqEnable' <=> buffered' # 0
         /\ irqAddr' \in Slots /\ loopAddr' \in Slots
<1>1. head \in Slots /\ buffered \in 1..NumChunks
      BY RingAssumption DEF IInv, TypeOK, RingTypes, RingAssumption
<1>2. head' \in Slots BY <1>1, FollowRange DEF TakeChunk
<1>3. buffered' = buffered - 1 BY <1>1, CountExact DEF TakeChunk
<1>4. tail' = (head' + buffered') % NumChunks
      BY <1>1, <1>3, RemoveChunk DEF TakeChunk, IInv, RingConsistent
<1>5. irqAddr' \in Slots /\ loopAddr' \in Slots
      BY <1>2 DEF TakeChunk, ConfigureIRQ, IInv, TypeOK, SPUTypes
<1>6. irqEnable' <=> buffered' # 0 BY DEF TakeChunk, ConfigureIRQ
<1> QED BY <1>2, <1>3, <1>4, <1>5, <1>6

(* The invariant but for the Booleans, which need a prover of their own. *)
Rest == RingTypes /\ SPUTypes /\ RingConsistent /\ IRQOffOnUnderrun /\ Phases

(* The steps of a call in progress: started, stopping, feeding, uploading. *)
LEMMA MainRest ==
  ASSUME IInv, MainStep, ~UploadAnyTime PROVE Rest'
<1> USE RingAssumption DEF RingAssumption, IInv, TypeOK, Rest, RingTypes,
      SPUTypes, RingConsistent, IRQOffOnUnderrun, Phases, PlayingChunk,
      MainRuns, ring, spu, hw
<1>1. CASE Started
  <2>1. isPlaying /\ buffered > 0 /\ ~pending BY <1>1 DEF Started
  <2>2. tail' = tail /\ TakeChunk BY <1>1 DEF Started
  <2> QED BY <1>1, <2>1, <2>2, TakesOne DEF Started
<1>2. CASE StopVoices BY <1>2 DEF StopVoices
<1>3. CASE FeedChunk
  <2>1. buffered + PlayingChunk < NumChunks BY <1>3 DEF FeedChunk
  <2>2. buffered \in 0..NumChunks - 1 BY <2>1
  <2>3. buffered' = buffered + 1 BY <1>3, <2>2, CountExact DEF FeedChunk
  <2>4. tail' = (head' + buffered') % NumChunks
        BY <1>3, <2>2, <2>3, AddChunk DEF FeedChunk
  <2>5. tail' \in Slots BY <1>3, FollowRange DEF FeedChunk
  <2>6. slots' \in [Slots -> Nat] BY <1>3 DEF FeedChunk
  <2> QED BY <1>3, <2>1, <2>3, <2>4, <2>5, <2>6 DEF FeedChunk
<1>4. CASE FeedEnd
      BY <1>4 DEF FeedEnd, RearmAfterFeed, NoRearm, ConfigureIRQ
<1>5. CASE UploadEnd BY <1>5 DEF UploadEnd
<1> QED BY <1>1, <1>2, <1>3, <1>4, <1>5 DEF MainStep

(* The calls: load, start, stop, upload, feed. *)
LEMMA ClientRest ==
  ASSUME IInv, Client, ~UploadAnyTime PROVE Rest'
<1> USE RingAssumption DEF RingAssumption, IInv, TypeOK, Rest, RingTypes,
      SPUTypes, RingConsistent, IRQOffOnUnderrun, Phases, PlayingChunk,
      MainRuns, ring, spu, hw
<1>1. CASE Load BY <1>1, ModSmall DEF Load, Slots
<1>2. CASE Start BY <1>2 DEF Start
<1>3. CASE StopIRQ BY <1>3 DEF StopIRQ
<1>4. CASE UploadBegin BY <1>4 DEF UploadBegin
<1>5. ASSUME NEW n \in 0..MaxFeed, FeedBegin(n) PROVE Rest'
      BY <1>5 DEF FeedBegin, AtMost, FreeChunks
<1> QED BY <1>1, <1>2, <1>3, <1>4, <1>5 DEF Client

(* The handler interrupts the main thread only where it is idle. *)
LEMMA HandlerTakes ==
  ASSUME IInv, HandleIRQ, isPlaying PROVE Rest'
<1>1. pending /\ ~irqOff /\ TakeChunk BY DEF HandleIRQ
<1>2. pc = "idle" /\ buffered > 0
      BY <1>1 DEF IInv, Phases, TypeOK, RingTypes
<1>3. UNCHANGED <<pc, left, irqOff, saved, isPlaying, tail, slots, fed, voice>>
      BY DEF HandleIRQ
<1>4. ~pending' BY DEF HandleIRQ
<1>5. /\ head' \in Slots /\ buffered' = buffered - 1
      /\ tail' = (head' + buffered') % NumChunks
      /\ irqEnable' <=> buffered' # 0
      /\ irqAddr' \in Slots /\ loopAddr' \in Slots
      BY <1>1, <1>2, <1>3, TakesOne
<1>6. RingTypes /\ SPUTypes /\ NumChunks \in Nat /\ isPlaying'
      BY <1>3, RingAssumption DEF IInv, TypeOK, RingAssumption
<1>7. RingTypes' /\ SPUTypes'
      BY <1>2, <1>3, <1>5, <1>6 DEF RingTypes, SPUTypes
<1>8. RingConsistent'
      BY <1>2, <1>5, <1>6, <1>7 DEF RingConsistent, RingTypes
<1>9. IRQOffOnUnderrun' BY <1>5 DEF IRQOffOnUnderrun
<1>10. Phases' BY <1>1, <1>2, <1>3, <1>4, <1>6 DEF Phases
<1> QED BY <1>7, <1>8, <1>9, <1>10 DEF Rest

(* The SPU interrupt, in a stream that plays and in one that does not. *)
LEMMA InterruptRest ==
  ASSUME IInv, HandleIRQ \/ EndOfChunk PROVE Rest'
<1> USE DEF IInv, TypeOK, Rest, RingTypes, SPUTypes, RingConsistent,
      IRQOffOnUnderrun, Phases, PlayingChunk, ring, spu, hw
<1>1. CASE HandleIRQ /\ isPlaying BY <1>1, HandlerTakes
<1>2. CASE HandleIRQ /\ ~isPlaying BY <1>2 DEF HandleIRQ
<1>3. CASE EndOfChunk
  <2>1. UNCHANGED <<pc, left, irqOff, saved, ring, spu>> BY <1>3 DEF EndOfChunk
  <2>2. voice' \in Slots BY <1>3 DEF EndOfChunk
  <2>3. pending' => pending \/ irqEnable BY <1>3 DEF EndOfChunk
  <2>4. irqEnable => pc \notin {"started", "stopping"} /\ buffered > 0 OBVIOUS
  <2>5. Phases' BY <2>1, <2>3, <2>4
  <2> QED BY <2>1, <2>2, <2>5
<1> QED BY <1>1, <1>2, <1>3

(* The invariant is inductive. *)
LEMMA NextIInv ==
  ASSUME ~UploadAnyTime, IInv, [Next]_vars PROVE IInv'
<1>1. CASE Next
  <2>1. BooleanTypes' BY <1>1, NextBooleans DEF IInv, TypeOK
  <2>2. Rest'
        BY <1>1, MainRest, ClientRest, InterruptRest DEF Next
  <2> QED BY <2>1, <2>2 DEF IInv, TypeOK, Rest
<1>2. CASE UNCHANGED vars
      BY <1>2 DEF vars, ring, spu, hw, IInv, TypeOK, BooleanTypes, RingTypes,
         SPUTypes, RingConsistent, IRQOffOnUnderrun, Phases, PlayingChunk
<1> QED BY <1>1, <1>2

(* The inductive invariant holds in every reachable state. *)
THEOREM Inductive == ASSUME ~UploadAnyTime PROVE Spec => []IInv
<1>1. Init => IInv BY InitIInv
<1>2. IInv /\ [Next]_vars => IInv' BY ~UploadAnyTime, NextIInv
<1> QED BY <1>1, <1>2, PTL DEF Spec

(* The ring keeps its types: the count of buffered chunks, decremented by   *)
(* the handler and incremented by stream_feed, stays between zero and the   *)
(* size of the ring (stream.c:163-164, 186-187).                            *)
THEOREM TypeCorrect == ASSUME ~UploadAnyTime PROVE Spec => []TypeOK
<1>1. IInv => TypeOK BY DEF IInv
<1> QED BY <1>1, Inductive, PTL

(* Head, tail and count agree, and no buffered chunk lies in the slot that  *)
(* is being played (stream.h:21-28).                                        *)
THEOREM RingIsConsistent == ASSUME ~UploadAnyTime PROVE Spec => []RingConsistent
<1>1. IInv => RingConsistent BY DEF IInv
<1> QED BY <1>1, Inductive, PTL

(* After an underrun the interrupt is off, so the handler never takes a     *)
(* chunk that was not fed (stream.c:38-43).                                 *)
THEOREM UnderrunIsSafe == ASSUME ~UploadAnyTime PROVE Spec => []IRQOffOnUnderrun
<1>1. IInv => IRQOffOnUnderrun BY DEF IInv
<1> QED BY <1>1, Inductive, PTL


-------------------------------------------------------------------------------
(* The ring implements ChunkPlayer.                                         *)

(* How far a slot lies behind the head.                                     *)
Distance(s) == IF head <= s THEN s - head ELSE s - head + NumChunks

(* The buffered chunks lie behind the head, in the order they were fed.     *)
InOrder == \A s \in Slots :
               Distance(s) < buffered => slots[s] = fed - buffered + 1 + Distance(s)

(* The voice is before the head, and the interrupt has not come; or it has  *)
(* jumped to the head, and the interrupt moves the head on, unless the      *)
(* stream is being stopped.                                                 *)
BeforeHead == /\ Follow(voice) = head /\ slots[voice] = fed - buffered /\ ~pending
              /\ \/ loopAddr = head /\ buffered > 0
                    /\ (irqEnable \/ pc = "stopping")
                 \/ loopAddr = voice /\ ~irqEnable
AtHead == /\ voice = head /\ loopAddr = head /\ buffered > 0
          /\ pending \/ pc = "stopping"

(* What the SPU plays, and what it will play next.                          *)
VoiceFollows ==
    /\ isPlaying <=> voiceOn
    /\ irqEnable => irqAddr = loopAddr
    /\ pc = "started" => voice = head /\ loopAddr = head
    /\ isPlaying /\ pc # "started" => BeforeHead \/ AtHead

PInv == IInv /\ InOrder /\ VoiceFollows

(* Follow and the tail without the modulus. *)
LEMMA FollowCases ==
  ASSUME NEW s \in Slots
  PROVE  Follow(s) = IF s + 1 = NumChunks THEN 0 ELSE s + 1
<1>1. NumChunks \in Nat /\ s \in Nat /\ s < NumChunks
      BY RingAssumption DEF RingAssumption, Slots
<1>2. CASE s + 1 = NumChunks BY <1>1, <1>2, ModOnce DEF Follow
<1>3. CASE s + 1 < NumChunks BY <1>1, <1>3, ModSmall DEF Follow
<1> QED BY <1>1, <1>2, <1>3

LEMMA TailCases ==
  ASSUME IInv
  PROVE  /\ head + buffered < NumChunks => tail = head + buffered
         /\ NumChunks <= head + buffered => tail = (head + buffered) - NumChunks
<1>1. /\ NumChunks \in Nat /\ head + buffered \in Nat
      /\ head + buffered < NumChunks + NumChunks
      BY RingAssumption
      DEF RingAssumption, Slots, IInv, TypeOK, RingTypes
<1>2. tail = (head + buffered) % NumChunks BY DEF IInv, RingConsistent
<1>3. head + buffered < NumChunks => tail = head + buffered
      BY Zenon, <1>1, <1>2, ModSmall
<1>4. NumChunks <= head + buffered => tail = (head + buffered) - NumChunks
      BY Zenon, <1>1, <1>2, ModOnce
<1> QED BY <1>3, <1>4

(* Taking a chunk moves the distances of all the others by one. *)
LEMMA TakeKeepsOrder ==
  ASSUME PInv, TakeChunk, buffered > 0, UNCHANGED <<tail, slots, fed>>
  PROVE  InOrder'
<1>1. /\ head' = Follow(head) /\ buffered' = buffered - 1 /\ head' \in Slots
      BY TakesOne DEF PInv, TakeChunk
<1>2. /\ head \in Slots /\ buffered \in 1..NumChunks /\ fed \in Nat
      /\ NumChunks \in Nat
      BY RingAssumption DEF RingAssumption, PInv, IInv, TypeOK, RingTypes
<1>3. head' = IF head + 1 = NumChunks THEN 0 ELSE head + 1
      BY <1>1, <1>2, FollowCases
<1> SUFFICES ASSUME NEW s \in Slots, Distance(s)' < buffered'
             PROVE  slots[s] = fed - (buffered - 1) + 1 + Distance(s)'
    BY <1>1 DEF InOrder
<1>4. Distance(s)' = Distance(s) - 1
      BY <1>1, <1>2, <1>3 DEF Distance, Slots
<1>5. slots[s] = fed - buffered + 1 + Distance(s)
      BY <1>1, <1>2, <1>4 DEF PInv, InOrder, Distance, Slots
<1> QED BY <1>2, <1>4, <1>5 DEF Distance, Slots
(* What PInv says, in the terms in which the steps below are computed. *)
LEMMA Facts ==
  ASSUME PInv
  PROVE  /\ NumChunks \in Nat /\ NumChunks > 1 /\ fed \in Nat
         /\ head \in 0..NumChunks - 1 /\ tail \in 0..NumChunks - 1
         /\ voice \in 0..NumChunks - 1 /\ buffered \in 0..NumChunks
         /\ slots \in [0..NumChunks - 1 -> Nat]
         /\ Slots = 0..NumChunks - 1
         /\ buffered > 0 => slots[head] = fed - buffered + 1
<1>1. /\ NumChunks \in Nat /\ NumChunks > 1 /\ fed \in Nat
      /\ head \in 0..NumChunks - 1 /\ tail \in 0..NumChunks - 1
      /\ voice \in 0..NumChunks - 1 /\ buffered \in 0..NumChunks
      /\ slots \in [0..NumChunks - 1 -> Nat]
      /\ Slots = 0..NumChunks - 1
      BY RingAssumption
      DEF RingAssumption, PInv, IInv, TypeOK, RingTypes, SPUTypes, Slots
<1>2. Distance(head) = 0 BY <1>1 DEF Distance
<1>3. buffered > 0 => slots[head] = fed - buffered + 1
      BY <1>1, <1>2 DEF PInv, InOrder
<1> QED BY <1>1, <1>3

(* A chunk that is fed is the last one behind the head, and the slot it is  *)
(* written to is not the one being played.                                  *)
LEMMA FeedKeepsOrder ==
  ASSUME PInv, FeedChunk
  PROVE  /\ InOrder' /\ buffered' = buffered + 1
         /\ voiceOn => tail # voice /\ slots'[voice] = slots[voice]
<1>0. /\ left > 0 /\ pc = "feeding" /\ left \in Nat
      /\ left + buffered + PlayingChunk <= NumChunks /\ PlayingChunk \in 0..1
      BY RingAssumption DEF FeedChunk, PInv, IInv, Phases, TypeOK, RingTypes,
         PlayingChunk, RingAssumption
<1>1. /\ left > 0 /\ pc = "feeding" /\ buffered + PlayingChunk < NumChunks
      /\ buffered < NumChunks
      /\ slots' = [slots EXCEPT ![tail] = fed + 1] /\ fed' = fed + 1
      /\ head' = head
  <2>1. NumChunks \in Nat /\ buffered \in Nat BY Facts
  <2>2. buffered + PlayingChunk < NumChunks /\ buffered < NumChunks
        BY <1>0, <2>1
  <2> QED BY <1>0, <2>2 DEF FeedChunk
<1>2. buffered' = buffered + 1
  <2>1. buffered' = (buffered + 1) % CountModulus BY DEF FeedChunk
  <2>2. buffered \in 0..NumChunks BY Facts
  <2> QED BY Zenon, <1>1, <2>1, <2>2, CountExact
<1>3. /\ head + buffered < NumChunks => tail = head + buffered
      /\ NumChunks <= head + buffered => tail = (head + buffered) - NumChunks
      BY TailCases DEF PInv
<1>4. Distance(tail) = buffered
  <2>1. CASE head + buffered < NumChunks
        BY <1>1, <1>3, <2>1, Facts DEF Distance
  <2>2. CASE ~(head + buffered < NumChunks)
        BY <1>1, <1>3, <2>2, Facts DEF Distance
  <2> QED BY <2>1, <2>2
<1>5. fed' - buffered' + 1 + buffered = fed + 1
  <2>1. fed' = fed + 1 BY <1>1
  <2>2. fed \in Nat /\ buffered \in Nat BY Facts
  <2> QED BY <1>2, <2>1, <2>2
<1>6. InOrder'
  <2> SUFFICES ASSUME NEW s \in Slots, Distance(s)' < buffered'
               PROVE  slots'[s] = fed' - buffered' + 1 + Distance(s)'
      BY DEF InOrder
  <2>1. Distance(s)' = Distance(s) BY <1>1 DEF Distance
  <2>2. CASE s = tail
    <3>1. slots'[s] = fed + 1 BY <1>1, <2>2, Facts
    <3>2. Distance(s)' = buffered BY <1>4, <2>1, <2>2
    <3> QED BY Zenon, <1>5, <3>1, <3>2
  <2>3. CASE s # tail
    <3>1. slots'[s] = slots[s] BY <1>1, <2>3, Facts
    <3>2. Distance(s) # buffered
      <4>1. /\ NumChunks \in Nat /\ head \in 0..NumChunks - 1
            /\ buffered \in 0..NumChunks /\ s \in 0..NumChunks - 1
            BY Facts
      <4> QED BY <1>1, <1>3, <2>3, <4>1 DEF Distance
    <3>3. Distance(s) \in Int BY Facts DEF Distance
    <3>4. Distance(s) < buffered BY <1>2, <2>1, <3>2, <3>3, Facts
    <3>5. slots[s] = fed - buffered + 1 + Distance(s)
          BY <3>4 DEF PInv, InOrder
    <3> QED BY <1>1, <1>2, <2>1, <3>1, <3>3, <3>5, Facts
  <2> QED BY <2>2, <2>3
<1>7. ASSUME voiceOn PROVE tail # voice
  <2>1. isPlaying /\ buffered + 1 < NumChunks
        BY <1>1, <1>7 DEF PInv, VoiceFollows, PlayingChunk
  <2>2. CASE BeforeHead
    <3>1. head = IF voice + 1 = NumChunks THEN 0 ELSE voice + 1
          BY <2>2, FollowCases, Facts DEF BeforeHead
    <3>2. CASE voice + 1 = NumChunks BY <1>3, <2>1, <3>1, <3>2, Facts
    <3>3. CASE voice + 1 # NumChunks BY <1>3, <2>1, <3>1, <3>3, Facts
    <3> QED BY <3>2, <3>3
  <2>3. CASE AtHead BY <1>1, <1>3, <2>1, <2>3, Facts DEF AtHead
  <2> QED BY <1>1, <2>1, <2>2, <2>3 DEF PInv, VoiceFollows
<1>8. tail # voice => slots'[voice] = slots[voice] BY <1>1, Facts
<1> QED BY <1>2, <1>6, <1>7, <1>8

(* What the abstract player is playing, or has played last. *)
Cur == IF voiceOn THEN slots[voice] ELSE fed - buffered

(* A step of the abstract player, or no step. *)
PlayerStep == Player!Next \/ UNCHANGED <<voiceOn, fed, Cur>>

(* One step keeps the order and the voice in it, and is the player's. *)
Implements == InOrder' /\ VoiceFollows' /\ PlayerStep

(* A step that leaves the ring and the channels alone. *)
LEMMA QuietStep ==
  ASSUME PInv, UNCHANGED <<ring, voiceOn, voice>>
  PROVE  InOrder' /\ PlayerStep
<1>1. \A s : Distance(s)' = Distance(s) BY DEF ring, Distance
<1>2. InOrder' BY <1>1 DEF ring, PInv, InOrder
<1>3. UNCHANGED Cur BY DEF ring, Cur
<1> QED BY <1>2, <1>3 DEF ring, PlayerStep

(* The calls that do not move a chunk. *)
LEMMA QuietCalls ==
  ASSUME PInv, ~UploadAnyTime,
         \/ StopIRQ \/ UploadBegin \/ UploadEnd
         \/ \E n \in 0..MaxFeed : FeedBegin(n)
  PROVE  Implements
<1>1. UNCHANGED <<ring, hw>>
      BY DEF StopIRQ, UploadBegin, UploadEnd, FeedBegin
<1>2. UNCHANGED Follow(voice) BY <1>1 DEF hw, Follow
<1>3. UNCHANGED slots[voice] BY <1>1 DEF ring, hw
<1> USE DEF PInv, IInv, Phases, VoiceFollows, BeforeHead, AtHead, MainRuns,
      ring, hw
<1>4. CASE StopIRQ
  <2>1. VoiceFollows' BY <1>1, <1>2, <1>3, <1>4 DEF StopIRQ
  <2> QED BY <1>1, <2>1, QuietStep DEF Implements
<1>5. CASE UploadBegin
  <2>1. VoiceFollows' BY <1>1, <1>5 DEF UploadBegin, spu
  <2> QED BY <1>1, <2>1, QuietStep DEF Implements
<1>6. CASE UploadEnd
  <2>1. VoiceFollows' BY <1>1, <1>6 DEF UploadEnd
  <2> QED BY <1>1, <2>1, QuietStep DEF Implements
<1>7. CASE \E n \in 0..MaxFeed : FeedBegin(n)
  <2>1. VoiceFollows' BY <1>1, <1>2, <1>3, <1>7 DEF FeedBegin, spu
  <2> QED BY <1>1, <2>1, QuietStep DEF Implements
<1> QED BY <1>4, <1>5, <1>6, <1>7

(* The end of a feed arms the interrupt on the head after an underrun. *)
LEMMA FeedEndFollows == ASSUME PInv, FeedEnd PROVE Implements
<1>1. UNCHANGED <<ring, hw>> /\ pc = "feeding" /\ pc' = "idle" BY DEF FeedEnd
<1>2. UNCHANGED Follow(voice) /\ UNCHANGED slots[voice]
      BY <1>1 DEF ring, hw, Follow
<1>3. buffered \in Nat BY Facts
<1>4. CASE ~isPlaying
      BY <1>1, <1>4, QuietStep
      DEF FeedEnd, RearmAfterFeed, NoRearm, ring, hw, spu, Implements, PInv,
          IInv, Phases, VoiceFollows
<1>5. CASE isPlaying
  <2>1. ConfigureIRQ(head, buffered, irqEnable)
        BY <1>5 DEF FeedEnd, RearmAfterFeed
  <2>2. irqEnable' => irqAddr' = loopAddr'
        BY <2>1 DEF ConfigureIRQ, PInv, VoiceFollows
  <2>3. CASE BeforeHead
    <3>1. Follow(voice)' = head' /\ slots'[voice'] = fed' - buffered'
          /\ ~pending'
          BY <1>1, <1>2, <2>3 DEF BeforeHead, ring, hw
    <3>2. ASSUME buffered = 0 \/ irqEnable PROVE BeforeHead'
      <4>1. UNCHANGED <<irqAddr, loopAddr>> /\ (irqEnable' <=> buffered # 0)
            BY <2>1, <3>2 DEF ConfigureIRQ
      <4> QED BY <1>1, <1>3, <2>3, <3>1, <3>2, <4>1 DEF BeforeHead, ring, hw
    <3>3. ASSUME ~(buffered = 0 \/ irqEnable) PROVE BeforeHead'
      <4>1. loopAddr' = head /\ irqEnable'
            BY <2>1, <3>3 DEF ConfigureIRQ
      <4> QED BY <1>1, <1>3, <3>1, <3>3, <4>1 DEF BeforeHead, ring
    <3>4. BeforeHead' BY <3>2, <3>3
    <3> QED BY <1>1, <2>2, <3>4, QuietStep
            DEF Implements, PInv, VoiceFollows, ring, hw
  <2>4. CASE AtHead
    <3>1. AtHead' BY <1>1, <2>1, <2>4 DEF AtHead, ConfigureIRQ, ring, hw
    <3> QED BY <1>1, <2>2, <3>1, QuietStep
            DEF Implements, PInv, VoiceFollows, ring, hw
  <2> QED BY <1>1, <1>5, <2>3, <2>4 DEF PInv, VoiceFollows
<1> QED BY <1>4, <1>5

(* A new song empties the player. *)
LEMMA LoadResets == ASSUME PInv, Load PROVE Implements
<1>1. ~voiceOn /\ ~isPlaying /\ ~irqEnable
      BY DEF Load, PInv, IInv, Phases, VoiceFollows
<1>2. InOrder'
  <2>1. ASSUME NEW s \in Slots PROVE ~(Distance(s)' < buffered')
        BY Facts DEF Load, Distance
  <2> QED BY <2>1 DEF InOrder
<1>3. VoiceFollows' BY <1>1 DEF Load, VoiceFollows, spu, hw
<1>4. Player!Reset BY <1>1 DEF Load, hw, Player!Reset
<1> QED BY <1>2, <1>3, <1>4 DEF Implements, PlayerStep, Player!Next

(* The key on plays the chunk at the head, the one after the last heard. *)
LEMMA StartPlays == ASSUME PInv, Start PROVE Implements
<1>1. ~voiceOn /\ ~isPlaying /\ ~irqEnable
      BY DEF Start, PInv, IInv, Phases, VoiceFollows
<1>2. InOrder'
  <2>1. \A s : Distance(s)' = Distance(s) BY DEF Start, Distance
  <2> QED BY <2>1 DEF Start, PInv, InOrder
<1>3. VoiceFollows' BY <1>1 DEF Start, VoiceFollows
<1>4. buffered > 0 /\ slots[head] = (fed - buffered) + 1 BY Facts DEF Start
<1>5. Player!Start
  <2>1. fed - buffered < fed BY <1>4, Facts
  <2> QED BY <1>1, <1>4, <2>1 DEF Start, Player!Start
<1> QED BY <1>2, <1>3, <1>5 DEF Implements, PlayerStep, Player!Next

(* Taking the chunk that is being played leaves the voice before the head. *)
LEMMA TakeFollows ==
  ASSUME PInv, TakeChunk, buffered > 0, voice = head, loopAddr = head,
         ~pending', UNCHANGED <<tail, slots, fed, voice, voiceOn, isPlaying>>,
         isPlaying, pc' = "idle"
  PROVE  Implements
<1>1. /\ buffered' = buffered - 1 /\ (irqEnable' <=> buffered' # 0)
      /\ head' = Follow(head)
      BY TakesOne DEF PInv, TakeChunk
<1>2. slots[voice] = fed - buffered' BY <1>1, Facts
<1>3. Follow(voice)' = head' BY <1>1 DEF Follow
<1>4. buffered' \in Nat BY <1>1, Facts
<1>5. BeforeHead' /\ (irqEnable' => irqAddr' = loopAddr')
  <2>1. CASE buffered' = 0
    <3>1. loopAddr' = voice' /\ ~irqEnable'
          BY <1>1, <2>1 DEF TakeChunk, ConfigureIRQ
    <3> QED BY <1>2, <1>3, <3>1 DEF BeforeHead
  <2>2. CASE buffered' # 0
    <3>1. loopAddr' = head' /\ irqAddr' = head' /\ irqEnable'
          BY <1>1, <2>2 DEF TakeChunk, ConfigureIRQ
    <3> QED BY <1>2, <1>3, <1>4, <2>2, <3>1 DEF BeforeHead
  <2> QED BY <2>1, <2>2
<1>6. VoiceFollows' BY <1>5 DEF VoiceFollows, PInv
<1>7. UNCHANGED Cur BY DEF Cur, PInv, VoiceFollows
<1> QED BY <1>6, <1>7, TakeKeepsOrder DEF Implements, PlayerStep

(* Playback that has started, and the interrupt at the start of a chunk. *)
LEMMA HandlerFollows ==
  ASSUME PInv, Started \/ HandleIRQ PROVE Implements
<1>1. CASE Started
      BY <1>1, TakeFollows DEF Started, hw, PInv, IInv, Phases, VoiceFollows
<1>2. CASE HandleIRQ /\ isPlaying
  <2>1. pending /\ pc = "idle" /\ buffered > 0 /\ pc' = "idle" /\ ~pending'
        BY <1>2 DEF HandleIRQ, PInv, IInv, Phases, TypeOK, RingTypes
  <2>2. AtHead BY <1>2, <2>1 DEF PInv, VoiceFollows, BeforeHead
  <2> QED BY <1>2, <2>1, <2>2, TakeFollows DEF HandleIRQ, AtHead
<1>3. CASE HandleIRQ /\ ~isPlaying
      BY <1>3, QuietStep
      DEF HandleIRQ, Implements, ring, spu, PInv, IInv, Phases, VoiceFollows
<1> QED BY <1>1, <1>2, <1>3

(* The key off leaves the last chunk heard, or the one before it. *)
LEMMA StopFollows == ASSUME PInv, StopVoices PROVE Implements
<1>1. pc = "stopping" /\ ~voiceOn' /\ ~isPlaying' /\ UNCHANGED <<fed, buffered>>
      BY DEF StopVoices
<1>2. InOrder'
  <2>1. \A s : Distance(s)' = Distance(s) BY DEF StopVoices, Distance
  <2> QED BY <2>1 DEF StopVoices, PInv, InOrder
<1>3. VoiceFollows' BY <1>1 DEF StopVoices, PInv, VoiceFollows, spu
<1>4. CASE ~voiceOn
  <2>1. UNCHANGED Cur BY <1>1, <1>4 DEF Cur
  <2>2. ~voiceOn' /\ voiceOn' = voiceOn BY Zenon, <1>4 DEF StopVoices, PInv, IInv, TypeOK, BooleanTypes
  <2> QED BY <1>1, <1>2, <1>3, <2>1, <2>2 DEF Implements, PlayerStep
<1>5. CASE voiceOn
  <2>1. BeforeHead \/ AtHead BY <1>1, <1>5 DEF PInv, VoiceFollows
  <2>2. slots[voice] \in {fed - buffered, (fed - buffered) + 1}
        BY <2>1, Facts DEF BeforeHead, AtHead
  <2>3. fed - buffered \in {slots[voice], slots[voice] - 1}
        BY <2>2, Facts
  <2>4. Player!Stop BY <1>1, <1>5, <2>3 DEF StopVoices, Player!Stop
  <2> QED BY <1>2, <1>3, <2>4 DEF Implements, PlayerStep, Player!Next
<1> QED BY <1>4, <1>5

(* A chunk is fed only if the player has room for it. *)
LEMMA FeedFollows == ASSUME PInv, FeedChunk PROVE Implements
<1>1. /\ InOrder' /\ buffered' = buffered + 1 /\ fed' = fed + 1
      /\ voiceOn => tail # voice /\ slots'[voice] = slots[voice]
      BY FeedKeepsOrder DEF FeedChunk
<1>2. UNCHANGED <<pc, isPlaying, head, spu, voiceOn, voice, pending>>
      BY DEF FeedChunk, hw
<1>3. fed' - buffered' = fed - buffered /\ buffered' > 0
  <2>1. fed \in Nat /\ buffered \in Nat BY Facts
  <2> QED BY <1>1, <2>1
<1>4. UNCHANGED Follow(voice) BY <1>2 DEF Follow
<1>5. VoiceFollows'
  <2>1. BeforeHead /\ voiceOn => BeforeHead'
        BY <1>1, <1>2, <1>3, <1>4, Facts DEF BeforeHead, spu
  <2>2. AtHead => AtHead' BY <1>2, <1>3 DEF AtHead, spu
  <2> QED BY <1>2, <2>1, <2>2 DEF PInv, VoiceFollows, spu
<1>6. Cur' = Cur BY <1>1, <1>2, <1>3 DEF Cur
<1>7. Player!Held < NumChunks
  <2>1. buffered + PlayingChunk < NumChunks /\ pc = "feeding"
    <3>1. /\ left > 0 /\ left \in Nat /\ pc = "feeding"
          /\ left + buffered + PlayingChunk <= NumChunks
          /\ PlayingChunk \in 0..1
          BY RingAssumption DEF FeedChunk, PInv, IInv, Phases, TypeOK,
             RingTypes, PlayingChunk, RingAssumption
    <3> QED BY <3>1, Facts
  <2>2. CASE ~voiceOn
    <3>1. PlayingChunk = 0 BY <2>2 DEF PlayingChunk, PInv, VoiceFollows
    <3>2. Player!Held = fed - (fed - buffered) + 0 BY <2>2 DEF Player!Held
    <3> QED BY <2>1, <3>1, <3>2, Facts
  <2>3. CASE voiceOn
    <3>1. PlayingChunk = 1 BY <2>3 DEF PlayingChunk, PInv, VoiceFollows
    <3>2. Player!Held = fed - slots[voice] + 1 BY <2>3 DEF Player!Held
    <3>3. BeforeHead \/ AtHead BY <2>1, <2>3 DEF PInv, VoiceFollows
    <3>4. slots[voice] >= fed - buffered
          BY <3>3, Facts DEF BeforeHead, AtHead
    <3>5. slots[voice] \in Nat BY Facts
    <3> QED BY <2>1, <3>1, <3>2, <3>4, <3>5, Facts
  <2> QED BY <2>2, <2>3
<1>8. Player!Feed BY <1>1, <1>2, <1>6, <1>7 DEF Player!Feed, Cur
<1> QED BY <1>1, <1>5, <1>8 DEF Implements, PlayerStep, Player!Next

(* At the end of a chunk the voice advances if the loop address is the      *)
(* head, and repeats its chunk if it is not.                                *)
LEMMA EndFollows == ASSUME PInv, EndOfChunk PROVE Implements
<1>1. /\ UNCHANGED <<pc, ring, spu, voiceOn>> /\ voiceOn /\ isPlaying
      /\ voice' = loopAddr
      /\ pending' <=> pending \/ (irqEnable /\ loopAddr = irqAddr)
      BY DEF EndOfChunk, PInv, VoiceFollows
<1>2. InOrder'
  <2>1. \A s : Distance(s)' = Distance(s) BY <1>1 DEF ring, Distance
  <2> QED BY <1>1, <2>1 DEF ring, PInv, InOrder
<1>3. irqEnable => irqAddr = loopAddr BY DEF PInv, VoiceFollows
<1>4. ASSUME UNCHANGED voice, VoiceFollows' PROVE Implements
      BY <1>1, <1>2, <1>4 DEF Implements, PlayerStep, Cur, ring
<1>5. CASE pc = "started"
  <2>1. voice' = voice /\ voice = head /\ loopAddr = head
        BY <1>1, <1>5 DEF PInv, VoiceFollows
  <2>2. VoiceFollows' BY <1>1, <1>3, <1>5, <2>1 DEF VoiceFollows, PInv, ring, spu
  <2> QED BY <1>4, <2>1, <2>2
<1>6. CASE pc # "started" /\ AtHead
  <2>1. voice' = voice BY <1>1, <1>6 DEF AtHead
  <2>2. AtHead' BY <1>1, <1>6, <2>1 DEF AtHead, ring, spu
  <2>3. VoiceFollows' BY <1>1, <1>3, <1>6, <2>2 DEF VoiceFollows, PInv, ring, spu
  <2> QED BY <1>4, <2>1, <2>3
<1>7. CASE pc # "started" /\ BeforeHead /\ loopAddr = voice /\ ~irqEnable
  <2>1. voice' = voice /\ ~pending' BY <1>1, <1>7 DEF BeforeHead
  <2>2. BeforeHead' BY <1>1, <1>7, <2>1 DEF BeforeHead, Follow, ring, spu
  <2>3. VoiceFollows' BY <1>1, <1>3, <1>7, <2>2 DEF VoiceFollows, PInv, ring, spu
  <2> QED BY <1>4, <2>1, <2>3
<1>8. CASE /\ pc # "started" /\ BeforeHead /\ loopAddr = head /\ buffered > 0
           /\ irqEnable \/ pc = "stopping"
  <2>1. AtHead' BY <1>1, <1>3, <1>8 DEF AtHead, ring, spu
  <2>2. VoiceFollows' BY <1>1, <1>3, <1>8, <2>1 DEF VoiceFollows, PInv, ring, spu
  <2>3. slots[voice] = fed - buffered BY <1>8 DEF BeforeHead
  <2>4. slots[voice'] = slots[voice] + 1 BY <1>1, <1>8, <2>3, Facts
  <2>5. slots[voice] < fed BY <1>8, <2>3, Facts
  <2>6. Player!Advance BY <1>1, <2>4, <2>5 DEF Player!Advance, ring
  <2> QED BY <1>2, <2>2, <2>6 DEF Implements, PlayerStep, Player!Next
<1> QED BY <1>1, <1>5, <1>6, <1>7, <1>8 DEF PInv, VoiceFollows, BeforeHead

(* Every step of the ring is a step of the player or none of its. *)
LEMMA NextPInv ==
  ASSUME ~UploadAnyTime, PInv, [Next]_vars PROVE PInv' /\ PlayerStep
<1>1. IInv' BY NextIInv DEF PInv
<1>2. CASE Next
  <2>1. Implements
        BY <1>2, QuietCalls, FeedEndFollows, LoadResets, StartPlays,
           HandlerFollows, StopFollows, FeedFollows, EndFollows
        DEF Next, MainStep, Client
  <2> QED BY <1>1, <2>1 DEF Implements, PInv
<1>3. CASE UNCHANGED vars
  <2>1. UNCHANGED Follow(voice) BY <1>3 DEF vars, hw, Follow
  <2>2. VoiceFollows'
        BY <1>3, <2>1 DEF vars, ring, spu, hw, PInv, VoiceFollows, BeforeHead,
           AtHead
  <2>3. UNCHANGED <<ring, voiceOn, voice>> BY <1>3 DEF vars, ring, hw
  <2> QED BY <1>1, <2>2, <2>3, QuietStep DEF PInv
<1> QED BY <1>2, <1>3

(* The initial state, where nothing has been fed. *)
LEMMA InitPInv == Init => PInv /\ Player!Init
<1> SUFFICES ASSUME Init PROVE PInv /\ Player!Init
    OBVIOUS
<1>1. IInv BY InitIInv
<1>2. InOrder
  <2>1. ASSUME NEW s \in Slots PROVE ~(Distance(s) < buffered)
        BY RingAssumption DEF RingAssumption, Init, Distance, Slots
  <2> QED BY <2>1 DEF InOrder
<1>3. VoiceFollows BY DEF Init, VoiceFollows
<1>4. Player!Init BY DEF Init, Player!Init
<1> QED BY <1>1, <1>2, <1>3, <1>4 DEF PInv

(* The ring implements the player: chunks are heard in the order in which   *)
(* they were fed, none skipped and none overwritten before it was heard,    *)
(* whatever the handler, the feed and the SPU do meanwhile                  *)
(* (stream.c:34-53, 156-198).                                               *)
THEOREM ChunksInOrder == ASSUME ~UploadAnyTime PROVE Spec => PlaysInOrder
<1>1. Init => PInv /\ Player!Init BY InitPInv
<1>2. PInv /\ [Next]_vars
        => PInv' /\ [Player!Next]_<<voiceOn, fed,
                                    IF voiceOn THEN slots[voice]
                                               ELSE fed - buffered>>
      BY ~UploadAnyTime, NextPInv DEF PlayerStep, Cur
<1> QED BY <1>1, <1>2, PTL DEF Spec, PlaysInOrder, Player!Spec
===============================================================================
