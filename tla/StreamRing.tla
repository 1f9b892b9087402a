------------------------------- MODULE StreamRing ------------------------------
(***************************************************************************)
(* The ring buffer of audio chunks in SPU memory (src/psxproject/stream.c  *)
(* and stream.h): the main thread feeds it, starts and stops playback, and *)
(* uploads other sounds; the SPU interrupt moves it on; the SPU (external) *)
(* plays a chunk, jumps to the loop address and raises the interrupt.      *)
(***************************************************************************)
EXTENDS Integers

CONSTANTS NumChunks,     \* numChunks (32 in stream_loadSong)
          MaxFeed,       \* bound on the chunks one stream_feed call is given
          MaxFed,        \* bound on the chunks fed between two resets
          UploadAnyTime, \* TRUE: sounds are uploaded while the stream plays too
          CountModulus   \* _bufferedChunks wraps at this value (2^16)

ASSUME RingAssumption ==
    /\ NumChunks \in Nat /\ NumChunks > 1
    /\ MaxFeed \in Nat /\ MaxFed \in Nat /\ UploadAnyTime \in BOOLEAN
    /\ CountModulus \in Nat /\ CountModulus > NumChunks

VARIABLES
    pc, left, irqOff,                     \* main thread; interrupts disabled
    isPlaying, head, tail, buffered,      \* the Stream structure
    slots, fed,                           \* chunk number in each slot; last fed
    irqEnable, irqAddr, loopAddr, saved,  \* SPU_CTRL, SPU_IRQ_ADDR, LOOP_ADDR
    pending, voiceOn, voice               \* IRQ_STAT; the channels, their chunk

ring == <<isPlaying, head, tail, buffered, slots, fed>>
spu  == <<irqEnable, irqAddr, loopAddr>>
hw   == <<pending, voiceOn, voice>>
vars == <<pc, left, irqOff, saved, ring, spu, hw>>

Slots == 0..NumChunks - 1

Init == /\ pc = "idle" /\ left = 0 /\ irqOff = FALSE /\ saved = FALSE
        /\ isPlaying = FALSE /\ head = 0 /\ tail = 0 /\ buffered = 0
        /\ slots = [s \in Slots |-> 0] /\ fed = 0
        /\ irqEnable = FALSE /\ irqAddr = 0 /\ loopAddr = 0
        /\ pending = FALSE /\ voiceOn = FALSE /\ voice = 0

\* A bug: no wrap at the end of the ring.
PastTheEnd(s) == s + 1
Follow(s) == (s + 1) % NumChunks

\* Bugs: no underrun test; an armed interrupt that stays where it was.
ArmsAnyway(h, b, enabled) ==
    irqEnable' = TRUE /\ irqAddr' = h /\ loopAddr' = h
NeverRearmed(h, b, enabled) ==
    irqEnable' = (b # 0) /\ UNCHANGED <<irqAddr, loopAddr>>

\* stream_configureIRQ for a head, a count and SPU_CTRL's IRQ bit: off on an
\* underrun, left alone while armed, else armed on the chunk to play next.
ConfigureIRQ(h, b, enabled) ==
    /\ irqEnable' = (b # 0)
    /\ IF b = 0 \/ enabled THEN UNCHANGED <<irqAddr, loopAddr>>
                           ELSE irqAddr' = h /\ loopAddr' = h

CountDown(n) == (n - 1) % CountModulus

\* The body of stream_handleInterrupt for a stream that is playing.
TakeChunk ==
    /\ head' = Follow(head) /\ buffered' = CountDown(buffered)
    /\ ConfigureIRQ(head', buffered', FALSE)

-------------------------------------------------------------------------------
(* Main thread: a pending interrupt is taken before its next instruction    *)
(* unless stream_feed has disabled interrupts.                              *)

MainRuns == irqOff \/ ~pending

\* stream_initFromVAGHeader: a new song in an empty ring.
Load == /\ MainRuns /\ pc = "idle" /\ ~isPlaying
        /\ head' = 0 /\ tail' = 0 /\ buffered' = 0 /\ fed' = 0
        /\ UNCHANGED <<pc, left, irqOff, saved, isPlaying, slots, spu, hw>>

\* stream_startWithChannelMask up to the key on, with a non-empty mask; key on
\* makes the start address the loop address.
Start == /\ MainRuns /\ pc = "idle" /\ ~isPlaying /\ buffered # 0
         /\ isPlaying' = TRUE /\ voiceOn' = TRUE /\ voice' = head
         /\ loopAddr' = head /\ pc' = "started"
         /\ UNCHANGED <<left, irqOff, saved, head, tail, buffered, slots, fed,
                        irqEnable, irqAddr, pending>>

\* ... and its own call of stream_handleInterrupt.
Started == /\ MainRuns /\ pc = "started" /\ TakeChunk /\ pc' = "idle"
           /\ UNCHANGED <<left, irqOff, saved, isPlaying, tail, slots, fed, hw>>

StopIRQ == /\ MainRuns /\ pc = "idle" /\ isPlaying
           /\ irqEnable' = FALSE /\ pc' = "stopping"
           /\ UNCHANGED <<left, irqOff, saved, ring, irqAddr, loopAddr, hw>>

StopVoices == /\ MainRuns /\ pc = "stopping"
              /\ voiceOn' = FALSE /\ isPlaying' = FALSE /\ pc' = "idle"
              /\ UNCHANGED <<left, irqOff, saved, head, tail, buffered, slots,
                             fed, spu, pending, voice>>

\* A bug: the chunk being heard not counted.
NothingPlaying == 0
PlayingChunk == IF isPlaying THEN 1 ELSE 0

\* stream_getFreeChunkCount; stream_feed's min works on signed integers.
FreeChunks == NumChunks - (buffered + PlayingChunk)

AtMost(a, b) == IF a < b THEN a ELSE b

\* stream_feed disables interrupts and sizes the upload ...
FeedBegin(n) ==
    /\ MainRuns /\ pc = "idle" /\ fed + n <= MaxFed
    /\ left' = AtMost(n, FreeChunks) /\ irqOff' = TRUE /\ pc' = "feeding"
    /\ UNCHANGED <<saved, ring, spu, hw>>

\* ... uploads chunk by chunk, the SPU playing on meanwhile ...
FeedChunk ==
    /\ pc = "feeding" /\ left > 0 /\ left' = left - 1
    /\ slots' = [slots EXCEPT ![tail] = fed + 1] /\ fed' = fed + 1
    /\ tail' = Follow(tail) /\ buffered' = (buffered + 1) % CountModulus
    /\ UNCHANGED <<pc, irqOff, saved, isPlaying, head, spu, hw>>

\* Nothing armed: right while the stream is stopped, a bug while it plays.
NoRearm == UNCHANGED spu
RearmAfterFeed ==
    IF isPlaying THEN ConfigureIRQ(head, buffered, irqEnable) ELSE NoRearm

\* ... arms the interrupt again after an underrun, and enables interrupts.
FeedEnd ==
    /\ pc = "feeding" /\ left <= 0 /\ RearmAfterFeed
    /\ irqOff' = FALSE /\ pc' = "idle"
    /\ UNCHANGED <<left, saved, ring, hw>>

\* upload (spu.c) for another sound: SPU_CTRL is read ...
UploadBegin == /\ MainRuns /\ pc = "idle" /\ (isPlaying => UploadAnyTime)
               /\ saved' = irqEnable /\ pc' = "uploading"
               /\ UNCHANGED <<left, irqOff, ring, spu, hw>>

\* ... and written back.
UploadEnd == /\ MainRuns /\ pc = "uploading"
             /\ irqEnable' = saved /\ pc' = "idle"
             /\ UNCHANGED <<left, irqOff, saved, ring, irqAddr, loopAddr, hw>>

MainStep == \/ Started \/ StopVoices \/ FeedChunk \/ FeedEnd \/ UploadEnd

Client == \/ Load \/ Start \/ StopIRQ \/ UploadBegin
          \/ \E n \in 0..MaxFeed : FeedBegin(n)

-------------------------------------------------------------------------------
(* Interrupt handler: acknowledgeInterrupt(IRQ_SPU), stream_handleInterrupt. *)

HandleIRQ == /\ pending /\ ~irqOff /\ pending' = FALSE
             /\ IF isPlaying THEN TakeChunk
                             ELSE UNCHANGED <<head, buffered, spu>>
             /\ UNCHANGED <<pc, left, irqOff, saved, isPlaying, tail, slots,
                            fed, voiceOn, voice>>

-------------------------------------------------------------------------------
(* The SPU (external): at the end of a chunk the voices jump to the loop    *)
(* address; reading the IRQ address raises the interrupt when it is armed.  *)

EndOfChunk == /\ voiceOn /\ voice' = loopAddr
              /\ pending' = (pending \/ (irqEnable /\ loopAddr = irqAddr))
              /\ UNCHANGED <<pc, left, irqOff, saved, ring, spu, voiceOn>>

Next == MainStep \/ Client \/ HandleIRQ \/ EndOfChunk

Spec == Init /\ [][Next]_vars

\* The main thread finishes its call, the CPU takes interrupts, the SPU plays.
Fairness == WF_vars(MainStep) /\ WF_vars(HandleIRQ) /\ WF_vars(EndOfChunk)

FairSpec == Spec /\ Fairness

-------------------------------------------------------------------------------
(* Properties *)

BooleanTypes == /\ irqOff \in BOOLEAN /\ saved \in BOOLEAN
                /\ isPlaying \in BOOLEAN /\ irqEnable \in BOOLEAN
                /\ pending \in BOOLEAN /\ voiceOn \in BOOLEAN
RingTypes == /\ pc \in {"idle", "started", "stopping", "feeding", "uploading"}
             /\ head \in Slots /\ tail \in Slots /\ buffered \in 0..NumChunks
             /\ left \in 0..MaxFeed /\ fed \in Nat /\ slots \in [Slots -> Nat]
SPUTypes == irqAddr \in Slots /\ loopAddr \in Slots /\ voice \in Slots

\* Every variable keeps its type: head and tail are slots of the ring, and the
\* handler never takes the 16-bit count below zero (stream.c:163-164).
TypeOK == BooleanTypes /\ RingTypes /\ SPUTypes

\* The ring's own bookkeeping (stream.h:21-28): tail is buffered chunks after
\* head, and no buffered chunk shares the slot of the one being played.
RingConsistent ==
    /\ tail = (head + buffered) % NumChunks
    /\ isPlaying /\ pc # "started" => buffered < NumChunks

\* Chunks are heard in the order they were fed, each of them, whatever the
\* handler, the feed and the SPU do meanwhile (stream.c:156-198).
Player == INSTANCE ChunkPlayer WITH
            on  <- voiceOn,
            cur <- IF voiceOn THEN slots[voice] ELSE fed - buffered
PlaysInOrder == Player!Spec

\* After an underrun the interrupt stays off until more data is fed
\* (stream.c:38-43), so the handler never takes a chunk that is not there.
\* With UploadAnyTime it does not hold: upload writes back the bit that it read
\* before the handler cleared it (spu.c:163-172).
IRQOffOnUnderrun ==
    pc # "started" /\ isPlaying /\ buffered = 0 => ~irqEnable

\* A chunk that has been fed is heard, or the stream is stopped first.
FedIsHeard ==
    \A c \in 1..MaxFed :
        voiceOn /\ fed >= c ~> ~voiceOn \/ slots[voice] >= c
===============================================================================
