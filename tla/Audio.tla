---------------------------------- MODULE Audio ----------------------------------
(***************************************************************************)
(* Sounds and songs in SPU memory: src/psxproject/spu.c (upload, loading   *)
(* and playing sounds, channels) and the song player of stream.c           *)
(* (stream_loadSong, stream_update).  StreamRing models the ring buffer's  *)
(* interrupts in detail, CdromDriver the reads; here a chunk is played and *)
(* a read ends in one step.  SPU memory and songs are counted in blocks of *)
(* 16 bytes, which are also what a DMA slice moves; sounds in bytes.       *)
(***************************************************************************)
EXTENDS Integers, FiniteSets

CONSTANTS Sounds,         \* Sound structures
          Files, Songs,   \* files on the disc: [len, vag], [len, chunk]
          NumChannels,    \* 24
          SectorSize, HeaderSize,   \* 2048, 48
          BufferSectors,  \* sectors in streamBuffer: 16
          NumChunks, Threshold,     \* 32, 8
          LengthModulus,  \* Sound.length has 16 bits
          OffsetModulus,  \* streamOffset has 32, here in blocks
          RamBlocks,      \* blocks of SPU memory
          MaxLoads, MaxTimeouts, MaxErrors, MaxData  \* bounds

ASSUME AudioAssumption ==
    /\ SectorSize \in Nat /\ HeaderSize \in Nat /\ HeaderSize < SectorSize
    /\ SectorSize % 16 = 0 /\ HeaderSize % 16 = 0
    /\ NumChannels \in Nat /\ NumChunks \in Nat /\ Threshold \in 1..NumChunks
    /\ LengthModulus \in Nat \ {0} /\ OffsetModulus \in Nat
    /\ BufferSectors \in Nat \ {0}
    /\ BufferSectors * (SectorSize \div 16) < OffsetModulus
    /\ RamBlocks \in Nat \ {0}
    /\ MaxLoads \in Nat /\ MaxTimeouts \in Nat /\ MaxErrors \in Nat
    /\ MaxData \in Nat
    /\ Files \subseteq [len : Nat, vag : BOOLEAN]
    \* a file without an interleave is not accepted as a song (spu.h:96)
    /\ Songs \subseteq [len : 0..OffsetModulus - 1, chunk : Nat]

VARIABLES
    alloc, ram, sounds,             \* spuAllocPtr; SPU memory; the structures
    pc, cur, rem, space, next, held,    \* sound_loadSound: sound, bytes left,
                                    \* bytes for now, data read next, in buffer
    voices,                         \* channels: what each plays
    song, offset, chunk, buffered, tail, mask,  \* the Stream structure
    found,                          \* songLba is the song's
    sm, streamOffset, feedLength, buf, ready, reading,  \* stream_update
    late, sure,                     \* interrupts still to come for a read that
                                    \* has returned: sectors, then the INT2 of
                                    \* its PAUSE; whether no reads overlapped
    loads, timeouts, errors, wild

spuVars  == <<alloc, ram, sounds>>
loadVars == <<pc, cur, rem, space, next, held>>
ringVars == <<song, offset, chunk, buffered, tail, mask>>
feedVars == <<found, sm, streamOffset, feedLength>>
readVars == <<buf, ready, reading, late, sure>>
songVars == <<ringVars, feedVars, readVars>>
faultVars == <<loads, timeouts, errors, wild>>
vars     == <<spuVars, loadVars, voices, songVars, faultVars>>

Ram == 0..RamBlocks - 1
Channels == 0..NumChannels - 1
SectorBlocks == SectorSize \div 16

\* What is not a sound: the dummy block at the beginning, a song, overruns.
NoFile == [len |-> 0, vag |-> FALSE]
SongData == [NoFile EXCEPT !.len = -1]
WildData == [NoFile EXCEPT !.len = -2]
NoSound == [offset |-> 0, length |-> 0, file |-> NoFile]
Silent == [NoSound EXCEPT !.offset = -1]
Stream == [Silent EXCEPT !.file = SongData]

\* initSPU; the allocation starts after the dummy block.  Its stopChannel call
\* shifts by ALL_CHANNELS, so it stops none; none plays yet.
Init ==
    /\ alloc = 1 /\ ram = [b \in Ram |-> <<NoFile, 0>>]
    /\ sounds = [s \in Sounds |-> NoSound]
    /\ pc = "idle" /\ cur = NoSound /\ rem = 0 /\ space = 0 /\ next = 0 /\ held = 0
    /\ voices = [ch \in Channels |-> Silent]
    /\ song = [len |-> 0, chunk |-> 0] /\ offset = 0 /\ chunk = 0
    /\ buffered = 0 /\ tail = 0 /\ mask = {}
    /\ found = FALSE /\ sm = "idle" /\ streamOffset = 0 /\ feedLength = 0
    /\ buf = [i \in 0..BufferSectors * SectorBlocks - 1 |-> -1]
    /\ ready = FALSE /\ reading = <<0, -1>> /\ late = 0 /\ sure = TRUE
    /\ loads = 0 /\ timeouts = 0 /\ errors = 0 /\ wild = FALSE

\* The program runs: it neither feeds for ever nor has a read gone over it.
Running == pc \notin {"feed", "lost"}

Lesser(a, b) == IF a < b THEN a ELSE b

\* A blocking read of a sector takes the drive from a read in the background;
\* once it has returned, the INT2 of its PAUSE is still to come, unless the
\* drive reported an error.
Overlaps == sm # "idle" \/ late > 1
ReadBlocks(failed) ==
    /\ IF failed THEN errors < MaxErrors /\ errors' = errors + 1
                 ELSE UNCHANGED errors
    /\ ready' = FALSE /\ reading' = <<0, -1>> /\ sure' = (sure /\ ~Overlaps)
    /\ late' = IF failed THEN 0 ELSE 1

-------------------------------------------------------------------------------
(* Uploads and sounds. *)

\* Whole slices for a number of bytes.  (RoundsDown: a bug.)
RoundsDown(bytes) == bytes \div 16
Slices(bytes) == ((bytes \div 4) + 3) \div 4

\* upload returns the slices times their length.  For less than a word, and for
\* a length below zero, which is a huge one, the count of slices is 0 in the 16
\* bits of DMA_BCR, which the DMA takes for 2^16: they overrun the memory.
Overruns(bytes) == bytes < 4
Uploaded(bytes) == IF Overruns(bytes) THEN 0 ELSE Slices(bytes)

Overlay(to, n, file, from) ==
    [b \in Ram |-> IF b \in to..to + n - 1 THEN <<file, from + b - to>> ELSE ram[b]]

\* upload to the allocation pointer: nothing if the DMA channel stays busy.
UploadHere(n, bytes, file, from) ==
    /\ alloc' = alloc + n
    /\ \/ /\ n = Uploaded(bytes) /\ UNCHANGED timeouts
          /\ ram' = IF Overruns(bytes) THEN [b \in Ram |-> <<WildData, 0>>]
                                       ELSE Overlay(alloc, n, file, from)
          /\ wild' = (wild \/ Overruns(bytes))
       \/ /\ n = 0 /\ timeouts < MaxTimeouts /\ timeouts' = timeouts + 1
          /\ UNCHANGED <<ram, wild>>

\* sound_create, sound_initFromVAGHeader: the length is cut to 16 bits.
SoundOf(f) == IF f.vag THEN [offset |-> alloc, length |-> f.len % LengthModulus,
                             file |-> f]
                       ELSE NoSound

\* Nothing in the code keeps the allocation inside the memory: clients load
\* no more than fits.
Fits(blocks) == alloc + blocks <= RamBlocks /\ loads < MaxLoads

LoadSoundFromBinary(s, f) ==
    /\ pc = "idle" /\ Fits(f.len \div 16 + 1) /\ loads' = loads + 1
    /\ sounds' = [sounds EXCEPT ![s] = SoundOf(f)]
    /\ IF f.vag THEN LET bytes == sounds'[s].length
                     IN  \E n \in {0, Uploaded(bytes)} :
                             UploadHere(n, bytes, f, 0)
                ELSE UNCHANGED <<alloc, ram, timeouts, wild>>
    /\ UNCHANGED <<loadVars, voices, songVars, errors>>

\* sound_loadSound: the first sector, in which the data follows the header.
\* A read that fails leaves some other sector in the buffer, whose header is
\* taken for the file's if it is one.
BeginLoad(s, f) ==
    /\ pc = "idle" /\ Fits(f.len \div 16 + 1) /\ loads' = loads + 1
    /\ \E h \in Files :
        /\ ReadBlocks(h # f)
        /\ Fits(h.len \div 16 + 1)
        /\ sounds' = [sounds EXCEPT ![s] = SoundOf(h)]
        /\ cur' = sounds'[s] /\ rem' = sounds'[s].length
        /\ IF h.vag THEN /\ pc' = "upload" /\ space' = SectorSize - HeaderSize
                         /\ next' = space' \div 16
                    ELSE UNCHANGED <<pc, space, next>>
    /\ UNCHANGED <<held, alloc, ram, voices, ringVars, feedVars, buf, timeouts,
                   wild>>

\* (OneMore: a bug that goes on with nothing left.)
OneMore(left) == left >= 0
MoreToLoad(left) == left # 0

UploadSector ==
    /\ pc = "upload"
    /\ \E n \in {0, Uploaded(Lesser(rem, space))} :
        /\ UploadHere(n, Lesser(rem, space), cur.file, held)
        /\ rem' = rem - 16 * n
    /\ IF MoreToLoad(rem')
       THEN pc' = "read" /\ UNCHANGED <<cur, space, next, held>>
       ELSE pc' = "idle" /\ cur' = NoSound /\ space' = 0 /\ next' = 0 /\ held' = 0
    /\ UNCHANGED <<sounds, voices, songVars, loads, errors>>

ReadSector ==
    /\ pc = "read" /\ pc' = "upload" /\ space' = SectorSize
    /\ next' = Lesser(next + SectorBlocks, MaxData)
    /\ \/ held' = next /\ ReadBlocks(FALSE)
       \/ UNCHANGED held /\ ReadBlocks(TRUE)
    /\ UNCHANGED <<spuVars, cur, rem, voices, ringVars, feedVars, buf, loads,
                   timeouts, wild>>

LoadStep == UploadSector \/ ReadSector

-------------------------------------------------------------------------------
(* Channels. *)

\* getFreeChannels: a channel is free when its envelope is at zero.
Free == {ch \in Channels : voices[ch] = Silent}

\* sound_playOnChannel: on any channel, busy or not; -2 for a sound that is not
\* loaded.  (sound_play takes a free one.)
Loaded(s) == sounds[s].offset # 0
Play(s, ch) ==
    /\ pc = "idle" /\ Loaded(s) /\ voices' = [voices EXCEPT ![ch] = sounds[s]]
    /\ UNCHANGED <<spuVars, loadVars, songVars, faultVars>>

\* stopChannels: the voices are released, and not keyed on again since the mask
\* has been shifted out by then.
Stopped(chs) == [ch \in Channels |-> IF ch \in chs THEN Silent ELSE voices[ch]]

\* A sound ends (external).
VoiceEnds(ch) ==
    /\ Running /\ voices[ch] \notin {Silent, Stream} /\ voices' = Stopped({ch})
    /\ UNCHANGED <<spuVars, loadVars, songVars, faultVars>>

-------------------------------------------------------------------------------
(* Songs.  A block of a song is known by its number. *)

playing == mask # {}
FreeChunks == NumChunks - (buffered + (IF playing THEN 1 ELSE 0))

\* (PastTheEnd: a bug that does not wrap the tail.)
PastTheEnd(slot) == slot
InRing(slot) == slot % NumChunks

\* stream_feed into a ring: whole chunks of at most so many blocks, none for a
\* length below zero.
Feed(blocks, at, c, t, b, free) ==
    LET n == IF blocks < 0 THEN 0 ELSE Lesser(blocks, free * c) \div c
        Slot(k) == at + c * InRing(t + (k \div c)) + (k % c)
        slots == {Slot(k) : k \in 0..n * c - 1}
    IN  /\ ram' = [x \in Ram |-> IF x \in slots THEN <<SongData, 0>> ELSE ram[x]]
        /\ tail' = InRing(t + n) /\ buffered' = b + n

\* What streamBuffer holds once some sectors of a read have arrived.
Sectors(from, n, old) ==
    [i \in DOMAIN old |-> IF i < n * SectorBlocks THEN from * SectorBlocks + i
                                                  ELSE old[i]]

\* stream_loadSong of a name that is not found, or not because of an error.
SongMissing ==
    /\ pc = "idle" /\ loads < MaxLoads /\ loads' = loads + 1 /\ found' = FALSE
    /\ \E failed \in BOOLEAN : ReadBlocks(failed)
    /\ UNCHANGED <<spuVars, loadVars, voices, ringVars, sm, streamOffset,
                   feedLength, buf, timeouts, wild>>

\* stream_initFromVAGHeader; stream_loadSong does not look at its result.
Accepted(h) == ~playing /\ h.chunk # 0
InitStream(h) ==
    /\ offset' = IF Accepted(h) THEN alloc ELSE offset
    /\ chunk'  = IF Accepted(h) THEN h.chunk ELSE chunk
    /\ alloc'  = alloc + NumChunks * chunk'

\* The first feed.  Without any stream yet, stream_feed uploads chunks of no
\* length for ever, with the interrupts disabled.
FeedFirst(h) ==
    LET whole == BufferSectors * SectorBlocks
        free == IF Accepted(h) THEN NumChunks ELSE FreeChunks
    IN  IF chunk' = 0
        THEN /\ pc' = "feed" /\ wild' = TRUE /\ streamOffset' = 0
             /\ ram' = [b \in Ram |-> <<WildData, 0>>]
             /\ UNCHANGED <<tail, buffered>>
        ELSE /\ Feed(whole, offset', chunk', IF Accepted(h) THEN 0 ELSE tail,
                     IF Accepted(h) THEN 0 ELSE buffered, free)
             /\ streamOffset' = Lesser(whole, free * chunk')
             /\ UNCHANGED <<pc, wild>>

\* stream_loadSong: the header, which is another's after an error; then a read
\* of a whole buffer that returns after the first sector, or with none after an
\* error.  A song that plays keeps its ring, and the memory for another is lost;
\* its length and offset are replaced all the same.
LoadSong(g) ==
    /\ pc = "idle" /\ loads' = loads + 1 /\ found' = TRUE
    /\ \E h \in Songs, n \in 0..BufferSectors :
        /\ errors' = (errors + (IF h = g THEN 0 ELSE 1)) + (IF n = 0 THEN 1 ELSE 0)
        /\ errors' = errors \/ errors' <= MaxErrors
        /\ Fits(NumChunks * (IF Accepted(h) THEN h.chunk ELSE chunk))
        /\ song' = h /\ InitStream(h) /\ FeedFirst(h)
        /\ buf' = Sectors(0, n, [i \in DOMAIN buf |-> -1])
        /\ late' = IF n = 0 THEN 0 ELSE (BufferSectors + 1) - n
    /\ ready' = FALSE /\ reading' = <<0, -1>> /\ sure' = (sure /\ ~Overlaps)
    /\ UNCHANGED <<sounds, cur, rem, space, next, held, voices, mask, sm,
                   feedLength, timeouts>>

\* The rest of a read that has returned goes on arriving, with the handler, or
\* fails.
LateSector ==
    /\ Running /\ late > 1 /\ late' = late - 1
    /\ buf' = Sectors(0, (BufferSectors + 1) - late', buf)
    /\ UNCHANGED <<spuVars, loadVars, voices, ringVars, feedVars, ready, reading,
                   sure, faultVars>>
\* cdromINT2 raises cdromDataReady for every read.  (OwnReadsOnly: a bug that
\* leaves it to the player's reads.)
OwnReadsOnly == ready
Raised == TRUE
LateINT2 ==
    /\ Running /\ late = 1 /\ late' = 0 /\ ready' = Raised
    /\ UNCHANGED <<spuVars, loadVars, voices, ringVars, feedVars, buf, reading,
                   sure, faultVars>>
LateError ==
    /\ Running /\ late > 1 /\ late' = 0
    /\ errors < MaxErrors /\ errors' = errors + 1
    /\ UNCHANGED <<spuVars, loadVars, voices, ringVars, feedVars, buf, ready,
                   reading, sure, loads, timeouts, wild>>
Late == LateSector \/ LateINT2 \/ LateError

\* stream_update, idle.  min is of signed numbers: for a song that is shorter than
\* what has been fed the length is below zero.
Signed(n) == LET w == n % OffsetModulus
             IN  IF 2 * w < OffsetModulus THEN w ELSE w - OffsetModulus
ToFeed == Lesser(Signed(song.len - streamOffset),
                 Lesser(FreeChunks * chunk, BufferSectors * SectorBlocks))

\* (FromStart: a bug that reads the same sectors again.)
FromStart == 0
FromSector == streamOffset \div SectorBlocks

\* The sectors to read: for less than a sector none, and for a length below zero
\* none or nearly 2^32.  0 stands for all of these: the count of startCDROMRead
\* does not come down to zero.
WholeSectors(blocks) == IF blocks < SectorBlocks THEN 0 ELSE blocks \div SectorBlocks

UpdateIdle ==
    /\ pc = "idle" /\ sm = "idle" /\ chunk # 0 /\ FreeChunks >= Threshold
    /\ sm' = "wait" /\ ready' = FALSE /\ feedLength' = ToFeed
    /\ reading' = <<FromSector, WholeSectors(feedLength')>>
    /\ sure' = (sure /\ late = 0) /\ late' = IF late > 1 THEN 0 ELSE late
    /\ UNCHANGED <<spuVars, loadVars, voices, ringVars, found, streamOffset, buf,
                   faultVars>>

\* The read in the background: after the last sector the handler pauses the
\* drive, whose INT2 raises cdromDataReady; an error ends it without INT2.
ReadDone ==
    /\ Running /\ sm = "wait" /\ ~ready /\ reading[2] >= 1
    /\ buf' = IF found THEN Sectors(reading[1], reading[2], buf)
                       ELSE [i \in DOMAIN buf |-> -1]
    /\ ready' = TRUE
    /\ UNCHANGED <<spuVars, loadVars, voices, ringVars, feedVars, reading, late,
                   sure, faultVars>>

ReadFails ==
    /\ Running /\ sm = "wait" /\ ~ready /\ reading[2] >= 0
    /\ errors < MaxErrors /\ errors' = errors + 1 /\ reading' = <<0, -1>>
    /\ UNCHANGED <<spuVars, loadVars, voices, ringVars, feedVars, buf, ready,
                   late, sure, loads, timeouts, wild>>

\* A read of no sectors is never paused: the handler's DMA fills streamBuffer and
\* goes on through memory.  What the program does then is not modelled.
Overrun ==
    /\ Running /\ reading[2] = 0 /\ pc' = "lost" /\ wild' = TRUE
    /\ UNCHANGED <<spuVars, cur, rem, space, next, held, voices, songVars, loads,
                   timeouts, errors>>

Looped(o) == IF o >= song.len THEN o - song.len ELSE o

UpdateReady ==
    /\ pc = "idle" /\ sm = "wait" /\ ready /\ sm' = "idle"
    /\ Feed(feedLength, offset, chunk, tail, buffered, FreeChunks)
    /\ streamOffset' = Looped((streamOffset + Lesser(feedLength, FreeChunks * chunk))
                              % OffsetModulus)
    /\ UNCHANGED <<alloc, sounds, loadVars, voices, song, offset, chunk, mask,
                   found, feedLength, readVars, faultVars>>

\* stream_start on every free channel; the chunk that is played counts no more.
StartSong ==
    /\ pc = "idle" /\ ~playing /\ buffered # 0 /\ Free # {}
    /\ mask' = Free /\ buffered' = buffered - 1
    /\ voices' = [ch \in Channels |-> IF ch \in Free THEN Stream ELSE voices[ch]]
    /\ UNCHANGED <<spuVars, loadVars, song, offset, chunk, tail, feedVars,
                   readVars, faultVars>>

\* Its channels stop, whatever they play meanwhile.
StopSong ==
    /\ pc = "idle" /\ playing /\ mask' = {} /\ voices' = Stopped(mask)
    /\ UNCHANGED <<spuVars, loadVars, song, offset, chunk, buffered, tail,
                   feedVars, readVars, faultVars>>

\* stream_handleInterrupt, seen from here.
ChunkPlayed ==
    /\ Running /\ playing /\ buffered # 0 /\ buffered' = buffered - 1
    /\ UNCHANGED <<spuVars, loadVars, voices, song, offset, chunk, tail, mask,
                   feedVars, readVars, faultVars>>

-------------------------------------------------------------------------------
Update == UpdateIdle \/ UpdateReady
Background == ReadDone \/ ReadFails \/ Overrun \/ Late
Client == \/ \E s \in Sounds : \/ \E ch \in Channels : Play(s, ch)
                               \/ \E f \in Files : \/ LoadSoundFromBinary(s, f)
                                                   \/ BeginLoad(s, f)
          \/ SongMissing \/ \E g \in Songs : LoadSong(g)
          \/ StartSong \/ StopSong
External == ChunkPlayed \/ \E ch \in Channels : VoiceEnds(ch)

Next == LoadStep \/ Update \/ Background \/ Client \/ External

Spec == Init /\ [][Next]_vars

\* A load runs on, the program calls stream_update, and reads end.
Fairness == WF_vars(LoadStep) /\ WF_vars(Update) /\ WF_vars(ReadDone) /\ WF_vars(Late)
FairSpec == Spec /\ Fairness
-------------------------------------------------------------------------------
(* Properties *)

\* Every variable keeps its type; in particular the ring's tail and count of
\* chunks, what is fed next never exceeds streamBuffer, and what is left of a
\* sound of whole blocks never goes below zero.
TypeOK ==
    /\ alloc \in 1..RamBlocks /\ pc \in {"idle", "upload", "read", "feed", "lost"}
    /\ rem \in Int /\ (rem < 0 => cur.length % 16 # 0)
    /\ tail \in 0..NumChunks - 1 /\ buffered \in 0..NumChunks
    /\ mask \subseteq Channels /\ sm \in {"idle", "wait"} /\ ready \in BOOLEAN
    /\ late \in 0..BufferSectors /\ streamOffset \in 0..OffsetModulus - 1
    /\ feedLength \in Int /\ feedLength <= BufferSectors * SectorBlocks

\* Unless a read or an upload failed, one read cut off another, or an upload
\* overran the memory (a sound that does not end with a block, or has no word),
\* SPU memory holds every loaded sound, all words of its 16-bit length, where its
\* structure says, whatever sounds and songs were loaded later, and every
\* voice plays a sound from its beginning (spu.c:248-372, stream.c:266-267).
SoundsIntact ==
    timeouts = 0 /\ errors = 0 /\ sure /\ ~wild =>
        /\ \A s \in Sounds : Loaded(s) /\ (pc = "idle" \/ sounds[s] # cur) =>
             \A k \in 0..(sounds[s].length + 12) \div 16 - 1 :
                 ram[sounds[s].offset + k] = <<sounds[s].file, k>>
        /\ \A ch \in Channels : voices[ch] \notin {Silent, Stream} =>
             voices[ch].offset # 0
             /\ ram[voices[ch].offset] = <<voices[ch].file, 0>>

\* Whenever the player feeds a song of whole-sector chunks that is longer than the
\* first feed, the song goes on exactly where it was, to at most a chunk before
\* its end and from its start again (stream.c:300-318), unless reads have
\* overlapped.  That it comes to feed is not claimed: it does not when less than
\* a sector of the song is left.
Steady == /\ sure /\ found /\ song.chunk = chunk /\ chunk # 0
          /\ chunk % SectorBlocks = 0 /\ song.len >= BufferSectors * SectorBlocks
          /\ 2 * song.len < OffsetModulus
Resumes ==
    LET n == chunk * (buffered' - buffered)
    IN  /\ \A k \in 0..n - 1 : buf[k] = streamOffset + k
        /\ \/ streamOffset' = streamOffset + n
           \/ streamOffset' = 0 /\ song.len - (streamOffset + n) \in 0..chunk - 1
SongInOrder == [][UpdateReady /\ Steady => Resumes]_vars

\* A sound of whole blocks is loaded in the end, even if uploads time out
\* (spu.c:320), whatever the song player reads meanwhile.
LoadEnds == pc \in {"upload", "read"} ~> pc = "idle" \/ cur.length % 16 # 0

\* stream_update gets what it waits for (stream.c:303) unless a read has failed,
\* the read was of less than a sector (stream.c:296), or a sound of broken blocks
\* holds the program.
WaitEnds == sm = "wait" ~> \/ sm = "idle" \/ errors > 0 \/ reading[2] = 0
                           \/ cur.length % 16 # 0

\* "If we reached the end of the stream, loop back to the start" (stream.c:315):
\* the read of a song's last blocks is followed by its start.
LoopsBack == sm = "wait" /\ streamOffset + feedLength = song.len ~> streamOffset = 0

\* stream_loadSong comes back with the "first buffer-worth of data" fed, "ready
\* for playback" (stream.c:275).
LoadSongReturns == pc # "feed"
===============================================================================
