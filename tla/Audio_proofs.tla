------------------------------- MODULE Audio_proofs -------------------------------
(***************************************************************************)
(* For every set of files and songs and every size of the memory: the      *)
(* types of the song player and the sound loader; a sound that was loaded  *)
(* stays what it was; and what is fed of a song is what follows in it.     *)
(***************************************************************************)
EXTENDS Audio, TLAPS

FileRecords == [len : Int, vag : BOOLEAN]
Structures  == [offset : Int, length : Nat, file : FileRecords]
WholeBuffer == BufferSectors * SectorBlocks
Unloaded    == [len |-> 0, chunk |-> 0]

SoundTypes ==
    /\ alloc \in 1..RamBlocks
    /\ sounds \in [Sounds -> Structures] /\ voices \in [Channels -> Structures]
    /\ pc \in {"idle", "upload", "read", "feed", "lost"}
    /\ cur \in Structures /\ rem \in Int
    /\ space \in Nat /\ next \in Nat /\ held \in Nat
    /\ timeouts \in Nat /\ errors \in Nat
SongTypes ==
    /\ song \in Songs \cup {Unloaded} /\ offset \in Nat /\ chunk \in Nat
    /\ tail \in 0..NumChunks - 1 /\ buffered \in 0..NumChunks
    /\ sm \in {"idle", "wait"} /\ streamOffset \in 0..OffsetModulus - 1
    /\ feedLength \in Int /\ feedLength <= WholeBuffer
    /\ buf \in [0..WholeBuffer - 1 -> Int]
    /\ reading \in Int \X Int /\ late \in 0..BufferSectors
Booleans == mask \subseteq Channels /\ playing \in BOOLEAN /\ ready \in BOOLEAN

(* The chunk that is played takes a place in the ring, too; and there is no  *)
(* ring before a song is loaded.                                            *)
Ring == /\ buffered + (IF playing THEN 1 ELSE 0) <= NumChunks
        /\ chunk = 0 => sm = "idle" /\ buffered = 0 /\ ~playing

(* While a sound is loaded, there is memory for the rest of it; and of one   *)
(* of whole blocks, a whole number of blocks is left.                        *)
Room ==
    /\ space % 16 = 0
    /\ pc \in {"idle", "feed"} => rem = 0
    /\ rem >= 0 \/ cur.length % 16 # 0
    /\ pc \in {"upload", "read"} =>
          /\ rem >= 0 => alloc + (rem \div 16) + 1 <= RamBlocks
          /\ cur.length % 16 = 0 => rem >= 0 /\ rem % 16 = 0

IInv == SoundTypes /\ SongTypes /\ Booleans /\ Ring /\ Room

-------------------------------------------------------------------------------
(* What is in the memory.                                                   *)

Calm == timeouts = 0 /\ errors = 0 /\ ~wild

InSong(b) == b \in offset..offset + NumChunks * chunk - 1

(* The first n blocks of a sound are where its structure says. *)
Kept(r, n) ==
    \A k \in 0..n - 1 : /\ r.offset + k \in 1..alloc - 1
                        /\ ~InSong(r.offset + k)
                        /\ ram[r.offset + k] = <<r.file, k>>

Whole(r) == /\ r.offset # 0 /\ Slices(r.length) > 0
            /\ Kept(r, Slices(r.length))

(* Of the sound that is loaded, so many blocks are there already. *)
Arrived(done) ==
    /\ cur.offset # 0 /\ cur.length = rem + 16 * done
    /\ cur.length <= 16 * MaxData
    /\ alloc = cur.offset + done /\ Kept(cur, done)
    /\ pc = "upload" /\ rem > 3 => held = done
    /\ pc = "upload" /\ rem > space => next = done + space \div 16
    /\ pc = "read" /\ rem > 3 => next = done

Stored == {r \in Structures : Whole(r)}

Memory ==
    /\ offset + NumChunks * chunk <= alloc
    /\ pc = "idle" => held = 0
    /\ Calm =>
         /\ \A s \in Sounds : sounds[s].offset # 0 =>
               sounds[s] \in Stored \/ (pc # "idle" /\ sounds[s] = cur)
         /\ \A ch \in Channels : voices[ch] \in {Silent, Stream} \cup Stored
         /\ pc # "idle" => \E done \in Nat : Arrived(done)

-------------------------------------------------------------------------------
(* Where the song is.                                                       *)

Multiple(x) == \E q \in Nat : x = q * SectorBlocks

Player ==
    Steady =>
        /\ Multiple(streamOffset) /\ streamOffset <= song.len
        /\ sm = "wait" =>
             /\ late = 0 /\ feedLength \in Nat /\ feedLength <= FreeChunks * chunk
             /\ streamOffset + feedLength <= song.len
             /\ \/ feedLength = song.len - streamOffset
                \/ \E q \in Nat : feedLength = q * chunk
             /\ ~ready /\ reading[2] >= 1 =>
                   /\ reading[1] * SectorBlocks = streamOffset
                   /\ reading[2] = feedLength \div SectorBlocks
             /\ ready => \A k \in 0..(feedLength \div SectorBlocks) * SectorBlocks - 1 :
                            buf[k] = streamOffset + k

-------------------------------------------------------------------------------
(* Arithmetic. *)

LEMMA Constants ==
  /\ SectorSize \in Nat /\ SectorBlocks \in Nat \ {0}
  /\ SectorSize = 16 * SectorBlocks
  /\ BufferSectors \in Nat \ {0} /\ NumChunks \in Nat \ {0}
  /\ RamBlocks \in Nat \ {0} /\ OffsetModulus \in Nat /\ LengthModulus \in Nat \ {0}
  /\ WholeBuffer \in Nat \ {0} /\ WholeBuffer < OffsetModulus
<1>1. SectorSize \in Nat /\ SectorSize > 0 /\ SectorSize % 16 = 0 BY AudioAssumption
<1>2. SectorBlocks \in Nat \ {0} /\ SectorSize = 16 * SectorBlocks
      BY <1>1 DEF SectorBlocks
<1>3. BufferSectors \in Nat \ {0} BY AudioAssumption
<1>4. \A a, b \in Nat \ {0} : a * b \in Nat \ {0} OBVIOUS
<1>5. WholeBuffer \in Nat \ {0} BY <1>2, <1>3, <1>4 DEF WholeBuffer
<1>6. WholeBuffer < OffsetModulus BY AudioAssumption DEF WholeBuffer, SectorBlocks
<1> QED BY <1>1, <1>2, <1>3, <1>5, <1>6, AudioAssumption

(* upload moves as many blocks of 16 bytes as it takes for all words.        *)
LEMMA UploadedIs ==
  ASSUME NEW bytes \in Int
  PROVE  /\ Uploaded(bytes) \in Nat
         /\ bytes < 4 => Uploaded(bytes) = 0
         /\ bytes >= 0 => /\ 16 * Uploaded(bytes) <= bytes + 12
                          /\ Uploaded(bytes) <= (bytes \div 16) + 1
                          /\ bytes % 16 = 0 => 16 * Uploaded(bytes) = bytes
         /\ bytes >= 4 => /\ Uploaded(bytes) = Slices(bytes)
                          /\ Uploaded(bytes) > 0
                          /\ Uploaded(bytes) = (bytes + 12) \div 16
BY DEF Uploaded, Overruns, Slices

LEMMA LesserIs ==
  ASSUME NEW a \in Int, NEW b \in Int
  PROVE  /\ Lesser(a, b) \in Int /\ Lesser(a, b) <= a /\ Lesser(a, b) <= b
         /\ Lesser(a, b) = a \/ Lesser(a, b) = b
         /\ a < b => Lesser(a, b) = a
         /\ b <= a => Lesser(a, b) = b
BY DEF Lesser

LEMMA Times == \A a, b \in Nat : a * b \in Nat
OBVIOUS

LEMMA SongRecords ==
  ASSUME NEW g \in Songs \cup {Unloaded}
  PROVE  g.len \in 0..OffsetModulus - 1 /\ g.chunk \in Nat
BY Constants, AudioAssumption DEF Unloaded

LEMMA SoundOfIs ==
  ASSUME NEW f \in Files, alloc \in 1..RamBlocks
  PROVE  /\ SoundOf(f) \in Structures
         /\ f.vag => /\ SoundOf(f).offset = alloc /\ SoundOf(f).file = f
                     /\ SoundOf(f).length = f.len % LengthModulus
                     /\ SoundOf(f).length \in Nat
                     /\ SoundOf(f).length \div 16 <= f.len \div 16
         /\ ~f.vag => SoundOf(f) = NoSound
<1>1. f.len \in Nat /\ f.vag \in BOOLEAN /\ f \in FileRecords
      BY AudioAssumption DEF FileRecords
<1>2. f.len % LengthModulus \in Nat /\ f.len % LengthModulus <= f.len
      BY <1>1, Constants
<1>3. (f.len % LengthModulus) \div 16 <= f.len \div 16 BY <1>1, <1>2
<1>4. alloc \in Int BY Constants
<1>5. NoSound \in Structures BY DEF NoSound, NoFile, Structures, FileRecords
<1> QED BY <1>1, <1>2, <1>3, <1>4, <1>5 DEF SoundOf, Structures

LEMMA NoSoundIs ==
  /\ NoSound \in Structures /\ NoSound.offset = 0 /\ NoSound.length = 0
  /\ Silent \in Structures /\ Stream \in Structures
<1>1. NoFile \in FileRecords BY DEF NoFile, FileRecords
<1>5. SongData \in FileRecords BY <1>1 DEF SongData, FileRecords
<1>2. /\ NoSound \in Structures /\ NoSound.offset = 0 /\ NoSound.length = 0
      BY <1>1 DEF NoSound, Structures
<1>3. Silent \in Structures BY <1>2, <1>1 DEF Silent, Structures
<1>4. Stream \in Structures BY <1>3, <1>5 DEF Stream, Structures
<1> QED BY <1>2, <1>3, <1>4

-------------------------------------------------------------------------------
(* The types. *)

LEMMA MaskIs ==
  /\ playing \in BOOLEAN /\ playing' \in BOOLEAN
  /\ mask' = mask => playing' = playing
BY DEF playing

LEMMA TypesInit == Init => IInv
<1> SUFFICES ASSUME Init PROVE IInv OBVIOUS
<1>1. SoundTypes
  <2>1. /\ sounds \in [Sounds -> Structures] /\ voices \in [Channels -> Structures]
        /\ cur \in Structures
        BY NoSoundIs DEF Init
  <2> QED BY <2>1, Constants DEF Init, SoundTypes
<1>2. SongTypes
  <2>1. buf \in [0..WholeBuffer - 1 -> Int] BY DEF Init, WholeBuffer
  <2> QED BY <2>1, Constants DEF Init, SongTypes, Unloaded
<1>3. Booleans BY MaskIs DEF Init, Booleans
<1>4. Ring BY Constants DEF Init, Ring, playing
<1>5. Room BY DEF Init, Room
<1> QED BY <1>1, <1>2, <1>3, <1>4, <1>5 DEF IInv

(* What neither sounds nor songs see. *)
LEMMA SoundsRest ==
  ASSUME IInv, UNCHANGED <<alloc, sounds, voices, loadVars, timeouts, errors>>
  PROVE  SoundTypes' /\ Room'
BY DEF IInv, SoundTypes, Room, loadVars

LEMMA SongRests ==
  ASSUME IInv, UNCHANGED songVars
  PROVE  SongTypes' /\ Booleans' /\ Ring'
BY MaskIs DEF IInv, SongTypes, Booleans, Ring, songVars, ringVars, feedVars, readVars

LEMMA FreeIs ==
  ASSUME IInv
  PROVE  /\ FreeChunks \in 0..NumChunks /\ buffered + FreeChunks <= NumChunks
         /\ playing => buffered + FreeChunks + 1 <= NumChunks
BY Constants DEF IInv, SongTypes, Booleans, Ring, FreeChunks

(* What stream_feed does: as many whole chunks as there are, and as are      *)
(* free; into the ring only.                                                *)
Fed(n, blocks, at, c, t, b, free) ==
    /\ blocks >= 0 => n = Lesser(blocks, free * c) \div c /\ n * c <= blocks
    /\ tail' = (t + n) % NumChunks /\ tail' \in 0..NumChunks - 1
    /\ buffered' = b + n
    /\ \A x \in Ram : x \in at..at + NumChunks * c - 1 \/ ram'[x] = ram[x]

LEMMA FeedIs ==
  ASSUME NEW blocks \in Int, NEW at \in Nat, NEW c \in Nat \ {0}, NEW t \in Nat,
         NEW b \in Nat, NEW free \in Nat, Feed(blocks, at, c, t, b, free)
  PROVE  \E n \in 0..free : Fed(n, blocks, at, c, t, b, free)
<1> DEFINE m == Lesser(blocks, free * c)
           n == IF blocks < 0 THEN 0 ELSE m \div c
           Slot(k) == at + c * InRing(t + (k \div c)) + (k % c)
           slots == {Slot(k) : k \in 0..n * c - 1}
<1>1. ram' = [x \in Ram |-> IF x \in slots THEN <<SongData, 0>> ELSE ram[x]]
      /\ tail' = InRing(t + n) /\ buffered' = b + n
      BY Zenon DEF Feed
<1>2. free * c \in Nat OBVIOUS
<1>3. blocks >= 0 => m \in Nat /\ m <= blocks /\ m <= free * c BY <1>2 DEF Lesser
<1> HIDE DEF m
<1>4. n \in Nat /\ (blocks >= 0 => n * c <= m) BY <1>3
<1>5. n <= free
  <2>1. CASE blocks >= 0 BY <2>1, <1>3, <1>4
  <2>2. CASE blocks < 0 BY <2>2
  <2> QED BY <2>1, <2>2
<1> HIDE DEF n
<1>6. \A k \in 0..n * c - 1 : Slot(k) \in at..at + NumChunks * c - 1
  <2> SUFFICES ASSUME NEW k \in 0..n * c - 1
               PROVE  Slot(k) \in at..at + NumChunks * c - 1
      OBVIOUS
  <2>1. n * c \in Int BY <1>4
  <2>2. k \in Nat BY <2>1
  <2>3. k \div c \in Nat /\ k % c \in 0..c - 1 BY <2>2
  <2>4. PICK i : i = InRing(t + (k \div c)) OBVIOUS
  <2>5. i \in 0..NumChunks - 1 BY <2>4, <2>3, Constants DEF InRing
  <2>6. PICK r : r = k % c OBVIOUS
  <2>7. Slot(k) = at + c * i + r BY <2>4, <2>6, Zenon
  <2>8. r \in 0..c - 1 BY <2>3, <2>6
  <2>9. c * i + r \in 0..NumChunks * c - 1 BY <2>5, <2>8, Constants
  <2>10. c * i \in Int /\ NumChunks * c \in Int BY <2>5, Constants
  <2> QED BY <2>7, <2>8, <2>9, <2>10
<1>7. \A x \in Ram : x \in at..at + NumChunks * c - 1 \/ ram'[x] = ram[x]
      BY <1>1, <1>6, Zenon
<1>9. tail' = (t + n) % NumChunks /\ tail' \in 0..NumChunks - 1
      BY <1>1, <1>4, Constants DEF InRing
<1>10. blocks >= 0 => n = Lesser(blocks, free * c) \div c BY DEF n, m
<1>11. (blocks >= 0 => n * c <= blocks) /\ n \in 0..free BY <1>3, <1>4, <1>5
<1> QED BY <1>1, <1>7, <1>9, <1>10, <1>11 DEF Fed

LEMMA SectorsAre ==
  ASSUME NEW old, old \in [0..WholeBuffer - 1 -> Int], NEW from \in Int, NEW n \in Int
  PROVE  /\ Sectors(from, n, old) \in [0..WholeBuffer - 1 -> Int]
         /\ \A i \in 0..WholeBuffer - 1 :
               i < n * SectorBlocks =>
                   Sectors(from, n, old)[i] = from * SectorBlocks + i
<1>1. n * SectorBlocks \in Int /\ from * SectorBlocks \in Int BY Constants
<1> QED BY <1>1 DEF Sectors

(* An upload stays inside the memory when there is room for its blocks.     *)
LEMMA UploadHereKeeps ==
  ASSUME IInv, NEW n \in Nat, NEW bytes \in Int, NEW f, NEW from,
         UploadHere(n, bytes, f, from), alloc + n <= RamBlocks
  PROVE  alloc' \in 1..RamBlocks /\ alloc' = alloc + n /\ timeouts' \in Nat
<1>1. alloc \in 1..RamBlocks /\ timeouts \in Nat BY DEF IInv, SoundTypes
<1>2. alloc' = alloc + n /\ (timeouts' = timeouts \/ timeouts' = timeouts + 1)
      BY DEF UploadHere
<1> QED BY <1>1, <1>2, Constants

(* What is loaded fits: a sound of so many bytes takes one block more than   *)
(* its whole ones at most.                                                  *)
LEMMA FitsIs ==
  ASSUME IInv, NEW f \in Files, Fits(f.len \div 16 + 1)
  PROVE  alloc + ((SoundOf(f).length \div 16) + 1) <= RamBlocks
<1>1. alloc \in 1..RamBlocks BY DEF IInv, SoundTypes
<1>2. f.len \in Nat BY AudioAssumption
<1>3. alloc + ((f.len \div 16) + 1) <= RamBlocks BY DEF Fits
<1>4. CASE f.vag
  <2>1. SoundOf(f).length \in Nat /\ SoundOf(f).length \div 16 <= f.len \div 16
        BY <1>1, <1>4, SoundOfIs
  <2> QED BY <2>1, <1>1, <1>2, <1>3, Constants
<1>5. CASE ~f.vag
  <2>1. SoundOf(f).length = 0 BY <1>1, <1>5, SoundOfIs, NoSoundIs
  <2> QED BY <2>1, <1>1, <1>2, <1>3, Constants
<1> QED BY <1>4, <1>5

LEMMA LoadSoundFromBinaryKeeps ==
  ASSUME IInv, NEW s \in Sounds, NEW f \in Files, LoadSoundFromBinary(s, f)
  PROVE  IInv'
<1>0. alloc \in 1..RamBlocks /\ timeouts \in Nat /\ pc = "idle"
      BY DEF IInv, SoundTypes, LoadSoundFromBinary
<1>1. SongTypes' /\ Booleans' /\ Ring' BY SongRests DEF LoadSoundFromBinary
<1>2. SoundOf(f) \in Structures BY <1>0, SoundOfIs
<1>3. sounds' \in [Sounds -> Structures] /\ sounds'[s] = SoundOf(f)
      BY <1>2 DEF IInv, SoundTypes, LoadSoundFromBinary
<1>4. alloc' \in 1..RamBlocks /\ timeouts' \in Nat
  <2>1. CASE ~f.vag BY <2>1, <1>0 DEF LoadSoundFromBinary
  <2>2. CASE f.vag
    <3>1. PICK bytes : bytes = SoundOf(f).length OBVIOUS
    <3>2. bytes \in Nat BY <3>1, <2>2, <1>0, SoundOfIs
    <3>3. PICK n \in {0, Uploaded(bytes)} : UploadHere(n, bytes, f, 0)
          BY <2>2, <1>3, <3>1 DEF LoadSoundFromBinary
    <3>4. n \in Nat /\ n <= (bytes \div 16) + 1 BY <3>2, UploadedIs
    <3>5. alloc + ((bytes \div 16) + 1) <= RamBlocks
          BY FitsIs, <3>1 DEF LoadSoundFromBinary
    <3>6. alloc + n <= RamBlocks BY <3>4, <3>5, <3>2, <1>0, Constants
    <3> QED BY <3>3, <3>4, <3>2, <3>6, UploadHereKeeps
  <2> QED BY <2>1, <2>2
<1>5. SoundTypes'
      BY <1>3, <1>4 DEF IInv, SoundTypes, LoadSoundFromBinary, loadVars
<1>6. Room' BY <1>0 DEF IInv, Room, LoadSoundFromBinary, loadVars
<1> QED BY <1>1, <1>5, <1>6 DEF IInv

(* A blocking read of a sector.                                             *)
LEMMA ReadBlocksTypes ==
  ASSUME NEW failed, ReadBlocks(failed)
  PROVE  ready' \in BOOLEAN /\ reading' \in Int \X Int /\ late' \in 0..BufferSectors
<1>1. ready' = FALSE /\ reading' = <<0, -1>> BY DEF ReadBlocks
<1>2. late' = 0 \/ late' = 1 BY DEF ReadBlocks
<1>3. 0 \in 0..BufferSectors /\ 1 \in 0..BufferSectors BY Constants
<1>4. late' \in 0..BufferSectors BY <1>2, <1>3
<1>5. <<0, -1>> \in Int \X Int OBVIOUS
<1> QED BY <1>1, <1>4, <1>5

LEMMA ReadBlocksKeeps ==
  ASSUME IInv, NEW failed, ReadBlocks(failed), UNCHANGED <<ringVars, feedVars, buf>>
  PROVE  /\ SongTypes' /\ Booleans' /\ Ring'
         /\ errors' \in Nat /\ (errors' = errors \/ errors' = errors + 1)
<1>1. errors \in Nat BY DEF IInv, SoundTypes
<1>2. errors' = errors \/ errors' = errors + 1 BY DEF ReadBlocks
<1>3. /\ ready' \in BOOLEAN /\ reading' \in Int \X Int /\ late' \in 0..BufferSectors
      BY ReadBlocksTypes
<1>4. SongTypes' BY <1>3 DEF IInv, SongTypes, ringVars, feedVars
<1>5. Booleans' /\ Ring'
      BY <1>3, MaskIs DEF IInv, Booleans, Ring, ringVars, feedVars
<1> QED BY <1>1, <1>2, <1>4, <1>5

LEMMA BeginLoadKeeps ==
  ASSUME IInv, NEW s \in Sounds, NEW f \in Files, BeginLoad(s, f)
  PROVE  IInv'
<1>0. alloc \in 1..RamBlocks /\ pc = "idle" /\ rem = 0 /\ next \in Nat
      BY DEF IInv, SoundTypes, BeginLoad, Room
<1>2. PICK h \in Files :
        /\ ReadBlocks(h # f)
        /\ Fits(h.len \div 16 + 1)
        /\ sounds' = [sounds EXCEPT ![s] = SoundOf(h)]
        /\ cur' = sounds'[s] /\ rem' = sounds'[s].length
        /\ IF h.vag THEN /\ pc' = "upload" /\ space' = SectorSize - HeaderSize
                         /\ next' = space' \div 16
                    ELSE UNCHANGED <<pc, space, next>>
      BY DEF BeginLoad
<1>1. SongTypes' /\ Booleans' /\ Ring' /\ errors' \in Nat
      BY <1>2, ReadBlocksKeeps DEF BeginLoad
<1>3. SoundOf(h) \in Structures BY <1>0, SoundOfIs
<1>4. /\ sounds' \in [Sounds -> Structures] /\ cur' = SoundOf(h)
      /\ rem' = SoundOf(h).length
      BY <1>2, <1>3 DEF IInv, SoundTypes
<1>5. SoundOf(h).length \in Nat BY <1>3 DEF Structures
<1>6. SectorSize - HeaderSize \in Nat /\ (SectorSize - HeaderSize) % 16 = 0
      BY AudioAssumption
<1>7. pc' \in {"idle", "upload"} /\ space' \in Nat /\ next' \in Nat
      /\ space' % 16 = 0
      BY <1>2, <1>6, <1>0 DEF IInv, SoundTypes, Room
<1>8. SoundTypes'
      BY <1>1, <1>2, <1>3, <1>4, <1>5, <1>7 DEF IInv, SoundTypes, BeginLoad
<1>9. Room'
  <2>1. pc' = "idle" => rem' = 0
        BY <1>2, <1>4, <1>0, SoundOfIs, NoSoundIs
  <2>2. rem' >= 0 /\ alloc' + ((rem' \div 16) + 1) <= RamBlocks
    <3>1. alloc + ((SoundOf(h).length \div 16) + 1) <= RamBlocks BY <1>2, FitsIs
    <3> QED BY <3>1, <1>4, <1>5 DEF BeginLoad
  <2>3. cur'.length = rem' BY <1>4
  <2>4. alloc' + (rem' \div 16) + 1 <= RamBlocks
        BY <2>2, <1>4, <1>5, <1>0 DEF BeginLoad
  <2> QED BY <2>1, <2>2, <2>3, <2>4, <1>7 DEF Room
<1> QED BY <1>1, <1>8, <1>9 DEF IInv

LEMMA UploadSectorKeeps == ASSUME IInv, UploadSector PROVE IInv'
<1>0. /\ alloc \in 1..RamBlocks /\ pc = "upload" /\ rem \in Int /\ space \in Nat
      /\ space % 16 = 0 /\ (rem >= 0 => alloc + (rem \div 16) + 1 <= RamBlocks)
      BY DEF IInv, SoundTypes, UploadSector, Room
<1>1. SongTypes' /\ Booleans' /\ Ring' BY SongRests DEF UploadSector
<1>2. PICK bytes : bytes = Lesser(rem, space) OBVIOUS
<1>3. bytes \in Int /\ bytes <= rem /\ bytes <= space
      /\ (bytes = rem \/ bytes = space)
      BY <1>0, <1>2 DEF Lesser
<1>4. PICK n \in {0, Uploaded(bytes)} :
        UploadHere(n, bytes, cur.file, held) /\ rem' = rem - 16 * n
      BY <1>2 DEF UploadSector
<1>5. /\ n \in Nat /\ (bytes < 0 => n = 0)
      /\ bytes >= 0 => n <= (bytes \div 16) + 1
      /\ bytes >= 0 /\ bytes % 16 = 0 => 16 * n <= bytes
  <2>1. CASE n = 0 BY <2>1, <1>3
  <2>2. CASE n = Uploaded(bytes)
    <3>1. PICK u : u = Uploaded(bytes) OBVIOUS
    <3>2. /\ u \in Nat /\ (bytes < 4 => u = 0)
          /\ bytes >= 0 => /\ u <= (bytes \div 16) + 1
                           /\ bytes % 16 = 0 => 16 * u = bytes
          BY <3>1, <1>3, UploadedIs
    <3> QED BY <2>2, <3>1, <3>2, <1>3
  <2> QED BY <2>1, <2>2, <1>4
<1>6. rem' \in Int /\ (rem < 0 => rem' < 0) BY <1>4, <1>5, <1>0, <1>3
<1>7. alloc + n <= RamBlocks BY <1>5, <1>3, <1>0, Constants
<1>8. alloc' \in 1..RamBlocks /\ alloc' = alloc + n /\ timeouts' \in Nat
      BY <1>4, <1>5, <1>3, <1>7, UploadHereKeeps
<1>9. NoSound \in Structures BY NoSoundIs
<1>10. /\ cur' \in Structures /\ space' \in Nat /\ next' \in Nat /\ held' \in Nat
       /\ pc' \in {"idle", "read"} /\ space' % 16 = 0
       /\ pc' = "idle" => rem' = 0
       /\ pc' # "idle" => cur' = cur
       BY <1>9, <1>0 DEF UploadSector, IInv, SoundTypes, MoreToLoad
<1>11. SoundTypes'
       BY <1>6, <1>8, <1>10 DEF UploadSector, IInv, SoundTypes
<1>12. Room'
  <2>1. rem' >= 0 => alloc' + (rem' \div 16) + 1 <= RamBlocks
        BY <1>0, <1>4, <1>5, <1>6, <1>8
  <2>2. rem % 16 = 0 /\ rem >= 0 => rem' >= 0 /\ rem' % 16 = 0
    <3> SUFFICES ASSUME rem % 16 = 0, rem >= 0 PROVE rem' >= 0 /\ rem' % 16 = 0
        OBVIOUS
    <3>1. bytes >= 0 /\ bytes % 16 = 0 BY <1>0, <1>3
    <3>2. 16 * n <= rem BY <3>1, <1>5, <1>3, <1>0
    <3> QED BY <3>2, <1>4, <1>5, <1>0
  <2>3. cur.length % 16 = 0 => rem >= 0 /\ rem % 16 = 0 BY <1>0 DEF IInv, Room
  <2>4. rem' >= 0 \/ cur'.length % 16 # 0
    <3>1. CASE cur.length % 16 = 0 BY <3>1, <2>2, <2>3
    <3>2. CASE cur.length % 16 # 0 BY <3>2, <1>6, <1>10
    <3> QED BY <3>1, <3>2
  <2>5. pc' \in {"idle", "read"} /\ (pc' = "read" => cur' = cur) BY <1>10
  <2> QED BY <2>1, <2>2, <2>3, <2>4, <2>5, <1>10 DEF Room
<1> QED BY <1>1, <1>11, <1>12 DEF IInv

LEMMA ReadSectorKeeps == ASSUME IInv, ReadSector PROVE IInv'
<1>1. PICK failed \in BOOLEAN : ReadBlocks(failed) /\ held' \in {held, next}
      BY DEF ReadSector
<1>8. SongTypes' /\ Booleans' /\ Ring' /\ errors' \in Nat
      BY <1>1, ReadBlocksKeeps DEF ReadSector
<1>2. next + SectorBlocks \in Nat BY Constants DEF IInv, SoundTypes
<1>3. next' \in Nat
      BY <1>2, AudioAssumption DEF ReadSector, Lesser
<1>4. held' \in Nat BY <1>1 DEF IInv, SoundTypes
<1>5. SoundTypes'
      BY <1>3, <1>4, <1>8, Constants DEF ReadSector, IInv, SoundTypes, spuVars
<1>6. SectorSize % 16 = 0 BY AudioAssumption
<1>7. Room' BY <1>6 DEF ReadSector, IInv, Room, spuVars
<1> QED BY <1>5, <1>7, <1>8 DEF IInv

LEMMA SongMissingKeeps == ASSUME IInv, SongMissing PROVE IInv'
<1>1. PICK failed \in BOOLEAN : ReadBlocks(failed) BY DEF SongMissing
<1>2. ready' \in BOOLEAN /\ reading' \in Int \X Int /\ late' \in 0..BufferSectors
      BY <1>1, ReadBlocksTypes
<1>6. errors' \in Nat BY <1>1 DEF ReadBlocks, IInv, SoundTypes
<1>3. SoundTypes' /\ Room'
      BY <1>6 DEF SongMissing, IInv, SoundTypes, Room, spuVars, loadVars
<1>4. SongTypes' BY <1>2 DEF SongMissing, IInv, SongTypes, ringVars
<1>5. Booleans' /\ Ring'
      BY <1>2, MaskIs DEF SongMissing, IInv, Booleans, Ring, ringVars
<1> QED BY <1>3, <1>4, <1>5 DEF IInv

(* The first feed of a song into its ring, or into the one that plays.      *)
FirstFeed(h, free, t, b) ==
    /\ free = IF Accepted(h) THEN NumChunks ELSE FreeChunks
    /\ t = IF Accepted(h) THEN 0 ELSE tail
    /\ b = IF Accepted(h) THEN 0 ELSE buffered
    /\ Feed(WholeBuffer, offset', chunk', t, b, free)
    /\ streamOffset' = Lesser(WholeBuffer, free * chunk')
    /\ pc' = pc /\ wild' = wild

LEMMA FeedFirstIs ==
  ASSUME IInv, NEW h, FeedFirst(h), chunk' # 0
  PROVE  \E free \in 0..NumChunks, t \in Nat, b \in Nat :
            /\ FirstFeed(h, free, t, b)
            /\ b + free <= NumChunks /\ (playing => b + free + 1 <= NumChunks)
<1>1. PICK free : free = IF Accepted(h) THEN NumChunks ELSE FreeChunks OBVIOUS
<1>2. PICK b : b = IF Accepted(h) THEN 0 ELSE buffered OBVIOUS
<1>3. PICK t : t = IF Accepted(h) THEN 0 ELSE tail OBVIOUS
<1>4. FirstFeed(h, free, t, b)
      BY <1>1, <1>2, <1>3 DEF FeedFirst, FirstFeed, WholeBuffer
<1>5. buffered \in Nat /\ tail \in Nat BY Constants DEF IInv, SongTypes
<1>6. Accepted(h) => ~playing BY DEF Accepted
<1>7. /\ free \in 0..NumChunks /\ t \in Nat /\ b \in Nat
      /\ b + free <= NumChunks /\ (playing => b + free + 1 <= NumChunks)
      BY <1>1, <1>2, <1>3, <1>5, <1>6, FreeIs, Constants
<1> QED BY <1>4, <1>7

(* The ring of a song: its own, behind what is loaded, or the one there is.  *)
RingOf(h) ==
    /\ Fits(NumChunks * chunk') /\ song' = h /\ InitStream(h) /\ FeedFirst(h)
    /\ \E n \in 0..BufferSectors :
         /\ buf' = Sectors(0, n, [i \in DOMAIN buf |-> -1])
         /\ late' = IF n = 0 THEN 0 ELSE (BufferSectors + 1) - n

LEMMA LoadSongIs ==
  ASSUME IInv, NEW g \in Songs, LoadSong(g)
  PROVE  /\ \E h \in Songs : RingOf(h) /\ (errors' = errors => h = g)
         /\ errors' \in Nat /\ errors' \in {errors, errors + 1, errors + 2}
         /\ errors' = errors => late' # 0
<1>1. errors \in Nat BY DEF IInv, SoundTypes
<1>2. PICK h \in Songs, n \in 0..BufferSectors :
        /\ errors' = (errors + (IF h = g THEN 0 ELSE 1)) + (IF n = 0 THEN 1 ELSE 0)
        /\ Fits(NumChunks * (IF Accepted(h) THEN h.chunk ELSE chunk))
        /\ song' = h /\ InitStream(h) /\ FeedFirst(h)
        /\ buf' = Sectors(0, n, [i \in DOMAIN buf |-> -1])
        /\ late' = IF n = 0 THEN 0 ELSE (BufferSectors + 1) - n
      BY DEF LoadSong
<1>3. chunk' = IF Accepted(h) THEN h.chunk ELSE chunk BY <1>2 DEF InitStream
<1>4. RingOf(h) BY <1>2, <1>3 DEF RingOf
<1>5. errors' = errors => h = g /\ n # 0 BY <1>1, <1>2
<1>6. n # 0 => late' # 0 BY <1>2, Constants
<1>7. errors' \in Nat /\ errors' \in {errors, errors + 1, errors + 2} BY <1>1, <1>2
<1> QED BY <1>4, <1>5, <1>6, <1>7

LEMMA RingIs ==
  ASSUME IInv, NEW h \in Songs, RingOf(h)
  PROVE  /\ chunk' \in Nat /\ offset' \in Nat /\ NumChunks * chunk' \in Nat
         /\ alloc' = alloc + NumChunks * chunk' /\ alloc' \in 1..RamBlocks
         /\ \/ chunk' = chunk /\ offset' = offset
            \/ ~playing /\ offset' = alloc
         /\ buf' \in [0..WholeBuffer - 1 -> Int] /\ late' \in 0..BufferSectors
<1>0. /\ alloc \in 1..RamBlocks /\ offset \in Nat /\ chunk \in Nat
      /\ buf \in [0..WholeBuffer - 1 -> Int]
      BY DEF IInv, SoundTypes, SongTypes
<1>1. h.chunk \in Nat BY SongRecords
<1>2. /\ chunk' \in Nat /\ offset' \in Nat /\ alloc' = alloc + NumChunks * chunk'
      /\ \/ chunk' = chunk /\ offset' = offset
         \/ ~playing /\ offset' = alloc
      BY <1>0, <1>1, Constants DEF RingOf, InitStream, Accepted
<1>3. NumChunks * chunk' \in Nat
  <2>1. NumChunks \in Nat BY Constants
  <2> QED BY <2>1, <1>2, Times, Zenon
<1>4. alloc' \in 1..RamBlocks
  <2>1. PICK m : m = NumChunks * chunk' OBVIOUS
  <2>2. m \in Nat /\ alloc + m <= RamBlocks /\ alloc' = alloc + m
        BY <2>1, <1>2, <1>3, Zenon DEF RingOf, Fits
  <2> QED BY <2>2, <1>0, Constants
<1>5. buf' \in [0..WholeBuffer - 1 -> Int] /\ late' \in 0..BufferSectors
  <2>1. PICK n \in 0..BufferSectors :
           /\ buf' = Sectors(0, n, [i \in DOMAIN buf |-> -1])
           /\ late' = IF n = 0 THEN 0 ELSE (BufferSectors + 1) - n
        BY DEF RingOf
  <2>2. PICK old : old = [i \in DOMAIN buf |-> -1] OBVIOUS
  <2>3. old \in [0..WholeBuffer - 1 -> Int] BY <1>0, <2>2
  <2>4. n \in Int /\ 0 \in Int BY Constants
  <2>5. Sectors(0, n, old) \in [0..WholeBuffer - 1 -> Int]
        BY <2>3, <2>4, SectorsAre, Zenon
  <2>6. late' \in 0..BufferSectors BY <2>1, Constants
  <2> QED BY <2>1, <2>2, <2>5, <2>6
<1> QED BY <1>2, <1>3, <1>4, <1>5

LEMMA LoadSongKeeps == ASSUME IInv, NEW g \in Songs, LoadSong(g) PROVE IInv'
<1>0. /\ pc = "idle" /\ buffered \in 0..NumChunks /\ tail \in 0..NumChunks - 1
      /\ UNCHANGED <<sounds, cur, rem, space, next, held, voices, mask, sm,
                     feedLength, timeouts>>
      /\ ready' = FALSE /\ reading' \in Int \X Int
      BY DEF LoadSong, IInv, SongTypes
<1>1. PICK h \in Songs : RingOf(h) BY LoadSongIs
<1>2. errors' \in Nat BY LoadSongIs
<1>3. /\ chunk' \in Nat /\ offset' \in Nat /\ alloc' \in 1..RamBlocks
      /\ chunk' = chunk \/ ~playing
      /\ buf' \in [0..WholeBuffer - 1 -> Int] /\ late' \in 0..BufferSectors
      BY <1>1, RingIs
<1>4. playing' = playing /\ playing \in BOOLEAN /\ playing' \in BOOLEAN
      BY <1>0, MaskIs
<1>5. /\ pc' \in {"idle", "feed"} /\ streamOffset' \in 0..OffsetModulus - 1
      /\ tail' \in 0..NumChunks - 1 /\ buffered' \in 0..NumChunks
      /\ buffered' + (IF playing' THEN 1 ELSE 0) <= NumChunks
      /\ chunk' = 0 => buffered' = buffered
  <2>1. CASE chunk' = 0
    <3>1. /\ pc' = "feed" /\ streamOffset' = 0 /\ UNCHANGED <<tail, buffered>>
          BY <2>1, <1>1 DEF RingOf, FeedFirst
    <3>2. buffered + (IF playing THEN 1 ELSE 0) <= NumChunks BY DEF IInv, Ring
    <3> QED BY <3>1, <3>2, <1>0, <1>4, Constants
  <2>2. CASE chunk' # 0
    <3>1. PICK free \in 0..NumChunks, t \in Nat, b \in Nat :
             /\ FirstFeed(h, free, t, b)
             /\ b + free <= NumChunks /\ (playing => b + free + 1 <= NumChunks)
      <4>1. FeedFirst(h) BY <1>1 DEF RingOf
      <4> QED BY <4>1, <2>2, FeedFirstIs
    <3>2. PICK c : c = chunk' OBVIOUS
    <3>3. PICK o : o = offset' OBVIOUS
    <3>4. c \in Nat \ {0} /\ o \in Nat /\ free \in Nat /\ WholeBuffer \in Int
          BY <2>2, <1>3, <3>2, <3>3, Constants
    <3>5. Feed(WholeBuffer, o, c, t, b, free) /\ pc' = pc
          /\ streamOffset' = Lesser(WholeBuffer, free * c)
          BY <3>1, <3>2, <3>3 DEF FirstFeed
    <3>6. \E n \in 0..free : Fed(n, WholeBuffer, o, c, t, b, free)
          BY <3>4, <3>5, FeedIs, Zenon
    <3>7. PICK n \in 0..free : tail' \in 0..NumChunks - 1 /\ buffered' = b + n
          BY <3>6 DEF Fed
    <3>8. /\ buffered' \in 0..NumChunks
          /\ buffered' + (IF playing' THEN 1 ELSE 0) <= NumChunks
          BY <3>1, <3>7, <1>4, Constants
    <3>9. streamOffset' \in 0..OffsetModulus - 1
      <4>1. PICK m : m = free * c OBVIOUS
      <4>2. m \in Nat BY <4>1, <3>4, Times, Zenon
      <4> QED BY <4>1, <4>2, <3>5, Constants DEF Lesser
    <3> QED BY <2>2, <3>5, <3>7, <3>8, <3>9, <1>0
  <2> QED BY <2>1, <2>2
<1>6. SoundTypes' BY <1>0, <1>2, <1>3, <1>5 DEF IInv, SoundTypes
<1>7. Room' BY <1>0, <1>5 DEF IInv, Room
<1>8. SongTypes'
  <2>1. song' \in Songs \cup {Unloaded} BY <1>1 DEF RingOf
  <2> QED BY <2>1, <1>0, <1>3, <1>5 DEF IInv, SongTypes
<1>9. Booleans' BY <1>0, <1>4 DEF IInv, Booleans
<1>10. Ring'
  <2>1. chunk' = 0 => sm' = "idle" /\ buffered' = 0 /\ ~playing'
    <3> SUFFICES ASSUME chunk' = 0 PROVE sm' = "idle" /\ buffered' = 0 /\ ~playing'
        OBVIOUS
    <3>1. chunk = 0
      <4>1. Accepted(h) => h.chunk # 0 BY DEF Accepted
      <4> QED BY <4>1, <1>1 DEF RingOf, InitStream
    <3> QED BY <3>1, <1>0, <1>4, <1>5 DEF IInv, Ring
  <2> QED BY <2>1, <1>5 DEF Ring
<1> QED BY <1>6, <1>7, <1>8, <1>9, <1>10 DEF IInv

LEMMA LateKeeps == ASSUME IInv, Late PROVE IInv'
<1>1. /\ UNCHANGED <<spuVars, loadVars, voices, ringVars, feedVars, reading, timeouts>>
      /\ errors' = errors \/ errors' = errors + 1
      /\ ready' = ready \/ ready' = TRUE
      BY DEF Late, LateSector, LateINT2, Raised, LateError, faultVars
<1>2. late \in 0..BufferSectors /\ buf \in [0..WholeBuffer - 1 -> Int]
      /\ errors \in Nat
      BY DEF IInv, SongTypes, SoundTypes
<1>3. SoundTypes' /\ Room'
      BY <1>1, <1>2 DEF IInv, SoundTypes, Room, spuVars, loadVars
<1>4. late' \in 0..BufferSectors /\ buf' \in [0..WholeBuffer - 1 -> Int]
  <2>1. CASE LateSector
    <3>1. late' = late - 1 /\ late > 1
          /\ buf' = Sectors(0, (BufferSectors + 1) - late', buf)
          BY <2>1 DEF LateSector
    <3>2. late' \in 0..BufferSectors /\ (BufferSectors + 1) - late' \in Int
          BY <1>2, <3>1, Constants
    <3> QED BY <1>2, <3>1, <3>2, SectorsAre
  <2>2. CASE LateINT2 \/ LateError
        BY <2>2, <1>2, Constants DEF LateINT2, LateError
  <2> QED BY <2>1, <2>2 DEF Late
<1>5. SongTypes' BY <1>1, <1>4 DEF IInv, SongTypes, ringVars, feedVars
<1>6. Booleans'
  <2>1. ready' \in BOOLEAN /\ mask' = mask BY <1>1 DEF IInv, Booleans, ringVars
  <2> QED BY <2>1, MaskIs DEF IInv, Booleans
<1>7. Ring' BY <1>1, MaskIs DEF IInv, Ring, ringVars, feedVars
<1> QED BY <1>3, <1>5, <1>6, <1>7 DEF IInv

(* What is read next fits streamBuffer and the ring; and min does what it    *)
(* should for a song that is not shorter than what was fed.                 *)
LEMMA ToFeedIs ==
  ASSUME IInv
  PROVE  /\ ToFeed \in Int /\ ToFeed <= WholeBuffer
         /\ FreeChunks * chunk \in Nat /\ ToFeed <= FreeChunks * chunk
         /\ 2 * song.len < OffsetModulus /\ streamOffset <= song.len =>
              /\ ToFeed \in Nat /\ ToFeed <= song.len - streamOffset
              /\ \/ ToFeed = song.len - streamOffset
                 \/ ToFeed = Lesser(FreeChunks * chunk, WholeBuffer)
<1>1. streamOffset \in 0..OffsetModulus - 1 /\ chunk \in Nat
      BY DEF IInv, SongTypes
<1>2. song.len \in 0..OffsetModulus - 1 BY SongRecords DEF IInv, SongTypes
<1>3. PICK left : left = Signed(song.len - streamOffset) OBVIOUS
<1>4. /\ left \in Int
      /\ 2 * song.len < OffsetModulus /\ streamOffset <= song.len =>
           left \in Nat /\ left = song.len - streamOffset
  <2>1. PICK w : w = (song.len - streamOffset) % OffsetModulus OBVIOUS
  <2>2. OffsetModulus \in Nat \ {0} BY Constants
  <2>5. PICK d \in Int : d = song.len - streamOffset BY <1>1, <1>2, Constants
  <2>6. d < OffsetModulus /\ (streamOffset <= song.len => d >= 0)
        BY <2>5, <1>1, <1>2, Constants
  <2>7. w \in Nat /\ (d >= 0 => w = d) BY <2>1, <2>2, <2>5, <2>6
  <2>3. w \in Nat /\ (streamOffset <= song.len => w = song.len - streamOffset)
        BY <2>5, <2>6, <2>7
  <2>4. left = IF 2 * w < OffsetModulus THEN w ELSE w - OffsetModulus
        BY <1>3, <2>1 DEF Signed
  <2> QED BY <1>1, <1>2, <2>2, <2>3, <2>4
<1>5. FreeChunks * chunk \in Nat BY <1>1, FreeIs, Constants
<1>6. PICK m : m = Lesser(FreeChunks * chunk, WholeBuffer) OBVIOUS
<1>7. m \in Nat /\ m <= FreeChunks * chunk /\ m <= WholeBuffer
      BY <1>5, <1>6, Constants DEF Lesser
<1>8. ToFeed = Lesser(left, m)
      BY <1>3, <1>6 DEF ToFeed, WholeBuffer
<1>9. ToFeed \in Int /\ ToFeed <= left /\ ToFeed <= m /\ (ToFeed = left \/ ToFeed = m)
      BY <1>8, <1>4, <1>7 DEF Lesser
<1>10. ToFeed <= WholeBuffer /\ ToFeed <= FreeChunks * chunk
       BY <1>9, <1>7, <1>5, Constants
<1> QED BY <1>4, <1>5, <1>6, <1>7, <1>9, <1>10

LEMMA UpdateIdleKeeps == ASSUME IInv, UpdateIdle PROVE IInv'
<1>1. SoundTypes' /\ Room' BY SoundsRest DEF UpdateIdle, spuVars, faultVars
<1>2. feedLength' \in Int /\ feedLength' <= WholeBuffer
      BY ToFeedIs DEF UpdateIdle
<1>3. reading' \in Int \X Int
  <2>1. FromSector \in Int BY Constants DEF IInv, SongTypes, FromSector
  <2>2. WholeSectors(feedLength') \in Int BY <1>2, Constants DEF WholeSectors
  <2> QED BY <2>1, <2>2 DEF UpdateIdle
<1>4. late' \in 0..BufferSectors BY Constants DEF UpdateIdle, IInv, SongTypes
<1>5. SongTypes'
      BY <1>2, <1>3, <1>4 DEF UpdateIdle, IInv, SongTypes, ringVars
<1>6. Booleans'
  <2>1. ready' = FALSE /\ mask' = mask BY DEF UpdateIdle, ringVars
  <2> QED BY <2>1, MaskIs DEF IInv, Booleans
<1>7. Ring' BY MaskIs DEF UpdateIdle, IInv, Ring, ringVars
<1> QED BY <1>1, <1>5, <1>6, <1>7 DEF IInv

LEMMA ReadDoneKeeps == ASSUME IInv, ReadDone PROVE IInv'
<1>1. SoundTypes' /\ Room' BY SoundsRest DEF ReadDone, spuVars, faultVars
<1>2. /\ buf \in [0..WholeBuffer - 1 -> Int] /\ reading[1] \in Int
      /\ reading[2] \in Int
      BY DEF IInv, SongTypes
<1>3. Sectors(reading[1], reading[2], buf) \in [0..WholeBuffer - 1 -> Int]
      BY <1>2, SectorsAre
<1>4. buf' \in [0..WholeBuffer - 1 -> Int] /\ ready' = TRUE
      BY <1>2, <1>3 DEF ReadDone
<1>5. SongTypes' BY <1>4 DEF ReadDone, IInv, SongTypes, ringVars, feedVars
<1>6. Booleans' /\ Ring'
      BY <1>4, MaskIs DEF ReadDone, IInv, Booleans, Ring, ringVars, feedVars
<1> QED BY <1>1, <1>5, <1>6 DEF IInv

LEMMA ReadFailsKeeps == ASSUME IInv, ReadFails PROVE IInv'
<1>1. errors' \in Nat BY DEF ReadFails, IInv, SoundTypes
<1>2. SoundTypes' /\ Room'
      BY <1>1 DEF ReadFails, IInv, SoundTypes, Room, spuVars, loadVars
<1>3. SongTypes' BY DEF ReadFails, IInv, SongTypes, ringVars, feedVars
<1>4. Booleans' /\ Ring'
      BY MaskIs DEF ReadFails, IInv, Booleans, Ring, ringVars, feedVars
<1> QED BY <1>2, <1>3, <1>4 DEF IInv

LEMMA OverrunKeeps == ASSUME IInv, Overrun PROVE IInv'
<1>1. SongTypes' /\ Booleans' /\ Ring' BY SongRests DEF Overrun
<1>2. SoundTypes' BY DEF Overrun, IInv, SoundTypes, spuVars
<1>3. Room' BY DEF Overrun, IInv, Room, spuVars
<1> QED BY <1>1, <1>2, <1>3 DEF IInv

LEMMA UpdateReadyKeeps == ASSUME IInv, UpdateReady PROVE IInv'
<1>0. /\ chunk \in Nat /\ offset \in Nat /\ tail \in 0..NumChunks - 1
      /\ buffered \in 0..NumChunks /\ feedLength \in Int
      /\ streamOffset \in 0..OffsetModulus - 1 /\ playing \in BOOLEAN
      BY DEF IInv, SongTypes, Booleans
<1>1. chunk \in Nat \ {0} BY <1>0 DEF IInv, Ring, UpdateReady
<1>2. SoundTypes' /\ Room' BY SoundsRest DEF UpdateReady, faultVars
<1>3. PICK free : free = FreeChunks OBVIOUS
<1>4. /\ free \in 0..NumChunks /\ buffered + free <= NumChunks
      /\ playing => buffered + free + 1 <= NumChunks
      BY <1>3, FreeIs
<1>5. PICK n \in 0..free : tail' \in 0..NumChunks - 1 /\ buffered' = buffered + n
  <2>1. Feed(feedLength, offset, chunk, tail, buffered, free)
        BY <1>3 DEF UpdateReady
  <2>2. feedLength \in Int /\ tail \in Nat /\ buffered \in Nat /\ free \in Nat
        BY <1>0, <1>4, Constants
  <2>3. \E n \in 0..free : Fed(n, feedLength, offset, chunk, tail, buffered, free)
        BY <2>1, <2>2, <1>0, <1>1, FeedIs, Zenon
  <2> QED BY <2>3 DEF Fed
<1>6. buffered' \in 0..NumChunks BY <1>5, <1>4, <1>0, Constants
<1>7. streamOffset' \in 0..OffsetModulus - 1
  <2>1. song.len \in 0..OffsetModulus - 1 BY SongRecords DEF IInv, SongTypes
  <2>2. free * chunk \in Nat BY <1>1, <1>4
  <2>3. PICK m : m = Lesser(feedLength, free * chunk) OBVIOUS
  <2>4. m \in Int BY <2>2, <2>3, <1>0, Constants DEF Lesser
  <2>5. PICK o : o = (streamOffset + m) % OffsetModulus OBVIOUS
  <2>6. o \in 0..OffsetModulus - 1 BY <2>4, <2>5, <1>0, Constants
  <2>7. streamOffset' = Looped(o) BY <1>3, <2>3, <2>5 DEF UpdateReady
  <2> QED BY <2>1, <2>6, <2>7, Constants DEF Looped
<1>8. SongTypes' BY <1>5, <1>6, <1>7 DEF UpdateReady, IInv, SongTypes, readVars
<1>9. Booleans' /\ playing' = playing /\ chunk' = chunk
      BY MaskIs DEF UpdateReady, IInv, Booleans, readVars
<1>10. Ring'
  <2>1. buffered' + (IF playing THEN 1 ELSE 0) <= NumChunks
        BY <1>5, <1>4, <1>0, Constants
  <2> QED BY <2>1, <1>9, <1>1 DEF Ring
<1> QED BY <1>2, <1>8, <1>9, <1>10 DEF IInv

LEMMA VoicesKeep ==
  ASSUME IInv,
         \/ \E s \in Sounds, ch \in Channels : Play(s, ch)
         \/ \E ch \in Channels : VoiceEnds(ch)
  PROVE  IInv'
<1>1. SongTypes' /\ Booleans' /\ Ring' BY SongRests DEF Play, VoiceEnds
<1>2. voices' \in [Channels -> Structures]
  <2>1. ASSUME NEW s \in Sounds, NEW ch \in Channels, Play(s, ch)
        PROVE  voices' \in [Channels -> Structures]
        BY <2>1 DEF Play, IInv, SoundTypes
  <2>2. ASSUME NEW ch \in Channels, VoiceEnds(ch)
        PROVE  voices' \in [Channels -> Structures]
        BY <2>2, NoSoundIs DEF VoiceEnds, Stopped, IInv, SoundTypes
  <2> QED BY <2>1, <2>2
<1>3. UNCHANGED <<spuVars, loadVars, faultVars>> BY DEF Play, VoiceEnds
<1>4. SoundTypes'
      BY <1>2, <1>3 DEF IInv, SoundTypes, spuVars, loadVars, faultVars
<1>5. Room' BY <1>3 DEF IInv, Room, spuVars, loadVars
<1> QED BY <1>1, <1>4, <1>5 DEF IInv

LEMMA SongPlaysKeeps ==
  ASSUME IInv, StartSong \/ StopSong \/ ChunkPlayed
  PROVE  IInv'
<1>1. voices' \in [Channels -> Structures]
      BY NoSoundIs DEF StartSong, StopSong, ChunkPlayed, Stopped, IInv, SoundTypes
<1>2. UNCHANGED <<spuVars, loadVars, faultVars>>
      BY DEF StartSong, StopSong, ChunkPlayed
<1>3. SoundTypes'
      BY <1>1, <1>2 DEF IInv, SoundTypes, spuVars, loadVars, faultVars
<1>4. Room' BY <1>2 DEF IInv, Room, spuVars, loadVars
<1>5. buffered \in 0..NumChunks /\ playing \in BOOLEAN
      BY DEF IInv, SongTypes, Booleans
<1>6. UNCHANGED <<song, offset, chunk, tail, feedVars, readVars>>
      BY DEF StartSong, StopSong, ChunkPlayed
<1>7. \/ ~playing /\ playing' /\ buffered # 0 /\ buffered' = buffered - 1
      \/ playing /\ ~playing' /\ buffered' = buffered
      \/ playing /\ playing' = playing /\ buffered # 0 /\ buffered' = buffered - 1
      BY DEF StartSong, StopSong, ChunkPlayed, playing
<1>8. buffered' \in 0..NumChunks BY <1>5, <1>7, Constants
<1>9. SongTypes' BY <1>6, <1>8 DEF IInv, SongTypes, feedVars, readVars
<1>10. Booleans'
  <2>1. mask' \subseteq Channels
        BY DEF IInv, Booleans, StartSong, StopSong, ChunkPlayed, Free
  <2> QED BY <2>1, <1>6, MaskIs DEF IInv, Booleans, readVars
<1>11. Ring'
  <2>1. buffered' + (IF playing' THEN 1 ELSE 0) <= NumChunks
        BY <1>5, <1>7, Constants DEF IInv, Ring
  <2>2. chunk # 0 BY <1>7 DEF IInv, Ring
  <2> QED BY <2>1, <2>2, <1>6 DEF Ring, feedVars
<1> QED BY <1>3, <1>4, <1>9, <1>10, <1>11 DEF IInv

LEMMA IInvKept == ASSUME IInv, [Next]_vars PROVE IInv'
<1>1. CASE LoadStep BY <1>1, UploadSectorKeeps, ReadSectorKeeps DEF LoadStep
<1>2. CASE Update BY <1>2, UpdateIdleKeeps, UpdateReadyKeeps DEF Update
<1>3. CASE Background
      BY <1>3, ReadDoneKeeps, ReadFailsKeeps, OverrunKeeps, LateKeeps DEF Background
<1>4. CASE Client
      BY <1>4, VoicesKeep, LoadSoundFromBinaryKeeps, BeginLoadKeeps,
         SongMissingKeeps, LoadSongKeeps, SongPlaysKeeps DEF Client
<1>5. CASE External BY <1>5, VoicesKeep, SongPlaysKeeps DEF External
<1>6. CASE UNCHANGED vars
  <2>1. UNCHANGED songVars
        /\ UNCHANGED <<alloc, sounds, voices, loadVars, timeouts, errors>>
        BY <1>6 DEF vars, spuVars, faultVars
  <2> QED BY <2>1, SoundsRest, SongRests DEF IInv
<1> QED BY <1>1, <1>2, <1>3, <1>4, <1>5, <1>6 DEF Next

(* Every variable of the sound loader and the song player keeps its type,   *)
(* for every size of the memory, the ring and streamBuffer: an allocation   *)
(* that starts inside the memory ends there, the ring never holds more      *)
(* chunks than it has, and of a sound of whole blocks never less than       *)
(* nothing is left to load.                                                 *)
THEOREM TypeCorrect == Spec => []TypeOK
<1>1. IInv => TypeOK
  <2> SUFFICES ASSUME IInv PROVE TypeOK OBVIOUS
  <2>1. rem < 0 => cur.length % 16 # 0 BY DEF IInv, SoundTypes, Room
  <2> QED BY <2>1 DEF IInv, SoundTypes, SongTypes, Booleans, WholeBuffer, TypeOK
<1> QED BY TypesInit, IInvKept, <1>1, PTL DEF Spec

-------------------------------------------------------------------------------
(* The song. *)

LEMMA MultipleIs ==
  ASSUME NEW x \in Nat
  PROVE  /\ Multiple(x) <=> x % SectorBlocks = 0
         /\ Multiple(x) => (x \div SectorBlocks) * SectorBlocks = x
         /\ \A y \in Nat : Multiple(x) /\ Multiple(y) => Multiple(x + y)
         /\ \A q \in Nat : Multiple(x) => Multiple(q * x)
<1>0. PICK s \in Nat \ {0} : s = SectorBlocks BY Constants
<1>1. Multiple(x) <=> x % s = 0
  <2>1. x = (x \div s) * s + (x % s) /\ x \div s \in Nat BY <1>0
  <2>2. \A q \in Nat : (q * s) % s = 0 BY <1>0
  <2>3. x % s = 0 => Multiple(x)
    <3>1. x % s = 0 => x = (x \div s) * s BY <1>0
    <3> QED BY <3>1, <2>1, <1>0, Zenon DEF Multiple
  <2>4. Multiple(x) => x % s = 0 BY <2>2, <1>0 DEF Multiple
  <2> QED BY <2>3, <2>4
<1>2. x % s = 0 => (x \div s) * s = x BY <1>0
<1>3. \A y \in Nat : Multiple(x) /\ Multiple(y) => Multiple(x + y)
  <2> SUFFICES ASSUME NEW y \in Nat, Multiple(x), Multiple(y)
               PROVE  Multiple(x + y)
      OBVIOUS
  <2>1. PICK p \in Nat : x = p * s BY <1>0 DEF Multiple
  <2>2. PICK q \in Nat : y = q * s BY <1>0 DEF Multiple
  <2>3. x + y = (p + q) * s /\ p + q \in Nat BY <2>1, <2>2, <1>0
  <2> QED BY <2>3, <1>0 DEF Multiple
<1>4. \A q \in Nat : Multiple(x) => Multiple(q * x)
  <2> SUFFICES ASSUME NEW q \in Nat, Multiple(x) PROVE Multiple(q * x) OBVIOUS
  <2>1. PICK p \in Nat : x = p * s BY <1>0 DEF Multiple
  <2>2. q * x = (q * p) * s /\ q * p \in Nat BY <2>1, <1>0
  <2> QED BY <2>2, <1>0 DEF Multiple
<1> QED BY <1>0, <1>1, <1>2, <1>3, <1>4

LEMMA SteadyIs ==
  ASSUME IInv, Steady
  PROVE  /\ song \in Songs /\ chunk \in Nat \ {0} /\ song.chunk = chunk
         /\ Multiple(chunk) /\ song.len \in 0..OffsetModulus - 1
         /\ WholeBuffer <= song.len /\ 2 * song.len < OffsetModulus
<1>1. song \in Songs \cup {Unloaded} /\ chunk \in Nat BY DEF IInv, SongTypes
<1>2. /\ song.len >= WholeBuffer /\ 2 * song.len < OffsetModulus
      /\ song.chunk = chunk /\ chunk # 0 /\ chunk % SectorBlocks = 0
      BY DEF Steady, WholeBuffer
<1>3. song.len \in 0..OffsetModulus - 1 BY <1>1, SongRecords
<1>4. song # Unloaded BY <1>2, Constants DEF Unloaded
<1>5. song \in Songs BY <1>1, <1>4
<1>6. chunk \in Nat \ {0} BY <1>1, <1>2
<1>7. Multiple(chunk) BY <1>2, <1>6, MultipleIs
<1> QED BY <1>2, <1>3, <1>5, <1>6, <1>7, Constants

(* streamBuffer holds whole chunks: 32 mono or 16 stereo ones, as the code   *)
(* has it (stream.c:211).                                                    *)
ChunksFill == \A g \in Songs : g.chunk % SectorBlocks = 0 => WholeBuffer % g.chunk = 0

LEMMA PlayerInit == Init => Player
BY Constants DEF Init, Player, Steady, WholeBuffer

LEMMA PlayerRests ==
  ASSUME Player, UNCHANGED songVars
  PROVE  Player'
<1>1. UNCHANGED <<song, chunk, buffered, mask, found, sm, streamOffset, feedLength,
                  buf, ready, reading, late, sure>>
      BY DEF songVars, ringVars, feedVars, readVars
<1>2. FreeChunks' = FreeChunks BY <1>1, MaskIs DEF FreeChunks
<1> QED BY <1>1, <1>2 DEF Player, Steady

(* A read that takes the drive from the player's is not sure.               *)
LEMMA ReadBlocksPlays ==
  ASSUME Player, NEW failed, ReadBlocks(failed), UNCHANGED <<ringVars, feedVars>>
  PROVE  Player'
<1>1. UNCHANGED <<song, chunk, found, streamOffset, sm>>
      /\ (sure' => sure /\ sm = "idle")
      BY DEF ReadBlocks, Overlaps, ringVars, feedVars
<1> QED BY <1>1 DEF Player, Steady

LEMMA LatePlays == ASSUME Player, Late PROVE Player'
<1>1. UNCHANGED <<song, chunk, found, streamOffset, sm, sure>> /\ late # 0
      BY DEF Late, LateSector, LateINT2, LateError, ringVars, feedVars
<1> QED BY <1>1 DEF Player, Steady

LEMMA LoadSongPlays ==
  ASSUME IInv, IInv', Player, NEW g \in Songs, LoadSong(g)
  PROVE  Player'
<1> SUFFICES ASSUME Steady' PROVE Player' BY DEF Player
<1>0. PICK h \in Songs : RingOf(h) BY LoadSongIs
<1>1. PICK c : c = chunk' OBVIOUS
<1>2. PICK l : l = song'.len OBVIOUS
<1>3. c \in Nat \ {0} /\ Multiple(c) /\ l \in Nat /\ WholeBuffer <= l
  <2>1. song' \in Songs \cup {Unloaded} /\ chunk' \in Nat
        BY DEF IInv, SongTypes
  <2>2. song'.len >= WholeBuffer /\ chunk' # 0 /\ chunk' % SectorBlocks = 0
        BY DEF Steady, WholeBuffer
  <2>3. l \in Nat BY <2>1, <1>2, SongRecords, Constants
  <2>4. c \in Nat \ {0} BY <2>1, <2>2, <1>1
  <2>5. WholeBuffer <= l BY <2>2, <2>3, <1>2, Constants
  <2> QED BY <2>2, <2>3, <2>4, <2>5, <1>1, MultipleIs
<1>4. PICK free \in 0..NumChunks, t \in Nat, b \in Nat : FirstFeed(h, free, t, b)
  <2>1. FeedFirst(h) BY <1>0 DEF RingOf
  <2> QED BY <2>1, <1>1, <1>3, FeedFirstIs
<1>5. free \in Nat BY <1>4, Constants
<1>6. streamOffset' = Lesser(WholeBuffer, free * c)
      BY <1>1, <1>4 DEF FirstFeed
<1>7. Multiple(free * c) /\ free * c \in Nat BY <1>3, <1>5, MultipleIs, Times
<1>8. Multiple(WholeBuffer)
      BY Constants DEF Multiple, WholeBuffer
<1>9. PICK m : m = free * c OBVIOUS
<1>10. \E o \in Nat : /\ o = Lesser(WholeBuffer, m) /\ Multiple(o) /\ o <= l
       BY <1>3, <1>7, <1>8, <1>9, Constants DEF Lesser
<1>11. Multiple(streamOffset') /\ streamOffset' <= song'.len
       BY <1>2, <1>6, <1>9, <1>10
<1>12. sm' # "wait" BY DEF LoadSong, Steady, Overlaps
<1> QED BY <1>11, <1>12 DEF Player, Multiple

LEMMA UpdateIdlePlays ==
  ASSUME ChunksFill, IInv, Player, UpdateIdle
  PROVE  Player'
<1> SUFFICES ASSUME Steady' PROVE Player' BY DEF Player
<1>1. Steady /\ late' = 0 /\ sm' = "wait" /\ ~ready'
      BY DEF UpdateIdle, Steady, ringVars
<1>2. /\ UNCHANGED <<song, chunk, streamOffset, buffered, mask>>
      /\ FreeChunks' = FreeChunks
      BY MaskIs DEF UpdateIdle, ringVars, FreeChunks
<1>3. /\ song \in Songs /\ chunk \in Nat \ {0} /\ song.chunk = chunk
      /\ song.len \in Nat /\ Multiple(chunk) /\ 2 * song.len < OffsetModulus
      BY <1>1, SteadyIs, Constants
<1>4. Multiple(streamOffset) /\ streamOffset <= song.len BY <1>1 DEF Player
<1>5. streamOffset \in Nat BY Constants DEF IInv, SongTypes
<1>6. feedLength' = ToFeed /\ ToFeed \in Nat BY <1>3, <1>4, ToFeedIs DEF UpdateIdle
<1>7. feedLength' <= FreeChunks' * chunk' BY <1>6, <1>2, ToFeedIs
<1>8. streamOffset + ToFeed <= song.len
  <2>1. ToFeed <= song.len - streamOffset BY <1>3, <1>4, ToFeedIs
  <2> QED BY <2>1, <1>3, <1>5, <1>6
<1>9. \/ ToFeed = song.len - streamOffset
      \/ \E q \in Nat : ToFeed = q * chunk
  <2>1. \/ ToFeed = song.len - streamOffset
        \/ ToFeed = Lesser(FreeChunks * chunk, WholeBuffer)
        BY <1>4, <1>3, <1>5, ToFeedIs
  <2>2. \E q \in Nat : FreeChunks * chunk = q * chunk
        BY FreeIs, Constants
  <2>3. \E q \in Nat : WholeBuffer = q * chunk
    <3>1. PICK c \in Nat \ {0} : c = chunk BY <1>3
    <3>2. WholeBuffer % c = 0
          BY <1>3, <3>1, MultipleIs DEF ChunksFill
    <3>3. WholeBuffer = (WholeBuffer \div c) * c /\ WholeBuffer \div c \in Nat
          BY <3>1, <3>2, Constants
    <3> QED BY <3>1, <3>3
  <2> QED BY <2>1, <2>2, <2>3 DEF Lesser
<1>10. /\ reading'[1] = streamOffset \div SectorBlocks
       /\ reading'[2] >= 1 => reading'[2] = feedLength' \div SectorBlocks
  <2>1. reading' = <<streamOffset \div SectorBlocks, WholeSectors(feedLength')>>
        BY DEF UpdateIdle, FromSector
  <2> QED BY <2>1 DEF WholeSectors
<1>11. (streamOffset \div SectorBlocks) * SectorBlocks = streamOffset
       BY <1>4, <1>5, MultipleIs
<1> QED BY <1>1, <1>2, <1>4, <1>6, <1>7, <1>8, <1>9, <1>10, <1>11
        DEF Player, Multiple

LEMMA ReadDonePlays == ASSUME IInv, Player, ReadDone PROVE Player'
<1> SUFFICES ASSUME Steady' PROVE Player' BY DEF Player
<1>1. /\ UNCHANGED <<ringVars, feedVars, late, sure>>
      /\ sm = "wait" /\ ~ready /\ reading[2] >= 1 /\ ready'
      BY DEF ReadDone
<1>2. Steady /\ FreeChunks' = FreeChunks
      BY <1>1, MaskIs DEF Steady, ringVars, feedVars, FreeChunks
<1>3. buf' = Sectors(reading[1], reading[2], buf) BY <1>2 DEF ReadDone, Steady
<1>4. PICK r : r = feedLength \div SectorBlocks OBVIOUS
<1>5. PICK a : a = reading[1] OBVIOUS
<1>6. reading[2] = r /\ a * SectorBlocks = streamOffset /\ feedLength \in Nat
      BY <1>1, <1>2, <1>4, <1>5 DEF Player
<1>7. feedLength <= WholeBuffer /\ a \in Int /\ buf \in [0..WholeBuffer - 1 -> Int]
      BY <1>5 DEF IInv, SongTypes
<1>8. r \in Nat /\ r * SectorBlocks <= feedLength /\ r * SectorBlocks \in Nat
      BY <1>4, <1>6, Constants
<1>9. \A i \in 0..WholeBuffer - 1 :
         i < r * SectorBlocks => buf'[i] = streamOffset + i
      BY <1>3, <1>5, <1>6, <1>7, <1>8, SectorsAre
<1>10. \A k \in 0..r * SectorBlocks - 1 :
          k \in 0..WholeBuffer - 1 /\ k < r * SectorBlocks
       BY <1>6, <1>7, <1>8, Constants
<1>11. \A k \in 0..r * SectorBlocks - 1 : buf'[k] = streamOffset + k
       BY <1>9, <1>10
<1> QED BY <1>1, <1>2, <1>4, <1>11 DEF Player, Multiple, ringVars, feedVars

LEMMA ReadFailsPlays == ASSUME Player, ReadFails PROVE Player'
<1>1. /\ UNCHANGED <<ringVars, feedVars, buf, ready, late, sure>>
      /\ ~ready /\ ~(reading'[2] >= 1)
  <2>1. reading' = <<0, -1>> /\ sm = "wait" BY DEF ReadFails
  <2> QED BY <2>1 DEF ReadFails
<1>2. FreeChunks' = FreeChunks BY <1>1, MaskIs DEF ringVars, FreeChunks
<1> QED BY <1>1, <1>2 DEF Player, Steady, Multiple, ringVars, feedVars

(* The ring empties meanwhile, so what was to be fed still fits.            *)
LEMMA SongPlaysOn ==
  ASSUME IInv, IInv', Player, StartSong \/ StopSong \/ ChunkPlayed
  PROVE  Player'
<1> SUFFICES ASSUME Steady' PROVE Player' BY DEF Player
<1>1. UNCHANGED <<song, chunk, found, sm, streamOffset, feedLength, buf, ready,
                  reading, late, sure>>
      BY DEF StartSong, StopSong, ChunkPlayed, feedVars, readVars
<1>2. Steady BY <1>1 DEF Steady
<1>3. PICK a : a = FreeChunks OBVIOUS
<1>4. PICK b : b = FreeChunks' OBVIOUS
<1>5. a \in Nat /\ b \in Nat /\ a <= b
  <2>1. buffered \in Nat /\ playing \in BOOLEAN
        BY Constants DEF IInv, SongTypes, Booleans
  <2>2. \/ ~playing /\ playing' /\ buffered' = buffered - 1
        \/ playing /\ ~playing' /\ buffered' = buffered
        \/ playing /\ playing' = playing /\ buffered' = buffered - 1
        BY DEF StartSong, StopSong, ChunkPlayed, playing
  <2>3. a \in Nat BY <1>3, FreeIs, Constants
  <2>4. b >= a /\ b \in Int
        BY <2>1, <2>2, <1>3, <1>4, Constants DEF FreeChunks
  <2> QED BY <2>3, <2>4
<1>6. chunk \in Nat /\ feedLength \in Int BY Constants DEF IInv, SongTypes
<1>7. feedLength <= a * chunk => feedLength <= b * chunk
  <2>1. a * chunk <= b * chunk /\ a * chunk \in Nat /\ b * chunk \in Nat
        BY <1>5, <1>6
  <2> QED BY <2>1, <1>6
<1>8. sm = "wait" => feedLength' <= FreeChunks' * chunk'
      BY <1>1, <1>2, <1>3, <1>4, <1>7 DEF Player
<1> QED BY <1>1, <1>2, <1>8 DEF Player, Multiple

(* What is fed next is what follows in the song.                            *)
LEMMA UpdateReadyPlays ==
  ASSUME IInv, Player, UpdateReady, Steady
  PROVE  Player' /\ Resumes
<1>0. /\ song \in Songs /\ chunk \in Nat \ {0} /\ Multiple(chunk)
      /\ song.len \in 0..OffsetModulus - 1
      BY SteadyIs
<1>1. PICK c : c = chunk OBVIOUS
<1>2. PICK l : l = song.len OBVIOUS
<1>3. PICK o : o = streamOffset OBVIOUS
<1>4. PICK feed : feed = feedLength OBVIOUS
<1>5. /\ c \in Nat \ {0} /\ Multiple(c) /\ l \in 0..OffsetModulus - 1
      /\ o \in Nat /\ feed <= WholeBuffer /\ feed \in Nat
  <2>1. feedLength \in Nat BY DEF Player, UpdateReady
  <2> QED BY <2>1, <1>0, <1>1, <1>2, <1>3, <1>4, Constants DEF IInv, SongTypes
<1>6. /\ Multiple(o) /\ feed <= FreeChunks * c /\ o + feed <= l
      /\ feed = l - o \/ \E q \in Nat : feed = q * c
      /\ \A k \in 0..(feed \div SectorBlocks) * SectorBlocks - 1 : buf[k] = o + k
      BY <1>1, <1>2, <1>3, <1>4 DEF Player, Multiple, UpdateReady
<1>7. PICK free \in Nat : free = FreeChunks /\ feed <= free * c
      BY <1>6, FreeIs, Constants
<1>8. free * c \in Nat BY <1>5, <1>7, Times
<1>9. Lesser(feed, free * c) = feed BY <1>5, <1>7, <1>8 DEF Lesser
<1>10. PICK n \in Nat : n = feed \div c BY <1>5
<1>11. buffered' = buffered + n
  <2>1. Feed(feed, offset, c, tail, buffered, free)
        BY <1>1, <1>4, <1>7 DEF UpdateReady
  <2>2. offset \in Nat /\ tail \in Nat /\ buffered \in Nat
        BY Constants DEF IInv, SongTypes
  <2>3. feed \in Int /\ feed >= 0 BY <1>5
  <2>4. \E m \in 0..free : Fed(m, feed, offset, c, tail, buffered, free)
        BY <2>1, <2>2, <2>3, <1>5, <1>7, FeedIs, Zenon
  <2> QED BY <2>3, <2>4, <1>9, <1>10 DEF Fed
<1>12. PICK played : played = c * n OBVIOUS
<1>13. /\ played \in Nat /\ played <= feed /\ feed - played \in 0..c - 1
       BY <1>5, <1>10, <1>12
<1>14. \A q \in Nat : feed = q * c => played = feed
       BY <1>5, <1>10, <1>12
<1>15. Multiple(played)
  <2>1. Multiple(n * c) BY <1>5, <1>10, MultipleIs
  <2>2. played = n * c BY <1>5, <1>10, <1>12
  <2> QED BY <2>1, <2>2
<1>16. chunk * (buffered' - buffered) = played
  <2>1. buffered \in Int BY Constants DEF IInv, SongTypes
  <2>2. buffered' - buffered = n BY <2>1, <1>10, <1>11
  <2> QED BY <2>2, <1>1, <1>12
<1>17. (o + Lesser(feed, free * c)) % OffsetModulus = o + feed
       BY <1>5, <1>6, <1>9, Constants
<1>18. streamOffset' = IF o + feed >= l THEN (o + feed) - l ELSE o + feed
       BY <1>2, <1>3, <1>4, <1>1, <1>7, <1>17 DEF UpdateReady, Looped
<1>19. \/ o + feed = l /\ streamOffset' = 0
       \/ o + feed < l /\ feed = played /\ streamOffset' = o + played
  <2>1. CASE o + feed = l BY <2>1, <1>18, <1>5
  <2>2. CASE o + feed # l
    <3>1. o + feed < l /\ feed # l - o BY <2>2, <1>5, <1>6
    <3>2. feed = played BY <3>1, <1>6, <1>14
    <3> QED BY <3>1, <3>2, <1>18, <1>5
  <2> QED BY <2>1, <2>2
<1>20. Player'
  <2>1. sm' # "wait" /\ song' = song BY DEF UpdateReady
  <2>2. \E y \in Nat : streamOffset' = y /\ Multiple(y) /\ y <= l
    <3>1. CASE streamOffset' = 0
          BY <3>1, <1>5, Constants DEF Multiple
    <3>2. CASE o + feed < l /\ feed = played /\ streamOffset' = o + played
      <4>1. Multiple(o + played) BY <1>5, <1>6, <1>13, <1>15, MultipleIs
      <4>2. o + played \in Nat /\ o + played <= l BY <3>2, <1>5, <1>13
      <4> QED BY <3>2, <4>1, <4>2
    <3> QED BY <1>19, <3>1, <3>2
  <2>3. Multiple(streamOffset') /\ streamOffset' <= song'.len
        BY <2>1, <2>2, <1>2
  <2> QED BY <2>1, <2>3 DEF Player, Multiple
<1>21. Resumes
  <2>1. \A k \in 0..played - 1 : buf[k] = streamOffset + k
    <3>1. played <= (feed \div SectorBlocks) * SectorBlocks
      <4>1. PICK s \in Nat \ {0} : s = SectorBlocks BY Constants
      <4>2. PICK q \in Nat : played = q * s BY <4>1, <1>15 DEF Multiple
      <4>3. feed \div s \in Nat /\ q <= feed \div s BY <4>1, <4>2, <1>5, <1>13
      <4> QED BY <4>1, <4>2, <4>3
    <3>2. (feed \div SectorBlocks) * SectorBlocks \in Nat
          BY <1>5, Constants
    <3> QED BY <3>1, <3>2, <1>3, <1>6, <1>13
  <2>2. \/ streamOffset' = streamOffset + played
        \/ streamOffset' = 0 /\ song.len - (streamOffset + played) \in 0..chunk - 1
    <3>1. CASE o + feed = l /\ streamOffset' = 0
      <4>1. l - (o + played) \in 0..c - 1 BY <3>1, <1>5, <1>13
      <4> QED BY <3>1, <4>1, <1>1, <1>2, <1>3
    <3>2. CASE streamOffset' = o + played BY <3>2, <1>3
    <3> QED BY <1>19, <3>1, <3>2
  <2> QED BY <2>1, <2>2, <1>16 DEF Resumes
<1> QED BY <1>20, <1>21

LEMMA PlayerKept == ASSUME ChunksFill, IInv, Player, [Next]_vars PROVE Player'
<1>0. IInv' BY IInvKept
<1>1. CASE LoadStep
      BY <1>1, PlayerRests, ReadBlocksPlays DEF LoadStep, UploadSector, ReadSector
<1>2. CASE UpdateReady
  <2>1. Steady' => Steady BY <1>2 DEF UpdateReady, Steady, readVars
  <2>2. CASE Steady' BY <2>1, <2>2, <1>2, UpdateReadyPlays
  <2>3. CASE ~Steady' BY <2>3 DEF Player
  <2> QED BY <2>2, <2>3
<1>3. CASE UpdateIdle BY <1>3, UpdateIdlePlays
<1>4. CASE Background
  <2>1. CASE Overrun BY <2>1, PlayerRests DEF Overrun
  <2> QED BY <1>4, <2>1, ReadDonePlays, ReadFailsPlays, LatePlays DEF Background
<1>5. CASE Client
  <2>1. ASSUME NEW s \in Sounds, NEW ch \in Channels, Play(s, ch) PROVE Player'
        BY <2>1, PlayerRests DEF Play
  <2>2. ASSUME NEW s \in Sounds, NEW f \in Files, LoadSoundFromBinary(s, f)
        PROVE  Player'
        BY <2>2, PlayerRests DEF LoadSoundFromBinary
  <2>3. ASSUME NEW s \in Sounds, NEW f \in Files, BeginLoad(s, f) PROVE Player'
        BY <2>3, ReadBlocksPlays DEF BeginLoad
  <2>4. CASE SongMissing
    <3>1. ~Steady' BY <2>4 DEF SongMissing, Steady
    <3> QED BY <3>1 DEF Player
  <2>5. ASSUME NEW g \in Songs, LoadSong(g) PROVE Player'
        BY <2>5, <1>0, LoadSongPlays
  <2>6. CASE StartSong \/ StopSong BY <2>6, <1>0, SongPlaysOn
  <2> QED BY <1>5, <2>1, <2>2, <2>3, <2>4, <2>5, <2>6 DEF Client
<1>6. CASE External
  <2>1. ASSUME NEW ch \in Channels, VoiceEnds(ch) PROVE Player'
        BY <2>1, PlayerRests DEF VoiceEnds
  <2> QED BY <1>6, <2>1, <1>0, SongPlaysOn DEF External
<1>7. CASE UNCHANGED vars BY <1>7, PlayerRests DEF vars
<1> QED BY <1>1, <1>2, <1>3, <1>4, <1>5, <1>6, <1>7 DEF Next, Update

(* What stream_update feeds of a song of whole-sector chunks is what was     *)
(* read for it: the song's blocks from where the last feed ended to less     *)
(* than a chunk before its end, and then from its start (stream.c:300-318),  *)
(* whatever the length of its chunks, the ring and streamBuffer.  It says    *)
(* nothing of a feed that never comes, as when less than a sector is left.   *)
(* The buffer must hold whole chunks: otherwise what is fed of it ends       *)
(* within a chunk, and the rest of that chunk is skipped.                    *)
THEOREM FedInOrder == ASSUME ChunksFill PROVE Spec => SongInOrder
<1>1. IInv /\ Player /\ [Next]_vars => (IInv /\ Player)'
      BY IInvKept, PlayerKept
<1>2. IInv /\ Player /\ [Next]_vars => [UpdateReady /\ Steady => Resumes]_vars
      BY UpdateReadyPlays
<1> QED BY TypesInit, PlayerInit, <1>1, <1>2, PTL DEF Spec, SongInOrder

-------------------------------------------------------------------------------
(* The memory. *)

(* No sound is longer than the bound up to which the data are counted.      *)
Counted == \A f \in Files : f.vag => f.len % LengthModulus <= 16 * MaxData

LEMMA SlicesIs ==
  ASSUME NEW bytes \in Nat
  PROVE  Slices(bytes) = (bytes + 12) \div 16 /\ Slices(bytes) \in Nat
         /\ (bytes >= 4 => Slices(bytes) > 0)
BY DEF Slices

(* What was stored stays, if nothing but free blocks and the ring change.   *)
LEMMA StoredStays ==
  ASSUME IInv, IInv', alloc <= alloc',
         \A b \in 1..alloc - 1 : ~InSong(b) =>
             ram'[b] = ram[b] /\ b \notin offset'..offset' + NumChunks * chunk' - 1
  PROVE  /\ \A r \in Structures, n \in Nat : Kept(r, n) => Kept(r, n)'
         /\ Stored \subseteq Stored'
<1>1. alloc \in Nat /\ alloc' \in Nat BY Constants DEF IInv, SoundTypes
<1>2. \A a, z \in Nat : a <= z => \A b \in 1..a - 1 : b \in 1..z - 1 OBVIOUS
<1>3. \A b \in 1..alloc - 1 : ~InSong(b) => ram'[b] = ram[b] /\ ~InSong(b)'
      BY DEF InSong
<1>4. ASSUME NEW r \in Structures, NEW n \in Nat, Kept(r, n) PROVE Kept(r, n)'
  <2> SUFFICES ASSUME NEW k \in 0..n - 1
               PROVE  /\ r.offset + k \in 1..alloc' - 1
                      /\ ~InSong(r.offset + k)'
                      /\ ram'[r.offset + k] = <<r.file, k>>
      BY DEF Kept
  <2>1. PICK b : b = r.offset + k OBVIOUS
  <2>2. b \in 1..alloc - 1 /\ ~InSong(b) /\ ram[b] = <<r.file, k>>
        BY <1>4, <2>1 DEF Kept
  <2>3. b \in 1..alloc' - 1 /\ ~InSong(b)' /\ ram'[b] = <<r.file, k>>
        BY <2>2, <1>1, <1>2, <1>3, Zenon
  <2> QED BY <2>1, <2>3
<1>5. ASSUME NEW r \in Structures, Whole(r) PROVE Whole(r)'
  <2>1. r.length \in Nat BY DEF Structures
  <2>2. Slices(r.length) \in Nat BY <2>1, SlicesIs
  <2>3. Kept(r, Slices(r.length))' BY <1>5, <2>2, <1>4 DEF Whole
  <2> QED BY <2>3, <1>5 DEF Whole
<1> QED BY <1>4, <1>5 DEF Stored

LEMMA MemoryInit == Init => Memory
<1> SUFFICES ASSUME Init PROVE Memory OBVIOUS
<1>1. NumChunks * 0 = 0 BY Constants
<1>2. offset + NumChunks * chunk <= alloc BY <1>1 DEF Init
<1>3. \A s \in Sounds : sounds[s].offset = 0 BY NoSoundIs DEF Init
<1>4. \A ch \in Channels : voices[ch] = Silent BY DEF Init
<1> QED BY <1>2, <1>3, <1>4 DEF Init, Memory

(* What has gone wrong is never undone.                                     *)
FaultsStay == /\ timeouts' = timeouts \/ timeouts' = timeouts + 1
              /\ errors' \in {errors, errors + 1, errors + 2}
              /\ wild => wild'

LEMMA UploadHereFaults ==
  ASSUME NEW n, NEW bytes, NEW f, NEW from, UploadHere(n, bytes, f, from),
         errors' = errors
  PROVE  FaultsStay
<1>1. CASE wild' = (wild \/ Overruns(bytes)) /\ UNCHANGED timeouts
      BY <1>1 DEF FaultsStay, Overruns
<1>2. CASE timeouts' = timeouts + 1 /\ UNCHANGED <<ram, wild>>
      BY <1>2 DEF FaultsStay
<1> QED BY <1>1, <1>2 DEF UploadHere

LEMMA CalmBefore == ASSUME IInv, [Next]_vars, Calm' PROVE Calm
<1>1. timeouts \in Nat /\ errors \in Nat BY DEF IInv, SoundTypes
<1>2. FaultsStay
  <2>1. CASE UploadSector BY <2>1, UploadHereFaults DEF UploadSector
  <2>2. ASSUME UNCHANGED <<timeouts, wild>>,
               errors' \in {errors, errors + 1, errors + 2}
        PROVE  FaultsStay
        BY <2>2 DEF FaultsStay
  <2>3. ASSUME UNCHANGED <<timeouts, wild>>, NEW failed, ReadBlocks(failed)
        PROVE  FaultsStay
        BY <2>3, <2>2 DEF ReadBlocks
  <2>4. CASE ReadSector BY <2>4, <2>3 DEF ReadSector
  <2>5. ASSUME NEW s \in Sounds, NEW f \in Files, BeginLoad(s, f)
        PROVE  FaultsStay
        BY <2>5, <2>3 DEF BeginLoad
  <2>6. ASSUME NEW s \in Sounds, NEW f \in Files, LoadSoundFromBinary(s, f)
        PROVE  FaultsStay
    <3>1. CASE f.vag BY <3>1, <2>6, UploadHereFaults DEF LoadSoundFromBinary
    <3>2. CASE ~f.vag BY <3>2, <2>6, <2>2 DEF LoadSoundFromBinary
    <3> QED BY <3>1, <3>2
  <2>7. ASSUME NEW g \in Songs, LoadSong(g) PROVE FaultsStay
    <3>1. PICK h \in Songs : FeedFirst(h) BY <2>7, LoadSongIs DEF RingOf
    <3>2. wild => wild' BY <3>1 DEF FeedFirst
    <3> QED BY <3>2, <2>7, LoadSongIs DEF LoadSong, FaultsStay
  <2>8. CASE UNCHANGED faultVars BY <2>8, <2>2 DEF faultVars
  <2>9. CASE Update BY <2>9, <2>8 DEF Update, UpdateIdle, UpdateReady
  <2>10. CASE External
         BY <2>10, <2>8 DEF External, ChunkPlayed, VoiceEnds
  <2>11. CASE StartSong \/ StopSong \/ \E s \in Sounds, ch \in Channels : Play(s, ch)
         BY <2>11, <2>8 DEF StartSong, StopSong, Play
  <2>12. CASE UNCHANGED vars BY <2>12, <2>8 DEF vars
  <2>13. CASE SongMissing BY <2>13, <2>3 DEF SongMissing
  <2>14. CASE Background
    <3>1. CASE Overrun BY <3>1 DEF Overrun, FaultsStay
    <3>2. CASE ReadFails BY <3>2, <2>2 DEF ReadFails
    <3>3. CASE LateError BY <3>3, <2>2 DEF LateError
    <3>4. CASE ReadDone \/ LateSector \/ LateINT2
          BY <3>4, <2>8 DEF ReadDone, LateSector, LateINT2
    <3> QED BY <2>14, <3>1, <3>2, <3>3, <3>4 DEF Background, Late
  <2> QED BY <2>1, <2>4, <2>5, <2>6, <2>7, <2>9, <2>10, <2>11, <2>12, <2>13, <2>14
          DEF Next, LoadStep, Client
<1> QED BY <1>1, <1>2 DEF Calm, FaultsStay

(* Steps that leave the memory and the loader alone.                        *)
LEMMA MemoryRests ==
  ASSUME Memory, Calm' => Calm,
         UNCHANGED <<alloc, ram, sounds, loadVars, offset, chunk>>,
         \A ch \in Channels : voices'[ch] \in {voices[ch], Silent, Stream}
  PROVE  Memory'
<1>1. Stored' = Stored BY DEF Stored, Whole, Kept, InSong
<1>2. \A done \in Nat : Arrived(done) => Arrived(done)'
      BY DEF Arrived, Kept, InSong, loadVars
<1>3. ASSUME Calm', NEW ch \in Channels
      PROVE  voices'[ch] \in {Silent, Stream} \cup Stored'
      BY <1>1, <1>3 DEF Memory
<1> QED BY <1>1, <1>2, <1>3 DEF Memory, loadVars

LEMMA PlayStores ==
  ASSUME IInv, Memory, NEW s \in Sounds, NEW c \in Channels, Play(s, c)
  PROVE  Memory'
<1>1. UNCHANGED <<spuVars, loadVars, songVars, faultVars>> /\ pc = "idle"
      BY DEF Play
<1>2. Stored' = Stored /\ Calm' = Calm
      BY <1>1 DEF Stored, Whole, Kept, InSong, Calm, spuVars, songVars, ringVars,
                  faultVars
<1>3. ASSUME Calm' PROVE \A ch \in Channels : voices'[ch] \in {Silent, Stream} \cup Stored'
  <2>1. sounds[s] \in Stored BY <1>1, <1>2, <1>3 DEF Memory, Play, Loaded
  <2>2. \A ch \in Channels : voices'[ch] \in {voices[ch], sounds[s]}
        BY DEF Play, IInv, SoundTypes
  <2> QED BY <2>1, <2>2, <1>2, <1>3 DEF Memory
<1> QED BY <1>1, <1>2, <1>3
        DEF Memory, spuVars, loadVars, songVars, ringVars

LEMMA LoadSongStores ==
  ASSUME IInv, IInv', Memory, Calm' => Calm, NEW g \in Songs, LoadSong(g)
  PROVE  Memory'
<1>0. /\ alloc \in Nat /\ alloc' \in Nat /\ offset' \in Nat /\ chunk' \in Nat
      /\ offset \in Nat /\ chunk \in Nat /\ NumChunks * chunk' \in Nat
      /\ NumChunks * chunk \in Nat
  <2>1. /\ alloc \in Nat /\ alloc' \in Nat /\ offset' \in Nat /\ chunk' \in Nat
        /\ offset \in Nat /\ chunk \in Nat
        BY Constants DEF IInv, SoundTypes, SongTypes
  <2>2. NumChunks \in Nat BY Constants
  <2> QED BY <2>1, <2>2, Times, Zenon
<1>1. PICK ring : ring = NumChunks * chunk' OBVIOUS
<1>2. PICK h \in Songs : RingOf(h) BY LoadSongIs
<1>3. /\ ring \in Nat /\ alloc' = alloc + ring
      /\ \/ offset' = offset /\ chunk' = chunk
         \/ offset' = alloc
      BY <1>0, <1>1, <1>2, RingIs
<1>4. offset + NumChunks * chunk <= alloc BY DEF Memory
<1>5. offset' + ring <= alloc'
  <2>1. CASE offset' = offset /\ chunk' = chunk
        BY <2>1, <1>0, <1>1, <1>3, <1>4
  <2>2. CASE offset' = alloc BY <2>2, <1>0, <1>3
  <2> QED BY <2>1, <2>2, <1>3
<1>6. offset' + NumChunks * chunk' <= alloc' BY <1>1, <1>5
<1>7. UNCHANGED <<sounds, cur, held, voices>> /\ pc = "idle" BY DEF LoadSong
<1>8. CASE chunk' = 0
  <2>1. pc' = "feed" /\ ~Calm' BY <1>2, <1>8 DEF RingOf, FeedFirst, Calm
  <2> QED BY <2>1, <1>6 DEF Memory
<1>9. CASE chunk' # 0
  <2>1. PICK free \in 0..NumChunks, t \in Nat, b \in Nat : FirstFeed(h, free, t, b)
    <3>1. FeedFirst(h) BY <1>2 DEF RingOf
    <3> QED BY <3>1, <1>9, FeedFirstIs
  <2>2. PICK c : c = chunk' OBVIOUS
  <2>3. PICK o : o = offset' OBVIOUS
  <2>4. Feed(WholeBuffer, o, c, t, b, free) /\ pc' = pc
        BY <2>1, <2>2, <2>3 DEF FirstFeed
  <2>5. WholeBuffer \in Int /\ free \in Nat /\ o \in Nat /\ c \in Nat \ {0}
        BY <1>0, <1>9, <2>2, <2>3, Constants
  <2>6. \E n \in 0..free : Fed(n, WholeBuffer, o, c, t, b, free)
        BY <2>4, <2>5, FeedIs, Zenon
  <2>7. \A x \in Ram : x \in o..o + NumChunks * c - 1 \/ ram'[x] = ram[x]
        BY <2>6, Zenon DEF Fed
  <2>8. \A x \in Ram : x \in offset'..offset' + ring - 1 \/ ram'[x] = ram[x]
        BY <2>2, <2>3, <2>7, <1>1
  <2>9. ASSUME NEW x \in 1..alloc - 1, ~InSong(x)
        PROVE  ram'[x] = ram[x] /\ x \notin offset'..offset' + NumChunks * chunk' - 1
    <3>1. x \in Ram BY <1>0, Constants DEF IInv, SoundTypes, Ram
    <3>2. x \notin offset'..offset' + ring - 1
      <4>1. CASE offset' = offset /\ chunk' = chunk
            BY <4>1, <1>1, <2>9 DEF InSong
      <4>2. CASE offset' = alloc BY <4>2, <1>0, <1>3
      <4> QED BY <4>1, <4>2, <1>3
    <3> QED BY <3>1, <3>2, <2>8, <1>1
  <2>10. alloc <= alloc' BY <1>0, <1>3
  <2>11. Stored \subseteq Stored' BY <2>9, <2>10, StoredStays
  <2> QED BY <2>4, <2>11, <1>6, <1>7 DEF Memory
<1> QED BY <1>8, <1>9

LEMMA UpdateReadyStores ==
  ASSUME IInv, IInv', Memory, Calm' => Calm, UpdateReady
  PROVE  Memory'
<1>1. chunk # 0 /\ pc = "idle" BY DEF IInv, Ring, UpdateReady
<1>2. /\ feedLength \in Int /\ offset \in Nat /\ chunk \in Nat \ {0}
      /\ tail \in Nat /\ buffered \in Nat /\ FreeChunks \in Nat
  <2>1. FreeChunks \in Nat BY FreeIs, Constants
  <2> QED BY <2>1, <1>1, Constants DEF IInv, SongTypes
<1>3. Feed(feedLength, offset, chunk, tail, buffered, FreeChunks)
      BY DEF UpdateReady
<1>4. \E n \in 0..FreeChunks :
          Fed(n, feedLength, offset, chunk, tail, buffered, FreeChunks)
      BY <1>2, <1>3, FeedIs, Zenon
<1>5. \A x \in Ram : x \in offset..offset + NumChunks * chunk - 1 \/ ram'[x] = ram[x]
      BY <1>4, Zenon DEF Fed
<1>6. UNCHANGED <<alloc, sounds, loadVars, voices, offset, chunk>>
      BY DEF UpdateReady
<1>7. alloc \in 1..RamBlocks BY DEF IInv, SoundTypes
<1>8. \A b \in 1..alloc - 1 : b \in Ram BY <1>7, Constants DEF Ram
<1>9. \A b \in 1..alloc - 1 : ~InSong(b) =>
          ram'[b] = ram[b] /\ b \notin offset'..offset' + NumChunks * chunk' - 1
      BY <1>5, <1>6, <1>8, Zenon DEF InSong
<1>10. alloc <= alloc' BY <1>6, <1>7, Constants
<1>11. Stored \subseteq Stored' BY <1>9, <1>10, StoredStays
<1> QED BY <1>1, <1>6, <1>11 DEF Memory, loadVars

(* An upload that ends well puts n blocks behind what is there.             *)
Placed(n, bytes, f, from) ==
    /\ bytes >= 4 /\ n = Uploaded(bytes) /\ alloc' = alloc + n
    /\ \A k \in 0..n - 1 : ram'[alloc + k] = <<f, from + k>>
    /\ \A k \in 0..n - 1 : alloc + k \in 1..alloc' - 1 /\ ~InSong(alloc + k)
    /\ \A r \in Structures, m \in Nat : Kept(r, m) => Kept(r, m)'
    /\ Stored \subseteq Stored'

LEMMA UploadHereStores ==
  ASSUME IInv, IInv', Memory, NEW n \in Nat, NEW bytes \in Int, NEW f, NEW from \in Nat,
         n \in {0, Uploaded(bytes)}, UploadHere(n, bytes, f, from), timeouts' = 0, ~wild',
         UNCHANGED <<offset, chunk>>
  PROVE  Placed(n, bytes, f, from)
<1>1. timeouts \in Nat /\ alloc \in 1..RamBlocks /\ alloc' \in 1..RamBlocks
      BY DEF IInv, SoundTypes
<1>2. timeouts' # timeouts + 1 BY <1>1
<1>3. /\ n = Uploaded(bytes) /\ wild' = (wild \/ bytes < 4)
      /\ ram' = IF bytes < 4 THEN [b \in Ram |-> <<WildData, 0>>]
                             ELSE Overlay(alloc, n, f, from)
      BY <1>2 DEF UploadHere, Overruns
<1>4. ~(bytes < 4) BY <1>3
<1>5. ram' = [b \in Ram |-> IF b \in alloc..alloc + n - 1
                            THEN <<f, from + b - alloc>> ELSE ram[b]]
      BY <1>3, <1>4 DEF Overlay
<1>6. alloc' = alloc + n BY DEF UploadHere
<1>7. PICK a \in Nat : a = alloc BY <1>1, Constants
<1>8. PICK z \in Nat : z = alloc' BY <1>1, Constants
<1>9. a >= 1 /\ z = a + n /\ z <= RamBlocks BY <1>1, <1>6, <1>7, <1>8, Constants
<1>10. \A k \in 0..n - 1 : ram'[alloc + k] = <<f, from + k>>
  <2> SUFFICES ASSUME NEW k \in 0..n - 1 PROVE ram'[a + k] = <<f, from + k>>
      BY <1>7
  <2>1. a + k \in Ram /\ a + k \in a..a + n - 1 BY <1>9, Constants DEF Ram
  <2>2. from + (a + k) - a = from + k OBVIOUS
  <2>3. ram'[a + k] = <<f, from + (a + k) - a>> BY <1>5, <1>7, <2>1
  <2> QED BY <2>2, <2>3
<1>11. ASSUME NEW b \in 1..alloc - 1, ~InSong(b)
       PROVE  ram'[b] = ram[b] /\ b \notin offset'..offset' + NumChunks * chunk' - 1
  <2>1. b \in Ram /\ b \notin a..a + n - 1 BY <1>7, <1>9, Constants DEF Ram
  <2>2. ram'[b] = ram[b] BY <1>5, <1>7, <2>1
  <2> QED BY <2>2, <1>11 DEF InSong
<1>12. alloc <= alloc' BY <1>7, <1>8, <1>9
<1>13. \A k \in 0..n - 1 : alloc + k \in 1..alloc' - 1 /\ ~InSong(alloc + k)
  <2>1. PICK ring : ring = NumChunks * chunk OBVIOUS
  <2>2. offset \in Nat /\ ring \in Nat
    <3>1. offset \in Nat /\ chunk \in Nat /\ NumChunks \in Nat
          BY Constants DEF IInv, SongTypes
    <3> QED BY <2>1, <3>1, Times, Zenon
  <2>3. offset + ring <= a BY <2>1, <1>7 DEF Memory
  <2>4. ASSUME NEW k \in 0..n - 1
        PROVE  alloc + k \in 1..alloc' - 1 /\ ~InSong(alloc + k)
    <3>1. alloc + k \in 1..alloc' - 1 BY <1>7, <1>8, <1>9
    <3>2. alloc + k \notin offset..offset + ring - 1 BY <1>7, <2>2, <2>3
    <3> QED BY <2>1, <3>1, <3>2 DEF InSong
  <2> QED BY <2>4
<1> QED BY <1>3, <1>4, <1>6, <1>10, <1>11, <1>12, <1>13, StoredStays DEF Placed

LEMMA LoadSoundFromBinaryStores ==
  ASSUME Counted, IInv, IInv', Memory, Calm' => Calm, NEW s \in Sounds,
         NEW f \in Files, LoadSoundFromBinary(s, f)
  PROVE  Memory'
<1>0. /\ UNCHANGED <<loadVars, voices, offset, chunk>> /\ pc = "idle"
      /\ alloc \in 1..RamBlocks /\ alloc' \in 1..RamBlocks
      BY DEF LoadSoundFromBinary, songVars, ringVars, IInv, SoundTypes
<1>1. SoundOf(f) \in Structures BY <1>0, SoundOfIs
<1>2. /\ sounds'[s] = SoundOf(f)
      /\ \A x \in Sounds : x # s => sounds'[x] = sounds[x]
      BY <1>1 DEF IInv, SoundTypes, LoadSoundFromBinary
<1>3. CASE ~f.vag
  <2>1. UNCHANGED <<alloc, ram>> BY <1>3 DEF LoadSoundFromBinary
  <2>2. Stored' = Stored BY <2>1, <1>0 DEF Stored, Whole, Kept, InSong
  <2>3. sounds'[s].offset = 0 BY <1>3, <1>0, <1>2, SoundOfIs, NoSoundIs
  <2> QED BY <2>1, <2>2, <2>3, <1>0, <1>2 DEF Memory, loadVars
<1>4. CASE f.vag
  <2>1. PICK bytes : bytes = SoundOf(f).length OBVIOUS
  <2>2. bytes \in Nat BY <2>1, <1>4, <1>0, SoundOfIs
  <2>3. PICK n \in {0, Uploaded(bytes)} : UploadHere(n, bytes, f, 0)
        BY <1>4, <1>2, <2>1 DEF LoadSoundFromBinary
  <2>4. n \in Nat BY <2>2, <2>3, UploadedIs
  <2>5. alloc' = alloc + n BY <2>3 DEF UploadHere
  <2>6. /\ alloc \in Nat /\ alloc' \in Nat /\ alloc' >= alloc
        BY <1>0, <2>4, <2>5, Constants
  <2>7. offset' + NumChunks * chunk' <= alloc'
    <3>1. offset \in Nat /\ chunk \in Nat /\ NumChunks \in Nat
          BY Constants DEF IInv, SongTypes
    <3>2. NumChunks * chunk \in Nat BY <3>1, Times, Zenon
    <3>3. offset + NumChunks * chunk <= alloc BY DEF Memory
    <3>4. offset + NumChunks * chunk <= alloc' BY <3>1, <3>2, <3>3, <2>6
    <3> QED BY <3>4, <1>0
  <2>8. ASSUME Calm'
        PROVE  /\ \A x \in Sounds : sounds'[x].offset # 0 => sounds'[x] \in Stored'
               /\ \A ch \in Channels : voices'[ch] \in {Silent, Stream} \cup Stored'
    <3>1. bytes \in Int /\ 0 \in Nat /\ timeouts' = 0 /\ ~wild'
          BY <2>2, <2>8 DEF Calm
    <3>2. Placed(n, bytes, f, 0)
      <4>1. UNCHANGED <<offset, chunk>> BY <1>0
      <4> QED BY <3>1, <4>1, <2>3, <2>4, UploadHereStores, Zenon
    <3>3. PICK r \in Structures : r = SoundOf(f) BY <1>1
    <3>4. r.offset = alloc /\ r.file = f /\ r.length = bytes
          BY <3>3, <1>4, <1>0, <2>1, SoundOfIs
    <3>5. n = Slices(bytes) /\ n > 0
          BY <3>2, <2>2, UploadedIs, SlicesIs DEF Placed
    <3>6. Kept(r, n)'
      <4>1. \A k \in 0..n - 1 : 0 + k = k BY <2>4
      <4>2. \A k \in 0..n - 1 : /\ r.offset + k \in 1..alloc' - 1
                                /\ r.offset + k \notin
                                       offset'..offset' + NumChunks * chunk' - 1
                                /\ ram'[r.offset + k] = <<r.file, k>>
            BY <3>2, <3>4, <4>1, <1>0, Zenon DEF Placed, InSong
      <4> QED BY <4>2 DEF Kept, InSong
    <3>7. Whole(r)' BY <3>4, <3>5, <3>6, <1>0, Constants DEF Whole
    <3>8. sounds'[s] \in Stored' BY <3>3, <3>7, <1>2 DEF Stored
    <3> QED BY <3>2, <3>8, <2>8, <1>0, <1>2 DEF Memory, Placed
  <2> QED BY <2>7, <2>8, <1>0 DEF Memory, loadVars
<1> QED BY <1>3, <1>4

LEMMA BeginLoadStores ==
  ASSUME Counted, IInv, IInv', Memory, Calm' => Calm, NEW s \in Sounds,
         NEW f \in Files, BeginLoad(s, f)
  PROVE  Memory'
<1>0. /\ UNCHANGED <<alloc, ram, voices, held, offset, chunk>> /\ pc = "idle"
      /\ alloc \in 1..RamBlocks
      BY DEF BeginLoad, ringVars, IInv, SoundTypes
<1>1. PICK h \in Files :
        /\ sounds' = [sounds EXCEPT ![s] = SoundOf(h)]
        /\ cur' = sounds'[s] /\ rem' = sounds'[s].length
        /\ IF h.vag THEN /\ pc' = "upload" /\ space' = SectorSize - HeaderSize
                         /\ next' = space' \div 16
                    ELSE UNCHANGED <<pc, space, next>>
      BY DEF BeginLoad
<1>2. SoundOf(h) \in Structures BY <1>0, SoundOfIs
<1>3. /\ sounds'[s] = SoundOf(h)
      /\ \A x \in Sounds : x # s => sounds'[x] = sounds[x]
      BY <1>1, <1>2 DEF IInv, SoundTypes
<1>4. Stored' = Stored BY <1>0 DEF Stored, Whole, Kept, InSong
<1>5. held = 0 BY <1>0 DEF Memory
<1>6. CASE ~h.vag
  <2>1. sounds'[s].offset = 0 BY <1>6, <1>0, <1>3, SoundOfIs, NoSoundIs
  <2>2. pc' = "idle" BY <1>0, <1>1, <1>6
  <2> QED BY <2>1, <2>2, <1>0, <1>3, <1>4, <1>5 DEF Memory
<1>7. CASE h.vag
  <2>1. pc' = "upload" /\ next' = space' \div 16 /\ cur' = sounds'[s]
        BY <1>1, <1>7
  <2>2. PICK bytes : bytes = SoundOf(h).length OBVIOUS
  <2>3. bytes \in Nat /\ bytes <= 16 * MaxData /\ SoundOf(h).offset = alloc
        BY <2>2, <1>7, <1>0, SoundOfIs DEF Counted
  <2>4. rem' = bytes /\ cur'.length = bytes /\ cur'.offset = alloc'
        BY <2>2, <2>3, <1>0, <1>1, <1>3
  <2>5. Arrived(0)'
    <3>1. cur'.offset # 0 BY <2>4, <1>0, Constants
    <3>2. cur'.length = rem' + 16 * 0 /\ cur'.length <= 16 * MaxData
          BY <2>3, <2>4
    <3>3. alloc' = cur'.offset + 0 BY <2>4, <1>0, Constants
    <3>4. Kept(cur, 0)' BY DEF Kept
    <3>5. rem' > space' => next' = 0 + space' \div 16
      <4>1. space' \in Nat /\ next' \in Nat BY DEF IInv, SoundTypes
      <4> QED BY <4>1, <2>1
    <3> QED BY <3>1, <3>2, <3>3, <3>4, <3>5, <2>1, <1>0, <1>5 DEF Arrived
  <2>6. \E done \in Nat : Arrived(done)' BY <2>5
  <2> QED BY <2>1, <2>6, <1>0, <1>3, <1>4 DEF Memory
<1> QED BY <1>6, <1>7

LEMMA ReadSectorStores ==
  ASSUME IInv, IInv', Memory, Calm' => Calm, ReadSector
  PROVE  Memory'
<1>0. /\ UNCHANGED <<spuVars, cur, rem, voices, offset, chunk>>
      /\ pc = "read" /\ pc' = "upload" /\ space' = SectorSize
      BY DEF ReadSector, ringVars
<1>1. Stored' = Stored BY <1>0 DEF Stored, Whole, Kept, InSong, spuVars
<1>2. ASSUME Calm' PROVE \E done \in Nat : Arrived(done)'
  <2>1. errors \in Nat /\ errors' = 0 /\ next \in Nat /\ rem \in Int
        BY <1>2 DEF Calm, IInv, SoundTypes
  <2>2. held' = next BY <2>1 DEF ReadSector, ReadBlocks
  <2>3. PICK done \in Nat : Arrived(done) BY <1>0, <1>2 DEF Memory
  <2>4. Kept(cur, done)' BY <2>3, <1>0 DEF Arrived, Kept, InSong, spuVars
  <2>5. rem > 3 => next = done BY <2>3, <1>0 DEF Arrived
  <2>6. rem > SectorSize => next' = done + (SectorSize \div 16)
    <3> SUFFICES ASSUME rem > SectorSize
                 PROVE  next' = done + (SectorSize \div 16)
        OBVIOUS
    <3>1. next = done BY <2>1, <2>5, Constants
    <3>2. rem + 16 * done <= 16 * MaxData BY <2>3 DEF Arrived
    <3>3. done + SectorBlocks <= MaxData
          BY <3>2, <2>1, Constants, AudioAssumption
    <3>4. PICK m : m = done + SectorBlocks OBVIOUS
    <3>5. m \in Nat /\ next' = Lesser(m, MaxData)
          BY <3>1, <3>4, Constants DEF ReadSector
    <3>6. next' = m BY <3>3, <3>4, <3>5, AudioAssumption DEF Lesser
    <3> QED BY <3>4, <3>6 DEF SectorBlocks
  <2>7. Arrived(done)' BY <2>2, <2>3, <2>4, <2>5, <2>6, <1>0 DEF Arrived, spuVars
  <2> QED BY <2>7
<1> QED BY <1>0, <1>1, <1>2 DEF Memory, spuVars

LEMMA UploadSectorStores ==
  ASSUME IInv, IInv', Memory, Calm' => Calm, UploadSector
  PROVE  Memory'
<1>0. /\ UNCHANGED <<sounds, voices, songVars>> /\ UNCHANGED <<offset, chunk>>
      /\ pc = "upload" /\ alloc \in 1..RamBlocks /\ alloc' \in 1..RamBlocks
      /\ rem \in Int /\ space \in Nat /\ space % 16 = 0 /\ held \in Nat
      BY DEF UploadSector, songVars, ringVars, IInv, SoundTypes, Room
<1>1. PICK bytes : bytes = Lesser(rem, space) OBVIOUS
<1>2. /\ bytes \in Int /\ bytes <= rem
      /\ \/ bytes = rem /\ rem <= space
         \/ bytes = space /\ rem > space
      BY <1>0, <1>1 DEF Lesser
<1>3. PICK n \in {0, Uploaded(bytes)} :
         UploadHere(n, bytes, cur.file, held) /\ rem' = rem - 16 * n
      BY <1>1 DEF UploadSector
<1>4. n \in Nat BY <1>2, <1>3, UploadedIs
<1>5. alloc' = alloc + n /\ alloc' >= alloc
  <2>1. alloc' = alloc + n BY <1>3 DEF UploadHere
  <2> QED BY <2>1, <1>0, <1>4, Constants
<1>6. /\ pc' \in {"idle", "read"}
      /\ pc' = "idle" <=> rem' = 0
      /\ pc' = "idle" => held' = 0
      /\ pc' = "read" => UNCHANGED <<cur, space, next, held>>
      BY DEF UploadSector, MoreToLoad
<1>7. offset' + NumChunks * chunk' <= alloc'
  <2>1. offset \in Nat /\ chunk \in Nat /\ NumChunks \in Nat
        BY Constants DEF IInv, SongTypes
  <2>2. NumChunks * chunk \in Nat BY <2>1, Times, Zenon
  <2>3. offset + NumChunks * chunk <= alloc BY DEF Memory
  <2>4. offset + NumChunks * chunk <= alloc'
        BY <2>1, <2>2, <2>3, <1>0, <1>5, Constants
  <2> QED BY <2>4, <1>0
<1>8. ASSUME Calm'
      PROVE  /\ \A s \in Sounds : sounds'[s].offset # 0 =>
                   sounds'[s] \in Stored' \/ (pc' # "idle" /\ sounds'[s] = cur')
             /\ \A ch \in Channels : voices'[ch] \in {Silent, Stream} \cup Stored'
             /\ pc' # "idle" => \E m \in Nat : Arrived(m)'
  <2>1. timeouts' = 0 /\ ~wild' BY <1>8 DEF Calm
  <2>2. PICK r \in Structures : r = cur BY DEF IInv, SoundTypes
  <2>3. PICK from \in Nat : from = held BY <1>0
  <2>4. Placed(n, bytes, r.file, from)
    <3>1. UploadHere(n, bytes, r.file, from) BY <1>3, <2>2, <2>3
    <3> QED BY <3>1, <2>1, <1>0, <1>2, <1>3, <1>4, UploadHereStores, Zenon
  <2>5. PICK done \in Nat : Arrived(done) BY <1>0, <1>8 DEF Memory
  <2>6. /\ n \in Nat /\ 16 * n <= bytes + 12 /\ bytes >= 4 /\ n > 0
        /\ n = (bytes + 12) \div 16
        BY <2>4, <1>2, UploadedIs DEF Placed
  <2>7. PICK all \in Nat : all = done + n BY <2>6
  <2>8. /\ r.offset # 0 /\ r.length = rem + 16 * done /\ r.length \in Nat
        /\ r.length <= 16 * MaxData
        /\ alloc = r.offset + done /\ r.offset \in Int
        BY <2>2, <2>5 DEF Arrived, Structures
  <2>9. r.length = rem' + 16 * all /\ alloc' = r.offset + all
        BY <2>7, <2>8, <1>0, <1>3, <1>4, <1>5
  <2>10. n > 0 => from = done
    <3>1. n > 0 => rem > 3 BY <2>6, <1>0, <1>2
    <3> QED BY <3>1, <2>3, <2>5, <1>0 DEF Arrived
  <2>11. Kept(r, all)'
    <3>1. Kept(r, done)' BY <2>2, <2>4, <2>5 DEF Placed, Arrived
    <3>2. ASSUME NEW k \in 0..all - 1
          PROVE  /\ r.offset + k \in 1..alloc' - 1
                 /\ r.offset + k \notin offset'..offset' + NumChunks * chunk' - 1
                 /\ ram'[r.offset + k] = <<r.file, k>>
      <4>1. CASE k < done
        <5>1. k \in 0..done - 1 BY <4>1, <3>2
        <5> QED BY <5>1, <3>1 DEF Kept, InSong
      <4>2. CASE k >= done
        <5>1. PICK j \in 0..n - 1 : k = done + j
          <6>1. k - done \in 0..n - 1 /\ k = done + (k - done)
                BY <4>2, <3>2, <2>7, <1>4
          <6> QED BY <6>1
        <5>2. r.offset + k = alloc + j BY <5>1, <2>8
        <5>3. /\ alloc + j \in 1..alloc' - 1 /\ ~InSong(alloc + j)
              /\ ram'[alloc + j] = <<r.file, from + j>>
              BY <2>4, <5>1, Zenon DEF Placed
        <5>4. from = done BY <2>10, <5>1, <1>4
        <5>5. from + j = k BY <5>1, <5>4
        <5>6. alloc + j \notin offset'..offset' + NumChunks * chunk' - 1
              BY <5>3, <1>0 DEF InSong
        <5> QED BY <5>2, <5>3, <5>5, <5>6, Zenon
      <4> QED BY <4>1, <4>2, <3>2
    <3> QED BY <3>2 DEF Kept, InSong
  <2>12. Stored \subseteq Stored' BY <2>4 DEF Placed
  <2>13. \A ch \in Channels : voices'[ch] \in {Silent, Stream} \cup Stored'
         BY <2>12, <1>0, <1>8 DEF Memory
  <2>14. \A s \in Sounds : sounds'[s].offset # 0 =>
             sounds'[s] \in Stored' \/ sounds'[s] = r
         BY <2>2, <2>12, <1>0, <1>8 DEF Memory
  <2>15. CASE pc' = "idle"
    <3>1. rem' = 0 BY <2>15, <1>6
    <3>2. Slices(r.length) = all
      <4>1. PICK l \in Nat : l = r.length BY <2>8
      <4>2. l = 16 * all BY <4>1, <3>1, <2>9
      <4>3. (l + 12) \div 16 = all BY <4>2
      <4> QED BY <4>1, <4>3, SlicesIs
    <3>3. Whole(r)' BY <3>2, <2>6, <2>7, <2>8, <2>11 DEF Whole
    <3>4. r \in Stored' BY <3>3 DEF Stored
    <3> QED BY <3>4, <2>13, <2>14, <2>15
  <2>16. CASE pc' = "read"
    <3>1. cur' = r /\ next' = next BY <2>16, <2>2, <1>6
    <3>2. rem' > 3 => next' = all
      <4> SUFFICES ASSUME rem' > 3 PROVE next' = all OBVIOUS
      <4>1. bytes = space /\ rem > space
        <5>1. bytes = rem => rem' <= 3 BY <2>6, <1>0, <1>3
        <5> QED BY <5>1, <1>2, <1>3, <1>0, <1>4
      <4>2. n = space \div 16 BY <4>1, <2>6, <1>0
      <4>3. next = done + (space \div 16)
            BY <4>1, <2>5, <1>0 DEF Arrived
      <4> QED BY <3>1, <4>2, <4>3, <2>7
    <3>3. Arrived(all)'
      <4>1. Kept(cur, all)' BY <3>1, <2>11 DEF Kept
      <4> QED BY <3>1, <3>2, <4>1, <2>8, <2>9, <2>16 DEF Arrived
    <3> QED BY <3>1, <3>3, <2>13, <2>14, <2>16
  <2> QED BY <2>15, <2>16, <1>6
<1> QED BY <1>6, <1>7, <1>8 DEF Memory

LEMMA MemoryKept == ASSUME Counted, IInv, Memory, [Next]_vars PROVE Memory'
<1>0. IInv' /\ (Calm' => Calm) BY IInvKept, CalmBefore
<1>1. CASE LoadStep
      BY <1>1, <1>0, UploadSectorStores, ReadSectorStores DEF LoadStep
<1>2. ASSUME UNCHANGED <<alloc, ram, sounds, loadVars, offset, chunk>>,
             \A ch \in Channels : voices'[ch] \in {voices[ch], Silent, Stream}
      PROVE  Memory'
      BY <1>2, <1>0, MemoryRests
<1>3. ASSUME UNCHANGED <<spuVars, loadVars, ringVars, voices>> PROVE Memory'
      BY <1>3, <1>2 DEF spuVars, ringVars
<1>4. CASE UpdateIdle BY <1>4, <1>3 DEF UpdateIdle
<1>5. CASE UpdateReady BY <1>5, <1>0, UpdateReadyStores
<1>6. CASE Background
  <2>1. CASE Overrun
    <3>1. ~Calm' /\ pc' = "lost" /\ UNCHANGED <<alloc, offset, chunk>>
          BY <2>1 DEF Overrun, Calm, spuVars, songVars, ringVars
    <3> QED BY <3>1 DEF Memory
  <2> QED BY <1>6, <2>1, <1>3
          DEF Background, ReadDone, ReadFails, Late, LateSector, LateINT2, LateError
<1>7. CASE StartSong \/ StopSong \/ ChunkPlayed
  <2>1. UNCHANGED <<alloc, ram, sounds, loadVars, offset, chunk>>
        BY <1>7 DEF StartSong, StopSong, ChunkPlayed, spuVars
  <2>2. \A ch \in Channels : voices'[ch] \in {voices[ch], Silent, Stream}
        BY <1>7 DEF StartSong, StopSong, ChunkPlayed, Stopped
  <2> QED BY <2>1, <2>2, <1>2
<1>8. CASE Client
  <2>1. ASSUME NEW s \in Sounds, NEW ch \in Channels, Play(s, ch) PROVE Memory'
        BY <2>1, PlayStores
  <2>2. ASSUME NEW s \in Sounds, NEW f \in Files, LoadSoundFromBinary(s, f)
        PROVE  Memory'
        BY <2>2, <1>0, LoadSoundFromBinaryStores
  <2>3. ASSUME NEW s \in Sounds, NEW f \in Files, BeginLoad(s, f) PROVE Memory'
        BY <2>3, <1>0, BeginLoadStores
  <2>4. ASSUME NEW g \in Songs, LoadSong(g) PROVE Memory'
        BY <2>4, <1>0, LoadSongStores
  <2>5. CASE SongMissing BY <2>5, <1>3 DEF SongMissing, spuVars
  <2> QED BY <1>8, <1>7, <2>1, <2>2, <2>3, <2>4, <2>5 DEF Client
<1>9. CASE External
  <2>1. ASSUME NEW ch \in Channels, VoiceEnds(ch) PROVE Memory'
    <3>1. UNCHANGED <<alloc, ram, sounds, loadVars, offset, chunk>>
          BY <2>1 DEF VoiceEnds, spuVars, songVars, ringVars
    <3>2. \A x \in Channels : voices'[x] \in {voices[x], Silent, Stream}
          BY <2>1 DEF VoiceEnds, Stopped
    <3> QED BY <3>1, <3>2, <1>2
  <2> QED BY <1>9, <1>7, <2>1 DEF External
<1>10. CASE UNCHANGED vars BY <1>10, <1>3 DEF vars, songVars
<1> QED BY <1>1, <1>4, <1>5, <1>6, <1>8, <1>9, <1>10 DEF Next, Update

(* SPU memory holds every loaded sound where its structure says, whatever    *)
(* sounds and songs are loaded before, meanwhile and later, and every voice  *)
(* plays one from its beginning, for every set of files and songs            *)
(* (spu.c:248-372, stream.c:266-267).  The bound of the hypothesis is that   *)
(* of the model's counter, not of the code.                                  *)
THEOREM SoundsStay == ASSUME Counted PROVE Spec => []SoundsIntact
<1>1. IInv /\ Memory /\ [Next]_vars => (IInv /\ Memory)'
      BY IInvKept, MemoryKept
<1>2. IInv /\ Memory => SoundsIntact
  <2> SUFFICES ASSUME IInv, Memory, Calm PROVE SoundsIntact
      BY DEF SoundsIntact, Calm
  <2>1. ASSUME NEW r \in Stored
        PROVE  /\ r.offset # 0
               /\ \A k \in 0..(r.length + 12) \div 16 - 1 :
                      ram[r.offset + k] = <<r.file, k>>
               /\ ram[r.offset] = <<r.file, 0>>
    <3>1. r \in Structures /\ Whole(r) BY DEF Stored
    <3>2. r.length \in Nat /\ r.offset \in Int BY <3>1 DEF Structures
    <3>3. PICK n \in Nat : n = Slices(r.length) /\ n = (r.length + 12) \div 16
          BY <3>2, SlicesIs
    <3>4. n > 0 /\ r.offset # 0 /\ Kept(r, n) BY <3>1, <3>3 DEF Whole
    <3>5. \A k \in 0..n - 1 : ram[r.offset + k] = <<r.file, k>>
          BY <3>4 DEF Kept
    <3>6. 0 \in 0..n - 1 /\ r.offset + 0 = r.offset BY <3>2, <3>4
    <3>7. ram[r.offset] = <<r.file, 0>> BY <3>5, <3>6, Zenon
    <3> QED BY <3>3, <3>4, <3>5, <3>7
  <2>2. ASSUME NEW s \in Sounds, Loaded(s), pc = "idle" \/ sounds[s] # cur
        PROVE  sounds[s] \in Stored
        BY <2>2 DEF Memory, Loaded
  <2>3. ASSUME NEW ch \in Channels, voices[ch] \notin {Silent, Stream}
        PROVE  voices[ch] \in Stored
        BY <2>3 DEF Memory
  <2> QED BY <2>1, <2>2, <2>3 DEF SoundsIntact
<1> QED BY TypesInit, MemoryInit, <1>1, <1>2, PTL DEF Spec
===============================================================================
