------------------------------ MODULE DisplayList ------------------------------
(***************************************************************************)
(* The menu's frames: uploads of the textures, the two display lists that  *)
(* main (src/main.c) builds with allocatePacket and printString, and their *)
(* transfer to the GPU (src/gpu.c) while the next one is built.  Of a list *)
(* its length in words is kept, of a string the characters it draws.       *)
(***************************************************************************)
EXTENDS Integers, FiniteSets

CONSTANTS
    BufferSize,     \* CHAIN_BUFFER_SIZE, in words
    MaxChunk,       \* DMA_MAX_CHUNK_SIZE
    Names,          \* drawn characters that a file name may have
    Chars,          \* their codes
    Counts,         \* entries that a listing may have
    PageSize        \* rows of a page: 16

ASSUME DisplayAssumption ==
    /\ BufferSize \in Nat /\ MaxChunk \in Nat \ {0} /\ PageSize \in Nat \ {0}
    /\ Names \subseteq 0..255 /\ Chars \subseteq 0..255 /\ Counts \subseteq 0..4096

Buffers == {0, 1}
None    == 2
VRAM    == 3        \* what a transfer of sendVRAMData reads

VARIABLES
    pc, uploads,            \* main: where it is, textures uploaded
    frame,                  \* the buffer of this frame: usingSecondFrame, before
    words, ended,           \* per list: words up to nextPacket, has an end tag
    row,                    \* rows printed
    glyph,                  \* the last index into fontSprites
    fileEntryCount, selectedindex, loading, creditsmenu,
    vblank,
    shown,                  \* GPU: the buffer displayed
    reading, drawing,       \* list or data that the DMA reads, commands left
    blocks,                 \* DMA_BCR
    cut                     \* a transfer was begun before the last had ended

listVars == <<words, ended, glyph>>
menuVars == <<fileEntryCount, selectedindex, loading, creditsmenu>>
gpuVars  == <<shown, reading, drawing, blocks, cut>>
vars == <<pc, uploads, frame, listVars, row, menuVars, vblank, gpuVars>>

Init ==
    /\ pc = "setup" /\ uploads = 0 /\ frame = 0
    /\ words = [b \in Buffers |-> 0] /\ ended = [b \in Buffers |-> FALSE]
    /\ row = 0 /\ glyph = 0
    /\ fileEntryCount = 0 /\ selectedindex = 0
    /\ loading = TRUE /\ creditsmenu = FALSE
    /\ vblank = FALSE /\ shown = 0 /\ reading = None /\ drawing = None
    /\ blocks = [size |-> 0, count |-> 0] /\ cut = FALSE

-------------------------------------------------------------------------------
(* gpu.c.                                                                   *)

\* (Hasty: a bug that does not wait.)
Hasty    == TRUE
DMADone  == reading = None
GP0Ready == drawing = None

Transfer(what) == reading' = what /\ cut' = (cut \/ reading # None)

setupGPU ==
    /\ pc = "setup" /\ pc' = "upload" /\ shown' = 0
    /\ UNCHANGED <<uploads, frame, listVars, row, menuVars, vblank, reading,
                   drawing, blocks, cut>>

\* Width, in pixels of 16 bits, and height of what main uploads: font and
\* logo, of 4 bits per pixel, each with its palette.
Font    == [width |-> 96 \div 4, height |-> 84]
Logo    == [width |-> 128 \div 4, height |-> 20]
Palette == [width |-> 16, height |-> 1]
Uploads == <<Font, Palette, Logo, Palette>>
Length(u) == (u.width * u.height) \div 2

\* (WholeChunks: a bug, what is left over after the last chunk is not sent.)
WholeChunks(length) == [size |-> MaxChunk, count |-> length \div MaxChunk]
Blocks(length) == IF length < MaxChunk THEN [size |-> length, count |-> 1]
                  ELSE [size |-> MaxChunk, count |-> length \div MaxChunk]

\* uploadIndexedTexture waits for the end of each transfer.
sendVRAMData ==
    /\ pc = "upload" /\ DMADone /\ GP0Ready /\ uploads < 4
    /\ Transfer(VRAM) /\ blocks' = Blocks(Length(Uploads[uploads + 1]))
    /\ pc' = "uploading" /\ uploads' = uploads + 1
    /\ UNCHANGED <<frame, listVars, row, menuVars, vblank, shown, drawing>>

Uploaded ==
    /\ pc = "uploading" /\ DMADone
    /\ pc' = IF uploads = 4 THEN "frame" ELSE "upload"
    /\ UNCHANGED <<uploads, frame, listVars, row, menuVars, vblank, gpuVars>>

\* allocatePacket, of packets with these numbers of commands: one word more
\* for each tag.
Packets(n, commands) == words' = [words EXCEPT ![frame] = @ + n * (commands + 1)]

\* printString: a packet for the texture page and one for each character but
\* tabs, newlines and spaces.
PageWords   == 1 + 1
GlyphWords  == 4 + 1
Printed(n)  == PageWords + n * GlyphWords

\* Characters from 0x99 on are drawn as character 0x7f.  fontSprites has this
\* many entries, the first for character 0x21.
SpriteCount     == 118
Replaced(ch)   == IF ch >= 153 THEN 127 ELSE ch
SpriteIndex(ch) == Replaced(ch) - 33

-------------------------------------------------------------------------------
(* main's loop.                                                             *)

\* The display shows the buffer of this frame, which was drawn two frames
\* before, until the list built now is sent.  The packets that begin a list
\* have 4, 3, 8 and 5 commands.
BeginFrame ==
    /\ pc = "frame" /\ shown' = frame
    /\ words' = [words EXCEPT ![frame] = (4 + 1) + (3 + 1) + (8 + 1) + (5 + 1)]
    /\ ended' = [ended EXCEPT ![frame] = FALSE]
    /\ row' = 0 /\ pc' = "menu"
    /\ UNCHANGED <<uploads, frame, glyph, menuVars, vblank, reading, drawing,
                   blocks, cut>>

\* The buttons: select toggles the credits; others select a row or begin to
\* load.
Buttons ==
    /\ pc = "menu" /\ pc' = "texts"
    /\ creditsmenu' \in BOOLEAN /\ loading' \in {loading, TRUE}
    /\ selectedindex' \in
          IF fileEntryCount = 0 THEN {0}
          ELSE {0, fileEntryCount \div 2, fileEntryCount - 1}
    /\ UNCHANGED <<uploads, frame, listVars, row, fileEntryCount, vblank,
                   gpuVars>>

Digits(n) == Cardinality({k \in {1, 10, 100, 1000} : k <= n})
Least(a, b)    == IF a < b THEN a ELSE b
Greatest(a, b) == IF a < b THEN b ELSE a

start == IF fileEntryCount >= PageSize
         THEN Least(Greatest(selectedindex - PageSize \div 2, 0),
                    fileEntryCount - PageSize)
         ELSE 0

\* (OneRowMore: a bug.)
OneRowMore == Least(start + PageSize + 1, fileEntryCount) - start
itemCount  == Least(start + PageSize, fileEntryCount) - start

\* "Please Wait Loading...", "%i of %i", "Empty Folder", the line below the
\* list and the credits, by the characters that they draw.
Texts ==
    /\ pc = "texts"
    /\ words' = [words EXCEPT ![frame] = @ +
          IF creditsmenu THEN Printed(27) + Printed(88) + Printed(39)
          ELSE IF loading THEN Printed(20)
          ELSE Printed(Digits(selectedindex + 1) + 2
                         + Greatest(Digits(fileEntryCount), 1))
               + Printed(43) + IF fileEntryCount = 0 THEN Printed(11) ELSE 0]
    /\ pc' = IF creditsmenu \/ loading \/ fileEntryCount = 0 THEN "end" ELSE "rows"
    /\ UNCHANGED <<uploads, frame, ended, row, glyph, menuVars, vblank,
                   gpuVars>>

\* A row: "%-4d %s %s\n" with the number, a sign and the name, after a
\* highlight of 3 commands if it is selected.
DrawRow ==
    /\ pc = "rows" /\ row < itemCount /\ row' = row + 1
    /\ \E n \in Names, ch \in Chars :
          /\ words' = [words EXCEPT ![frame] = @
                + (IF start + row = selectedindex THEN 3 + 1 ELSE 0)
                + Printed(Digits(start + row + 1) + 1 + n)]
          /\ glyph' = IF n = 0 THEN SpriteIndex(143) ELSE SpriteIndex(ch)
    /\ UNCHANGED <<pc, uploads, frame, ended, menuVars, vblank, gpuVars>>

LastRow == /\ pc = "rows" /\ row = itemCount /\ pc' = "end"
           /\ UNCHANGED <<uploads, frame, listVars, row, menuVars, vblank,
                          gpuVars>>

EndTag == /\ pc = "end" /\ GP0Ready /\ pc' = "wait"
          /\ ended' = [ended EXCEPT ![frame] = TRUE]
          /\ UNCHANGED <<uploads, frame, words, glyph, row, menuVars, vblank,
                         gpuVars>>

waitForVblank ==
    /\ pc = "wait" /\ vblank /\ vblank' = FALSE /\ pc' = "send"
    /\ UNCHANGED <<uploads, frame, listVars, row, menuVars, gpuVars>>

sendLinkedList ==
    /\ pc = "send" /\ DMADone /\ Transfer(frame) /\ pc' = "load"
    /\ UNCHANGED <<uploads, frame, listVars, row, menuVars, vblank, shown,
                   drawing, blocks>>

\* What was asked for is loaded, however long that takes; the next frame uses
\* the other list.  (SameFrame: a bug.)
SameFrame == frame
OtherFrame == 1 - frame

EndFrame ==
    /\ pc = "load" /\ pc' = "frame" /\ frame' = OtherFrame
    /\ IF loading
       THEN fileEntryCount' \in Counts /\ selectedindex' = 0
       ELSE UNCHANGED <<fileEntryCount, selectedindex>>
    /\ loading' = FALSE
    /\ UNCHANGED <<uploads, listVars, row, creditsmenu, vblank, gpuVars>>

-------------------------------------------------------------------------------
(* The hardware: the DMA hands commands to the GPU, which is ready for more *)
(* when it has drawn them, also in the middle of a list.                    *)

Fetch == /\ reading # None /\ drawing' = reading
         /\ UNCHANGED <<pc, uploads, frame, listVars, row, menuVars, vblank,
                        shown, reading, blocks, cut>>
LastFetch == /\ reading # None /\ reading' = None /\ drawing' = reading
             /\ UNCHANGED <<pc, uploads, frame, listVars, row, menuVars,
                            vblank, shown, blocks, cut>>
Draw == /\ drawing # None /\ drawing' = None
        /\ UNCHANGED <<pc, uploads, frame, listVars, row, menuVars, vblank,
                       shown, reading, blocks, cut>>
handleVSyncIRQ == /\ vblank' = TRUE
                  /\ UNCHANGED <<pc, uploads, frame, listVars, row, menuVars,
                                 gpuVars>>

Next == \/ setupGPU \/ sendVRAMData \/ Uploaded
        \/ BeginFrame \/ Buttons \/ Texts \/ DrawRow \/ LastRow
        \/ EndTag \/ waitForVblank \/ sendLinkedList \/ EndFrame
        \/ Fetch \/ LastFetch \/ Draw \/ handleVSyncIRQ

Spec == Init /\ [][Next]_vars

-------------------------------------------------------------------------------
\* Every transfer to the GPU runs to its end, sends all the words of an image
\* or a list with its end tag, and is not disturbed: from the moment a frame is
\* begun until its list is sent, the DMA reads neither the list that is being
\* built nor the one that draws into the buffer displayed.  It is about what
\* the DMA reads, not about what the GPU still draws: main waits for GP0 before
\* the transfer may have ended (main.c:652, 458), so that the GPU can have
\* commands of the last list left when the buffer they draw into is shown.
Building == {"menu", "texts", "rows", "end", "wait", "send"}
FrameIntact ==
    /\ ~cut
    /\ reading = VRAM => blocks.size * blocks.count = Length(Uploads[uploads])
    /\ reading \in Buffers => ended[reading]
    /\ pc \in Building /\ reading \in Buffers => reading # frame /\ reading # shown

\* The words of a list: of its beginning, of the texts around a page, of the
\* credits, and of a row with a name of n drawn characters.
BeginWords   == 24
TextWords    == Printed(10) + Printed(43)
CreditsWords == Printed(27) + Printed(88) + Printed(39)
RowWords(n)  == Printed(5 + n)
PageOf(n)    == BeginWords + TextWords + 4 + PageSize * RowWords(n)
MostWords(n) == Greatest(BeginWords + CreditsWords, PageOf(n))

\* However the selection moves, the credits come and go and folders are loaded,
\* no list outgrows a page whose names all have 255 drawn characters (main.c:602,
\* file_manager.h:5): with 16 rows, 21129 words and the end tag.
ChainBounded == \A b \in Buffers : words[b] <= MostWords(255)

\* A list with its end tag fits in its buffer: allocatePacket's assertion
\* (gpu.c:99), which release builds leave out.  (A page of names of 255 drawn
\* characters does not; one of 195 does.)
ChainFits == \A b \in Buffers : words[b] < BufferSize

\* Every character that is drawn has an entry in the table of sprites, which
\* covers 0x21 to 0x96.  (The comment in printString: an invalid character is
\* drawn as a box with a question mark.)
GlyphInTable == glyph \in 0..SpriteCount - 1
=============================================================================
