--------------------------- MODULE DisplayList_proofs ---------------------------
(***************************************************************************)
(* For every size of the buffers, of a page, of a DMA chunk and of a       *)
(* listing: no transfer to the GPU is disturbed or sends a list that is    *)
(* not finished, and no list outgrows a full page of the longest names.    *)
(***************************************************************************)
EXTENDS DisplayList, FiniteSetTheorems, TLAPS

Steps == {"setup", "upload", "uploading", "frame", "load"} \cup Building

(* The types of what the proofs look at. *)
Types ==
    /\ pc \in Steps /\ uploads \in 0..4 /\ frame \in Buffers /\ shown \in Buffers
    /\ reading \in {0, 1, None, VRAM} /\ row \in Nat
    /\ words \in [Buffers -> Nat] /\ ended \in [Buffers -> BOOLEAN]
    /\ fileEntryCount \in Nat /\ selectedindex \in Nat

(* What the GPU may be reading, and which list is finished, at each place   *)
(* of main's loop.                                                          *)
Turns ==
    /\ ~cut
    /\ pc \in {"setup", "upload"} => reading = None
    /\ pc = "uploading" => /\ uploads \in 1..4 /\ reading \in {None, VRAM}
                           /\ blocks = Blocks(Length(Uploads[uploads]))
    /\ pc \in Building \cup {"frame"} => reading \in {None, 1 - frame}
    /\ pc \in Building => shown = frame
    /\ pc = "load" => reading \in {None, frame}
    /\ reading \in Buffers => ended[reading] = TRUE
    /\ pc \in {"wait", "send", "load"} => ended[frame] = TRUE

(* sendVRAMData's assertion: what is longer than a chunk is whole chunks. *)
ChunksDivide ==
    \A k \in 1..4 : Length(Uploads[k]) < MaxChunk
                    \/ Length(Uploads[k]) % MaxChunk = 0

(* How long the lists are, names having at most n drawn characters. *)
Lengths(n) ==
    /\ \A b \in Buffers : words[b] <= MostWords(n)
    /\ pc \in {"menu", "texts"} => words[frame] = BeginWords /\ row = 0
    /\ pc = "rows" =>
          /\ row <= PageSize
          /\ words[frame] <= (BeginWords + TextWords)
                             + (IF start + row > selectedindex THEN 4 ELSE 0)
                             + row * RowWords(n)

-------------------------------------------------------------------------------
(* Arithmetic.                                                              *)

LEMMA OneMore ==
  ASSUME NEW S, IsFiniteSet(S), NEW x, NEW k \in Nat, Cardinality(S) <= k,
         NEW m, m = k + 1
  PROVE  IsFiniteSet(S \cup {x}) /\ Cardinality(S \cup {x}) <= m
<1>1. /\ IsFiniteSet(S \cup {x})
      /\ \/ Cardinality(S \cup {x}) = Cardinality(S)
         \/ Cardinality(S \cup {x}) = Cardinality(S) + 1
      BY FS_AddElement
<1>2. Cardinality(S) \in Nat BY FS_CardinalityType
<1> QED BY <1>1, <1>2

LEMMA DigitsBound == ASSUME NEW n \in Int PROVE Digits(n) \in 0..4
<1> DEFINE A == {} \cup {1}
           B == A \cup {10}
           C == B \cup {100}
           D == C \cup {1000}
           S == {k \in {1, 10, 100, 1000} : k <= n}
<1>1. IsFiniteSet({}) /\ Cardinality({}) <= 0 BY FS_EmptySet
<1>2. IsFiniteSet(A) /\ Cardinality(A) <= 1
  <2>1. PICK x, k, m : x = 1 /\ k = 0 /\ m = 1 OBVIOUS
  <2>2. k \in Nat /\ m = k + 1 /\ Cardinality({}) <= k BY <1>1, <2>1
  <2>3. IsFiniteSet({} \cup {x}) /\ Cardinality({} \cup {x}) <= m
        BY <1>1, <2>2, OneMore
  <2> QED BY Zenon, <2>1, <2>3
<1> HIDE DEF A
<1>4. IsFiniteSet(B) /\ Cardinality(B) <= 2
  <2>1. PICK x, k, m : x = 10 /\ k = 1 /\ m = 2 OBVIOUS
  <2>2. k \in Nat /\ m = k + 1 /\ Cardinality(A) <= k BY <1>2, <2>1
  <2>3. IsFiniteSet(A \cup {x}) /\ Cardinality(A \cup {x}) <= m
        BY <1>2, <2>2, OneMore
  <2> QED BY Zenon, <2>1, <2>3
<1> HIDE DEF B
<1>5. IsFiniteSet(C) /\ Cardinality(C) <= 3
  <2>1. PICK x, k, m : x = 100 /\ k = 2 /\ m = 3 OBVIOUS
  <2>2. k \in Nat /\ m = k + 1 /\ Cardinality(B) <= k BY <1>4, <2>1
  <2>3. IsFiniteSet(B \cup {x}) /\ Cardinality(B \cup {x}) <= m
        BY <1>4, <2>2, OneMore
  <2> QED BY Zenon, <2>1, <2>3
<1> HIDE DEF C
<1>6. IsFiniteSet(D) /\ Cardinality(D) <= 4
  <2>1. PICK x, k, m : x = 1000 /\ k = 3 /\ m = 4 OBVIOUS
  <2>2. k \in Nat /\ m = k + 1 /\ Cardinality(C) <= k BY <1>5, <2>1
  <2>3. IsFiniteSet(C \cup {x}) /\ Cardinality(C \cup {x}) <= m
        BY <1>5, <2>2, OneMore
  <2>4. D = C \cup {x} BY <2>1
  <2> HIDE DEF D
  <2>5. IsFiniteSet(D) /\ Cardinality(D) <= m BY Zenon, <2>3, <2>4
  <2> QED BY <2>1, <2>5
<1>3. S \subseteq D BY DEF A, B, C
<1> HIDE DEF D, S
<1>7. IsFiniteSet(S) /\ Cardinality(S) <= Cardinality(D) /\ Cardinality(S) \in Nat
      BY <1>3, <1>6, FS_Subset, FS_CardinalityType
<1>8. Cardinality(D) \in Nat BY <1>6, FS_CardinalityType
<1>9. Cardinality(S) \in 0..4 BY <1>6, <1>7, <1>8
<1> QED BY <1>9 DEF Digits, S

(* A transfer of whole chunks, or of one, sends every word. *)
LEMMA BlocksWhole ==
  ASSUME NEW l \in Nat, l < MaxChunk \/ l % MaxChunk = 0
  PROVE  Blocks(l).size * Blocks(l).count = l
<1>1. MaxChunk \in Nat \ {0} BY DisplayAssumption
<1>2. CASE l < MaxChunk BY <1>2 DEF Blocks
<1>3. CASE ~(l < MaxChunk)
  <2>1. l % MaxChunk = 0 BY <1>3
  <2>2. MaxChunk * (l \div MaxChunk) = l BY <1>1, <2>1
  <2> QED BY <1>3, <2>2 DEF Blocks
<1> QED BY <1>2, <1>3

LEMMA UploadLengths == \A k \in 1..4 : Length(Uploads[k]) \in Nat
<1> SUFFICES ASSUME NEW k \in 1..4 PROVE Length(Uploads[k]) \in Nat OBVIOUS
<1>1. k = 1 \/ k = 2 \/ k = 3 \/ k = 4 OBVIOUS
<1> QED BY <1>1 DEF Length, Uploads, Font, Logo, Palette

LEMMA PrintedNat == \A n \in Nat : Printed(n) \in Nat /\ Printed(n) = 2 + n * 5
BY DEF Printed, PageWords, GlyphWords

LEMMA PrintedGrows == \A m, n \in Nat : m <= n => Printed(m) <= Printed(n)
BY DEF Printed, PageWords, GlyphWords

(* The page that is shown has at most PageSize rows. *)
LEMMA StartType == Types => start \in Nat /\ itemCount \in Int /\ itemCount <= PageSize
<1> SUFFICES ASSUME Types PROVE start \in Nat /\ itemCount \in Int /\ itemCount <= PageSize
    OBVIOUS
<1>1. PageSize \in Nat \ {0} /\ fileEntryCount \in Nat /\ selectedindex \in Nat
      BY DisplayAssumption DEF Types
<1>2. PageSize \div 2 \in Nat BY <1>1
<1>3. start \in Nat
  <2>1. CASE ~(fileEntryCount >= PageSize) BY <2>1 DEF start
  <2>2. CASE fileEntryCount >= PageSize
    <3>1. fileEntryCount - PageSize \in Nat BY <1>1, <2>2
    <3>2. Greatest(selectedindex - PageSize \div 2, 0) \in Nat
          BY <1>1, <1>2 DEF Greatest
    <3> QED BY <2>2, <3>1, <3>2 DEF start, Least
  <2> QED BY <2>1, <2>2
<1> HIDE DEF start
<1>4. itemCount \in Int /\ itemCount <= PageSize
  <2>1. Least(start + PageSize, fileEntryCount) \in Int
        /\ Least(start + PageSize, fileEntryCount) <= start + PageSize
        BY <1>1, <1>3 DEF Least
  <2> QED BY <1>1, <1>3, <2>1 DEF itemCount
<1> QED BY <1>3, <1>4

(* The words of the texts around the list and of a row. *)
TextsLength ==
    IF creditsmenu THEN Printed(27) + Printed(88) + Printed(39)
    ELSE IF loading THEN Printed(20)
    ELSE Printed(Digits(selectedindex + 1) + 2
                   + Greatest(Digits(fileEntryCount), 1))
         + Printed(43) + IF fileEntryCount = 0 THEN Printed(11) ELSE 0

LEMMA TextsBound ==
  Types => /\ TextsLength \in Nat
           /\ TextsLength <= CreditsWords
           /\ ~(creditsmenu \/ loading \/ fileEntryCount = 0) => TextsLength <= TextWords
<1> SUFFICES ASSUME Types
             PROVE  /\ TextsLength \in Nat
                    /\ TextsLength <= CreditsWords
                    /\ ~(creditsmenu \/ loading \/ fileEntryCount = 0)
                          => TextsLength <= TextWords
    OBVIOUS
<1>1. fileEntryCount \in Nat /\ selectedindex \in Nat BY DEF Types
<1>2. Digits(selectedindex + 1) \in 0..4 /\ Digits(fileEntryCount) \in 0..4
  <2>1. selectedindex + 1 \in Int /\ fileEntryCount \in Int BY <1>1
  <2> QED BY <2>1, DigitsBound
<1> DEFINE d == Digits(selectedindex + 1) + 2 + Greatest(Digits(fileEntryCount), 1)
<1>3. d \in 0..10 BY <1>2 DEF Greatest
<1>4. TextsLength = IF creditsmenu THEN Printed(27) + Printed(88) + Printed(39)
                    ELSE IF loading THEN Printed(20)
                    ELSE Printed(d) + Printed(43)
                           + IF fileEntryCount = 0 THEN Printed(11) ELSE 0
      BY DEF TextsLength
<1> HIDE DEF d
<1>5. Printed(d) \in Nat /\ Printed(d) <= 52 BY <1>3, PrintedNat
<1>6. /\ Printed(27) = 137 /\ Printed(88) = 442 /\ Printed(39) = 197
      /\ Printed(20) = 102 /\ Printed(43) = 217 /\ Printed(11) = 57
      /\ Printed(10) = 52
      BY DEF Printed, PageWords, GlyphWords
<1>7. CreditsWords = 776 /\ TextWords = 269 BY <1>6 DEF CreditsWords, TextWords
<1>8. CASE creditsmenu
  <2>1. TextsLength = Printed(27) + Printed(88) + Printed(39) BY <1>4, <1>8
  <2>2. TextsLength \in Nat /\ TextsLength <= CreditsWords BY <2>1, <1>6, <1>7
  <2> QED BY <2>2, <1>8
<1>9. CASE ~creditsmenu /\ loading
  <2>1. TextsLength = Printed(20) BY <1>4, <1>9
  <2>2. TextsLength \in Nat /\ TextsLength <= CreditsWords BY <2>1, <1>6, <1>7
  <2> QED BY <2>2, <1>9
<1>10. CASE ~creditsmenu /\ ~loading
  <2>1. TextsLength = Printed(d) + Printed(43)
                        + IF fileEntryCount = 0 THEN Printed(11) ELSE 0
        BY <1>4, <1>10
  <2> QED BY <2>1, <1>5, <1>6, <1>7
<1> QED BY <1>8, <1>9, <1>10

LEMMA RowBound ==
  ASSUME Types, NEW N \in Nat, NEW n \in 0..N
  PROVE  /\ Printed(Digits(start + row + 1) + 1 + n) \in Nat
         /\ Printed(Digits(start + row + 1) + 1 + n) <= RowWords(N)
<1>1. start + row + 1 \in Int BY StartType DEF Types
<1>2. Digits(start + row + 1) \in 0..4 BY <1>1, DigitsBound
<1>3. PICK d : d = Digits(start + row + 1) OBVIOUS
<1>4. d + 1 + n \in Nat /\ 5 + N \in Nat /\ d + 1 + n <= 5 + N BY <1>2, <1>3
<1>5. Printed(d + 1 + n) \in Nat /\ Printed(d + 1 + n) <= Printed(5 + N)
      BY <1>4, PrintedNat, PrintedGrows
<1> QED BY <1>3, <1>5 DEF RowWords

-------------------------------------------------------------------------------
(* Types.                                                                   *)

LEMMA TypesInit == Init => Types
BY DEF Init, Types, Steps, Building, Buffers, None, VRAM

(* Adding to the list of this frame. *)
LEMMA Longer ==
  ASSUME Types, NEW k \in Nat, words' = [words EXCEPT ![frame] = @ + k]
  PROVE  /\ words' \in [Buffers -> Nat] /\ words'[frame] = words[frame] + k
         /\ \A b \in Buffers : b # frame => words'[b] = words[b]
BY DEF Types

LEMMA RowLonger ==
  ASSUME Types, DrawRow
  PROVE  \E n \in Names, k \in Nat :
            /\ k = (IF start + row = selectedindex THEN 3 + 1 ELSE 0)
                     + Printed(Digits(start + row + 1) + 1 + n)
            /\ words' = [words EXCEPT ![frame] = @ + k]
<1>1. PICK n \in Names :
         words' = [words EXCEPT ![frame] = @
            + (IF start + row = selectedindex THEN 3 + 1 ELSE 0)
            + Printed(Digits(start + row + 1) + 1 + n)]
      BY DEF DrawRow
<1>2. n \in Nat /\ n \in 0..n BY DisplayAssumption
<1>3. PICK p : p = Printed(Digits(start + row + 1) + 1 + n) OBVIOUS
<1>4. p \in Nat BY <1>2, <1>3, RowBound
<1>5. PICK h : h = IF start + row = selectedindex THEN 3 + 1 ELSE 0 OBVIOUS
<1>6. h \in Nat BY <1>5
<1>7. words' = [words EXCEPT ![frame] = words[frame] + h + p]
      BY <1>1, <1>3, <1>5
<1>8. words[frame] \in Nat BY DEF Types
<1>9. words[frame] + h + p = words[frame] + (h + p) BY <1>4, <1>6, <1>8
<1>10. words' = [words EXCEPT ![frame] = @ + (h + p)] BY <1>7, <1>9
<1>11. h + p \in Nat BY <1>4, <1>6
<1> QED BY <1>3, <1>5, <1>10, <1>11

LEMMA TypesNext == Types /\ [Next]_vars => Types'
<1> SUFFICES ASSUME Types, [Next]_vars PROVE Types' OBVIOUS
<1> USE DEF Types
<1>1. ASSUME setupGPU PROVE Types'
      BY <1>1 DEF setupGPU, listVars, menuVars, Steps, Buffers
<1>2. ASSUME sendVRAMData PROVE Types'
      BY <1>2 DEF sendVRAMData, Transfer, listVars, menuVars, Steps, VRAM
<1>3. ASSUME Uploaded PROVE Types'
      BY <1>3 DEF Uploaded, listVars, menuVars, gpuVars, Steps
<1>4. ASSUME BeginFrame PROVE Types'
      BY <1>4 DEF BeginFrame, menuVars, Steps, Building
<1>5. ASSUME Buttons PROVE Types'
      BY <1>5 DEF Buttons, listVars, gpuVars, Steps, Building
<1>6. ASSUME Texts PROVE Types'
  <2>1. words' = [words EXCEPT ![frame] = @ + TextsLength]
        BY <1>6 DEF Texts, TextsLength
  <2>2. TextsLength \in Nat BY TextsBound
  <2>3. words' \in [Buffers -> Nat] BY <2>1, <2>2, Longer
  <2> QED BY <1>6, <2>3 DEF Texts, menuVars, gpuVars, Steps, Building
<1>7. ASSUME DrawRow PROVE Types'
  <2>1. words' \in [Buffers -> Nat] BY <1>7, RowLonger, Longer
  <2> QED BY <1>7, <2>1 DEF DrawRow, menuVars, gpuVars
<1>8. ASSUME LastRow PROVE Types'
      BY <1>8 DEF LastRow, listVars, menuVars, gpuVars, Steps, Building
<1>9. ASSUME EndTag PROVE Types'
      BY <1>9 DEF EndTag, menuVars, gpuVars, Steps, Building
<1>10. ASSUME waitForVblank PROVE Types'
      BY <1>10 DEF waitForVblank, listVars, menuVars, gpuVars, Steps, Building
<1>11. ASSUME sendLinkedList PROVE Types'
      BY <1>11 DEF sendLinkedList, Transfer, listVars, menuVars, Steps, Buffers
<1>12. ASSUME EndFrame PROVE Types'
  <2>1. fileEntryCount' \in Nat /\ selectedindex' \in Nat
    <3>1. CASE loading
      <4>1. fileEntryCount' \in Counts /\ selectedindex' = 0
            BY <1>12, <3>1, Zenon DEF EndFrame
      <4> QED BY <4>1, DisplayAssumption
    <3>2. CASE ~loading
      <4>1. fileEntryCount' = fileEntryCount /\ selectedindex' = selectedindex
            BY <1>12, <3>2, Zenon DEF EndFrame
      <4> QED BY <4>1
    <3> QED BY <3>1, <3>2
  <2>2. frame' \in Buffers BY <1>12 DEF EndFrame, OtherFrame, Buffers
  <2> QED BY <1>12, <2>1, <2>2 DEF EndFrame, listVars, gpuVars, Steps
<1>13. ASSUME Fetch PROVE Types'
      BY <1>13 DEF Fetch, listVars, menuVars
<1>14. ASSUME LastFetch PROVE Types'
      BY <1>14 DEF LastFetch, listVars, menuVars, None
<1>15. ASSUME Draw PROVE Types'
      BY <1>15 DEF Draw, listVars, menuVars
<1>16. ASSUME handleVSyncIRQ PROVE Types'
      BY <1>16 DEF handleVSyncIRQ, listVars, menuVars, gpuVars
<1>17. ASSUME UNCHANGED vars PROVE Types'
      BY <1>17 DEF vars, listVars, menuVars, gpuVars
<1> QED BY <1>1, <1>2, <1>3, <1>4, <1>5, <1>6, <1>7, <1>8, <1>9, <1>10, <1>11,
           <1>12, <1>13, <1>14, <1>15, <1>16, <1>17 DEF Next

-------------------------------------------------------------------------------
(* Transfers and turns: what the GPU reads is never what main changes.      *)

Turn == Types /\ Turns

(* The uploads: one transfer after the other. *)
LEMMA TurnsUpload ==
  ASSUME Turn, setupGPU \/ sendVRAMData \/ Uploaded
  PROVE  Turns'
<1>1. ASSUME setupGPU PROVE Turns'
      BY <1>1 DEF setupGPU, listVars, menuVars, Turn, Types, Turns, Building,
                  Buffers, None
<1>2. ASSUME sendVRAMData PROVE Turns'
  <2>1. pc' = "uploading" /\ uploads' = uploads + 1 /\ uploads < 4
        /\ reading' = VRAM /\ blocks' = Blocks(Length(Uploads[uploads + 1]))
        /\ reading = None
        /\ (cut' = (cut \/ reading # None))
        BY <1>2 DEF sendVRAMData, Transfer, DMADone
  <2>2. ~cut' BY <2>1, Zenon DEF Turn, Turns
  <2>3. uploads' \in 1..4 BY <2>1 DEF Turn, Types
  <2>4. blocks' = Blocks(Length(Uploads[uploads'])) BY <2>1
  <2>5. reading' \notin Buffers /\ pc' = "uploading" /\ reading' = VRAM
        BY <2>1 DEF VRAM, Buffers
  <2>6. pc' \notin Building \cup {"frame", "load", "setup", "upload", "wait", "send"}
        BY <2>5 DEF Building
  <2> QED BY <2>2, <2>3, <2>4, <2>5, <2>6, Zenon DEF Turns
<1>3. ASSUME Uploaded PROVE Turns'
      BY <1>3 DEF Uploaded, DMADone, listVars, menuVars, gpuVars, Turn, Types,
                  Turns, Building, Buffers, None
<1> QED BY <1>1, <1>2, <1>3

(* What main does between two transfers leaves the GPU alone. *)
LEMMA TurnsBuild ==
  ASSUME Turn,
         BeginFrame \/ Buttons \/ Texts \/ DrawRow \/ LastRow \/ EndTag
            \/ waitForVblank
  PROVE  Turns'
<1> USE DEF Turn, Types, Turns, Building, Buffers, None
<1>1. ASSUME BeginFrame PROVE Turns'
      BY <1>1 DEF BeginFrame, menuVars
<1>2. ASSUME Buttons PROVE Turns'
      BY <1>2 DEF Buttons, listVars, gpuVars
<1>3. ASSUME Texts PROVE Turns'
  <2>1. pc' \in {"end", "rows"} /\ UNCHANGED <<uploads, frame, ended, gpuVars>>
        /\ pc = "texts"
        BY <1>3 DEF Texts
  <2> QED BY <2>1 DEF gpuVars
<1>4. ASSUME DrawRow PROVE Turns'
  <2>1. UNCHANGED <<pc, uploads, frame, ended, gpuVars>> BY <1>4 DEF DrawRow
  <2> QED BY <2>1 DEF gpuVars
<1>5. ASSUME LastRow PROVE Turns'
      BY <1>5 DEF LastRow, listVars, menuVars, gpuVars
<1>6. ASSUME EndTag PROVE Turns'
      BY <1>6 DEF EndTag, menuVars, gpuVars
<1>7. ASSUME waitForVblank PROVE Turns'
      BY <1>7 DEF waitForVblank, listVars, menuVars, gpuVars
<1> QED BY <1>1, <1>2, <1>3, <1>4, <1>5, <1>6, <1>7

(* A list is sent, and the other one is next. *)
LEMMA TurnsSend ==
  ASSUME Turn, sendLinkedList \/ EndFrame PROVE Turns'
<1>1. ASSUME sendLinkedList PROVE Turns'
  <2>1. /\ pc = "send" /\ pc' = "load" /\ reading = None /\ reading' = frame
        /\ UNCHANGED <<uploads, frame, ended, blocks>>
        BY <1>1 DEF sendLinkedList, Transfer, DMADone, listVars
  <2>2. ~cut' BY <1>1, <2>1, Zenon DEF sendLinkedList, Transfer, Turn, Turns
  <2> QED BY <2>1, <2>2 DEF Turn, Types, Turns, Building, Buffers, None
<1>2. ASSUME EndFrame PROVE Turns'
  <2>1. /\ pc = "load" /\ pc' = "frame" /\ frame' = 1 - frame
        /\ UNCHANGED <<uploads, ended, shown, reading, blocks, cut>>
        BY <1>2 DEF EndFrame, OtherFrame, listVars, gpuVars
  <2> QED BY <2>1 DEF Turn, Types, Turns, Building, Buffers, None
<1> QED BY <1>1, <1>2

LEMMA TurnsHardware ==
  ASSUME Turn, Fetch \/ LastFetch \/ Draw \/ handleVSyncIRQ \/ UNCHANGED vars
  PROVE  Turns'
<1> USE DEF Turn, Types, Turns, Building, Buffers, None
<1>1. ASSUME Fetch PROVE Turns' BY <1>1 DEF Fetch, listVars, menuVars
<1>2. ASSUME LastFetch PROVE Turns' BY <1>2 DEF LastFetch, listVars, menuVars
<1>3. ASSUME Draw PROVE Turns' BY <1>3 DEF Draw, listVars, menuVars
<1>4. ASSUME handleVSyncIRQ PROVE Turns'
      BY <1>4 DEF handleVSyncIRQ, listVars, menuVars, gpuVars
<1>5. ASSUME UNCHANGED vars PROVE Turns'
      BY <1>5 DEF vars, listVars, menuVars, gpuVars
<1> QED BY <1>1, <1>2, <1>3, <1>4, <1>5

LEMMA TurnInductive == Spec => []Turn
<1>1. Init => Turn
  <2> SUFFICES ASSUME Init PROVE Turn OBVIOUS
  <2>1. Types BY TypesInit
  <2>2. Turns
        BY DEF Init, Turns, Building, Buffers, None
  <2> QED BY <2>1, <2>2 DEF Turn
<1>2. Turn /\ [Next]_vars => Turn'
  <2> SUFFICES ASSUME Turn, [Next]_vars PROVE Turn' OBVIOUS
  <2>1. Types' BY TypesNext DEF Turn
  <2>2. Turns' BY TurnsUpload, TurnsBuild, TurnsSend, TurnsHardware DEF Next
  <2> QED BY <2>1, <2>2 DEF Turn
<1> QED BY <1>1, <1>2, PTL DEF Spec

(* No frame is disturbed, whatever the sizes of buffers, pages and listings: *)
(* sendVRAMData, sendLinkedList and waitForGP0Ready wait where they must,    *)
(* and main changes buffers between a list and the next.                     *)
THEOREM FramesIntact == ASSUME ChunksDivide PROVE Spec => []FrameIntact
<1>1. Turn => FrameIntact
  <2> SUFFICES ASSUME Turn PROVE FrameIntact OBVIOUS
  <2>1. ~cut BY Zenon DEF Turn, Turns
  <2>2. ASSUME reading = VRAM
        PROVE  blocks.size * blocks.count = Length(Uploads[uploads])
    <3>1. pc = "uploading"
          BY <2>2 DEF Turn, Types, Turns, Steps, None, VRAM, Building, Buffers
    <3>2. uploads \in 1..4 /\ blocks = Blocks(Length(Uploads[uploads]))
          BY <3>1 DEF Turn, Turns
    <3>3. PICK l \in Nat : l = Length(Uploads[uploads]) BY <3>2, UploadLengths
    <3>4. l < MaxChunk \/ l % MaxChunk = 0 BY <3>2, <3>3, Zenon DEF ChunksDivide
    <3>5. Blocks(l).size * Blocks(l).count = l BY <3>4, BlocksWhole
    <3> QED BY <3>2, <3>3, <3>5
  <2>3. reading \in Buffers => ended[reading] BY DEF Turn, Turns
  <2>4. pc \in Building /\ reading \in Buffers => reading # frame /\ reading # shown
        BY DEF Turn, Types, Turns, None, Buffers
  <2> QED BY <2>1, <2>2, <2>3, <2>4, Zenon DEF FrameIntact
<1> QED BY <1>1, TurnInductive, PTL

-------------------------------------------------------------------------------
(* Lengths.                                                                 *)

(* Another row of r words is within the words of a page. *)
LEMMA RowsOfPage ==
  ASSUME NEW k \in Nat, NEW p \in Nat, NEW r \in Nat, k <= p
  PROVE  /\ k * r \in Nat /\ p * r \in Nat
         /\ (k + 1) * r = k * r + r /\ k * r <= p * r
<1>1. k * r \in Nat /\ p * r \in Nat OBVIOUS
<1>2. (k + 1) * r = k * r + r OBVIOUS
<1>3. PICK d \in Nat : p = k + d
  <2>1. p - k \in Nat /\ p = k + (p - k) OBVIOUS
  <2> QED BY <2>1
<1>4. p * r = k * r + d * r BY <1>3
<1>5. d * r \in Nat OBVIOUS
<1> QED BY <1>1, <1>2, <1>4, <1>5

LEMMA PageLength ==
  ASSUME NEW N \in Nat
  PROVE  /\ RowWords(N) \in Nat /\ PageSize * RowWords(N) \in Nat
         /\ PageOf(N) = 24 + 269 + 4 + PageSize * RowWords(N)
         /\ BeginWords + TextWords = 24 + 269
         /\ MostWords(N) \in Nat /\ PageOf(N) <= MostWords(N)
         /\ BeginWords + CreditsWords <= MostWords(N) /\ BeginWords <= MostWords(N)
         /\ CreditsWords \in Nat
<1>1. RowWords(N) \in Nat BY PrintedNat DEF RowWords
<1>2. PICK m : m = PageSize * RowWords(N) OBVIOUS
<1>3. m \in Nat BY <1>1, <1>2, DisplayAssumption, RowsOfPage
<1>4. TextWords = 269 /\ CreditsWords = 776 /\ BeginWords = 24
      BY DEF TextWords, CreditsWords, BeginWords, Printed, PageWords, GlyphWords
<1>5. PageOf(N) = 24 + 269 + 4 + m BY <1>2, <1>4 DEF PageOf
<1>6. /\ MostWords(N) \in Nat /\ PageOf(N) <= MostWords(N)
      /\ 24 + 776 <= MostWords(N)
      BY <1>3, <1>4, <1>5 DEF MostWords, Greatest
<1> QED BY <1>1, <1>2, <1>3, <1>4, <1>5, <1>6

Fits(n) == Types /\ Lengths(n)

LEMMA LengthsRow ==
  ASSUME NEW N \in Nat, \A n \in Names : n <= N, Fits(N), DrawRow
  PROVE  Lengths(N)'
<1>1. Types /\ Lengths(N) BY DEF Fits
<1>2. PICK n \in Names, k \in Nat :
         /\ k = (IF start + row = selectedindex THEN 3 + 1 ELSE 0)
                  + Printed(Digits(start + row + 1) + 1 + n)
         /\ words' = [words EXCEPT ![frame] = @ + k]
      BY <1>1, RowLonger
<1>3. PICK p : p = Printed(Digits(start + row + 1) + 1 + n) OBVIOUS
<1>4. p \in Nat /\ p <= RowWords(N)
  <2>1. n \in 0..N BY DisplayAssumption
  <2> QED BY <1>1, <1>3, <2>1, RowBound
<1>5. k = (IF start + row = selectedindex THEN 4 ELSE 0) + p BY <1>2, <1>3
<1>6. /\ pc = "rows" /\ pc' = "rows" /\ row < itemCount /\ row' = row + 1
      /\ frame' = frame /\ selectedindex' = selectedindex
      /\ fileEntryCount' = fileEntryCount
      BY DEF DrawRow, menuVars
<1>7. start' = start BY <1>6 DEF start
<1>8. start \in Nat /\ itemCount \in Int /\ itemCount <= PageSize BY <1>1, StartType
<1>9. row \in Nat /\ selectedindex \in Nat /\ frame \in Buffers
      /\ words[frame] \in Nat /\ PageSize \in Nat
      BY <1>1, DisplayAssumption DEF Types
<1>10. words'[frame] = words[frame] + k /\ \A b \in Buffers : b # frame => words'[b] = words[b]
       BY <1>1, <1>2, Longer
<1>11. /\ words[frame] <= 24 + 269 + (IF start + row > selectedindex THEN 4 ELSE 0)
                            + row * RowWords(N)
       /\ \A b \in Buffers : words[b] <= MostWords(N)
       BY <1>1, <1>6, PageLength DEF Lengths
<1>12. row + 1 <= PageSize BY <1>6, <1>8, <1>9
<1>13. PICK r : r = RowWords(N) OBVIOUS
<1>14. r \in Nat BY <1>13, PageLength
<1>15. /\ row * r \in Nat /\ (row + 1) * r = row * r + r /\ (row + 1) * r \in Nat
       /\ (row + 1) * r <= PageSize * r
  <2>1. row + 1 \in Nat /\ row <= PageSize BY <1>9, <1>12
  <2> QED BY <1>9, <1>12, <1>14, <2>1, RowsOfPage
<1>16. words'[frame] <= 24 + 269 + (IF start + row + 1 > selectedindex THEN 4 ELSE 0)
                            + (row + 1) * r
  <2>1. PICK a : a = row * r OBVIOUS
  <2>2. PICK c : c = (row + 1) * r OBVIOUS
  <2>3. a \in Nat /\ c = a + r BY <1>15, <2>1, <2>2
  <2>4. words[frame] <= 24 + 269 + (IF start + row > selectedindex THEN 4 ELSE 0) + a
        BY <1>11, <1>13, <2>1
  <2>5. p <= r BY <1>4, <1>13
  <2>6. words'[frame] <= 24 + 269 + (IF start + row + 1 > selectedindex THEN 4 ELSE 0) + c
        BY <1>4, <1>5, <1>8, <1>9, <1>10, <1>14, <2>3, <2>4, <2>5
  <2> QED BY <2>2, <2>6
<1>17. words'[frame] <= MostWords(N)
  <2>1. PICK c : c = (row + 1) * r OBVIOUS
  <2>2. PICK q : q = PageSize * r OBVIOUS
  <2>3. c \in Nat /\ c <= q BY <1>15, <2>1, <2>2
  <2>4. q \in Nat /\ 24 + 269 + 4 + q <= MostWords(N) /\ MostWords(N) \in Nat
        BY <1>13, <2>2, PageLength
  <2>5. words'[frame] <= 24 + 269 + 4 + c
    <3>1. words'[frame] <= 24 + 269 + (IF start + row + 1 > selectedindex THEN 4 ELSE 0) + c
          BY <1>16, <2>1
    <3>2. words'[frame] \in Nat BY <1>2, <1>9, <1>10
    <3> QED BY <2>3, <3>1, <3>2
  <2>6. words'[frame] \in Nat BY <1>2, <1>9, <1>10
  <2> QED BY <2>3, <2>4, <2>5, <2>6
<1>18. \A b \in Buffers : words'[b] <= MostWords(N)
       BY <1>10, <1>11, <1>17
<1>19. pc' = "rows" => /\ row' <= PageSize
                       /\ words'[frame'] <= (BeginWords + TextWords)
                             + (IF start' + row' > selectedindex' THEN 4 ELSE 0)
                             + row' * RowWords(N)
  <2>1. start + (row + 1) = start + row + 1 BY <1>8, <1>9
  <2> QED BY <1>6, <1>7, <1>12, <1>13, <1>16, <2>1, PageLength
<1>20. pc' \notin {"menu", "texts"} BY <1>6
<1> QED BY <1>18, <1>19, <1>20, Zenon DEF Lengths

LEMMA LengthsTexts ==
  ASSUME NEW N \in Nat, Fits(N), Texts PROVE Lengths(N)'
<1>1. Types /\ Lengths(N) BY DEF Fits
<1>2. PICK t : t = TextsLength OBVIOUS
<1>3. /\ t \in Nat /\ t <= CreditsWords
      /\ ~(creditsmenu \/ loading \/ fileEntryCount = 0) => t <= TextWords
      BY <1>1, <1>2, TextsBound
<1>4. words' = [words EXCEPT ![frame] = @ + t] BY <1>2 DEF Texts, TextsLength
<1>5. /\ pc = "texts" /\ frame' = frame /\ selectedindex' = selectedindex
      /\ fileEntryCount' = fileEntryCount /\ row' = row
      BY DEF Texts, menuVars
<1>6. pc' = IF creditsmenu \/ loading \/ fileEntryCount = 0 THEN "end" ELSE "rows"
      BY DEF Texts
<1>7. words[frame] = BeginWords /\ row = 0 BY <1>1, <1>5, Zenon DEF Lengths
<1>8. words'[frame] = words[frame] + t /\ \A b \in Buffers : b # frame => words'[b] = words[b]
      BY <1>1, <1>3, <1>4, Longer
<1>9. BeginWords = 24 /\ TextWords \in Nat /\ CreditsWords \in Nat
      BY DEF BeginWords, TextWords, CreditsWords, Printed, PageWords, GlyphWords
<1>10. words'[frame] <= MostWords(N)
       BY <1>3, <1>7, <1>8, <1>9, PageLength
<1>11. \A b \in Buffers : words'[b] <= MostWords(N)
       BY <1>1, <1>8, <1>10 DEF Lengths
<1>12. ASSUME pc' = "rows"
       PROVE  /\ row' <= PageSize
              /\ words'[frame'] <= (BeginWords + TextWords)
                    + (IF start' + row' > selectedindex' THEN 4 ELSE 0)
                    + row' * RowWords(N)
  <2>1. ~(creditsmenu \/ loading \/ fileEntryCount = 0) BY <1>6, <1>12, Zenon
  <2>2. t <= TextWords BY <1>3, <2>1, Zenon
  <2>3. 0 <= PageSize BY DisplayAssumption
  <2>4. row' * RowWords(N) = 0 BY <1>5, <1>7, PageLength
  <2>5. PICK h : h = IF start' + row' > selectedindex' THEN 4 ELSE 0 OBVIOUS
  <2>6. h \in Nat BY <2>5
  <2>7. words'[frame'] = BeginWords + t BY <1>5, <1>7, <1>8
  <2>8. words'[frame'] <= (BeginWords + TextWords) + h + 0
        BY <1>3, <1>9, <2>2, <2>6, <2>7
  <2>9. row' <= PageSize BY <1>5, <1>7, <2>3
  <2> QED BY <2>4, <2>5, <2>8, <2>9
<1>13. pc' \notin {"menu", "texts"} BY <1>6
<1> QED BY <1>11, <1>12, <1>13, Zenon DEF Lengths

(* The other steps begin a list or leave it as it is. *)
LEMMA LengthsOther ==
  ASSUME NEW N \in Nat, Fits(N), [Next]_vars, ~DrawRow, ~Texts
  PROVE  Lengths(N)'
<1>1. Types /\ Lengths(N) BY DEF Fits
<1>2. ASSUME BeginFrame PROVE Lengths(N)'
  <2>1. words' = [words EXCEPT ![frame] = 24] /\ frame' = frame /\ row' = 0
        /\ pc' = "menu"
        BY <1>2 DEF BeginFrame
  <2>2. words'[frame] = BeginWords /\ \A b \in Buffers : b # frame => words'[b] = words[b]
        BY <1>1, <2>1 DEF Types, BeginWords
  <2>3. \A b \in Buffers : words'[b] <= MostWords(N)
        BY <1>1, <2>2, PageLength DEF Lengths
  <2> QED BY <2>1, <2>2, <2>3 DEF Lengths
<1>3. ASSUME Buttons PROVE Lengths(N)'
  <2>1. pc = "menu" /\ pc' = "texts" /\ words' = words /\ frame' = frame /\ row' = row
        BY <1>3 DEF Buttons, listVars
  <2> QED BY <1>1, <2>1 DEF Lengths
<1>4. ASSUME words' = words, pc' \notin {"menu", "texts", "rows"} PROVE Lengths(N)'
      BY <1>1, <1>4 DEF Lengths
<1>5. ASSUME setupGPU \/ sendVRAMData \/ Uploaded \/ LastRow \/ EndTag
               \/ waitForVblank \/ sendLinkedList \/ EndFrame
      PROVE  words' = words /\ pc' \notin {"menu", "texts", "rows"}
  <2>1. ASSUME setupGPU \/ sendVRAMData \/ Uploaded
        PROVE  words' = words /\ pc' \notin {"menu", "texts", "rows"}
        BY <2>1 DEF setupGPU, sendVRAMData, Uploaded, listVars
  <2>2. ASSUME LastRow \/ EndTag \/ waitForVblank
        PROVE  words' = words /\ pc' \notin {"menu", "texts", "rows"}
        BY <2>2 DEF LastRow, EndTag, waitForVblank, listVars
  <2>3. ASSUME sendLinkedList \/ EndFrame
        PROVE  words' = words /\ pc' \notin {"menu", "texts", "rows"}
        BY <2>3 DEF sendLinkedList, EndFrame, listVars
  <2> QED BY <1>5, <2>1, <2>2, <2>3
<1>6. ASSUME Fetch \/ LastFetch \/ Draw \/ handleVSyncIRQ \/ UNCHANGED vars
      PROVE  Lengths(N)'
  <2>1. UNCHANGED <<pc, words, frame, row, fileEntryCount, selectedindex>>
        BY <1>6 DEF Fetch, LastFetch, Draw, handleVSyncIRQ, vars, listVars, menuVars
  <2>2. start' = start BY <2>1 DEF start
  <2> QED BY <1>1, <2>1, <2>2 DEF Lengths
<1> QED BY <1>2, <1>3, <1>4, <1>5, <1>6 DEF Next

(* Whatever the listing, the selection and the buttons: no list outgrows a  *)
(* page of names of 255 drawn characters.                                    *)
THEOREM ChainsBounded == Spec => []ChainBounded
<1> DEFINE N == 255
<1>1. N \in Nat /\ \A n \in Names : n <= N BY DisplayAssumption
<1> HIDE DEF N
<1>2. Init => Fits(N)
  <2> SUFFICES ASSUME Init PROVE Fits(N) OBVIOUS
  <2>1. Types BY TypesInit
  <2>2. pc = "setup" /\ words = [b \in Buffers |-> 0] BY DEF Init
  <2>3. Lengths(N) BY <1>1, <2>2, PageLength DEF Lengths
  <2> QED BY <2>1, <2>3 DEF Fits
<1>3. Fits(N) /\ [Next]_vars => Fits(N)'
  <2> SUFFICES ASSUME Fits(N), [Next]_vars PROVE Fits(N)' OBVIOUS
  <2>1. Types' BY TypesNext DEF Fits
  <2>2. Lengths(N)' BY <1>1, LengthsRow, LengthsTexts, LengthsOther
  <2> QED BY <2>1, <2>2 DEF Fits
<1>4. Fits(N) => ChainBounded BY DEF Fits, Lengths, ChainBounded, N
<1> QED BY <1>2, <1>3, <1>4, PTL DEF Spec

(* A full page of such names, selected row and all, on a screen of 16 rows. *)
LEMMA LongestPage == ASSUME PageSize = 16 PROVE MostWords(255) = 21129
<1>1. RowWords(255) = 1302 BY DEF RowWords, Printed, PageWords, GlyphWords
<1>2. PageOf(255) = 24 + 269 + 4 + 16 * 1302 BY <1>1, PageLength
<1>3. BeginWords + CreditsWords = 800
      BY DEF BeginWords, CreditsWords, Printed, PageWords, GlyphWords
<1> QED BY <1>2, <1>3 DEF MostWords, Greatest
===============================================================================
