-------------------------------- MODULE MCAudio --------------------------------
(* An instance of Audio with sectors of two blocks, the first with a header *)
(* of one.                                                                  *)
EXTENDS Audio

File(bytes, is) == [len |-> bytes, vag |-> is]
Song(blocks, c) == [len |-> blocks, chunk |-> c]

\* Two sectors; broken blocks; longer than Sound.length can say; not a sound.
MCFiles == {File(48, TRUE), File(40, TRUE), File(80, TRUE), File(16, FALSE)}
NoFiles == {}

\* Whole sectors; one that ends within a sector; shorter than the buffer; not a
\* song.
MCSongs == {Song(8, 2), Song(9, 2), Song(3, 2), Song(2, 0)}
OddSong == {Song(9, 2)}
===============================================================================
