------------------------------ MODULE MCFileSort -------------------------------
(* Names: 1 a.bin, 2 a.ccd, 3 a.cue, 4 b.cue. *)
EXTENDS FileSort

MCNames == 1..4
MCBinCue == {<<1, 3>>}
SomeFiles == 1..4
EmptyFolder == {0}
===============================================================================
