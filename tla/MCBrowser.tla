------------------------------- MODULE MCBrowser -------------------------------
(* A card with a root directory of six entries in three sectors, the last   *)
(* of which does not fit the table, a directory with one and an empty one.  *)
(* Names: 1 a.bin, 2 a.cue, 3 b.bin, 4 b.ccd, 5 b.cue, 6 and 7 directories. *)
EXTENDS Browser

MCNames == 1..7
MCBinCue == {<<1, 2>>, <<3, 5>>}

File(n) == [flag |-> 0, name |-> n]
Dir(n)  == [flag |-> 1, name |-> n]

MCDirs == {"root", "games", "empty"}
MCContents == [d \in MCDirs |->
    CASE d = "root" -> <<File(2), Dir(7), File(5), Dir(6), File(1), File(3)>>
      [] d = "games" -> <<File(4)>>
      [] d = "empty" -> << >>]
MCTarget == [p \in {<<"root", 1>>, <<"root", 3>>} |->
    IF p[2] = 1 THEN "games" ELSE "empty"]
MCParent == [d \in MCDirs |-> "root"]

MCButtons ==
    {{}, {"UP"}, {"DOWN"}, {"RIGHT"}, {"L1"}, {"X"}, {"SELECT"}, {"START"},
     {"TRIANGLE"}, {"UP", "X"}, {"START", "SQUARE"}}
===============================================================================
