------------------------------- MODULE FileOrder -------------------------------
(***************************************************************************)
(* The entries of a folder listing and their order (src/file_manager.c).   *)
(* A file name is a number, its rank under strcmp; BinCue holds the pairs  *)
(* of a name x.bin and the name x.cue of the same length and stem.         *)
(***************************************************************************)
EXTENDS Integers, Sequences, FiniteSets, SequencesExt

CONSTANTS Names,    \* ranks of the file names
          BinCue    \* pairs of a .bin name and the .cue name that goes with it

ASSUME NamesAssumption == Names \subseteq Nat /\ BinCue \subseteq Names \X Names

\* fileData; flag 1 is a directory.
Entries == [flag : {0, 1}, name : Names]

\* A bug that sorts by name alone.
NamesOnly(a, b) == a.name - b.name

\* file_manager_compare: negative when a comes first.
compare(a, b) == CASE a.flag = 1 /\ b.flag = 0 -> -1
                   [] a.flag = 0 /\ b.flag = 1 -> 1
                   [] OTHER -> a.name - b.name

\* file_manager_clean_list drops an entry with this one right after it.  It
\* looks at the names only.
HiddenBy(a, b) == <<a.name, b.name>> \in BinCue

\* The elements of S as R orders them, the pairs of one and a later one.
LineUp(S, R) ==
    [k \in 1..Cardinality(S) |->
        CHOOSE x \in S : Cardinality({y \in S : <<y, x>> \in R}) = k - 1]

\* What list_load makes of a folder: its entries, the directories first, by
\* name, without the .bin files directly followed by their .cue files.
Precedes(a, b) == a.flag > b.flag \/ (a.flag = b.flag /\ a.name < b.name)
Ordered(s) ==
    {p \in (DOMAIN s) \X (DOMAIN s) :
        \/ Precedes(s[p[1]], s[p[2]])
        \/ ~Precedes(s[p[2]], s[p[1]]) /\ p[1] < p[2]}
Sorted(s) == LET order == LineUp(DOMAIN s, Ordered(s))
             IN  [k \in DOMAIN order |-> s[order[k]]]

Kept(s) == {i \in DOMAIN s : i = Len(s) \/ ~HiddenBy(s[i], s[i + 1])}
Cleaned(s) == LET Earlier == {p \in Kept(s) \X Kept(s) : p[1] < p[2]}
                  kept == LineUp(Kept(s), Earlier)
              IN  [k \in DOMAIN kept |-> s[kept[k]]]
===============================================================================
