-------------------------------- MODULE MCBoot --------------------------------
(* An instance of Boot: a MemCard PRO with a pad, and an ordinary card. *)
EXTENDS Boot

MCPlugs == {0 :> {"pad", "mcp"} @@ 1 :> {"card"}, 0 :> {"pad"} @@ 1 :> {"mcp"},
            0 :> {} @@ 1 :> {}}

File(id, len, at_lba) == [len |-> len, id |-> id, lba |-> at_lba]
Dots == <<File("0", 34, 22), File("1", 34, 22)>>
Config == <<"BOOT", " ", "=", "tab", "game", "newline", "TCB">>

Disc(is, files, text, id) ==
    [ps |-> is, rootLba |-> 22, configLba |-> 23, root |-> Dots \o files,
     config |-> text, path |-> id]

MCMenu  == Disc(TRUE, <<File("SYSTEM.CNF;1", 46, 23)>>, <<"menu", "nul">>, <<"menu">>)
MCDiscs ==
    {MCMenu,
     Disc(TRUE, <<File("GAME", 40, 30), File("SYSTEM.CNF;1", 46, 23)>>, Config,
          <<"game">>),
     \* the file lies in the next sector
     Disc(TRUE, <<File("GAME", 46, 30), File("SYSTEM.CNF;1", 46, 23)>>, Config,
          <<"game">>),
     \* a line that is cut off at MaxLine
     Disc(TRUE, <<File("SYSTEM.CNF;1", 46, 23)>>,
          <<"BOOT", "=", "dir", " ", "dir", "file", "file", "newline">>,
          <<"dir", "dir", "file">>),
     Disc(FALSE, << >>, << >>, << >>)}
===============================================================================
