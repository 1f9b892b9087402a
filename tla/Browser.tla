-------------------------------- MODULE Browser --------------------------------
(***************************************************************************)
(* The menu (src/main.c): one iteration of the frame loop reads the pad,   *)
(* moves the selection and chooses a command; the command is then run,     *)
(* loading a folder listing sector by sector from the Picostation          *)
(* (external), which keeps the current directory, or mounting an image.    *)
(***************************************************************************)
EXTENDS FileOrder

CONSTANTS
    Dirs, Root,        \* the directories of the card
    Contents,          \* Dirs -> entries in the Picostation's order
    Target,            \* the directory <<dir, index>> leads to
    Parent,            \* Dirs -> Dirs
    PerSector,         \* entries the Picostation puts in one sector
    MaxFiles,          \* MAX_FILES, 4096
    PageSize,          \* pageSize, 16
    HoldMax, HoldBack, \* auto-repeat: 30 and 25
    ButtonSets,        \* what the pad reports; a failed poll reports {}
    EarlyPress,        \* TRUE: a button can go down before the first frame
    MaxFailures,       \* bound on commands and reads that fail unnoticed
    IndexModulus       \* uint16_t wraps at this value (2^16)

ASSUME BrowserAssumption ==
    /\ Root \in Dirs /\ Contents \in [Dirs -> Seq(Entries)]
    /\ Parent \in [Dirs -> Dirs]
    /\ \A p \in DOMAIN Target : Target[p] \in Dirs
    /\ PerSector \in Nat \ {0} /\ MaxFiles \in Nat \ {0}
    /\ PageSize \in Nat \ {0} /\ HoldMax \in Nat \ {0} /\ HoldBack \in 0..HoldMax
    /\ EarlyPress \in BOOLEAN /\ MaxFailures \in Nat /\ IndexModulus \in Nat
    /\ MaxFiles < IndexModulus

VARIABLES
    pc,                                      \* frame, load, mount, booted,
                                             \* outside: the CPU is lost
    files, loading,                          \* the list; the one being loaded
    sectorBuffer, request,                   \* last sector; command to send
    selectedindex, currentCommand, creditsmenu, previousButtons, hold,
    picoDir, picoSector, mounted, failures   \* Picostation (external)

menuVars == <<selectedindex, creditsmenu, previousButtons, hold>>
picoVars == <<picoDir, picoSector, mounted, failures>>
vars == <<pc, files, loading, sectorBuffer, request, currentCommand, menuVars,
          picoVars>>

Commands == {"NONE", "GOTO_ROOT", "GOTO_PARENT", "GOTO_DIRECTORY",
             "MOUNT_FILE_FAST", "MOUNT_FILE_SLOW", "BOOTLOADER"}

\* What is sent to the Picostation to carry them out.
Requests == {"GOTO_ROOT", "GOTO_PARENT", "GOTO_DIRECTORY", "GET_NEXT_CONTENTS",
             "MOUNT_FILE"}

\* A sector lists some entries and says whether there are more.
Sectors == [entries : Seq(Entries), hasNext : BOOLEAN]

NoRequest == [command |-> "NONE", argument |-> 0]
Blank(more) == [entries |-> << >>, hasNext |-> more]

\* A console that is switched on: main's variables, an unread sector buffer
\* (its bytes may parse either way), the pad as it is held.
PowerOn ==
    /\ pc' = "frame" /\ files' = << >> /\ loading' = << >>
    /\ sectorBuffer' \in {Blank(TRUE), Blank(FALSE)}
    /\ request' = NoRequest /\ selectedindex' = 0
    /\ currentCommand' = "GOTO_ROOT" /\ creditsmenu' = FALSE
    /\ previousButtons' \in ButtonSets /\ hold' = 0

Init ==
    /\ pc = "frame" /\ files = << >> /\ loading = << >>
    /\ sectorBuffer \in {Blank(TRUE), Blank(FALSE)}
    /\ request = NoRequest /\ selectedindex = 0
    /\ currentCommand = "GOTO_ROOT" /\ creditsmenu = FALSE
    /\ previousButtons \in ButtonSets /\ hold = 0
    /\ picoDir = Root /\ picoSector = Blank(FALSE)
    /\ mounted = << >> /\ failures = 0

fileEntryCount == Len(files)

-------------------------------------------------------------------------------
(* One iteration of the frame loop *)

Wrap(n) == n % IndexModulus

\* selectedindex after UP, DOWN, LEFT or L1, RIGHT or R1 (lines 525-541).
Up(s)       == IF s > 0 THEN s - 1 ELSE Wrap(fileEntryCount - 1)
Down(s)     == IF s < fileEntryCount - 1 THEN s + 1 ELSE 0
PageUp(s)   == IF s >= PageSize THEN s - PageSize ELSE 0
PageDown(s) == IF s < fileEntryCount - (PageSize + 1) THEN s + PageSize
                                               ELSE Wrap(fileEntryCount - 1)

ByRow(b, s) == CASE "UP" \in b -> Up(s)
                 [] "UP" \notin b /\ "DOWN" \in b -> Down(s)
                 [] OTHER -> s
ByPage(b, s) == CASE "LEFT" \in b \/ "L1" \in b -> PageUp(s)
                  [] b \cap {"LEFT", "L1"} = {}
                     /\ b \cap {"RIGHT", "R1"} # {} -> PageDown(s)
                  [] OTHER -> s

\* The first row on the screen (lines 596-600).
\* (NoClamp: a bug, the lower end of the list not looked at.)
NoClamp == Max({selectedindex - PageSize \div 2, 0})
FirstRow == IF fileEntryCount < PageSize THEN 0
            ELSE LET above == selectedindex - PageSize \div 2
                 IN  Min({Max({above, 0}), fileEntryCount - PageSize})

\* The button whose repeat is counted: held in this frame and the last one.
Repeating(b) == CASE "UP" \in b \cap previousButtons -> {"UP"}
                  [] "UP" \notin b \cap previousButtons
                     /\ "DOWN" \in b \cap previousButtons -> {"DOWN"}
                  [] OTHER -> {}

\* hold and pressedButtons; a repeated press toggles a bit that is clear.
\* (KeepCounting: a bug, hold not set back.)
KeepCounting(b) == IF Repeating(b) = {} THEN 0 ELSE hold + 1
Hold(b) == CASE Repeating(b) = {} -> 0
             [] Repeating(b) # {} /\ hold + 1 > HoldMax -> HoldBack
             [] OTHER -> hold + 1
Pressed(b) == (b \ previousButtons)
                \union (IF hold + 1 > HoldMax THEN Repeating(b) ELSE {})

\* The flag of the selected entry: whatever memory holds when there is none.
FlagsAt(s) == IF s < fileEntryCount THEN {files[s + 1].flag} ELSE {0, 1}

\* START, X, SQUARE and TRIANGLE, in this order, the last one winning.
Chosen(b, flag) ==
    CASE "TRIANGLE" \in b -> "BOOTLOADER"
      [] "TRIANGLE" \notin b /\ "SQUARE" \in b -> "GOTO_PARENT"
      [] b \cap {"TRIANGLE", "SQUARE"} = {} /\ "X" \in b ->
            IF flag = 0 THEN "MOUNT_FILE_FAST" ELSE "GOTO_DIRECTORY"
      [] b \cap {"TRIANGLE", "SQUARE", "X"} = {} /\ "START" \in b /\ flag = 0 ->
            "MOUNT_FILE_SLOW"
      [] OTHER -> currentCommand

\* The index of the selected entry in the Picostation's own listing.
IndexesAt(s) == IF s < fileEntryCount THEN {files[s + 1].index}
                                      ELSE 0..IndexModulus - 1

\* The commands of lines 656-763.
Dispatch(c) ==
    CASE c \in {"GOTO_ROOT", "GOTO_PARENT"} ->
            pc' = "load" /\ request' = [command |-> c, argument |-> 0]
      [] c = "GOTO_DIRECTORY" ->
            /\ pc' = "load"
            /\ \E n \in IndexesAt(selectedindex') :
                  request' = [command |-> c, argument |-> n]
      [] c \in {"MOUNT_FILE_FAST", "MOUNT_FILE_SLOW"} ->
            /\ pc' = "mount"
            /\ \E n \in IndexesAt(selectedindex') :
                  request' = [command |-> "MOUNT_FILE", argument |-> n]
      [] OTHER -> UNCHANGED <<pc, request>>

\* The pad is polled just before the first frame; unless EarlyPress, the few
\* microseconds since then are too short to press a button.
NewButtons(b) == ~EarlyPress /\ currentCommand = "GOTO_ROOT"
                     => b \subseteq previousButtons

Frame(b) ==
    /\ pc = "frame" /\ NewButtons(b) /\ previousButtons' = b /\ hold' = Hold(b)
    /\ creditsmenu' = (creditsmenu # ("SELECT" \in Pressed(b)))
    /\ selectedindex' = IF creditsmenu' THEN selectedindex
                       ELSE ByPage(Pressed(b), ByRow(Pressed(b), selectedindex))
    /\ \E flag \in FlagsAt(selectedindex') :
          LET c == IF creditsmenu' THEN currentCommand
                                   ELSE Chosen(Pressed(b), flag)
          IN  /\ Dispatch(c)
              /\ currentCommand' = IF c = "BOOTLOADER" THEN "NONE" ELSE c
    /\ loading' = << >>
    /\ UNCHANGED <<files, sectorBuffer, picoVars>>

-------------------------------------------------------------------------------
(* The Picostation (external): it numbers the entries of its current        *)
(* directory from zero and answers a read with the sector asked for last.   *)

SectorAt(d, n) ==
    [entries |-> SubSeq(Contents[d], n + 1,
                        Min({n + PerSector, Len(Contents[d])})),
     hasNext |-> n + PerSector < Len(Contents[d])]

Opened(p) == IF p \in DOMAIN Target THEN Target[p] ELSE picoDir

Obey(r) ==
    CASE r.command = "GET_NEXT_CONTENTS" ->
            picoSector' = SectorAt(picoDir, r.argument) /\ UNCHANGED picoDir
      [] OTHER ->
            /\ picoDir' = CASE r.command = "GOTO_ROOT" -> Root
                            [] r.command = "GOTO_PARENT" -> Parent[picoDir]
                            [] OTHER -> Opened(<<picoDir, r.argument>>)
            /\ picoSector' = SectorAt(picoDir', 0)

Ignore == UNCHANGED <<picoDir, picoSector>>

Fail == failures < MaxFailures /\ failures' = failures + 1

-------------------------------------------------------------------------------
(* list_load: a command, a read of one sector and doLookup, until there is  *)
(* no next sector; then the list is sorted and cleaned.                     *)

Listed(s, n) == [k \in 1..Len(s) |->
                   [flag |-> s[k].flag, name |-> s[k].name, index |-> n + k - 1]]

FirstOf(s, n) == SubSeq(s, 1, Min({n, Len(s)}))

\* doLookup takes entries until the listing ends or the table is full.
\* (NumberedFromZero: a bug that numbers each sector on its own.)
NumberedFromZero(list, s) ==
    list \o Listed(FirstOf(s.entries, MaxFiles - Len(list)), 0)
Lookup(list, s) ==
    list \o Listed(FirstOf(s.entries, MaxFiles - Len(list)), Len(list))

\* Whether there is more to read; a bug that never stops.
ReadsOn(list, s) == TRUE
HasNext(list, s) == s.hasNext /\ Len(list) + Len(s.entries) < MaxFiles

\* The argument of GET_NEXT_CONTENTS; a bug that asks for the first sector.
SameSector(list) == 0
NextArgument(list) == Len(list)

\* Every selectedindex but GOTO_ROOT's starts at the first entry.
KeepSelection == UNCHANGED selectedindex
Reselect == selectedindex' = IF currentCommand = "GOTO_ROOT" THEN selectedindex
                                                              ELSE 0

\* sort(0) sorts the entries 0..65535 of a table of MaxFiles (FileSort): what
\* it overwrites is no list, and the CPU comes back from it or does not.
AfterSort(list) == IF list = << >> THEN {"frame", "outside"} ELSE {"frame"}

\* (\E x \in {e} names e, so that TLC evaluates it once.)
LoadSector ==
    /\ pc = "load"
    /\ \/ Obey(request) /\ sectorBuffer' = picoSector' /\ UNCHANGED failures
       \/ Fail /\ Ignore /\ sectorBuffer' \in {picoSector, sectorBuffer}
       \/ Fail /\ Obey(request) /\ UNCHANGED sectorBuffer
    /\ \E list \in {Lookup(loading, sectorBuffer')} :
          IF HasNext(loading, sectorBuffer')
          THEN /\ loading' = list
               /\ request' = [command |-> "GET_NEXT_CONTENTS",
                              argument |-> NextArgument(list)]
               /\ UNCHANGED <<pc, files, currentCommand, selectedindex>>
          ELSE /\ \E sorted \in {Sorted(list)} : files' = Cleaned(sorted)
               /\ loading' = << >> /\ request' = NoRequest
               /\ currentCommand' = "NONE" /\ Reselect
               /\ pc' \in AfterSort(list)
    /\ UNCHANGED <<creditsmenu, previousButtons, hold, mounted>>

-------------------------------------------------------------------------------
(* Mounting ends in a restart of the console with the chosen image.         *)

MountFile ==
    /\ pc = "mount" /\ pc' = "booted" /\ mounted' = <<picoDir, request.argument>>
    /\ UNCHANGED <<files, loading, sectorBuffer, request, currentCommand,
                   menuVars, picoDir, picoSector, failures>>

\* The user may press reset, in the game or in the middle of a listing, and is
\* back in the menu, the Picostation where it was; but not over and over while
\* the root directory is loading.
Reset == /\ currentCommand # "GOTO_ROOT" /\ PowerOn
         /\ UNCHANGED picoVars

Next == LoadSector \/ MountFile \/ Reset \/ \E b \in ButtonSets : Frame(b)

Spec == Init /\ [][Next]_vars

\* The CPU runs: the frame loop goes on, and a command is carried out.
FairSpec ==
    Spec /\ WF_vars(LoadSector \/ MountFile \/ \E b \in ButtonSets : Frame(b))

-------------------------------------------------------------------------------
(* Properties *)

\* Every variable keeps its type: the table is never overrun (MAX_FILES) and
\* hold stays a small count.
TypeOK ==
    /\ pc \in {"frame", "load", "mount", "booted", "outside"}
    /\ \A list \in {files, loading} :
          /\ Len(list) <= MaxFiles
          /\ \A k \in DOMAIN list : list[k].index \in 0..MaxFiles - 1
    /\ sectorBuffer.hasNext \in BOOLEAN /\ Len(sectorBuffer.entries) <= PerSector
    /\ request.command \in Requests \cup {"NONE"}
    /\ request.argument \in 0..IndexModulus - 1
    /\ selectedindex \in 0..IndexModulus - 1 /\ currentCommand \in Commands
    /\ creditsmenu \in BOOLEAN /\ previousButtons \in ButtonSets
    /\ hold \in 0..HoldMax /\ picoDir \in Dirs /\ failures \in 0..MaxFailures

\* Whatever the user pressed, and although commands and reads fail, the
\* selection of a list that is not empty is one of its entries (main.c:525-541,
\* 665, 675).  EarlyPress = FALSE leaves out one way to break it: a pad whose
\* first poll fails while a button is held seems to press it before the root
\* is listed.
SelectionListed ==
    pc = "frame" /\ files # << >> => selectedindex < fileEntryCount

\* ... the row it is drawn in is on the screen, and no row is left blank
\* while there are entries to show.
SelectionVisible ==
    pc = "frame" /\ files # << >> =>
        /\ selectedindex \in FirstRow..FirstRow + PageSize - 1
        /\ FirstRow = 0 \/ FirstRow + PageSize <= fileEntryCount

Reference ==
    [d \in Dirs |-> Cleaned(Sorted(Listed(FirstOf(Contents[d], MaxFiles), 0)))]

\* As long as no command or read has failed, the list on the screen is that of
\* the directory the Picostation is in, whole, however many sectors it took,
\* with the Picostation's own indexes (main.c:349-373).
ShowsFolder ==
    failures = 0 /\ pc = "frame" /\ files # << >> => files = Reference[picoDir]

\* A command that names an entry is then sent for one that is listed, and the
\* Picostation takes it for the one selected on the screen, a directory to
\* open or a file to mount (main.c:549-569, 673, 681).  In an empty folder
\* there is no such entry, and X names whatever memory holds.
ActsOnSelected ==
    /\ failures = 0 /\ files # << >>
    /\ request.command \in {"GOTO_DIRECTORY", "MOUNT_FILE"}
    => /\ selectedindex < fileEntryCount
       /\ request.argument < Len(Contents[picoDir])
       /\ LET e == Contents[picoDir][request.argument + 1]
          IN  /\ e.name = files[selectedindex + 1].name
              /\ e.flag = IF request.command = "GOTO_DIRECTORY" THEN 1 ELSE 0

\* A listing ends, although a read that fails parses an old sector again, and
\* its list is shown (main.c:349-373); only the sort of a list without entries
\* may lose the CPU (file_manager.c:106), and unless something failed that is
\* the list of an empty folder.  At most MaxFailures reads fail: as long as
\* they go on failing, an old sector that says "more" is read for ever.
LoadEnds ==
    pc = "load" ~> \/ pc = "frame"
                   \/ pc = "outside" /\ (failures > 0 \/ Contents[picoDir] = << >>)

\* A console that is switched on gets to show the root directory, unless a
\* command or a read fails.
ShowsRoot ==
    currentCommand = "GOTO_ROOT"
        ~> failures > 0 \/ (pc = "frame" /\ files = Reference[Root])
===============================================================================
