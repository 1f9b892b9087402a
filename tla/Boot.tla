---------------------------------- MODULE Boot ----------------------------------
(***************************************************************************)
(* The menu's life from power-on to the restart (src/main.c): it looks for *)
(* MemCard PROs, polls the pad, and when a disc is mounted finds out what  *)
(* it is, reads its SYSTEM.CNF, tells the memory cards the game's id and   *)
(* restarts the console (src/psxproject/system.c).  The packets are those  *)
(* of ControllerBus; a read of a disc is one step that may fail unnoticed. *)
(* The firmware, the discs and the BIOS are external.                      *)
(***************************************************************************)
EXTENDS ControllerBus, IsoDirectory, FiniteSets, FiniteSetsExt, SequencesExt

CONSTANTS Discs,        \* what can be mounted
          MenuDisc,     \* the disc the menu itself is started from
          Kernels,      \* the BIOS is Sony's: a subset of BOOLEAN
          MaxLine,      \* characters of SYSTEM.CNF that are looked at: 499
          MaxFailures,  \* bound on failed reads and mounts
          MaxSwaps      \* bound on devices changed while the menu waits

ASSUME BootAssumption ==
    /\ MenuDisc \in Discs /\ Kernels \subseteq BOOLEAN
    /\ MaxFailures \in Nat /\ MaxSwaps \in Nat

VARIABLES
    at, port,           \* where main is; the port its loop is at
    present,            \* MCPpresent, as the set of ports
    buttons, command,   \* the pad's last answer; the menu's command
    disc,               \* the disc in the drive
    lba, root, config,  \* sector to read, rootDirData, configBuffer
    failures, swaps,
    cardId,             \* the game each memory card was told of (external)
    sony, irqs, stubs, armed, shell
        \* console: kernel, interrupts on, the two stubs in RAM, breakpoint
        \* set, what is loaded as the shell

menuVars    == <<buttons, command>>
discVars    == <<disc, lba, root, config, failures>>
consoleVars == <<sony, irqs, stubs, armed, shell>>
bootVars == <<at, port, present, menuVars, discVars, swaps, cardId, consoleVars>>
vars     == <<busVars, bootVars>>

Init ==
    /\ BusInit
    /\ at = "identify" /\ port = 0 /\ present = {}
    /\ buttons = NoButtons /\ command = "none"
    /\ disc = MenuDisc /\ lba = 0 /\ root = EmptySector /\ config = << >>
    /\ failures = 0 /\ swaps = 0 /\ cardId = [p \in 0..1 |-> << >>]
    /\ sony \in Kernels /\ irqs = TRUE /\ stubs = FALSE /\ armed = FALSE
    /\ shell = "none"

-------------------------------------------------------------------------------
\* for (i = 0; i < 2; i++), ready for the next loop after the last port.
\* (RunsOn: a bug that goes past it.)
RunsOn == port + 1
NextPort == IF port = 0 THEN 1 ELSE 0

(* checkMCPpresent: both ports are asked, at power-on only. *)

IdentifyCard ==
    /\ at = "identify" /\ Call(Identify(port)) /\ at' = "identified"
    /\ UNCHANGED <<port, present, menuVars, discVars, swaps, cardId,
                   consoleVars>>

PingCard ==
    /\ at = "identified" /\ bpc = "idle" /\ Call(Ping(port)) /\ at' = "pinged"
    /\ UNCHANGED <<port, present, menuVars, discVars, swaps, cardId,
                   consoleVars>>

CardChecked ==
    /\ at = "pinged" /\ bpc = "idle"
    /\ present' = IF IsMCP THEN present \union {port} ELSE present
    /\ port' = NextPort
    /\ at' = IF port = 0 THEN "identify" ELSE "menu"
    /\ UNCHANGED <<busVars, menuVars, discVars, swaps, cardId, consoleVars>>

(* The menu polls the pad of the first port once a frame. *)

PollPad ==
    /\ at = "menu" /\ Call(Poll(0)) /\ at' = "polled"
    /\ UNCHANGED <<port, present, menuVars, discVars, swaps, cardId,
                   consoleVars>>

PadPolled ==
    /\ at = "polled" /\ bpc = "idle"
    /\ buttons' = Buttons /\ at' = "menu"
    /\ UNCHANGED <<busVars, port, present, command, discVars, swaps, cardId,
                   consoleVars>>

\* Somebody changes what is plugged in (external).
Replug ==
    /\ at = "menu" /\ swaps < MaxSwaps /\ swaps' = swaps + 1
    /\ plugged' \in Plugs \ {plugged}
    /\ UNCHANGED <<callVars, portVars, heard, owes, faults, at, port, present,
                   menuVars, discVars, cardId, consoleVars>>

-------------------------------------------------------------------------------
(* From the mount to the restart.  A read that fails leaves the buffer as   *)
(* it is: for the automatic ones, with anything.                            *)

Failure == failures < MaxFailures /\ failures' = failures + 1

\* COMMAND_MOUNT_FILE, then the drive is told to look at its new disc.  A
\* mount that the firmware never hears of leaves the menu's own disc in.
Mount(d) ==
    /\ at = "menu" /\ buttons # NoButtons
    /\ command' \in {"fast", "slow"} /\ at' = "type"
    /\ \/ disc' = d /\ UNCHANGED failures
       \/ Failure /\ UNCHANGED disc
    /\ UNCHANGED <<busVars, port, present, buttons, lba, root, config, swaps,
                   cardId, consoleVars>>

\* is_playstation_cd; the file system is read only if there is a MemCard PRO.
IsPlayStation(d) == d.ps

DiscTyped(is) ==
    /\ at' = IF is /\ present # {} THEN "descriptor" ELSE "restart"
    /\ command' = IF is THEN command ELSE "slow"

CheckType ==
    /\ at = "type"
    /\ \/ DiscTyped(IsPlayStation(disc)) /\ UNCHANGED failures
       \/ Failure /\ \E is \in BOOLEAN : DiscTyped(is)
    /\ UNCHANGED <<busVars, port, present, buttons, disc, lba, root, config,
                   swaps, cardId, consoleVars>>

\* getRootDirData: sector 16 says where the root directory is.
ReadDescriptor ==
    /\ at = "descriptor"
    /\ \/ /\ IsPlayStation(disc) /\ at' = "root" /\ lba' = disc.rootLba
          /\ UNCHANGED failures
       \/ /\ ~IsPlayStation(disc) /\ at' = "restart"
          /\ UNCHANGED <<lba, failures>>
       \/ /\ Failure /\ at' \in {"root", "restart"}
          /\ lba' \in {disc.rootLba, disc.configLba}
    /\ UNCHANGED <<busVars, port, present, menuVars, disc, root, config, swaps,
                   cardId, consoleVars>>

ReadRoot ==
    /\ at = "root" /\ at' = "config"
    /\ \/ /\ root' = IF lba = disc.rootLba THEN Sector(disc.root) ELSE EmptySector
          /\ UNCHANGED failures
       \/ Failure /\ UNCHANGED root
    /\ UNCHANGED <<busVars, port, present, menuVars, disc, lba, config, swaps,
                   cardId, consoleVars>>

\* file_load reports success once the file is listed, read or not.
LoadConfig ==
    /\ at = "config"
    /\ lba' = LbaToFile(root, "SYSTEM.CNF;1")
    /\ \/ lba' = 0 /\ at' = "restart" /\ UNCHANGED <<config, failures>>
       \/ /\ lba' # 0 /\ at' = "send"
          /\ \/ config' = disc.config /\ UNCHANGED failures
             \/ Failure /\ config' \in {<< >>, <<"junk">>}
    /\ UNCHANGED <<busVars, port, present, menuVars, disc, root, swaps, cardId,
                   consoleVars>>

\* The first line, or its beginning, without its blanks and its "BOOT=".
FirstLine(text) ==
    LET ends == {k \in 1..Len(text) : text[k] \in {"nul", "newline"}}
                    \union {Len(text) + 1, MaxLine + 1}
    IN  SubSeq(text, 1, Min(ends) - 1)

\* (KeepsBlanks: a bug that compares before the blanks are dropped.)
WithoutBoot(line) == IF IsPrefix(<<"BOOT", "=">>, line)
                     THEN SubSeq(line, 3, Len(line)) ELSE line
KeepsBlanks(text) == WithoutBoot(FirstLine(text))
GameIdOf(text) ==
    WithoutBoot(SelectSeq(FirstLine(text), LAMBDA c : c \notin {" ", "tab"}))

\* What configBuffer may hold; it is characters, and so is the id in it.
Texts == {d.config : d \in Discs} \union {<< >>, <<"junk">>}
ASSUME TextsAssumption == \A t \in Texts : GameIdOf(t) \in Seq(STRING)

\* sendGameID: the ports at which checkMCPpresent found a card.
SendID ==
    /\ at = "send" /\ bpc = "idle"
    /\ IF port \in present
       THEN Call(GameID(port, GameIdOf(config))) /\ at' = "sent" /\ UNCHANGED port
       ELSE /\ at' = IF port = 0 THEN "send" ELSE "restart"
            /\ port' = NextPort /\ UNCHANGED busVars
    /\ UNCHANGED <<present, menuVars, discVars, swaps, cardId, consoleVars>>

\* A MemCard PRO takes the id it has heard (external).
IDSent ==
    /\ at = "sent" /\ bpc = "idle"
    /\ cardId' = IF "mcp" \in plugged[port] /\ Len(heard) > 4
                    THEN [cardId EXCEPT ![port] = SubSeq(heard, 5, Len(heard) - 1)]
                    ELSE cardId
    /\ at' = IF port = 0 THEN "send" ELSE "restart"
    /\ port' = NextPort
    /\ UNCHANGED <<busVars, present, menuVars, discVars, swaps, consoleVars>>

-------------------------------------------------------------------------------
(* The restart. *)

\* softReset, and softFastReboot's way out under a kernel that is not Sony's.
\* What the stubs are copied over is the BIOS's to set up again.
SoftReset ==
    /\ at = "restart" /\ command = "slow"
    /\ irqs' = FALSE /\ at' = "bios"
    /\ UNCHANGED <<sony, stubs, armed, shell>>

ResetInterrupts ==
    /\ at = "restart" /\ command = "fast"
    /\ irqs' = FALSE /\ at' = IF sony THEN "stubs" ELSE "bios"
    /\ UNCHANGED <<sony, stubs, armed, shell>>

CopyStubs ==
    /\ at = "stubs" /\ stubs' = TRUE /\ shell' = "dummy" /\ at' = "arm"
    /\ UNCHANGED <<sony, irqs, armed>>

\* BIOS_ALT_ENTRY_POINT skips the code that clears the breakpoint.
ArmBreakpoint ==
    /\ at = "arm" /\ armed' = TRUE /\ at' = "bios alt"
    /\ UNCHANGED <<sony, irqs, stubs, shell>>

\* The BIOS (external) from its entry point, then what it does from both.
ResetPath ==
    /\ at = "bios" /\ armed' = FALSE /\ stubs' = FALSE /\ at' = "bios alt"
    /\ UNCHANGED <<sony, irqs, shell>>

\* _fastRebootBreakVector: it is hit by the first write of the shell's copy,
\* disarms the breakpoint, undoes the write and ends the copy.
\* (StaysArmed: a bug that leaves the breakpoint set.)
StaysArmed == UNCHANGED armed
Disarm == armed' = FALSE

LoadShell ==
    /\ at = "bios alt" /\ at' = "shell loaded"
    /\ IF armed /\ stubs THEN Disarm /\ UNCHANGED shell
                         ELSE shell' = "bios" /\ UNCHANGED armed
    /\ UNCHANGED <<sony, irqs, stubs>>

\* The kernel runs the shell.  The dummy returns at once and the disc's
\* program is started; the BIOS's own looks at the disc first.
RunShell ==
    /\ at = "shell loaded"
    /\ at' = IF shell = "dummy" THEN "game" ELSE "shell"
    /\ UNCHANGED <<sony, irqs, stubs, armed, shell>>

Restart ==
    /\ \/ SoftReset \/ ResetInterrupts \/ CopyStubs \/ ArmBreakpoint
       \/ ResetPath \/ LoadShell \/ RunShell
    /\ UNCHANGED <<busVars, port, present, menuVars, discVars, swaps, cardId>>

-------------------------------------------------------------------------------
\* The steps main takes by itself; Mount is the user's.
Run == \/ IdentifyCard \/ PingCard \/ CardChecked \/ PollPad \/ PadPolled
       \/ CheckType \/ ReadDescriptor \/ ReadRoot \/ LoadConfig \/ SendID
       \/ IDSent \/ Restart

Next == \/ Run
        \/ (PacketStep \/ Device) /\ UNCHANGED bootVars
        \/ Replug
        \/ \E d \in Discs : Mount(d)

Spec == Init /\ [][Next]_vars

\* The program runs on and the hardware answers.
Fairness == /\ WF_vars(Run)
            /\ WF_vars(PacketStep /\ UNCHANGED bootVars)
            /\ WF_vars(Device /\ UNCHANGED bootVars)
FairSpec == Spec /\ Fairness
-------------------------------------------------------------------------------
(* Properties *)

\* Every variable keeps its type (ControllerBus's part included).
TypeOK ==
    /\ BusTypeOK
    /\ port \in 0..1 /\ present \subseteq 0..1 /\ disc \in Discs
    /\ command \in {"none", "fast", "slow"} /\ failures \in 0..MaxFailures
    /\ swaps \in 0..MaxSwaps /\ sony \in BOOLEAN /\ armed \in BOOLEAN
    /\ at \in {"identify", "identified", "pinged", "menu", "polled", "type",
               "descriptor", "root", "config", "send", "sent", "restart",
               "stubs", "arm", "bios", "bios alt", "shell loaded", "shell",
               "game"}

\* A lost acknowledgement may hide a device but never invents one: buttons are
\* a pad's, a MemCard PRO is one (controller.c:190, 245); and when none was
\* lost, what is plugged in is found.
FindsDevices ==
    /\ at = "polled" /\ bpc = "idle" =>
           IF "pad" \in plugged[0]
           THEN Buttons \in {<<AnswerByte("pad", CMD_POLL, 3),
                              AnswerByte("pad", CMD_POLL, 4)>>}
                    \union (IF faults > 0 THEN {NoButtons} ELSE {})
           ELSE Buttons = NoButtons
    /\ at = "pinged" /\ bpc = "idle" =>
           /\ IsMCP => "mcp" \in plugged[port]
           /\ "mcp" \in plugged[port] /\ faults = 0 => IsMCP

Listed(d) == \E o \in DOMAIN Sector(d.root) : Sector(d.root)[o].id = "SYSTEM.CNF;1"

\* At the restart every MemCard PRO that was found, and is still there, knows
\* the game that is mounted, if the disc's directory lists a configuration in
\* its first sector and all of it could be read; and a disc without one sends
\* none (main.c:696-729).
IdArrives ==
    failures = 0 /\ at \in {"restart", "game", "shell"} =>
        \A p \in 0..1 :
            cardId[p] = IF p \in present /\ "mcp" \in plugged[p] /\ disc.ps
                           /\ Listed(disc)
                        THEN disc.path ELSE << >>

\* A fast restart under Sony's kernel starts the program on a PlayStation disc
\* without the shell; every other restart goes through the shell; and neither
\* starts with interrupts on or the breakpoint set, which would trap the
\* game's own first write to the shell's place (system.c:128-177).
RestartClean ==
    /\ at \in {"game", "shell"} => ~irqs /\ ~armed
    /\ at = "game" => sony /\ command = "fast" /\ (failures = 0 => disc.ps)
    /\ at = "shell" => command = "slow" \/ ~sony

\* Every packet ends, whatever the devices do (controller.c:85, 163); and a
\* mounted disc is started, whatever reads fail on the way (main.c:677-758).
Ends == /\ dtr ~> ~dtr
        /\ at = "type" ~> at \in {"game", "shell"}
===============================================================================
