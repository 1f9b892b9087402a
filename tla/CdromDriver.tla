------------------------------ MODULE CdromDriver ------------------------------
(***************************************************************************)
(* The CD-ROM driver (src/psxproject/cdrom.c): the main thread issues      *)
(* commands and waits for interrupts, the interrupt handler runs the       *)
(* cdromINTn callbacks, and the drive (external) answers.  One register    *)
(* index (CDROM_ADDRESS) and one parameter FIFO are shared by the main     *)
(* thread and the handler.                                                 *)
(***************************************************************************)
EXTENDS Integers, Sequences

CONSTANTS LBAs,         \* sectors a client asks for
          MaxSectors,   \* bound on numSectors
          Reads,        \* <<numSectors, wait>> that clients call with
          EagerReads,   \* TRUE: not only a settled drive is read from in the
                        \* background
          MaxErrors,    \* bound on the errors (INT5) the drive reports
          SparesWindow, \* TRUE: no interrupt falls into Window
          Quiet,        \* TRUE: the drive's timing spares the driver's other
                        \* critical moments
          MaxOverrun    \* bound on the sectors recorded beyond numSectors

ASSUME CdromAssumption ==
    /\ LBAs \subseteq Nat
    /\ MaxSectors \in Nat \ {0} /\ MaxErrors \in Nat /\ MaxOverrun \in Nat
    /\ Reads \subseteq (0..MaxSectors) \X BOOLEAN
    /\ EagerReads \in BOOLEAN /\ Quiet \in BOOLEAN /\ SparesWindow \in BOOLEAN

VARIABLES
    pc, cmd, argLeft, lba, want, blocking, polling,               \* main thread
    isr, vblank,                                                  \* handler
    waiting, cdromDataReady, cdromReadDataNumSectors, buf,        \* shared
    index, fifo, busy,                                            \* registers
    latched, hint, position, reading, completing, errs            \* drive

mainVars  == <<cmd, argLeft, lba, want, blocking, polling>>
readVars  == <<cdromReadDataNumSectors, buf>>
flagVars  == <<waiting, cdromDataReady>>
regVars   == <<index, fifo, busy, latched>>
driveVars == <<hint, position, reading, completing, errs>>
vars == <<pc, isr, vblank, mainVars, readVars, flagVars, regVars, driveVars>>

\* What a step of the main thread, and of the drive, mostly leaves alone.
restVars == <<isr, vblank, readVars, flagVars, regVars, driveVars>>
cpuVars  == <<pc, isr, vblank, mainVars, readVars, flagVars, index>>

INTs == 1..5
\* issueCDROMCommand sets every waiting flag; a bug that leaves one out.
ForgetsInt1 == [i \in INTs |-> i # 1]
AllWaiting == [i \in INTs |-> TRUE]

\* Parameter bytes each command is issued with.
ArgLength(c) == CASE c = "TEST" -> 4 [] c = "SETLOC" -> 3
                  [] c \in {"SETMODE", "SETSESSION"} -> 1
                  [] OTHER -> 0

Commands == {"TEST", "SETMODE", "SETLOC", "READ_N", "SETSESSION", "PAUSE"}
MainPcs  == {"idle", "flags", "busy1", "busy2", "index", "params",
             "waitInt3", "readAcked", "waitInt1", "waitInt2", "waitVblank"}

\* Between the second busy check and the write to CDROM_COMMAND.
Window == {"index", "params"}

Init == /\ pc = "idle" /\ cmd = "TEST" /\ argLeft = 0 /\ lba = 0 /\ want = 0
        /\ blocking = TRUE /\ polling = FALSE /\ isr = "none"
        /\ vblank = FALSE /\ waiting = AllWaiting /\ cdromDataReady = FALSE
        /\ cdromReadDataNumSectors = 0 /\ buf = << >>
        /\ index = 3 /\ fifo = 0 /\ busy = FALSE /\ latched = "none"
        /\ hint = 0 /\ position = 0 /\ reading = FALSE /\ completing = {}
        /\ errs = 0

-------------------------------------------------------------------------------
(* Main thread: the CPU enters the handler before the next instruction. *)

MainRuns == isr = "none" /\ hint = 0

\* The head of issueCDROMCommand, in either context.
ResetFlags == waiting' = AllWaiting /\ cdromDataReady' = FALSE

IssueNext(c) == cmd' = c /\ pc' = "flags"

\* main.c sendCommand: a TEST command nobody waits for.
SendCommand ==
    /\ MainRuns /\ pc = "idle" /\ IssueNext("TEST")
    /\ UNCHANGED <<argLeft, lba, want, blocking, polling, restVars>>

\* main.c:684 waits 400 ms before updateCDROM_TOC: the drive has settled.
\* (Unsettled: the same without waiting for the last PAUSE, a bug.)
Unsettled == ~busy /\ ~reading
Settled == ~busy /\ ~reading /\ completing = {}

StartRead(l, n, w) ==
    /\ MainRuns /\ pc = "idle" /\ ~polling /\ (w \/ EagerReads \/ Settled)
    /\ IssueNext("SETMODE") /\ lba' = l /\ want' = n /\ blocking' = w
    /\ cdromReadDataNumSectors' = n /\ buf' = << >>
    /\ UNCHANGED <<argLeft, polling, isr, vblank, flagVars, regVars, driveVars>>

UpdateTOC ==
    /\ MainRuns /\ pc = "idle" /\ ~polling /\ Settled
    /\ IssueNext("SETSESSION")
    /\ UNCHANGED <<argLeft, lba, want, blocking, polling, restVars>>

\* stream_update, WAIT_FOR_DATA: the non-blocking client sees the flag.
SeeDataReady ==
    /\ MainRuns /\ pc = "idle" /\ polling /\ cdromDataReady
    /\ polling' = FALSE
    /\ UNCHANGED <<pc, cmd, argLeft, lba, want, blocking, restVars>>

Flags ==
    /\ MainRuns /\ pc = "flags" /\ ResetFlags /\ pc' = "busy1"
    /\ UNCHANGED <<isr, vblank, mainVars, readVars, regVars, driveVars>>

\* An interrupt between the two writes of lines 83-84 clears the FIFO itself.
ClearParameters ==
    /\ MainRuns /\ pc = "busy1" /\ ~busy
    /\ index' = 1 /\ fifo' = 0 /\ pc' = "busy2"
    /\ UNCHANGED <<isr, vblank, mainVars, readVars, flagVars, busy, latched,
                   driveVars>>

\* The second wait for CDROM_BUSY.
ControllerFree == ~busy

CheckBusyAgain ==
    /\ MainRuns /\ pc = "busy2" /\ ControllerFree /\ pc' = "index"
    /\ UNCHANGED <<mainVars, restVars>>

SelectIndex ==
    /\ MainRuns /\ pc = "index"
    /\ index' = 0 /\ argLeft' = ArgLength(cmd) /\ pc' = "params"
    /\ UNCHANGED <<cmd, lba, want, blocking, polling, isr, vblank, readVars,
                   flagVars, fifo, busy, latched, driveVars>>

\* A bug, and the test of the loop over the parameters.
OneTooMany == argLeft >= 0
MoreParameters == argLeft > 0

\* With another index the byte lands in another register (HINTMSK for 1).
WriteParameter ==
    /\ MainRuns /\ pc = "params" /\ MoreParameters
    /\ argLeft' = argLeft - 1
    /\ fifo' = IF index = 0 THEN fifo + 1 ELSE fifo
    /\ UNCHANGED <<pc, cmd, lba, want, blocking, polling, isr, vblank,
                   readVars, flagVars, index, busy, latched, driveVars>>

\* A command byte written with another index never reaches the drive.
Latch(c) == IF index = 0 THEN busy' = TRUE /\ latched' = c
                         ELSE UNCHANGED <<busy, latched>>

WriteCommand ==
    /\ MainRuns /\ pc = "params" /\ ~MoreParameters
    /\ Latch(cmd)
    /\ pc' = IF cmd = "TEST" THEN "idle" ELSE "waitInt3"
    /\ UNCHANGED <<isr, vblank, mainVars, readVars, flagVars, index, fifo,
                   driveVars>>

\* A bug: a wait that does not look at the error flag.
IgnoresError(n) == ~waiting[n]

\* The condition on which waitForINTn leaves its loop.
Woken(n) == ~waiting[n] \/ ~waiting[5]

WaitForINT3 ==
    /\ MainRuns /\ pc = "waitInt3" /\ Woken(3)
    /\ CASE cmd = "SETMODE" -> IssueNext("SETLOC")
         [] cmd = "SETLOC"  -> IssueNext("READ_N")
         [] cmd = "READ_N"  -> pc' = "readAcked" /\ UNCHANGED cmd
         [] OTHER           -> pc' = "waitInt2" /\ UNCHANGED cmd
    /\ UNCHANGED <<argLeft, lba, want, blocking, polling, restVars>>

\* The test of waitingForInt5 after READ_N, then of wait.
ReadAcked ==
    /\ MainRuns /\ pc = "readAcked"
    /\ pc' = IF waiting[5] /\ blocking THEN "waitInt1" ELSE "idle"
    /\ polling' = ~blocking
    /\ UNCHANGED <<cmd, argLeft, lba, want, blocking, restVars>>

WaitForData ==
    /\ MainRuns /\ pc = "waitInt1" /\ Woken(1) /\ pc' = "idle"
    /\ UNCHANGED <<mainVars, restVars>>

WaitForINT2 ==
    /\ MainRuns /\ pc = "waitInt2" /\ Woken(2) /\ pc' = "idle"
    /\ UNCHANGED <<mainVars, restVars>>

WaitForVblank ==
    /\ MainRuns /\ pc = "waitVblank" /\ vblank
    /\ vblank' = FALSE /\ pc' = "idle"
    /\ UNCHANGED <<isr, mainVars, readVars, flagVars, regVars, driveVars>>

MainStep == \/ Flags \/ ClearParameters \/ CheckBusyAgain \/ SelectIndex
            \/ WriteParameter \/ WriteCommand \/ WaitForINT3 \/ ReadAcked
            \/ WaitForData \/ WaitForINT2 \/ SeeDataReady \/ WaitForVblank

\* The end of main.c's frame loop.
EndFrame == /\ MainRuns /\ pc = "idle" /\ pc' = "waitVblank"
            /\ UNCHANGED <<mainVars, restVars>>

Client == \/ SendCommand \/ UpdateTOC \/ EndFrame
          \/ \E l \in LBAs, r \in Reads : StartRead(l, r[1], r[2])

-------------------------------------------------------------------------------
(* Interrupt handler: handleCDROMIRQ acknowledges the interrupt, clears the *)
(* FIFO and calls the callback of its type.                                 *)

Acknowledge == hint' = 0 /\ index' = 1 /\ fifo' = 0

Clear(n) == waiting' = [waiting EXCEPT ![n] = FALSE]

\* --cdromReadDataNumSectors on a size_t: below zero it wraps to 2^32 - 1, and
\* before it came down again the DMA would have passed all of memory.  Wrapped
\* stands for every such count.
Wrapped == MaxSectors + 1
SectorsLeft(n) == IF n \in 1..MaxSectors THEN n - 1 ELSE Wrapped

\* A bug, and what <= 0 means on a size_t.
BelowZero(n) == n < 0
LastSector(n) == n = 0

\* Sectors beyond want + MaxOverrun are not told apart any more.
Recorded == Len(buf) < want + MaxOverrun

DmaSector == buf' = IF Recorded THEN Append(buf, position - 1) ELSE buf

cdromINT1 ==
    /\ isr = "none" /\ hint = 1 /\ Acknowledge /\ DmaSector
    /\ cdromReadDataNumSectors' = SectorsLeft(cdromReadDataNumSectors)
    /\ IF LastSector(cdromReadDataNumSectors')
       THEN ResetFlags /\ isr' = "pause"
       ELSE Clear(1) /\ UNCHANGED <<cdromDataReady, isr>>
    /\ UNCHANGED <<pc, vblank, mainVars, busy, latched, position, reading,
                   completing, errs>>

\* The rest of issueCDROMCommand(PAUSE) and of cdromINT1.
PauseFromHandler ==
    /\ isr = "pause" /\ ControllerFree
    /\ index' = 0 /\ fifo' = 0 /\ busy' = TRUE /\ latched' = "PAUSE"
    /\ Clear(1) /\ isr' = "none"
    /\ UNCHANGED <<pc, vblank, mainVars, readVars, cdromDataReady, driveVars>>

cdromINT2 ==
    /\ isr = "none" /\ hint = 2 /\ Acknowledge
    /\ Clear(2) /\ cdromDataReady' = TRUE
    /\ UNCHANGED <<pc, isr, vblank, mainVars, readVars, busy, latched,
                   position, reading, completing, errs>>

cdromINT345 ==
    /\ isr = "none" /\ hint \in 3..5 /\ Acknowledge /\ Clear(hint)
    /\ UNCHANGED <<pc, isr, vblank, mainVars, readVars, cdromDataReady, busy,
                   latched, position, reading, completing, errs>>

handleVSyncIRQ ==
    /\ isr = "none" /\ vblank' = TRUE
    /\ UNCHANGED <<pc, isr, mainVars, readVars, flagVars, regVars, driveVars>>

Handler == cdromINT1 \/ PauseFromHandler \/ cdromINT2 \/ cdromINT345

-------------------------------------------------------------------------------
(* The drive (external).  It holds one unacknowledged interrupt at a time   *)
(* and refuses a command with the wrong number of parameters.  With         *)
(* SparesWindow it raises nothing in the few microseconds of Window; when   *)
(* Quiet, it takes a waiting command before it raises another interrupt,    *)
(* and raises no sector in the 0.2 ms between the acknowledgement of the    *)
(* last one and the handler's PAUSE.                                        *)

MayInterrupt == hint = 0 /\ (SparesWindow => pc \notin Window)

Unsolicited == MayInterrupt /\ (Quiet => ~busy)

TakeCommand == /\ MayInterrupt /\ busy
               /\ busy' = FALSE /\ latched' = "none" /\ fifo' = 0
               /\ UNCHANGED cpuVars

Accept ==
    /\ TakeCommand /\ fifo = ArgLength(latched)
    /\ hint' = 3
    /\ position' = IF latched = "SETLOC" THEN lba ELSE position
    /\ reading' = CASE latched = "READ_N" -> TRUE
                    [] latched = "PAUSE" -> FALSE
                    [] OTHER -> reading
    /\ completing' = completing \union ({latched} \cap {"PAUSE", "SETSESSION"})
    /\ UNCHANGED errs

CountError == errs < MaxErrors /\ errs' = errs + 1

Refuse ==
    /\ TakeCommand /\ hint' = 5
    /\ IF fifo = ArgLength(latched) THEN CountError ELSE UNCHANGED errs
    /\ UNCHANGED <<position, reading, completing>>

Sector ==
    /\ Unsolicited /\ reading /\ (Quiet => isr = "none")
    /\ hint' = 1 /\ position' = IF Recorded THEN position + 1 ELSE position
    /\ UNCHANGED <<cpuVars, fifo, busy, latched, reading,
                   completing, errs>>

ReadError ==
    /\ Unsolicited /\ reading /\ CountError
    /\ hint' = 5 /\ reading' = FALSE
    /\ UNCHANGED <<cpuVars, fifo, busy, latched, position,
                   completing>>

Complete(c) ==
    /\ Unsolicited /\ c \in completing
    /\ hint' = 2 /\ completing' = completing \ {c}
    /\ UNCHANGED <<cpuVars, fifo, busy, latched, position,
                   reading, errs>>

Drive == \/ Accept \/ Refuse \/ Sector \/ ReadError
         \/ \E c \in {"PAUSE", "SETSESSION"} : Complete(c)

Next == MainStep \/ Client \/ Handler \/ handleVSyncIRQ \/ Drive

\* Safety only: what the theorems are about.
Spec == Init /\ [][Next]_vars

\* The CPU executes (interrupts take microseconds and are milliseconds apart, so
\* that they never starve the main thread), the handler returns, and the drive
\* answers; a drive that reads delivers sectors however often it is sent other
\* commands.
Fairness == /\ SF_vars(MainStep) /\ WF_vars(Handler) /\ WF_vars(handleVSyncIRQ)
            /\ WF_vars(Accept \/ Refuse) /\ SF_vars(Sector)
            /\ \A c \in {"PAUSE", "SETSESSION"} : WF_vars(Complete(c))

FairSpec == Spec /\ Fairness

-------------------------------------------------------------------------------
(* Properties *)

BooleanTypes == /\ blocking \in BOOLEAN /\ polling \in BOOLEAN
                /\ vblank \in BOOLEAN /\ cdromDataReady \in BOOLEAN
                /\ busy \in BOOLEAN /\ reading \in BOOLEAN
MainTypes == /\ pc \in MainPcs /\ cmd \in Commands /\ argLeft \in 0..4
             /\ lba \in Nat /\ want \in 0..MaxSectors
SharedTypes == /\ isr \in {"none", "pause"} /\ waiting \in [INTs -> BOOLEAN]
               /\ cdromReadDataNumSectors \in 0..Wrapped
               /\ buf \in Seq(Int)
RegisterTypes == /\ index \in 0..3 /\ fifo \in 0..4
                 /\ latched \in Commands \union {"none"}
DriveTypes == /\ hint \in 0..5 /\ position \in Nat
              /\ completing \subseteq {"PAUSE", "SETSESSION"}
              /\ errs \in 0..MaxErrors

\* Every variable keeps its type; the FIFO is never written past the longest
\* command (cdrom.c:105).
TypeOK == BooleanTypes /\ MainTypes /\ SharedTypes /\ RegisterTypes /\ DriveTypes

\* A read is outstanding from its call until it returns or, for the
\* non-blocking one, until the client sees cdromDataReady.
ReadPending == \/ polling
               \/ /\ pc \notin {"idle", "waitVblank"}
                  /\ cmd \in {"SETMODE", "SETLOC", "READ_N"}

\* startCDROMRead with its callbacks implements SectorService: the buffer is
\* written only while the read is outstanding, with the requested sectors in
\* order, and the read ends when they are all there, as long as the drive has
\* not reported an error (cdrom.c:137-142).
Service == INSTANCE SectorService WITH
             None <- [lba |-> -1, want |-> 0], Lost <- <<-1>>,
             data <- IF errs = 0 THEN buf ELSE <<-1>>,
             request <- IF ReadPending /\ errs = 0
                        THEN [lba |-> lba, want |-> want]
                        ELSE [lba |-> -1, want |-> 0]
ReadService == Service!Spec

\* updateCDROM_TOC returns without an error only when the drive has taken
\* SETSESSION and completed it: the INT2 it saw is not a leftover PAUSE's.
TocSettled ==
    [][pc = "waitInt2" /\ pc' = "idle" /\ waiting[5]
         => ~busy /\ "SETSESSION" \notin completing]_vars

\* A blocking read leaves its loop without an error only when every sector it
\* was asked for is in the buffer (cdrom.c:142).
BlocksUntilComplete ==
    [][pc = "waitInt1" /\ pc' = "idle" /\ waiting[5] => Len(buf) = want]_vars

\* cdromDataReady, as the streaming client reads it, means the read is done
\* (stream.c:310).
DataReadyMeansData ==
    [][polling /\ ~polling' => Len(buf) = want]_vars

\* Every call into the driver returns.
CallsReturn == pc # "idle" ~> pc = "idle"

\* A blocking read returns (cdrom.c:142): neither the handler's acknowledgement
\* nor its PAUSE, falling between the writes of cdrom.c:104-108, loses the
\* command whose answer the main thread goes on to wait for.
BlockingReadsEnd == pc = "flags" /\ cmd = "SETMODE" /\ blocking ~> pc = "idle"

\* A drive that reads is paused once the sectors asked for are there, as long
\* as it reports no error (cdrom.c:252-254).
PausesDrive == reading ~> ~reading \/ errs > 0

\* The same whatever the drive answers, to the handler's PAUSE too: cdromINT1
\* "will also pause the CDROM drive" (cdrom.c:240).
DriveStops == reading ~> ~reading
===============================================================================
