-------------------------- MODULE CdromDriver_proofs ---------------------------
(***************************************************************************)
(* For every set of sectors, every bound and every timing of the drive the *)
(* driver's state keeps its types.  With a drive that spares the driver's  *)
(* critical moments updateCDROM_TOC waits for its own completion, and      *)
(* startCDROMRead implements the abstract sector service.                  *)
(***************************************************************************)
EXTENDS CdromDriver, SequenceTheorems, TLAPS

(* Only the main thread adds to the FIFO, so what it has written of a      *)
(* command never exceeds the command's parameters.                         *)
FifoBound == /\ pc \in {"busy2", "index"} => fifo = 0
             /\ pc = "params" => fifo + argLeft <= ArgLength(cmd)

(* When the drive spares it, the window from the second busy check to the   *)
(* write of CDROM_COMMAND is free of the handler and of a command in the    *)
(* controller; so the register index is the one the main thread chose and   *)
(* the FIFO holds exactly the parameters written so far.                    *)
WindowFree == pc \in Window => hint = 0 /\ isr = "none" /\ ~busy
CommandIntact ==
    pc = "params" => /\ index = 0 /\ ~busy
                     /\ fifo + argLeft = ArgLength(cmd)

IInv == TypeOK /\ FifoBound /\ (SparesWindow => WindowFree /\ CommandIntact)

-------------------------------------------------------------------------------

(* No command takes more parameters than the four bytes of sendCommand. *)
LEMMA ArgLengthRange ==
  ASSUME NEW c PROVE ArgLength(c) \in 0..4
BY DEF ArgLength

(* The initial state satisfies the invariant. *)
LEMMA InitIInv == Init => IInv
<1> SUFFICES ASSUME Init PROVE IInv
    OBVIOUS
<1>1. MaxSectors \in Nat /\ MaxErrors \in Nat
      BY CdromAssumption DEF CdromAssumption
<1>2. BooleanTypes BY Zenon DEF Init, BooleanTypes
<1>3. MainTypes BY <1>1 DEF Init, MainTypes, MainPcs, Commands
<1>4. SharedTypes BY <1>1 DEF Init, SharedTypes, AllWaiting, Wrapped
<1>5. RegisterTypes BY DEF Init, RegisterTypes
<1>6. DriveTypes BY <1>1 DEF Init, DriveTypes
<1>7. pc = "idle" BY DEF Init
<1> QED BY <1>2, <1>3, <1>4, <1>5, <1>6, <1>7
        DEF IInv, TypeOK, FifoBound, WindowFree, CommandIntact, Window

(* Booleans stay Booleans: a step assigns a constant, a test or wait. *)
LEMMA NextBooleans ==
  ASSUME IInv, Next PROVE BooleanTypes'
<1> USE DEF IInv, TypeOK, BooleanTypes, mainVars, readVars, flagVars, regVars,
      driveVars, restVars, cpuVars
<1>1. CASE SendCommand BY Zenon, <1>1 DEF SendCommand
<1>2. CASE UpdateTOC BY Zenon, <1>2 DEF UpdateTOC
<1>3. CASE EndFrame BY Zenon, <1>3 DEF EndFrame
<1>4. ASSUME NEW l \in LBAs, NEW r \in Reads, StartRead(l, r[1], r[2])
      PROVE  BooleanTypes'
      BY Zenon, <1>4, CdromAssumption DEF StartRead, CdromAssumption, IssueNext
<1>5. CASE Flags BY Zenon, <1>5 DEF Flags, ResetFlags
<1>6. CASE ClearParameters BY Zenon, <1>6 DEF ClearParameters
<1>7. CASE CheckBusyAgain BY Zenon, <1>7 DEF CheckBusyAgain
<1>8. CASE SelectIndex BY Zenon, <1>8 DEF SelectIndex
<1>9. CASE WriteParameter BY Zenon, <1>9 DEF WriteParameter
<1>10. CASE WriteCommand BY Zenon, <1>10 DEF WriteCommand, Latch
<1>11. CASE WaitForINT3 BY Zenon, <1>11 DEF WaitForINT3
<1>12. CASE ReadAcked BY Zenon, <1>12 DEF ReadAcked
<1>13. CASE WaitForData BY Zenon, <1>13 DEF WaitForData
<1>14. CASE WaitForINT2 BY Zenon, <1>14 DEF WaitForINT2
<1>15. CASE SeeDataReady BY Zenon, <1>15 DEF SeeDataReady
<1>16. CASE WaitForVblank BY Zenon, <1>16 DEF WaitForVblank
<1>17. CASE cdromINT1 BY Zenon, <1>17 DEF cdromINT1, ResetFlags
<1>18. CASE PauseFromHandler BY Zenon, <1>18 DEF PauseFromHandler
<1>19. CASE cdromINT2 BY Zenon, <1>19 DEF cdromINT2
<1>20. CASE cdromINT345 BY Zenon, <1>20 DEF cdromINT345
<1>21. CASE handleVSyncIRQ BY Zenon, <1>21 DEF handleVSyncIRQ
<1>22. CASE Accept BY Zenon, <1>22 DEF Accept, TakeCommand
<1>23. CASE Refuse BY Zenon, <1>23 DEF Refuse, TakeCommand
<1>24. CASE Sector BY Zenon, <1>24 DEF Sector
<1>25. CASE ReadError BY Zenon, <1>25 DEF ReadError
<1>26. ASSUME NEW c \in {"PAUSE", "SETSESSION"}, Complete(c)
      PROVE  BooleanTypes'
      BY Zenon, <1>26 DEF Complete
<1> QED BY Zenon, <1>1, <1>2, <1>3, <1>4, <1>5, <1>6, <1>7, <1>8, <1>9, <1>10,
           <1>11, <1>12, <1>13, <1>14, <1>15, <1>16, <1>17,
           <1>18, <1>19, <1>20, <1>21, <1>22, <1>23, <1>24,
           <1>25, <1>26
        DEF Next, MainStep, Client, Handler, Drive

(* The types without the Booleans. *)
OtherTypes == MainTypes /\ SharedTypes /\ RegisterTypes /\ DriveTypes

(* A step of the main thread keeps the types: the FIFO takes no more bytes  *)
(* than the command has.                                                    *)
LEMMA MainOther ==
  ASSUME IInv, MainStep \/ Client PROVE OtherTypes'
<1> USE CdromAssumption DEF CdromAssumption, IInv, TypeOK, OtherTypes, MainTypes,
      SharedTypes, RegisterTypes, DriveTypes, MainPcs, Commands, mainVars,
      readVars, flagVars, regVars, driveVars, restVars, MainRuns, IssueNext
<1>1. CASE SendCommand BY <1>1 DEF SendCommand
<1>2. CASE UpdateTOC BY <1>2 DEF UpdateTOC
<1>3. CASE EndFrame BY <1>3 DEF EndFrame
<1>4. ASSUME NEW l \in LBAs, NEW r \in Reads, StartRead(l, r[1], r[2])
      PROVE  OtherTypes'
      BY <1>4 DEF StartRead, Wrapped
<1>5. CASE Flags BY <1>5 DEF Flags, ResetFlags, AllWaiting, INTs
<1>6. CASE ClearParameters BY <1>6 DEF ClearParameters
<1>7. CASE CheckBusyAgain BY <1>7 DEF CheckBusyAgain
<1>8. CASE SelectIndex BY <1>8, ArgLengthRange DEF SelectIndex
<1>9. CASE WriteParameter
      BY <1>9, ArgLengthRange DEF WriteParameter, MoreParameters, FifoBound
<1>10. CASE WriteCommand BY <1>10 DEF WriteCommand, Latch
<1>11. CASE WaitForINT3 BY <1>11 DEF WaitForINT3
<1>12. CASE ReadAcked BY <1>12 DEF ReadAcked
<1>13. CASE WaitForData BY <1>13 DEF WaitForData
<1>14. CASE WaitForINT2 BY <1>14 DEF WaitForINT2
<1>15. CASE SeeDataReady BY <1>15 DEF SeeDataReady
<1>16. CASE WaitForVblank BY <1>16 DEF WaitForVblank
<1> QED BY <1>1, <1>2, <1>3, <1>4, <1>5, <1>6, <1>7, <1>8, <1>9, <1>10,
           <1>11, <1>12, <1>13, <1>14, <1>15, <1>16 DEF MainStep, Client

(* The handler decrements a size_t and appends to the buffer. *)
LEMMA HandlerOther ==
  ASSUME IInv, Handler \/ handleVSyncIRQ PROVE OtherTypes'
<1> USE CdromAssumption DEF CdromAssumption, IInv, TypeOK, OtherTypes, MainTypes,
      SharedTypes, RegisterTypes, DriveTypes, mainVars, readVars, flagVars,
      regVars, driveVars, Acknowledge, Clear, INTs
<1>1. CASE cdromINT1
  <2>1. cdromReadDataNumSectors' \in 0..Wrapped
        BY <1>1 DEF cdromINT1, SectorsLeft, Wrapped
  <2>2. buf' \in Seq(Int) BY <1>1 DEF cdromINT1, DmaSector
  <2>3. waiting' \in [1..5 -> BOOLEAN] /\ isr' \in {"none", "pause"}
        BY <1>1 DEF cdromINT1, ResetFlags, AllWaiting
  <2> QED BY <1>1, <2>1, <2>2, <2>3 DEF cdromINT1
<1>2. CASE PauseFromHandler BY <1>2 DEF PauseFromHandler, Commands
<1>3. CASE cdromINT2 BY <1>3 DEF cdromINT2
<1>4. CASE cdromINT345 BY <1>4 DEF cdromINT345
<1>5. CASE handleVSyncIRQ BY <1>5 DEF handleVSyncIRQ
<1> QED BY <1>1, <1>2, <1>3, <1>4, <1>5 DEF Handler

(* The drive empties the FIFO and answers. *)
LEMMA DriveOther ==
  ASSUME IInv, Drive PROVE OtherTypes'
<1> USE CdromAssumption DEF CdromAssumption, IInv, TypeOK, OtherTypes, MainTypes,
      SharedTypes, RegisterTypes, DriveTypes, mainVars, readVars, flagVars,
      regVars, driveVars, cpuVars
<1>1. CASE Accept BY <1>1 DEF Accept, TakeCommand
<1>2. CASE Refuse BY <1>2 DEF Refuse, TakeCommand, CountError
<1>3. CASE Sector BY <1>3 DEF Sector
<1>4. CASE ReadError BY <1>4 DEF ReadError, CountError
<1>5. ASSUME NEW c \in {"PAUSE", "SETSESSION"}, Complete(c)
      PROVE  OtherTypes'
      BY <1>5 DEF Complete
<1> QED BY <1>1, <1>2, <1>3, <1>4, <1>5 DEF Drive

-------------------------------------------------------------------------------

(* The main thread fills the FIFO only through its own window, and enters   *)
(* the window only with the controller free and no interrupt pending.       *)
LEMMA MainWindow ==
  ASSUME IInv, MainStep \/ Client
  PROVE  FifoBound' /\ (SparesWindow => WindowFree' /\ CommandIntact')
<1> USE DEF IInv, FifoBound, WindowFree, CommandIntact, Window, TypeOK,
      MainTypes, RegisterTypes, DriveTypes, mainVars, readVars, flagVars,
      regVars, driveVars, restVars, MainRuns,
      IssueNext
<1>1. CASE SendCommand BY <1>1 DEF SendCommand
<1>2. CASE UpdateTOC BY <1>2 DEF UpdateTOC
<1>3. CASE EndFrame BY <1>3 DEF EndFrame
<1>4. ASSUME NEW l \in LBAs, NEW r \in Reads, StartRead(l, r[1], r[2])
      PROVE  FifoBound' /\ (SparesWindow => WindowFree' /\ CommandIntact')
      BY <1>4 DEF StartRead
<1>5. CASE Flags BY <1>5 DEF Flags
<1>6. CASE ClearParameters BY <1>6 DEF ClearParameters
<1>7. CASE CheckBusyAgain BY <1>7 DEF CheckBusyAgain, ControllerFree
<1>8. CASE SelectIndex BY <1>8, ArgLengthRange DEF SelectIndex
<1>9. CASE WriteParameter BY <1>9, ArgLengthRange DEF WriteParameter,
      MoreParameters
<1>10. CASE WriteCommand BY <1>10 DEF WriteCommand
<1>11. CASE WaitForINT3 BY <1>11 DEF WaitForINT3
<1>12. CASE ReadAcked BY <1>12 DEF ReadAcked
<1>13. CASE WaitForData BY <1>13 DEF WaitForData
<1>14. CASE WaitForINT2 BY <1>14 DEF WaitForINT2
<1>15. CASE SeeDataReady BY <1>15 DEF SeeDataReady
<1>16. CASE WaitForVblank BY <1>16 DEF WaitForVblank
<1> QED BY <1>1, <1>2, <1>3, <1>4, <1>5, <1>6, <1>7, <1>8, <1>9, <1>10, <1>11,
           <1>12, <1>13, <1>14, <1>15, <1>16 DEF MainStep, Client

(* The handler runs only outside the window that is spared; anywhere, it    *)
(* leaves the FIFO empty.                                                   *)
LEMMA HandlerWindow ==
  ASSUME IInv, Handler \/ handleVSyncIRQ
  PROVE  FifoBound' /\ (SparesWindow => WindowFree' /\ CommandIntact')
<1> USE ArgLengthRange DEF IInv, FifoBound, WindowFree, CommandIntact, Window,
      TypeOK, MainTypes, RegisterTypes, DriveTypes, mainVars, readVars,
      flagVars, regVars, driveVars, Acknowledge
<1>1. CASE cdromINT1 BY <1>1 DEF cdromINT1
<1>2. CASE PauseFromHandler BY <1>2 DEF PauseFromHandler
<1>3. CASE cdromINT2 BY <1>3 DEF cdromINT2
<1>4. CASE cdromINT345 BY <1>4 DEF cdromINT345
<1>5. CASE handleVSyncIRQ BY <1>5 DEF handleVSyncIRQ
<1> QED BY <1>1, <1>2, <1>3, <1>4, <1>5 DEF Handler

(* A drive that spares the window does nothing inside it. *)
LEMMA DriveWindow ==
  ASSUME IInv, Drive
  PROVE  FifoBound' /\ (SparesWindow => WindowFree' /\ CommandIntact')
<1> USE DEF IInv, FifoBound, WindowFree, CommandIntact, Window, TypeOK,
      MainTypes, RegisterTypes, DriveTypes, mainVars, readVars, flagVars,
      regVars, driveVars, cpuVars, MayInterrupt,
      Unsolicited
<1>1. CASE Accept
  <2>1. pc' = pc /\ cmd' = cmd /\ argLeft' = argLeft /\ index' = index
        BY <1>1 DEF Accept, TakeCommand
  <2>2. isr' = isr /\ fifo' = 0 /\ busy BY <1>1 DEF Accept, TakeCommand
  <2>3. SparesWindow => pc \notin {"index", "params"} BY <1>1 DEF Accept, TakeCommand
  <2> QED BY <2>1, <2>2, <2>3, ArgLengthRange
<1>2. CASE Refuse BY <1>2, ArgLengthRange DEF Refuse, TakeCommand
<1>3. CASE Sector BY <1>3 DEF Sector
<1>4. CASE ReadError BY <1>4 DEF ReadError
<1>5. ASSUME NEW c \in {"PAUSE", "SETSESSION"}, Complete(c)
      PROVE  FifoBound' /\ (SparesWindow => WindowFree' /\ CommandIntact')
      BY <1>5 DEF Complete
<1> QED BY <1>1, <1>2, <1>3, <1>4, <1>5 DEF Drive

(* The invariant is inductive. *)
LEMMA NextIInv == IInv /\ [Next]_vars => IInv'
<1> SUFFICES ASSUME IInv, [Next]_vars PROVE IInv'
    OBVIOUS
<1>1. CASE Next
      BY <1>1, NextBooleans, MainOther, HandlerOther, DriveOther, MainWindow,
         HandlerWindow, DriveWindow DEF Next, IInv, TypeOK, OtherTypes
<1>2. CASE UNCHANGED vars
      BY <1>2 DEF vars, mainVars, readVars, flagVars, regVars, driveVars, IInv,
         TypeOK, BooleanTypes, MainTypes, SharedTypes, RegisterTypes,
         DriveTypes, FifoBound,
         WindowFree, CommandIntact
<1> QED BY <1>1, <1>2

(* The inductive invariant holds in every reachable state. *)
THEOREM Inductive == Spec => []IInv
<1>1. Init => IInv BY InitIInv
<1>2. IInv /\ [Next]_vars => IInv' BY NextIInv
<1> QED BY <1>1, <1>2, PTL DEF Spec

(* The driver's state keeps its types: in particular the FIFO is never      *)
(* overfilled and numSectors stays a size_t (cdrom.c:105-108 and 252).      *)
THEOREM TypeCorrect == Spec => []TypeOK
<1>1. IInv => TypeOK BY DEF IInv
<1> QED BY <1>1, Inductive, PTL

-------------------------------------------------------------------------------
(* Which call of the driver the main thread is in. *)

AtRest  == {"idle", "waitVblank"}
Issuing == {"flags", "busy1", "busy2", "index", "params"}

InRead == cmd \in {"SETMODE", "SETLOC", "READ_N"} /\ pc \notin AtRest
InToc  == cmd = "SETSESSION" /\ pc \notin AtRest

(* Only the commands that are waited for are waited for; and while a read   *)
(* that does not block is outstanding, only sendCommand issues commands.    *)
Calls == /\ cmd # "PAUSE"
         /\ cmd = "TEST" => pc \in AtRest \union Issuing
         /\ pc \in {"readAcked", "waitInt1"} => cmd = "READ_N"
         /\ pc = "waitInt1" => blocking
         /\ pc = "waitInt2" => cmd = "SETSESSION"
         /\ polling => ~blocking /\ (pc \in AtRest \/ cmd = "TEST")

(* The calls follow one another as the main thread issues them. *)
LEMMA NextCalls == ASSUME IInv, Calls, [Next]_vars PROVE Calls'
<1> USE DEF Calls, InRead, InToc, AtRest, Issuing, IInv, TypeOK, MainTypes,
      MainPcs, BooleanTypes, mainVars, readVars, flagVars, regVars, driveVars,
      restVars, cpuVars, IssueNext
<1>1. CASE Client
      BY <1>1 DEF Client, SendCommand, UpdateTOC, EndFrame, StartRead
<1>2. CASE MainStep
  <2>1. CASE WaitForINT3 BY <2>1 DEF WaitForINT3, Commands
  <2>2. CASE WriteCommand BY <2>2 DEF WriteCommand
  <2>3. CASE ReadAcked BY <2>3 DEF ReadAcked
  <2> QED BY <1>2, <2>1, <2>2, <2>3
          DEF MainStep, Flags, ClearParameters, CheckBusyAgain, SelectIndex,
              WriteParameter, WaitForData, WaitForINT2, SeeDataReady,
              WaitForVblank
<1>3. CASE Handler \/ handleVSyncIRQ
      BY <1>3 DEF Handler, cdromINT1, PauseFromHandler, cdromINT2, cdromINT345,
         handleVSyncIRQ
<1>4. CASE Drive
  <2>1. UNCHANGED <<pc, cmd, blocking, polling>>
        BY <1>4 DEF Drive, Accept, Refuse, TakeCommand, Sector, ReadError,
           Complete
  <2> QED BY <2>1
<1>5. CASE UNCHANGED vars BY <1>5 DEF vars
<1> QED BY <1>1, <1>2, <1>3, <1>4, <1>5 DEF Next

-------------------------------------------------------------------------------
(* updateCDROM_TOC: SETSESSION is issued to a drive at rest, so that every  *)
(* interrupt until its return is an answer to it.                           *)

(* Up to the write of the command nothing is on its way; the controller     *)
(* holds it until it is taken, and completes it after that.                 *)
TocInv ==
    InToc => /\ ~reading /\ isr = "none" /\ hint # 1 /\ "PAUSE" \notin completing
             /\ pc \in Issuing \union {"waitInt3", "waitInt2"}
             /\ pc \in Issuing => ~busy /\ completing = {} /\ hint = 0
             /\ pc \in Issuing \ {"flags"} => waiting = AllWaiting
             /\ busy => /\ latched = "SETSESSION" /\ completing = {}
                        /\ hint = 0 /\ waiting = AllWaiting
             /\ "SETSESSION" \in completing => waiting[2] /\ hint # 2
             /\ pc = "waitInt2" => ~busy

(* The invariant of updateCDROM_TOC is kept by the main thread ... *)
LEMMA MainToc ==
  ASSUME IInv, TocInv, MainStep \/ Client PROVE TocInv'
<1> USE DEF TocInv, InToc, AtRest, Issuing, IInv, TypeOK, MainTypes, MainPcs,
      SharedTypes, INTs, mainVars, readVars, flagVars, regVars, driveVars,
      restVars, MainRuns, IssueNext
<1>1. CASE SendCommand BY <1>1 DEF SendCommand
<1>2. CASE UpdateTOC BY <1>2 DEF UpdateTOC, Settled
<1>3. CASE EndFrame BY <1>3 DEF EndFrame
<1>4. ASSUME NEW l \in LBAs, NEW r \in Reads, StartRead(l, r[1], r[2])
      PROVE  TocInv'
      BY <1>4 DEF StartRead
<1>5. CASE Flags BY <1>5 DEF Flags, ResetFlags, AllWaiting
<1>6. CASE ClearParameters BY <1>6 DEF ClearParameters
<1>7. CASE CheckBusyAgain BY <1>7 DEF CheckBusyAgain
<1>8. CASE SelectIndex BY <1>8 DEF SelectIndex
<1>9. CASE WriteParameter BY <1>9 DEF WriteParameter
<1>10. CASE WriteCommand BY <1>10 DEF WriteCommand, Latch
<1>11. CASE WaitForINT3
       BY <1>11 DEF WaitForINT3, Woken, AllWaiting
<1>12. CASE ReadAcked BY <1>12 DEF ReadAcked
<1>13. CASE WaitForData BY <1>13 DEF WaitForData
<1>14. CASE WaitForINT2 BY <1>14 DEF WaitForINT2
<1>15. CASE SeeDataReady BY <1>15 DEF SeeDataReady
<1>16. CASE WaitForVblank BY <1>16 DEF WaitForVblank
<1> QED BY <1>1, <1>2, <1>3, <1>4, <1>5, <1>6, <1>7, <1>8, <1>9, <1>10, <1>11,
           <1>12, <1>13, <1>14, <1>15, <1>16 DEF MainStep, Client

(* ... by the handler, which clears the flag of the answer that came ...    *)
LEMMA HandlerToc ==
  ASSUME IInv, TocInv, Handler \/ handleVSyncIRQ PROVE TocInv'
<1> USE DEF TocInv, InToc, AtRest, Issuing, IInv, TypeOK, SharedTypes,
      DriveTypes, INTs, mainVars, readVars, flagVars, regVars, driveVars,
      Acknowledge, Clear
<1>1. CASE cdromINT1 BY <1>1 DEF cdromINT1
<1>2. CASE PauseFromHandler BY <1>2 DEF PauseFromHandler
<1>3. CASE cdromINT2 BY <1>3 DEF cdromINT2
<1>4. CASE cdromINT345 BY <1>4 DEF cdromINT345
<1>5. CASE handleVSyncIRQ BY <1>5 DEF handleVSyncIRQ
<1> QED BY <1>1, <1>2, <1>3, <1>4, <1>5 DEF Handler

(* ... and by the drive, which has no other command to answer.              *)
LEMMA DriveToc ==
  ASSUME IInv, TocInv, Drive PROVE TocInv'
<1> USE DEF TocInv, InToc, AtRest, Issuing, IInv, TypeOK, DriveTypes, mainVars,
      readVars, flagVars, regVars, driveVars, cpuVars, MayInterrupt,
      Unsolicited, AllWaiting, INTs
<1>1. CASE Accept BY <1>1 DEF Accept, TakeCommand
<1>2. CASE Refuse BY <1>2 DEF Refuse, TakeCommand
<1>3. CASE Sector BY <1>3 DEF Sector
<1>4. CASE ReadError BY <1>4 DEF ReadError
<1>5. ASSUME NEW c \in {"PAUSE", "SETSESSION"}, Complete(c) PROVE TocInv'
      BY <1>5 DEF Complete
<1> QED BY <1>1, <1>2, <1>3, <1>4, <1>5 DEF Drive

(* A step keeps it, and a return without an error leaves the drive settled. *)
LEMMA NextToc ==
  ASSUME IInv, Calls, TocInv, [Next]_vars
  PROVE  /\ TocInv'
         /\ pc = "waitInt2" /\ pc' = "idle" /\ waiting[5]
              => ~busy /\ "SETSESSION" \notin completing
<1>1. TocInv'
  <2>1. CASE Next BY <2>1, MainToc, HandlerToc, DriveToc DEF Next
  <2>2. CASE UNCHANGED vars
        BY <2>2 DEF vars, mainVars, flagVars, regVars, driveVars, TocInv, InToc
  <2> QED BY <2>1, <2>2
<1>2. ASSUME pc = "waitInt2", pc' = "idle", waiting[5]
      PROVE  ~busy /\ "SETSESSION" \notin completing
  <2>1. WaitForINT2
    <3>1. CASE MainStep
          BY <1>2, <3>1 DEF MainStep, Flags, ClearParameters, CheckBusyAgain,
             SelectIndex, WriteParameter, WriteCommand, WaitForINT3, ReadAcked,
             WaitForData, SeeDataReady, WaitForVblank
    <3>2. CASE Client
          BY <1>2, <3>2 DEF Client, SendCommand, UpdateTOC, EndFrame, StartRead
    <3>3. CASE Handler \/ handleVSyncIRQ
          BY <1>2, <3>3 DEF Handler, cdromINT1, PauseFromHandler, cdromINT2,
             cdromINT345, handleVSyncIRQ
    <3>4. CASE Drive
          BY <1>2, <3>4 DEF Drive, Accept, Refuse, TakeCommand, Sector,
             ReadError, Complete, cpuVars
    <3>5. CASE UNCHANGED vars BY <1>2, <3>5 DEF vars
    <3> QED BY <3>1, <3>2, <3>3, <3>4, <3>5 DEF Next
  <2> QED BY <1>2, <2>1
          DEF WaitForINT2, Woken, Calls, TocInv, InToc, AtRest
<1> QED BY <1>1, <1>2

(* updateCDROM_TOC returns without an error only when the drive has taken   *)
(* SETSESSION and completed it, for every timing of the drive: no INT2 of a *)
(* PAUSE can be mistaken for its own (cdrom.c:193-201, main.c:684).         *)
THEOREM TocIsSettled == Spec => TocSettled
<1>1. Init => Calls /\ TocInv
      BY DEF Init, Calls, TocInv, InToc, AtRest, Issuing
<1>2. IInv /\ Calls /\ TocInv /\ [Next]_vars => Calls' /\ TocInv'
      BY NextCalls, NextToc
<1>3. IInv /\ Calls /\ TocInv /\ [Next]_vars
        => [pc = "waitInt2" /\ pc' = "idle" /\ waiting[5]
              => ~busy /\ "SETSESSION" \notin completing]_vars
      BY NextToc
<1> QED BY <1>1, <1>2, <1>3, Inductive, PTL DEF Spec, TocSettled

-------------------------------------------------------------------------------
(* The reads, as long as the drive has not reported an error.               *)

(* The service is promised to callers that ask for a sector at least, that  *)
(* block for one sector only, and that read in the background only from a   *)
(* drive at rest; and by a drive that spares the driver's critical moments. *)
Served == /\ Quiet /\ SparesWindow /\ ~EagerReads
          /\ \A r \in Reads : r[1] >= 1 /\ (r[2] => r[1] = 1)

Left == cdromReadDataNumSectors

(* READ_N has not been written yet; SETMODE has not been either, so that    *)
(* the PAUSE of the last read may still be on its way.                      *)
Starting  == InRead /\ (cmd = "READ_N" => pc \in Issuing)
Preparing == InRead /\ cmd = "SETMODE" /\ pc \in {"flags", "busy1"}

NoErrors == hint # 5 /\ waiting[5]

Controller == /\ latched = "none" <=> ~busy
              /\ busy => fifo = ArgLength(latched)
              /\ busy /\ hint # 0 => latched = "PAUSE"

(* Whose command the controller holds, and whose PAUSE the handler issues.  *)
InFlight ==
    /\ latched = "READ_N" =>
           /\ ~reading /\ Left = want
           /\ polling \/ (cmd = "READ_N" /\ pc \notin AtRest \union Issuing)
    /\ latched = "SETLOC" => \/ cmd = "SETLOC" /\ pc = "waitInt3"
                             \/ cmd = "READ_N" /\ pc \in {"flags", "busy1"}
    /\ latched = "PAUSE" => Left = 0 \/ (Preparing /\ blocking)
    /\ isr = "pause" => /\ Left = 0 /\ reading /\ hint # 1 /\ ~Starting
                        /\ latched \notin {"PAUSE", "READ_N", "SETLOC"}

Counted == /\ Left = want - Len(buf) /\ buf \in Seq(Nat)
           /\ InRead \/ polling => want > 0
           /\ InRead /\ blocking => want = 1
           /\ Starting => Left = want /\ isr = "none" /\ hint # 1

(* From SETLOC on, the drive's position is the next sector to arrive.       *)
Located == \/ cmd = "SETLOC" /\ pc = "waitInt3" /\ latched # "SETLOC"
           \/ cmd = "READ_N" /\ pc \in {"flags", "busy1"} /\ latched # "SETLOC"
           \/ cmd = "READ_N" /\ pc \in {"busy2", "index", "params"}
           \/ latched = "READ_N"
           \/ reading /\ Left > 0 /\ ~Preparing
Arriving == IF hint = 1 THEN 1 ELSE 0
Positioned == Located => position = lba + Len(buf) + Arriving

(* The drive reads for an outstanding read, or is about to be paused.       *)
Reading ==
    /\ reading => \/ Left > 0 /\ ReadPending /\ ~Starting
                  \/ Left = 0 /\ (isr = "pause" \/ latched = "PAUSE")
                  \/ Preparing /\ blocking /\ latched = "PAUSE"
    /\ hint = 1 => reading /\ Left > 0 /\ ~busy /\ isr = "none"

(* What the two ways of waiting for the data go by.                         *)
Awaited ==
    /\ cmd = "READ_N" /\ pc \notin AtRest \union {"flags"} /\ blocking
       /\ ~waiting[1] => Left = 0
    /\ (InRead /\ ~blocking) \/ polling =>
         /\ completing # {} \/ hint = 2 => Left = 0
         /\ cdromDataReady /\ ~(cmd = "SETMODE" /\ pc = "flags") => Left = 0

Serving == /\ NoErrors /\ Controller /\ InFlight /\ Counted /\ Positioned
           /\ Reading /\ Awaited

RInv == IInv /\ Calls /\ (errs = 0 => Serving)

(* With a sector left to read, the count is not about to wrap and the       *)
(* buffer has room.                                                         *)
LEMMA TakesSector ==
  ASSUME RInv, errs = 0, cdromINT1
  PROVE  /\ Left' = Left - 1 /\ Left > 0 /\ Left \in Nat /\ want \in Nat
         /\ buf' = Append(buf, position - 1) /\ Len(buf') = Len(buf) + 1
         /\ Len(buf) \in Nat /\ Len(buf) < want
         /\ position = (lba + Len(buf)) + 1
         /\ isr = "none" /\ ~busy /\ reading /\ ReadPending /\ ~Starting
<1>1. /\ Left > 0 /\ isr = "none" /\ ~busy /\ reading
      /\ Left = want - Len(buf)
      BY DEF RInv, Serving, Reading, cdromINT1, Counted
<1>2. /\ Left \in 0..Wrapped /\ want \in 0..MaxSectors /\ MaxSectors \in Nat
      /\ Len(buf) \in Nat /\ buf \in Seq(Int) /\ position \in Nat
      /\ MaxOverrun \in Nat /\ lba \in Nat
      BY CdromAssumption
      DEF RInv, IInv, TypeOK, MainTypes, SharedTypes, DriveTypes, Left,
          CdromAssumption
<1>3. Left' = Left - 1
  <2>1. Left \in 1..MaxSectors BY <1>1, <1>2 DEF Wrapped
  <2> QED BY <2>1 DEF cdromINT1, SectorsLeft, Left
<1>4. Recorded BY <1>1, <1>2 DEF Recorded
<1>5. buf' = Append(buf, position - 1) BY <1>4 DEF cdromINT1, DmaSector
<1>6. Len(buf') = Len(buf) + 1 BY <1>2, <1>5
<1>7. ReadPending /\ ~Starting /\ ~Preparing
      BY <1>1, <1>2 DEF RInv, Serving, Reading, Controller, Preparing, Starting, InRead, AtRest
<1>8. position = (lba + Len(buf)) + 1
      BY <1>1, <1>2, <1>7
      DEF RInv, Serving, Positioned, Located, Arriving, cdromINT1
<1> QED BY <1>1, <1>2, <1>3, <1>5, <1>6, <1>7, <1>8

(* The sector that is taken is the next one; with the last, the handler     *)
(* goes on to the PAUSE.                                                    *)
LEMMA SectorServes ==
  ASSUME RInv, errs = 0, cdromINT1 PROVE Serving'
<1>1. /\ Left' = Left - 1 /\ Left > 0 /\ Left \in Nat /\ want \in Nat
      /\ Len(buf') = Len(buf) + 1 /\ Len(buf) \in Nat
      /\ position = (lba + Len(buf)) + 1
      /\ isr = "none" /\ ~busy /\ reading /\ ReadPending /\ ~Starting
      BY TakesSector
<1>2. /\ UNCHANGED <<pc, cmd, lba, want, blocking, polling, busy, latched,
                     position, reading, completing>>
      /\ hint = 1 /\ hint' = 0 /\ fifo' = 0
      BY DEF cdromINT1, mainVars, Acknowledge
<1>3. IF Left' = 0
      THEN waiting' = AllWaiting /\ ~cdromDataReady' /\ isr' = "pause"
      ELSE waiting' = [waiting EXCEPT ![1] = FALSE] /\ UNCHANGED <<cdromDataReady, isr>>
      BY DEF cdromINT1, LastSector, Left, ResetFlags, Clear
<1>4. waiting \in [1..5 -> BOOLEAN] /\ waiting[5] /\ lba \in Nat
      BY DEF RInv, IInv, TypeOK, SharedTypes, MainTypes, INTs, Serving, NoErrors
<1>5. UNCHANGED <<ReadPending, InRead, Starting, Preparing>>
      BY <1>2 DEF ReadPending, InRead, Starting, Preparing
<1>6. latched = "none" /\ ~Preparing
      BY <1>1, <1>2
      DEF RInv, Serving, Controller, Starting, Preparing, InRead, AtRest,
          Issuing
<1>7. NoErrors' BY <1>2, <1>3, <1>4 DEF NoErrors, AllWaiting, INTs
<1>8. Controller' BY <1>1, <1>2, <1>6 DEF Controller
<1>9. InFlight' BY <1>1, <1>2, <1>3, <1>5, <1>6 DEF InFlight
<1>10. Counted'
  <2>1. buf' = Append(buf, lba + Len(buf))
    <3>1. buf' = Append(buf, position - 1) BY TakesSector
    <3>2. position - 1 = lba + Len(buf) BY <1>1, <1>4
    <3> QED BY <3>1, <3>2
  <2>2. buf' \in Seq(Nat) BY <1>1, <1>4, <2>1 DEF RInv, Serving, Counted
  <2> QED BY <1>1, <1>2, <1>5, <2>2 DEF RInv, Serving, Counted, Left
<1>11. Positioned'
       BY <1>1, <1>2, <1>4 DEF Positioned, Arriving
<1>12. Reading' BY <1>1, <1>2, <1>3, <1>5 DEF Reading
<1>13. Awaited'
  <2>1. CASE Left' = 0 BY <2>1 DEF Awaited
  <2>2. CASE Left' # 0
    <3>1. ~(InRead /\ blocking)
          BY <1>1, <2>2 DEF RInv, Serving, Counted, Left
    <3>2. ~(cmd = "READ_N" /\ pc \notin AtRest \union {"flags"} /\ blocking)
          BY <3>1 DEF InRead
    <3>3. UNCHANGED cdromDataReady BY <1>3, <2>2
    <3>4. (InRead /\ ~blocking) \/ polling =>
             completing = {} /\ (cdromDataReady => cmd = "SETMODE" /\ pc = "flags")
          BY <1>1 DEF RInv, Serving, Awaited
    <3> QED BY <1>2, <1>5, <3>2, <3>3, <3>4 DEF Awaited, AtRest
  <2> QED BY <2>1, <2>2
<1> QED BY <1>7, <1>8, <1>9, <1>10, <1>11, <1>12, <1>13 DEF Serving

(* The main thread's own steps. *)
LEMMA MainServes ==
  ASSUME RInv, Served, errs = 0, MainStep PROVE Serving'
<1> USE DEF RInv, Served, Left, Starting, Preparing, NoErrors, Controller,
      InFlight, Counted, Located, Arriving, Positioned, Reading, Awaited,
      Serving, Calls, InRead, AtRest, Issuing, IInv, TypeOK, BooleanTypes,
      MainTypes, MainPcs, Commands, SharedTypes, RegisterTypes, DriveTypes,
      INTs, WindowFree, CommandIntact, Window, ReadPending, mainVars, readVars,
      flagVars, regVars, driveVars, restVars, IssueNext, MainRuns
<1>1. CASE Flags BY <1>1 DEF Flags, ResetFlags, AllWaiting
<1>2. CASE ClearParameters BY <1>2 DEF ClearParameters
<1>3. CASE CheckBusyAgain BY <1>3 DEF CheckBusyAgain, ControllerFree
<1>4. CASE SelectIndex BY <1>4 DEF SelectIndex
<1>5. CASE WriteParameter BY <1>5 DEF WriteParameter
<1>6. CASE WriteCommand
  <2> USE <1>6 DEF WriteCommand, Latch, MoreParameters, ArgLength
  <2>1. NoErrors' /\ Controller' /\ InFlight' OBVIOUS
  <2>2. Counted' /\ Positioned' OBVIOUS
  <2>3. Reading' /\ Awaited' OBVIOUS
  <2> QED BY <2>1, <2>2, <2>3
<1>7. CASE WaitForINT3
  <2> USE <1>7 DEF WaitForINT3
  <2>1. NoErrors' /\ Controller' /\ InFlight' OBVIOUS
  <2>2. Counted' /\ Positioned' OBVIOUS
  <2>3. Reading' /\ Awaited' OBVIOUS
  <2> QED BY <2>1, <2>2, <2>3
<1>8. CASE ReadAcked BY <1>8 DEF ReadAcked
<1>9. CASE WaitForData
  <2>1. Left = 0 BY <1>9 DEF WaitForData, Woken
  <2> QED BY <1>9, <2>1 DEF WaitForData
<1>10. CASE WaitForINT2 BY <1>10 DEF WaitForINT2
<1>11. CASE SeeDataReady BY <1>11 DEF SeeDataReady
<1>12. CASE WaitForVblank BY <1>12 DEF WaitForVblank
<1> QED BY <1>1, <1>2, <1>3, <1>4, <1>5, <1>6, <1>7, <1>8, <1>9, <1>10, <1>11,
           <1>12 DEF MainStep

(* The calls: a read starts with nothing on its way but an old PAUSE. *)
LEMMA ClientServes ==
  ASSUME RInv, Served, errs = 0, Client PROVE Serving'
<1> USE DEF RInv, Served, Left, Starting, Preparing, NoErrors, Controller,
      InFlight, Counted, Located, Arriving, Positioned, Reading, Awaited,
      Serving, Calls, InRead, AtRest, Issuing, IInv, TypeOK, BooleanTypes,
      MainTypes, MainPcs, Commands, SharedTypes, RegisterTypes, DriveTypes,
      INTs, ReadPending, mainVars, readVars, flagVars, regVars, driveVars,
      restVars, IssueNext, MainRuns
<1>1. CASE SendCommand BY <1>1 DEF SendCommand
<1>2. CASE UpdateTOC BY <1>2 DEF UpdateTOC, Settled
<1>3. CASE EndFrame BY <1>3 DEF EndFrame
<1>4. ASSUME NEW l \in LBAs, NEW r \in Reads, StartRead(l, r[1], r[2])
      PROVE  Serving'
  <2>0. r[1] \in 0..MaxSectors /\ r[1] >= 1 /\ l \in Nat /\ MaxSectors \in Nat
        BY Served, CdromAssumption DEF Served, CdromAssumption
  <2> USE <1>4, <2>0, CdromAssumption DEF StartRead, Settled, CdromAssumption
  <2>1. NoErrors' /\ Controller' /\ InFlight' OBVIOUS
  <2>2. Counted' /\ Positioned' OBVIOUS
  <2>3. Reading' OBVIOUS
  <2>4. Awaited'
    <3>1. /\ cmd' = "SETMODE" /\ pc' = "flags" /\ ~polling' /\ hint' = 0
          /\ blocking' \/ completing' = {}
          OBVIOUS
    <3> HIDE <1>4 DEF StartRead
    <3> QED BY <3>1
  <2> QED BY <2>1, <2>2, <2>3, <2>4
<1> QED BY <1>1, <1>2, <1>3, <1>4 DEF Client

(* The handler takes a sector, or the answer to a command. *)
LEMMA HandlerServes ==
  ASSUME RInv, Served, errs = 0, Handler \/ handleVSyncIRQ PROVE Serving'
<1> USE DEF RInv, Left, Starting, Preparing, NoErrors, Controller, InFlight,
      Counted, Located, Arriving, Positioned, Reading, Awaited, Serving, Calls,
      InRead, AtRest, Issuing, IInv, TypeOK, BooleanTypes, MainTypes, MainPcs,
      Commands, SharedTypes, RegisterTypes, DriveTypes, INTs, WindowFree,
      Window, ReadPending, mainVars, readVars, flagVars, regVars, driveVars,
      Acknowledge, Clear
<1>1. CASE cdromINT1 BY <1>1, SectorServes
<1>2. CASE PauseFromHandler
      BY <1>2 DEF PauseFromHandler, ControllerFree, ArgLength
<1>3. CASE cdromINT2 BY <1>3 DEF cdromINT2, ArgLength
<1>4. CASE cdromINT345
  <2> USE <1>4 DEF cdromINT345
  <2>1. Controller'
    <3>1. busy => latched = "PAUSE" OBVIOUS
    <3>2. UNCHANGED <<busy, latched>> /\ hint' = 0 /\ fifo' = 0 OBVIOUS
    <3>3. ArgLength("PAUSE") = 0 BY DEF ArgLength
    <3> HIDE <1>4 DEF cdromINT345
    <3> QED BY <3>1, <3>2, <3>3
  <2>2. NoErrors' /\ InFlight' /\ Counted' OBVIOUS
  <2>3. Positioned'
    <3>1. /\ UNCHANGED <<pc, cmd, latched, reading, Left, lba, buf, position>>
          /\ hint # 1 /\ hint' # 1
          BY DEF Left
    <3>2. Positioned OBVIOUS
    <3> HIDE <1>4 DEF cdromINT345
    <3>3. UNCHANGED Located BY <3>1 DEF Located
    <3> QED BY <3>1, <3>2, <3>3 DEF Positioned, Arriving
  <2>4. Reading' OBVIOUS
  <2>5. Awaited' OBVIOUS
  <2> QED BY <2>1, <2>2, <2>3, <2>4, <2>5
<1>5. CASE handleVSyncIRQ BY <1>5 DEF handleVSyncIRQ
<1> QED BY <1>1, <1>2, <1>3, <1>4, <1>5 DEF Handler

(* The drive finds the parameters of every command complete, and delivers   *)
(* only the sectors of an outstanding read.                                 *)
LEMMA DriveServes ==
  ASSUME RInv, Served, errs = 0, errs' = 0, Drive PROVE Serving'
<1> USE DEF RInv, Served, Left, Starting, Preparing, NoErrors, Controller,
      InFlight, Counted, Located, Arriving, Positioned, Reading, Awaited,
      Serving, Calls, InRead, AtRest, Issuing, IInv, TypeOK, BooleanTypes,
      MainTypes, MainPcs, Commands, SharedTypes, RegisterTypes, DriveTypes,
      INTs, Window, ReadPending, mainVars, readVars, flagVars, regVars,
      driveVars, cpuVars, MayInterrupt, Unsolicited
<1>1. CASE Accept
  <2> USE <1>1 DEF Accept, TakeCommand
  <2>1. NoErrors' /\ Controller' /\ InFlight' OBVIOUS
  <2>2. Counted' /\ Positioned' OBVIOUS
  <2>3. Reading' /\ Awaited' OBVIOUS
  <2> QED BY <2>1, <2>2, <2>3
<1>2. CASE Refuse BY <1>2 DEF Refuse, TakeCommand, CountError
<1>3. CASE Sector
  <2> USE <1>3 DEF Sector
  <2>1. NoErrors' /\ Controller' /\ InFlight' OBVIOUS
  <2>2. Counted' /\ Positioned' BY CdromAssumption DEF Recorded, CdromAssumption
  <2>3. Reading' /\ Awaited' OBVIOUS
  <2> QED BY <2>1, <2>2, <2>3
<1>4. CASE ReadError BY <1>4 DEF ReadError, CountError
<1>5. ASSUME NEW c \in {"PAUSE", "SETSESSION"}, Complete(c) PROVE Serving'
      BY <1>5 DEF Complete
<1> QED BY <1>1, <1>2, <1>3, <1>4, <1>5 DEF Drive

(* Errors are counted, never forgotten; only the drive reports them. *)
LEMMA ErrorsStay ==
  ASSUME IInv, [Next]_vars
  PROVE  /\ errs' = 0 => errs = 0
         /\ Drive \/ errs' = errs
<1>1. errs \in Nat
      BY CdromAssumption DEF IInv, TypeOK, DriveTypes, CdromAssumption
<1>2. CASE Client
      BY <1>2 DEF Client, SendCommand, UpdateTOC, EndFrame, StartRead,
         restVars, driveVars
<1>3. CASE MainStep
      BY <1>3 DEF MainStep, Flags, ClearParameters, CheckBusyAgain,
         SelectIndex, WriteParameter, WriteCommand, WaitForINT3, ReadAcked,
         WaitForData, WaitForINT2, SeeDataReady, WaitForVblank, restVars,
         driveVars
<1>4. CASE Handler \/ handleVSyncIRQ
      BY <1>4 DEF Handler, cdromINT1, PauseFromHandler, cdromINT2, cdromINT345,
         handleVSyncIRQ, driveVars
<1>5. CASE Drive
  <2>1. errs' = errs \/ errs' = errs + 1
        BY <1>5 DEF Drive, Accept, Refuse, TakeCommand, Sector, ReadError,
           Complete, CountError
  <2> QED BY <1>1, <1>5, <2>1
<1>6. CASE UNCHANGED vars BY <1>6 DEF vars, driveVars
<1> QED BY <1>2, <1>3, <1>4, <1>5, <1>6 DEF Next

(* The invariant of the reads is inductive. *)
LEMMA NextRInv ==
  ASSUME Served, RInv, [Next]_vars PROVE RInv'
<1>1. IInv' /\ Calls' BY NextIInv, NextCalls DEF RInv
<1>2. ASSUME errs' = 0 PROVE Serving'
  <2>1. errs = 0 /\ Serving BY <1>2, ErrorsStay DEF RInv
  <2>2. CASE Next
        BY <1>2, <2>1, <2>2, MainServes, ClientServes, HandlerServes,
           DriveServes DEF Next
  <2>3. CASE UNCHANGED vars
        BY <2>1, <2>3 DEF vars, mainVars, readVars, flagVars, regVars,
           driveVars, Serving, NoErrors, Controller, InFlight, Counted,
           Positioned, Located, Arriving, Reading, Awaited, Left, Starting,
           Preparing, InRead, ReadPending
  <2> QED BY <2>2, <2>3
<1> QED BY <1>1, <1>2 DEF RInv

(* The service's variables, as the driver implements them.                  *)
None == [lba |-> -1, want |-> 0]
Asked == IF ReadPending /\ errs = 0 THEN [lba |-> lba, want |-> want] ELSE None
Data  == IF errs = 0 THEN buf ELSE <<-1>>
ServiceStep == Service!Next \/ UNCHANGED <<Asked, Data>>

(* A step that leaves the read as it is. *)
LEMMA SameRead ==
  ASSUME UNCHANGED <<buf, lba, want, errs, ReadPending>> PROVE ServiceStep
<1>1. UNCHANGED Data BY DEF Data
<1>2. UNCHANGED Asked BY DEF Asked
<1> QED BY <1>1, <1>2 DEF ServiceStep

(* A request of the service is not its None, and a buffer is not its Lost.  *)
LEMMA RequestIsOne ==
  ASSUME RInv, errs = 0
  PROVE  [lba |-> lba, want |-> want] # None /\ buf # <<-1>>
<1>1. lba \in Nat /\ buf \in Seq(Nat)
      BY DEF RInv, IInv, TypeOK, MainTypes, Serving, Counted
<1>2. ASSUME [lba |-> lba, want |-> want] = None PROVE FALSE
  <2>1. [lba |-> lba, want |-> want].lba = None.lba BY <1>2
  <2> QED BY <1>1, <2>1 DEF None
<1>3. Len(buf) = 1 => buf[1] \in Nat
  <2>1. \A s \in Seq(Nat) : \A n \in 1..Len(s) : s[n] \in Nat BY ElementOfSeq
  <2>2. \A n \in 1..Len(buf) : buf[n] \in Nat BY <1>1, <2>1, Zenon
  <2> QED BY <2>2
<1>4. ASSUME buf = <<-1>> PROVE FALSE
  <2>1. Len(buf) = 1 /\ buf[1] = -1 BY <1>4
  <2>2. -1 \in Nat BY <1>3, <2>1
  <2> QED BY <2>2
<1> QED BY <1>2, <1>4

(* The read is over with every sector there. *)
LEMMA Finishes ==
  ASSUME RInv, errs = 0, ReadPending, ~ReadPending', Left = 0,
         UNCHANGED <<buf, lba, want, errs>>
  PROVE  ServiceStep
<1>1. Asked = [lba |-> lba, want |-> want] /\ Asked' = None
      BY DEF Asked
<1>2. Len(buf) = want
  <2>1. Left = want - Len(buf) /\ want \in Nat /\ Len(buf) \in Nat
        BY CdromAssumption
        DEF RInv, IInv, TypeOK, MainTypes, Serving, Counted, CdromAssumption
  <2> QED BY <2>1
<1>3. Asked # None /\ Asked.want = Len(buf) BY <1>1, <1>2, RequestIsOne
<1>4. Data = buf /\ UNCHANGED Data BY DEF Data
<1>5. Service!Finish
      BY <1>1, <1>3, <1>4 DEF Service!Finish, Asked, Data, None
<1> QED BY <1>5 DEF ServiceStep, Service!Next

(* What the main thread's steps mean to the service: a wait that ends, ends *)
(* the read with every sector there.                                        *)
LEMMA MainImplements ==
  ASSUME RInv, errs = 0, MainStep PROVE ServiceStep
<1> USE DEF mainVars, restVars, readVars, driveVars
<1>1. CASE WaitForData
  <2>1. Left = 0
        BY <1>1 DEF WaitForData, Woken, RInv, Calls, Serving, NoErrors, Awaited,
           AtRest
  <2>2. ReadPending /\ ~ReadPending'
        BY <1>1 DEF WaitForData, ReadPending, RInv, Calls, AtRest
  <2> QED BY <1>1, <2>1, <2>2, Finishes DEF WaitForData
<1>2. CASE SeeDataReady
  <2>1. Left = 0 BY <1>2 DEF SeeDataReady, RInv, Serving, Awaited
  <2>2. ReadPending /\ ~ReadPending' BY <1>2 DEF SeeDataReady, ReadPending
  <2> QED BY <1>2, <2>1, <2>2, Finishes DEF SeeDataReady
<1>3. CASE ReadAcked
  <2>1. waiting[5] /\ cmd = "READ_N" 
        BY <1>3 DEF ReadAcked, RInv, Calls, Serving, NoErrors
  <2>2. ReadPending /\ ReadPending' BY <1>3, <2>1 DEF ReadAcked, ReadPending
  <2> QED BY <1>3, <2>2, SameRead DEF ReadAcked
<1>4. CASE WaitForINT3
  <2>1. UNCHANGED ReadPending
        BY <1>4 DEF WaitForINT3, ReadPending, IssueNext
  <2> QED BY <1>4, <2>1, SameRead DEF WaitForINT3
<1>5. CASE \/ Flags \/ ClearParameters \/ CheckBusyAgain \/ SelectIndex
           \/ WriteParameter \/ WriteCommand \/ WaitForINT2 \/ WaitForVblank
  <2>1. UNCHANGED <<buf, lba, want, errs, cmd, polling>>
        BY <1>5 DEF Flags, ClearParameters, CheckBusyAgain, SelectIndex,
           WriteParameter, WriteCommand, WaitForINT2, WaitForVblank
  <2>2. cmd \in {"SETMODE", "SETLOC", "READ_N"}
          => (pc \in AtRest <=> pc' \in AtRest)
        BY <1>5 DEF Flags, ClearParameters, CheckBusyAgain, SelectIndex,
           WriteParameter, WriteCommand, WaitForINT2, WaitForVblank, RInv,
           Calls, AtRest
  <2>3. UNCHANGED ReadPending BY <2>1, <2>2 DEF ReadPending, AtRest
  <2> QED BY <2>1, <2>3, SameRead
<1> QED BY <1>1, <1>2, <1>3, <1>4, <1>5 DEF MainStep

(* A read that starts is a request. *)
LEMMA ClientImplements ==
  ASSUME RInv, Served, errs = 0, Client PROVE ServiceStep
<1> USE DEF restVars, readVars, driveVars, IssueNext
<1>1. CASE SendCommand \/ UpdateTOC \/ EndFrame
  <2>1. UNCHANGED ReadPending
        BY <1>1 DEF SendCommand, UpdateTOC, EndFrame, ReadPending, mainVars
  <2> QED BY <1>1, <2>1, SameRead
          DEF SendCommand, UpdateTOC, EndFrame, mainVars
<1>2. ASSUME NEW l \in LBAs, NEW r \in Reads, StartRead(l, r[1], r[2])
      PROVE  ServiceStep
  <2>1. r[1] \in 1..MaxSectors BY Served, CdromAssumption
        DEF Served, CdromAssumption
  <2>2. ~ReadPending /\ ReadPending' /\ errs' = 0
        BY <1>2 DEF StartRead, ReadPending
  <2>3. Asked = None /\ Asked' = [lba |-> l, want |-> r[1]]
        BY <1>2, <2>2 DEF StartRead, Asked
  <2>4. Data # <<-1>> /\ Data' = << >>
        BY <1>2, <2>2, RequestIsOne DEF StartRead, Data
  <2>5. [lba |-> l, want |-> r[1]] \in Service!Requests
        BY <2>1 DEF Service!Requests
  <2>6. Service!Request([lba |-> l, want |-> r[1]])
        BY <2>3, <2>4 DEF Service!Request, Asked, Data, None
  <2> QED BY <2>5, <2>6 DEF ServiceStep, Service!Next
<1> QED BY <1>1, <1>2 DEF Client

(* A sector that is taken is a delivery. *)
LEMMA HandlerImplements ==
  ASSUME RInv, errs = 0, Handler \/ handleVSyncIRQ PROVE ServiceStep
<1>1. CASE cdromINT1
  <2>1. UNCHANGED <<ReadPending, lba, want, errs>>
        BY <1>1 DEF cdromINT1, ReadPending, mainVars
  <2>2. /\ ReadPending /\ Len(buf) < want
        /\ buf' = Append(buf, lba + Len(buf))
    <3>1. /\ ReadPending /\ Len(buf) < want
          /\ buf' = Append(buf, position - 1)
          /\ position = (lba + Len(buf)) + 1 /\ Len(buf) \in Nat
          BY <1>1, TakesSector
    <3>2. lba \in Nat BY DEF RInv, IInv, TypeOK, MainTypes
    <3>3. position - 1 = lba + Len(buf) BY <3>1, <3>2
    <3> QED BY <3>1, <3>3
  <2>3. Asked = [lba |-> lba, want |-> want] /\ UNCHANGED Asked
        BY <2>1, <2>2 DEF Asked
  <2>4. Data = buf /\ Data' = buf' BY <2>1 DEF Data
  <2>5. Asked # None /\ Asked.want = want /\ Asked.lba = lba
        BY <2>3, RequestIsOne
  <2>6. Service!Deliver
        BY <2>2, <2>3, <2>4, <2>5 DEF Service!Deliver, Asked, Data, None
  <2> QED BY <2>6 DEF ServiceStep, Service!Next
<1>2. CASE PauseFromHandler \/ cdromINT2 \/ cdromINT345 \/ handleVSyncIRQ
  <2>1. UNCHANGED <<buf, lba, want, errs, ReadPending>>
        BY <1>2 DEF PauseFromHandler, cdromINT2, cdromINT345, handleVSyncIRQ,
           mainVars, readVars, driveVars, ReadPending
  <2> QED BY <2>1, SameRead
<1> QED BY <1>1, <1>2 DEF Handler

(* An error of the drive ends the service; nothing else it does is seen.    *)
LEMMA DriveImplements ==
  ASSUME RInv, errs = 0, Drive PROVE ServiceStep
<1>1. UNCHANGED <<buf, lba, want, ReadPending>>
  <2>1. UNCHANGED cpuVars
        BY DEF Drive, Accept, Refuse, TakeCommand, Sector, ReadError, Complete
  <2> QED BY <2>1 DEF cpuVars, mainVars, readVars, ReadPending
<1>2. CASE errs' = 0 BY <1>1, <1>2, SameRead
<1>3. CASE errs' # 0
  <2>1. Asked' = None /\ Data' = <<-1>> BY <1>3 DEF Asked, Data
  <2>2. Service!Fail BY <2>1 DEF Service!Fail, Asked, Data, None
  <2> QED BY <2>2 DEF ServiceStep, Service!Next
<1> QED BY <1>2, <1>3

(* Every step is one of the service, or none. *)
LEMMA NextImplements ==
  ASSUME RInv, Served, [Next]_vars PROVE ServiceStep
<1>1. CASE errs = 0 /\ Next
      BY <1>1, MainImplements, ClientImplements, HandlerImplements,
         DriveImplements DEF Next
<1>2. CASE errs # 0
  <2>1. errs' # 0 BY <1>2, ErrorsStay DEF RInv
  <2> QED BY <1>2, <2>1 DEF ServiceStep, Asked, Data
<1>3. CASE UNCHANGED vars
  <2>1. UNCHANGED <<buf, lba, want, errs, ReadPending>>
        BY <1>3 DEF vars, mainVars, readVars, driveVars, ReadPending
  <2> QED BY <2>1, SameRead
<1> QED BY <1>1, <1>2, <1>3

(* At first the drive is at rest and the buffer empty. *)
LEMMA InitRInv == Init => RInv /\ Service!Init
<1> SUFFICES ASSUME Init PROVE RInv /\ Service!Init
    OBVIOUS
<1>1. IInv BY InitIInv
<1>2. Calls /\ TocInv
      BY DEF Init, Calls, TocInv, InToc, AtRest, Issuing
<1>3. Serving
  <2>1. waiting = AllWaiting BY DEF Init
  <2>2. NoErrors BY <2>1 DEF Init, NoErrors, AllWaiting, INTs
  <2>3. Controller /\ InFlight /\ Reading
        BY DEF Init, Controller, InFlight, Reading
  <2>4. Counted
    <3>1. pc = "idle" /\ ~polling /\ buf = << >> /\ want = 0 /\ Left = 0
          BY DEF Init, Left
    <3>2. Len(buf) = 0 /\ buf \in Seq(Nat) BY <3>1
    <3>3. Left = want - Len(buf)
      <4>1. 0 = 0 - 0 OBVIOUS
      <4> QED BY Zenon, <3>1, <3>2, <4>1
    <3>4. ~InRead BY <3>1 DEF InRead, AtRest
    <3> QED BY <3>1, <3>2, <3>3, <3>4 DEF Counted, Starting
  <2>5. Positioned BY DEF Init, Positioned, Located
  <2>6. Awaited BY DEF Init, Awaited, InRead, AtRest
  <2> QED BY <2>2, <2>3, <2>4, <2>5, <2>6 DEF Serving
<1>4. Service!Init
      BY DEF Init, Service!Init, ReadPending
<1> QED BY <1>1, <1>2, <1>3, <1>4 DEF RInv

(* startCDROMRead and the callbacks implement SectorService: the sectors    *)
(* asked for arrive in order, only while the read is outstanding, and the   *)
(* read ends with all of them there, until the drive reports an error       *)
(* (cdrom.c:137-187, 238-262).                                              *)
THEOREM ReadsServe == ASSUME Served PROVE Spec => ReadService
<1>1. Init => RInv /\ Service!Init BY InitRInv
<1>2. RInv /\ [Next]_vars => RInv' BY Served, NextRInv
<1>3. RInv /\ [Next]_vars
        => [Service!Next]_<<
              IF ReadPending /\ errs = 0 THEN [lba |-> lba, want |-> want]
                                         ELSE [lba |-> -1, want |-> 0],
              IF errs = 0 THEN buf ELSE <<-1>> >>
      BY Served, NextImplements DEF ServiceStep, Asked, Data, None
<1> QED BY <1>1, <1>2, <1>3, PTL DEF Spec, ReadService, Service!Spec
===============================================================================
