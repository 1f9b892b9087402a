--------------------------- MODULE Interrupts_proofs ---------------------------
(***************************************************************************)
(* For every number of threads and every program made of the functions of  *)
(* system.c, system.s and irq.c: registers and state keep their types, an  *)
(* interrupted thread goes on where it was, and no exception finds a       *)
(* vector that is only half installed.                                     *)
(***************************************************************************)
EXTENDS Interrupts, SequenceTheorems, TLAPS

Modes == {"thread", "test", "ack", "serve", "return", "locked"}
Registers == [pc : Nat, sp : Threads, kept : SUBSET (Sources \cup {"ie"}),
              done : Nat]

(* The types, with the records' own. *)
Types == /\ program \in Programs /\ mode \in Modes /\ turn \in 1..3
         /\ seen \subseteq Sources /\ stat \subseteq Sources
         /\ mask \in {{}, {"VSYNC"}, Enabled} /\ line \subseteq Devices
         /\ current \in Threads /\ next \in Threads
         /\ regs \in Registers /\ saved \in [Threads -> Registers]
Booleans == ie \in BOOLEAN /\ iep \in BOOLEAN /\ vblank \in BOOLEAN

(* A thread that has begun is at one of its instructions and has done those *)
(* before it; the threads that it has initialised have begun, and so have   *)
(* Main and the thread to go on with.                                       *)
Begun(t) == Context(t).pc > 0
InPlace(t) == /\ Context(t).pc <= Len(program[t])
              /\ Begun(t) => /\ Context(t).sp = t
                             /\ Context(t).done = Context(t).pc - 1
Initialised ==
    \A t \in Threads : \A i \in 1..Len(program[t]) :
        i < Context(t).pc /\ program[t][i].op = "init"
            => Begun(program[t][i].to)
Resuming == /\ \A t \in Threads : InPlace(t)
            /\ Initialised /\ Begun(Main) /\ Begun(next)
            /\ mode = "thread" => Begun(current)

(* Thread t is inside initIRQ, before its handler is set, or inside         *)
(* uninstallExceptionHandler, n instructions from its beginning.            *)
Installing(t, n) ==
    /\ n \in 1..8 /\ Context(t).pc > n
    /\ Stands(initIRQ, program, t, Context(t).pc - n)
Uninstalling(t, n) ==
    /\ n \in 1..4 /\ Context(t).pc > n
    /\ Stands(uninstallExceptionHandler, program, t, Context(t).pc - n)

(* The vectors change with every source masked, by a thread that nothing    *)
(* interrupts, and with interrupts disabled besides until the cache agrees. *)
Vectors ==
    /\ \A t \in Threads : \A n \in 1..8 :
          Installing(t, n) =>
             /\ mode = "thread" /\ t = current /\ mask = {}
             /\ n \in {3, 4} => ~ie
    /\ \A t \in Threads : \A n \in 1..4 :
          Uninstalling(t, n) =>
             /\ mode = "thread" /\ t = current /\ mask = {}
             /\ n \in {3, 4} => ~ie
    /\ cached # vector => Installing(current, 4) \/ Uninstalling(current, 4)
    /\ vector = "ours" /\ handler = "none"
         => \E n \in 4..8 : Installing(current, n)
    /\ handler = "none" => kernel # "ours"

IInv == Types /\ Booleans /\ Resuming /\ Vectors

-------------------------------------------------------------------------------
(* The programs.                                                            *)

(* What initIRQ does, in order, up to the setting of the handler.           *)
LEMMA InitIRQOps ==
  /\ Len(initIRQ) = 11
  /\ initIRQ[1] = "mask off" /\ initIRQ[2] = "stat off"
  /\ initIRQ[3] = "ie off"   /\ initIRQ[4] = "hook"
  /\ initIRQ[5] = "flush"    /\ initIRQ[6] = "ie on"
  /\ initIRQ[7] = "keep ie"  /\ initIRQ[8] = "ie off"
  /\ initIRQ[9] = "handler"
<1> USE DEF initIRQ, installExceptionHandler, setInterruptHandler,
      disableInterrupts, enableInterrupts
<1>1. Len(initIRQ) = 11 OBVIOUS
<1>2. initIRQ[1] = "mask off" /\ initIRQ[2] = "stat off" OBVIOUS
<1>3. initIRQ[3] = "ie off" /\ initIRQ[4] = "hook" OBVIOUS
<1>4. initIRQ[5] = "flush" /\ initIRQ[6] = "ie on" OBVIOUS
<1>5. initIRQ[7] = "keep ie" /\ initIRQ[8] = "ie off" OBVIOUS
<1>6. initIRQ[9] = "handler" OBVIOUS
<1> QED BY Zenon, <1>1, <1>2, <1>3, <1>4, <1>5, <1>6

(* And uninstallExceptionHandler.                                           *)
LEMMA UninstallOps ==
  LET f == uninstallExceptionHandler
  IN  /\ Len(f) = 5 /\ f[1] = "mask off" /\ f[2] = "stat off"
      /\ f[3] = "ie off" /\ f[4] = "unhook" /\ f[5] = "flush"
BY DEF uninstallExceptionHandler

(* The instructions are where the program counters say. *)
LEMMA ProgramTypes ==
  ASSUME Types, NEW t \in Threads
  PROVE  /\ program[t] \in Seq([op : STRING, to : Threads])
         /\ Len(program[t]) \in Nat /\ Len(program[t]) > 0
         /\ \A i \in 1..Len(program[t]) : /\ program[t][i].op \in STRING
                                          /\ program[t][i].to \in Threads
                                          /\ WellFormed(program, t, i)
<1>1. /\ program \in [Threads -> Seq([op : STRING, to : Threads])]
      /\ Len(program[t]) > 0
      /\ \A i \in 1..Len(program[t]) : WellFormed(program, t, i)
      BY ProgramsAssumption DEF Types
<1>2. program[t] \in Seq([op : STRING, to : Threads]) BY <1>1
<1>3. Len(program[t]) \in Nat BY <1>2, LenProperties
<1>4. ASSUME NEW i \in 1..Len(program[t])
      PROVE  program[t][i].op \in STRING /\ program[t][i].to \in Threads
  <2>1. program[t][i] \in [op : STRING, to : Threads]
        BY <1>2, <1>4, ElementOfSeq
  <2> QED BY <2>1
<1> QED BY <1>1, <1>2, <1>3, <1>4

(* The registers of a thread, wherever they are. *)
LEMMA ContextTypes ==
  ASSUME Types, NEW t \in Threads
  PROVE  /\ Context(t) \in Registers /\ Context(t).pc \in Nat
         /\ Context(t).done \in Nat
BY DEF Types, Context, Registers

(* The running thread's instruction is one of its program. *)
LEMMA InstructionTypes ==
  ASSUME Types, Resuming, mode = "thread"
  PROVE  /\ regs = Context(current) /\ current \in Threads
         /\ regs.pc \in 1..Len(program[current])
         /\ Op = program[current][regs.pc].op
         /\ Instruction = program[current][regs.pc]
         /\ WellFormed(program, current, regs.pc)
<1>1. regs = Context(current) /\ current \in Threads BY DEF Types, Context
<1>2. regs.pc \in Nat /\ regs.pc > 0 /\ regs.pc <= Len(program[current])
      BY <1>1, ContextTypes DEF Resuming, Begun, InPlace
<1>3. Len(program[current]) \in Nat BY <1>1, ProgramTypes
<1>4. regs.pc \in 1..Len(program[current]) BY <1>2, <1>3
<1> QED BY <1>1, <1>4, ProgramTypes DEF Op, Instruction

(* Inside the two functions that change vectors. *)
LEMMA BlockOps ==
  ASSUME Types, Resuming, mode = "thread", NEW n \in 1..8
  PROVE  /\ Installing(current, n) => Op = initIRQ[n + 1]
         /\ n <= 4 /\ Uninstalling(current, n)
              => Op = uninstallExceptionHandler[n + 1]
<1>1. regs = Context(current) /\ regs.pc \in Nat
      /\ Op = program[current][regs.pc].op
      BY InstructionTypes
<1>2. ASSUME Installing(current, n) PROVE Op = initIRQ[n + 1]
  <2>1. \A k \in 1..11 : program[current][(regs.pc - n) + k - 1].op = initIRQ[k]
        BY <1>1, <1>2, InitIRQOps DEF Installing, Stands
  <2>2. n + 1 \in 1..11 /\ (regs.pc - n) + (n + 1) - 1 = regs.pc BY <1>1
  <2> QED BY <1>1, <2>1, <2>2
<1>3. ASSUME n <= 4, Uninstalling(current, n)
      PROVE  Op = uninstallExceptionHandler[n + 1]
  <2>1. \A k \in 1..5 : program[current][(regs.pc - n) + k - 1].op
                          = uninstallExceptionHandler[k]
        BY <1>1, <1>3, UninstallOps DEF Uninstalling, Stands
  <2>2. n + 1 \in 1..5 /\ (regs.pc - n) + (n + 1) - 1 = regs.pc BY <1>1, <1>3
  <2> QED BY <1>1, <2>1, <2>2
<1> QED BY <1>2, <1>3

-------------------------------------------------------------------------------
(* The types.                                                               *)

LEMMA RegisterTypes ==
  /\ Garbage \in Registers
  /\ \A t \in Threads : Fresh(t) \in Registers
  /\ \A r \in Registers : Done(r) \in Registers
<1>1. Main \in Threads BY DEF Threads
<1>2. {} \in SUBSET (Sources \cup {"ie"}) OBVIOUS
<1>3. Garbage \in Registers BY <1>1, <1>2 DEF Garbage, Registers
<1>4. \A t \in Threads : Fresh(t) \in Registers BY <1>2 DEF Fresh, Registers
<1>5. ASSUME NEW r \in Registers PROVE Done(r) \in Registers
  <2>1. r.pc + 1 \in Nat /\ r.done + 1 \in Nat BY DEF Registers
  <2> QED BY <2>1 DEF Done, Registers
<1> QED BY <1>3, <1>4, <1>5

(* Every step keeps the types of the control state. *)
LEMMA NextTypes == ASSUME Types, Booleans, Resuming, Next PROVE Types'
<1>1. CASE Compute
      BY <1>1, RegisterTypes DEF Types, Compute, handlerVars, threadVars,
         irqVars
<1>2. CASE SetEnable
  <2>1. regs \in Registers BY DEF Types
  <2>2. Done(regs) \in Registers BY <2>1, RegisterTypes
  <2>3. {"ie"} \subseteq Sources \cup {"ie"} OBVIOUS
  <2>4. regs' \in Registers BY <1>2, <2>2, <2>3 DEF SetEnable, Registers
  <2> QED BY <1>2, <2>4 DEF Types, SetEnable, handlerVars, threadVars, irqVars
<1>3. CASE SetIRQs
  <2>1. regs' \in Registers BY <1>3, RegisterTypes DEF SetIRQs, Types
  <2>2. mask' \in {{}, {"VSYNC"}, Enabled} BY <1>3 DEF SetIRQs, Types
  <2>3. stat' \subseteq Sources /\ line' \subseteq Devices
        BY <1>3 DEF SetIRQs, Types
  <2> QED BY <1>3, <2>1, <2>2, <2>3 DEF Types, SetIRQs, handlerVars, threadVars
<1>4. CASE SetVectors
      BY <1>4, RegisterTypes DEF Types, SetVectors, handlerVars, threadVars,
         irqVars
<1>5. CASE SeeVblank
      BY <1>5, RegisterTypes DEF Types, SeeVblank, handlerVars, threadVars,
         irqVars
<1>6. CASE Poll
  <2>1. regs \in Registers /\ stat \subseteq Sources BY DEF Types
  <2>2. Done(regs) \in Registers BY <2>1, RegisterTypes
  <2>3. stat \subseteq Sources \cup {"ie"} BY <2>1
  <2>4. [Done(regs) EXCEPT !.kept = stat] \in Registers
        BY <2>2, <2>3 DEF Registers
  <2>5. regs.pc + 2 \in Nat /\ regs.done + 2 \in Nat BY <2>1 DEF Registers
  <2>6. [regs EXCEPT !.pc = @ + 2, !.done = @ + 2] \in Registers
        BY <2>1, <2>5 DEF Registers
  <2>7. regs' \in Registers BY <1>6, <2>4, <2>6 DEF Poll
  <2> QED BY <1>6, <2>7 DEF Types, Poll, handlerVars, threadVars, irqVars
<1>7. CASE PollAck
      BY <1>7, RegisterTypes DEF Types, PollAck, handlerVars, threadVars
<1>8. CASE SwitchThread
  <2>1. Instruction.to \in Threads
        BY <1>8, InstructionTypes, ProgramTypes DEF SwitchThread, Executing
  <2>2. Fresh(Instruction.to) \in Registers BY <2>1, RegisterTypes
  <2>3. saved' \in [Threads -> Registers]
        BY <1>8, <2>1, <2>2 DEF SwitchThread, Types
  <2>4. next' \in Threads BY <1>8, <2>1 DEF SwitchThread, Types
  <2>5. regs' \in Registers BY <1>8, RegisterTypes DEF SwitchThread, Types
  <2> QED BY <1>8, <2>3, <2>4, <2>5 DEF Types, SwitchThread, handlerVars, irqVars
<1>9. ASSUME Enter PROVE Types'
  <2>1. regs \in Registers BY DEF Types
  <2> DEFINE d == IF Op \in {"syscall", "gte"} THEN regs.done + 1
                                              ELSE regs.done
  <2>2. Resumes(regs, Op) \in Nat /\ d \in Nat
        BY <2>1 DEF Resumes, Registers
  <2> HIDE DEF d
  <2>3. [regs EXCEPT !.pc = Resumes(regs, Op), !.done = d] \in Registers
        BY <2>1, <2>2 DEF Registers
  <2>4. saved' \in [Threads -> Registers] BY <1>9, <2>3 DEF Types, Enter, d
  <2> QED BY <1>9, <2>4, RegisterTypes DEF Types, Enter, Modes, irqVars
<1>10. CASE Syscall \/ Interrupt BY <1>9, <1>10 DEF Syscall, Interrupt
<1>11. CASE Fault BY <1>11, RegisterTypes DEF Types, Modes, Fault, irqVars
<1>12. CASE Test BY <1>12 DEF Types, Modes, Test, threadVars, irqVars
<1>13. CASE Ack BY <1>13 DEF Types, Modes, Ack, threadVars
<1>14. CASE Serve BY <1>14 DEF Types, Modes, Serve, threadVars
<1>15. CASE Return BY <1>15 DEF Types, Modes, Return, irqVars
<1>16. CASE KernelServes
       BY <1>16 DEF Types, KernelServes, handlerVars, threadVars
<1>17. CASE Request
  <2>1. Order[2] \in Sources /\ Order[3] \in Sources BY DEF Sources, Enabled
  <2>2. Devices \subseteq Sources BY <2>1 DEF Devices, Order
  <2>3. PICK s \in Sources : /\ stat' = stat \cup {s}
                             /\ \/ line' = line
                                \/ s \in Devices /\ line' = line \cup {s}
        BY <1>17, <2>2 DEF Request, Pulse, Raise
  <2>4. stat' \subseteq Sources /\ line' \subseteq Devices BY <2>3 DEF Types
  <2>5. UNCHANGED <<program, mode, turn, seen, mask, current, next, regs, saved>>
        BY <1>17 DEF Request, Pulse, Raise, handlerVars, threadVars
  <2> QED BY <2>4, <2>5 DEF Types
<1> QED BY Zenon, <1>1, <1>2, <1>3, <1>4, <1>5, <1>6, <1>7, <1>8, <1>10, <1>11,
        <1>12, <1>13, <1>14, <1>15, <1>16, <1>17 DEF Next, Execute, Handle

(* And of the flags. *)
LEMMA NextBooleans == ASSUME Booleans, Next PROVE Booleans'
<1>1. CASE SetEnable
  <2>1. ie' \in BOOLEAN BY Zenon, <1>1 DEF SetEnable, Booleans
  <2> QED BY Zenon, <1>1, <2>1 DEF SetEnable, Booleans
<1>2. CASE SeeVblank BY Zenon, <1>2 DEF SeeVblank, Booleans, cpuVars
<1>3. CASE Syscall \/ Interrupt \/ Fault
      BY Zenon, <1>3 DEF Syscall, Interrupt, Fault, Enter, Booleans
<1>4. CASE Serve BY Zenon, <1>4 DEF Serve, Booleans, cpuVars
<1>5. CASE Return BY Zenon, <1>5 DEF Return, Booleans
<1>6. CASE Compute \/ SetIRQs \/ SetVectors \/ Poll \/ PollAck \/ SwitchThread
      BY Zenon, <1>6 DEF Compute, SetIRQs, SetVectors, Poll, PollAck,
         SwitchThread, Booleans, cpuVars
<1>7. CASE Test \/ Ack \/ KernelServes \/ Request
      BY Zenon, <1>7 DEF Test, Ack, KernelServes, Request, Pulse, Raise,
         Booleans, cpuVars
<1> QED BY Zenon, <1>1, <1>2, <1>3, <1>4, <1>5, <1>6, <1>7
        DEF Next, Execute, Handle

-------------------------------------------------------------------------------
(* How a step moves the threads.                                            *)

(* No thread moves: the handler, the devices and the kernel. *)
Stay == program' = program /\ \A t \in Threads : Context(t)' = Context(t)

(* The running thread moves k instructions on; another may be initialised.  *)
Goes(k) ==
    /\ mode = "thread" /\ program' = program /\ current' = current
    /\ Context(current)'.pc = regs.pc + k
    /\ Context(current)'.sp = regs.sp
    /\ Context(current)'.done = regs.done + k
    /\ \A t \in Threads \ {current} :
          Context(t)' = IF k > 0 /\ Op = "init" /\ t = Instruction.to
                        THEN Fresh(t) ELSE Context(t)

(* The thread that runs, or has just been interrupted, and the next. *)
Turns == /\ mode' = "thread" => mode = "thread" /\ current' = current
         /\ next' = next

LEMMA HandlerStays ==
  ASSUME Types, Test \/ Ack \/ Serve \/ KernelServes \/ Request
  PROVE  Stay /\ Turns
<1>1. CASE Test BY <1>1 DEF Test, Stay, Turns, Context, threadVars
<1>2. CASE Ack BY <1>2 DEF Ack, Stay, Turns, Context, threadVars
<1>3. CASE Serve BY <1>3 DEF Serve, Stay, Turns, Context, threadVars
<1>4. CASE KernelServes
      BY <1>4 DEF KernelServes, Stay, Turns, Context, threadVars, handlerVars
<1>5. CASE Request
      BY <1>5 DEF Request, Pulse, Raise, Stay, Turns, Context, threadVars,
         handlerVars
<1> QED BY <1>1, <1>2, <1>3, <1>4, <1>5

LEMMA ReturnStays ==
  ASSUME Types, Return
  PROVE  Stay /\ next' = next /\ current' = next /\ mode' = "thread"
BY DEF Types, Return, Stay, Context

LEMMA DoneMoves ==
  ASSUME NEW r \in Registers
  PROVE  Done(r).pc = r.pc + 1 /\ Done(r).sp = r.sp /\ Done(r).done = r.done + 1
BY DEF Done, Registers

(* An instruction that is done. *)
LEMMA InstructionGoes ==
  ASSUME Types, Compute \/ SetEnable \/ SetIRQs \/ SetVectors \/ SeeVblank
                  \/ PollAck \/ (Poll /\ "SIO0" \in stat)
  PROVE  Goes(1) /\ Turns
<1>1. regs \in Registers /\ current \in Threads BY DEF Types
<1>2. /\ mode = "thread" /\ mode' = mode /\ current' = current /\ saved' = saved
      /\ program' = program /\ next' = next /\ Op # "init"
      BY DEF Compute, SetEnable, SetIRQs, SetVectors, SeeVblank, PollAck, Poll,
         Executing, handlerVars, threadVars
<1>3. /\ regs'.pc = Done(regs).pc /\ regs'.sp = Done(regs).sp
      /\ regs'.done = Done(regs).done
  <2>1. Done(regs) \in Registers BY <1>1, RegisterTypes
  <2>2. \A k : LET r == [Done(regs) EXCEPT !.kept = k]
               IN  /\ r.pc = Done(regs).pc /\ r.sp = Done(regs).sp
                   /\ r.done = Done(regs).done
        BY <2>1 DEF Registers
  <2>3. \/ regs' = Done(regs) \/ \E k : regs' = [Done(regs) EXCEPT !.kept = k]
    <3>1. CASE SetEnable BY <3>1 DEF SetEnable
    <3>2. CASE Poll /\ "SIO0" \in stat BY <3>2 DEF Poll
    <3> QED BY <3>1, <3>2 DEF Compute, SetIRQs, SetVectors, SeeVblank, PollAck
  <2> QED BY <2>2, <2>3
<1> QED BY <1>1, <1>2, <1>3, DoneMoves DEF Goes, Turns, Context

LEMMA PollGoes ==
  ASSUME Types, Poll, "SIO0" \notin stat PROVE Goes(2) /\ Turns
<1>1. regs \in Registers /\ current \in Threads BY DEF Types
<1>2. /\ mode = "thread" /\ mode' = mode /\ current' = current /\ saved' = saved
      /\ program' = program /\ next' = next /\ Op = "poll"
      BY DEF Poll, Executing, handlerVars, threadVars
<1>3. regs' = [regs EXCEPT !.pc = @ + 2, !.done = @ + 2] BY DEF Poll
<1>4. /\ regs'.pc = regs.pc + 2 /\ regs'.sp = regs.sp
      /\ regs'.done = regs.done + 2
      BY <1>1, <1>3 DEF Registers
<1> QED BY <1>1, <1>2, <1>4 DEF Goes, Turns, Context

LEMMA SwitchGoes == ASSUME Types, Resuming, SwitchThread PROVE Goes(1)
<1>1. /\ regs \in Registers /\ current \in Threads /\ Instruction.to \in Threads
      /\ saved \in [Threads -> Registers]
      BY InstructionTypes, ProgramTypes DEF Types, SwitchThread, Executing
<1>2. /\ mode = "thread" /\ mode' = mode /\ current' = current
      /\ program' = program /\ regs' = Done(regs)
      BY DEF SwitchThread, Executing, handlerVars
<1>3. \A t \in Threads \ {current} :
         saved'[t] = IF Op = "init" /\ t = Instruction.to THEN Fresh(t)
                                                         ELSE saved[t]
      BY <1>1 DEF SwitchThread
<1> QED BY <1>1, <1>2, <1>3, DoneMoves DEF Goes, Context

(* An exception keeps the thread where it goes on: at the instruction that   *)
(* was interrupted, or after the one that the processor executes, or that    *)
(* asked for it.                                                             *)
LEMMA EnterGoes ==
  ASSUME Types, mode = "thread", Enter
  PROVE  /\ Goes(IF Op \in {"syscall", "gte"} THEN 1 ELSE 0)
         /\ Turns
<1> DEFINE d == IF Op \in {"syscall", "gte"} THEN regs.done + 1 ELSE regs.done
           n == [regs EXCEPT !.pc = Resumes(regs, Op), !.done = d]
<1>1. regs \in Registers /\ current \in Threads /\ saved \in [Threads -> Registers]
      BY DEF Types
<1>2. regs.pc \in Nat /\ regs.done \in Nat BY <1>1 DEF Registers
<1>3. n.pc = Resumes(regs, Op) /\ n.sp = regs.sp /\ n.done = d
      BY <1>1 DEF Registers
<1>4. /\ saved' = [saved EXCEPT ![current] = n] /\ mode' = "test"
      /\ program' = program /\ next' = next /\ current' = current
      BY DEF Enter
<1> HIDE DEF n
<1>5. saved'[current] = n /\ \A t \in Threads \ {current} : saved'[t] = saved[t]
      BY <1>1, <1>4
<1>6. /\ Context(current)' = n
      /\ \A t \in Threads \ {current} : Context(t)' = Context(t)
      BY <1>1, <1>4, <1>5 DEF Context
<1> QED BY <1>1, <1>2, <1>3, <1>4, <1>6 DEF Goes, Turns, Resumes

-------------------------------------------------------------------------------
(* Threads go on where they were.                                           *)

LEMMA StayResumes ==
  ASSUME Types, Types', Resuming, Stay
  PROVE  /\ (\A t \in Threads : InPlace(t))' /\ Initialised'
         /\ \A t \in Threads : Begun(t)' <=> Begun(t)
<1>1. program' = program /\ \A t \in Threads : Context(t)' = Context(t)
      BY DEF Stay
<1>2. \A t \in Threads : (Begun(t)' <=> Begun(t)) /\ InPlace(t)'
      BY <1>1 DEF Begun, InPlace, Resuming
<1>3. \A t \in Threads : \A i \in 1..Len(program[t]) : program[t][i].to \in Threads
      BY ProgramTypes
<1>4. Initialised' BY <1>1, <1>2, <1>3 DEF Initialised, Resuming
<1> QED BY <1>2, <1>4

LEMMA GoesResumes ==
  ASSUME Types, Types', Resuming, NEW k \in 0..2, Goes(k),
         k > 0 => Op \notin {"idle", "fault"}, k = 2 => Op = "poll"
  PROVE  /\ (\A t \in Threads : InPlace(t))' /\ Initialised'
         /\ \A t \in Threads : Begun(t) => Begun(t)'
<1>1. /\ mode = "thread" /\ program' = program /\ current' = current
      /\ Context(current)'.pc = regs.pc + k /\ Context(current)'.sp = regs.sp
      /\ Context(current)'.done = regs.done + k
      BY DEF Goes
<1>2. \A t \in Threads \ {current} :
          Context(t)' = IF k > 0 /\ Op = "init" /\ t = Instruction.to
                        THEN Fresh(t) ELSE Context(t)
      BY DEF Goes
<1>3. /\ regs = Context(current) /\ current \in Threads
      /\ regs.pc \in 1..Len(program[current])
      /\ Op = program[current][regs.pc].op
      /\ Instruction = program[current][regs.pc]
      BY <1>1, InstructionTypes
<1>4. /\ Len(program[current]) \in Nat /\ regs.done \in Nat /\ regs.pc \in Nat
      /\ \A i \in 1..Len(program[current]) : WellFormed(program, current, i)
      BY <1>3, ProgramTypes, ContextTypes
<1>5. \A t \in Threads : /\ Len(program[t]) \in Nat /\ Len(program[t]) > 0
                         /\ \A i \in 1..Len(program[t]) :
                              program[t][i].to \in Threads
      BY ProgramTypes
<1>6. k > 0 => regs.pc < Len(program[current])
      BY <1>3, <1>4 DEF WellFormed
<1>7. k = 2 => /\ program[current][regs.pc + 1].op = "poll ack"
               /\ regs.pc + 1 < Len(program[current])
  <2>1. ASSUME k = 2 PROVE program[current][regs.pc + 1].op = "poll ack"
        BY <1>3, <1>4, <2>1 DEF WellFormed
  <2>2. k = 2 => regs.pc + 1 \in 1..Len(program[current]) BY <1>3, <1>4, <1>6
  <2>3. k = 2 => WellFormed(program, current, regs.pc + 1) BY <1>4, <2>2
  <2> QED BY <2>1, <2>3 DEF WellFormed
<1>8. \A t \in Threads : Fresh(t).pc = 1 /\ Fresh(t).sp = t /\ Fresh(t).done = 0
      BY DEF Fresh
<1>9. regs.sp = current /\ regs.done = regs.pc - 1
      BY <1>3 DEF Resuming, InPlace, Begun
<1>10. \A t \in Threads : t = current => InPlace(t)' /\ Begun(t)'
  <2>1. k = 0 \/ k = 1 \/ k = 2 OBVIOUS
  <2>2. regs.pc + k > 0 /\ regs.pc + k <= Len(program[current])
    <3> DEFINE len == Len(program[current])
    <3>1. /\ len \in Nat /\ regs.pc \in Nat /\ regs.pc > 0 /\ regs.pc <= len
          /\ k > 0 => regs.pc < len
          BY <1>3, <1>4, <1>6
    <3>2. k = 2 => regs.pc + 1 < len BY <1>7
    <3> HIDE DEF len
    <3>3. regs.pc + k > 0 /\ regs.pc + k <= len BY <2>1, <3>1, <3>2
    <3> QED BY <3>3 DEF len
  <2>3. regs.done + k = (regs.pc + k) - 1 BY <1>4, <1>9, <2>1
  <2>4. ASSUME NEW t \in Threads, t = current PROVE InPlace(t)' /\ Begun(t)'
    <3>1. /\ Context(t)'.pc = regs.pc + k /\ Context(t)'.sp = t
          /\ Context(t)'.done = (regs.pc + k) - 1
          BY <1>1, <1>9, <2>3, <2>4
    <3> QED BY <1>1, <2>2, <2>4, <3>1 DEF InPlace, Begun
  <2> QED BY <2>4
<1>11. ASSUME NEW t \in Threads
       PROVE  InPlace(t)' /\ (Begun(t) => Begun(t)')
  <2>1. CASE t = current BY <1>10, <2>1
  <2>2. CASE t # current /\ Context(t)' = Fresh(t)
        BY <1>1, <1>5, <1>8, <2>2 DEF InPlace, Begun
  <2>3. CASE t # current /\ Context(t)' = Context(t)
        BY <1>1, <2>3 DEF InPlace, Begun, Resuming
  <2> QED BY <1>2, <2>1, <2>2, <2>3
<1>12. \A t \in Threads :
          k > 0 /\ Op = "init" /\ t = Instruction.to => Begun(t)'
       BY <1>2, <1>8, <1>10 DEF Begun
<1>13. ASSUME NEW t \in Threads, NEW i \in 1..Len(program[t]),
              i < Context(t)'.pc, program[t][i].op = "init"
       PROVE  Begun(program[t][i].to)'
  <2>1. program[t][i].to \in Threads BY <1>5
  <2>2. CASE i < Context(t).pc
    <3>1. Begun(program[t][i].to) BY <1>13, <2>2 DEF Resuming, Initialised
    <3>2. PICK u \in Threads : u = program[t][i].to /\ Begun(u)
          BY <2>1, <3>1
    <3>3. Begun(u)' BY <1>11, <3>2
    <3> QED BY <1>1, <3>2, <3>3 DEF Begun
  <2>3. CASE ~(i < Context(t).pc)
    <3>1. Context(t).pc \in Nat BY ContextTypes
    <3>2. t = current
      <4>1. CASE t # current /\ Context(t)' = Fresh(t)
            BY <1>8, <1>13, <4>1
      <4>2. CASE t # current /\ Context(t)' = Context(t)
            BY <1>13, <2>3, <4>2
      <4> QED BY <1>2, <4>1, <4>2
    <3>3. i < regs.pc + k /\ i >= regs.pc BY <1>1, <1>3, <1>13, <2>3, <3>1, <3>2
    <3>4. i = regs.pc \/ (k = 2 /\ i = regs.pc + 1) BY <1>4, <3>3
    <3>5. i = regs.pc
      <4>1. CASE k = 2 /\ i = regs.pc + 1 BY <1>7, <1>13, <3>2, <4>1
      <4> QED BY <3>4, <4>1
    <3>9. k > 0 BY <1>4, <3>3, <3>5
    <3>6. Op = "init" /\ program[t][i] = Instruction
          BY <1>3, <1>13, <3>2, <3>5
    <3>7. PICK u \in Threads : u = program[t][i].to /\ u = Instruction.to
          BY <2>1, <3>6
    <3>8. Begun(u)' BY <1>12, <3>6, <3>7, <3>9
    <3> QED BY <1>1, <3>7, <3>8 DEF Begun
  <2> QED BY <2>2, <2>3
<1>14. Initialised' BY <1>1, <1>13 DEF Initialised
<1> QED BY <1>11, <1>14

LEMMA TurnsBegun ==
  ASSUME Types, Resuming, Turns, \A t \in Threads : Begun(t) => Begun(t)'
  PROVE  Begun(Main)' /\ Begun(next)' /\ (mode' = "thread" => Begun(current)')
<1>1. Main \in Threads /\ next \in Threads /\ current \in Threads
      BY DEF Types, Threads
<1>2. Begun(Main)' BY <1>1 DEF Resuming
<1>3. PICK n \in Threads : n = next /\ Begun(n) BY <1>1 DEF Resuming
<1>4. Begun(n)' /\ next' = n BY <1>3 DEF Turns
<1>5. PICK c \in Threads : c = current BY <1>1
<1>6. mode' = "thread" => Begun(c)' /\ current' = c
      BY <1>5 DEF Turns, Resuming
<1> QED BY <1>2, <1>4, <1>6 DEF Begun

(* No step makes a thread leave out or repeat an instruction. *)
LEMMA NextResuming == ASSUME Types, Types', Resuming, Next PROVE Resuming'
<1>1. CASE Compute \/ SetEnable \/ SetIRQs \/ SetVectors \/ SeeVblank
             \/ PollAck \/ (Poll /\ "SIO0" \in stat)
  <2>1. Goes(1) /\ Turns BY <1>1, InstructionGoes
  <2>2. Op \notin {"idle", "fault"}
        BY <1>1 DEF Compute, SetEnable, SetIRQs, SetVectors, SeeVblank, PollAck,
           Poll
  <2>3. /\ (\A t \in Threads : InPlace(t))' /\ Initialised'
        /\ \A t \in Threads : Begun(t) => Begun(t)'
        BY <2>1, <2>2, GoesResumes
  <2> QED BY <2>1, <2>3, TurnsBegun DEF Resuming
<1>2. CASE Poll /\ "SIO0" \notin stat
  <2>1. Goes(2) /\ Turns /\ Op = "poll" BY <1>2, PollGoes DEF Poll
  <2>2. /\ (\A t \in Threads : InPlace(t))' /\ Initialised'
        /\ \A t \in Threads : Begun(t) => Begun(t)'
        BY <2>1, GoesResumes
  <2> QED BY <2>1, <2>2, TurnsBegun DEF Resuming
<1>3. CASE SwitchThread
  <2>1. Goes(1) BY <1>3, SwitchGoes
  <2>2. /\ mode = "thread" /\ mode' = mode /\ current' = current
        /\ Op \in {"init", "next"}
        /\ next' = IF Op = "next" THEN Instruction.to ELSE next
        BY <1>3 DEF SwitchThread, Executing, handlerVars
  <2>3. /\ (\A t \in Threads : InPlace(t))' /\ Initialised'
        /\ \A t \in Threads : Begun(t) => Begun(t)'
        BY <2>1, <2>2, GoesResumes
  <2>4. CASE Op # "next"
    <3>1. Turns BY <2>2, <2>4 DEF Turns
    <3> QED BY <2>3, <3>1, TurnsBegun DEF Resuming
  <2>5. CASE Op = "next"
    <3>1. /\ current \in Threads /\ regs = Context(current)
          /\ regs.pc \in 1..Len(program[current]) /\ Op = program[current][regs.pc].op
          /\ Instruction = program[current][regs.pc]
          /\ WellFormed(program, current, regs.pc)
          BY <2>2, InstructionTypes
    <3>2. PICK n \in Threads : n = Instruction.to
          BY <3>1, ProgramTypes
    <3>3. Begun(n)
      <4>1. CASE n = Main BY <4>1 DEF Resuming
      <4>2. CASE n # Main
        <5>1. PICK j \in 1..regs.pc - 1 :
                 /\ program[current][j].op = "init"
                 /\ program[current][j].to = n
              BY <2>5, <3>1, <3>2, <4>2 DEF WellFormed
        <5>2. /\ j \in 1..Len(program[current]) /\ j < Context(current).pc
              BY <3>1, <5>1, ContextTypes, ProgramTypes
        <5> QED BY <3>1, <5>1, <5>2 DEF Resuming, Initialised
      <4> QED BY <4>1, <4>2
    <3>4. Begun(n)' /\ next' = n BY <2>2, <2>3, <2>5, <3>2, <3>3
    <3>5. Begun(next)' BY <3>4 DEF Begun
    <3>6. PICK c \in Threads : c = current /\ c = current' /\ Begun(c)
          BY <2>2, <3>1 DEF Resuming
    <3>7. Begun(c)' BY <2>3, <3>6
    <3>8. Begun(current)' BY <3>6, <3>7 DEF Begun
    <3>9. Begun(Main)'
      <4>1. Main \in Threads BY DEF Threads
      <4> QED BY <2>3, <4>1 DEF Resuming
    <3> QED BY <2>3, <3>5, <3>8, <3>9 DEF Resuming
  <2> QED BY <2>4, <2>5
<1>4. CASE Syscall \/ Interrupt
  <2>1. mode = "thread" /\ Enter
        BY <1>4 DEF Syscall, Interrupt, Executing
  <2>2. CASE Op \in {"syscall", "gte"}
    <3>1. Goes(1) /\ Turns BY <2>1, <2>2, EnterGoes
    <3>2. /\ (\A t \in Threads : InPlace(t))' /\ Initialised'
          /\ \A t \in Threads : Begun(t) => Begun(t)'
          BY <2>2, <3>1, GoesResumes
    <3> QED BY <3>1, <3>2, TurnsBegun DEF Resuming
  <2>3. CASE Op \notin {"syscall", "gte"}
    <3>1. Goes(0) /\ Turns BY <2>1, <2>3, EnterGoes
    <3>2. /\ (\A t \in Threads : InPlace(t))' /\ Initialised'
          /\ \A t \in Threads : Begun(t) => Begun(t)'
          BY <3>1, GoesResumes
    <3> QED BY <3>1, <3>2, TurnsBegun DEF Resuming
  <2> QED BY <2>2, <2>3
<1>5. CASE Fault
  <2>1. Stay /\ Turns
    <3>1. current \in Threads /\ mode = "thread" /\ saved \in [Threads -> Registers]
          BY <1>5 DEF Types, Fault, Executing
    <3> QED BY <1>5, <3>1 DEF Fault, Stay, Turns, Context
  <2> QED BY <2>1, StayResumes, TurnsBegun DEF Resuming
<1>6. CASE Test \/ Ack \/ Serve \/ KernelServes \/ Request
      BY <1>6, HandlerStays, StayResumes, TurnsBegun DEF Resuming
<1>7. CASE Return
  <2>1. Stay /\ next' = next /\ current' = next BY <1>7, ReturnStays
  <2>2. /\ (\A t \in Threads : InPlace(t))' /\ Initialised'
        /\ \A t \in Threads : Begun(t)' <=> Begun(t)
        BY <2>1, StayResumes
  <2>3. PICK n \in Threads : n = next /\ Begun(n) BY DEF Resuming, Types
  <2>4. Begun(next)' /\ Begun(current)' BY <2>1, <2>2, <2>3 DEF Begun
  <2>5. Main \in Threads BY DEF Threads
  <2> QED BY <2>2, <2>4, <2>5 DEF Resuming
<1> QED BY Zenon, <1>1, <1>2, <1>3, <1>4, <1>5, <1>6, <1>7
        DEF Next, Execute, Handle

-------------------------------------------------------------------------------
(* The vectors.                                                             *)

(* The instructions of the functions that change them. *)
BlockOp == {"mask off", "stat off", "ie off", "hook", "unhook", "flush", "ie on",
            "keep ie", "handler"}

(* No thread is inside those functions. *)
Free == \A t \in Threads : /\ \A n \in 1..8 : ~Installing(t, n)
                           /\ \A n \in 1..4 : ~Uninstalling(t, n)

LEMMA BlockCases ==
  /\ \A n \in 1..9 : initIRQ[n] \in BlockOp
  /\ \A n \in 1..5 : uninstallExceptionHandler[n] \in BlockOp
<1>1. ASSUME NEW n \in 1..9 PROVE initIRQ[n] \in BlockOp
  <2>1. \/ n = 1 \/ n = 2 \/ n = 3 \/ n = 4 \/ n = 5 \/ n = 6 \/ n = 7 \/ n = 8
        \/ n = 9 OBVIOUS
  <2> QED BY <2>1, InitIRQOps DEF BlockOp
<1>2. ASSUME NEW n \in 1..5 PROVE uninstallExceptionHandler[n] \in BlockOp
  <2>1. n = 1 \/ n = 2 \/ n = 3 \/ n = 4 \/ n = 5 OBVIOUS
  <2> QED BY <2>1, UninstallOps DEF BlockOp
<1> QED BY <1>1, <1>2

LEMMA FreeOp ==
  ASSUME Types, Resuming, Vectors, mode = "thread", Op \notin BlockOp
  PROVE  Free
<1>1. current \in Threads BY DEF Types
<1>2. ASSUME NEW t \in Threads, NEW n \in 1..8, Installing(t, n) PROVE FALSE
  <2>1. t = current BY <1>2 DEF Vectors
  <2>2. Op = initIRQ[n + 1] /\ n + 1 \in 1..9 BY <1>2, <2>1, BlockOps
  <2> QED BY <2>2, BlockCases
<1>3. ASSUME NEW t \in Threads, NEW n \in 1..4, Uninstalling(t, n) PROVE FALSE
  <2>1. t = current BY <1>3 DEF Vectors
  <2>2. n \in 1..8 /\ n + 1 \in 1..5 BY <1>3
  <2>3. Op = uninstallExceptionHandler[n + 1] BY <1>3, <2>1, <2>2, BlockOps
  <2> QED BY <2>2, <2>3, BlockCases
<1> QED BY <1>2, <1>3 DEF Free

(* Nobody inside, before and after: nothing to keep. *)
LEMMA FreeVectors ==
  ASSUME Types, Types', Vectors, Free, Free', UNCHANGED vectorVars
  PROVE  Vectors'
<1>1. current \in Threads BY DEF Types
<1>2. cached = vector /\ (vector = "ours" => handler # "none")
      BY <1>1 DEF Vectors, Free
<1>3. \A t \in Threads : /\ \A n \in 1..8 : ~Installing(t, n)'
                         /\ \A n \in 1..4 : ~Uninstalling(t, n)'
      BY DEF Free
<1>4. cached' = cached /\ vector' = vector /\ handler' = handler /\ kernel' = kernel
      BY DEF vectorVars
<1> QED BY <1>2, <1>3, <1>4 DEF Vectors

LEMMA InstallingStays ==
  ASSUME Stay, NEW t \in Threads, NEW n
  PROVE  /\ Installing(t, n)' <=> Installing(t, n)
         /\ Uninstalling(t, n)' <=> Uninstalling(t, n)
<1>1. program' = program /\ Context(t)' = Context(t) BY DEF Stay
<1> QED BY <1>1 DEF Installing, Uninstalling, Stands

LEMMA FreeStays == ASSUME Stay, Free PROVE Free'
BY InstallingStays DEF Free

(* Where a thread is after a step, it came to from the instruction before. *)
LEMMA GoesInstalling ==
  ASSUME Types, Resuming, NEW k \in 0..2, Goes(k), NEW t \in Threads, NEW n \in Nat
  PROVE  /\ Installing(t, n)' =>
              \/ Installing(t, n) /\ (t = current => k = 0)
              \/ /\ t = current /\ k > 0 /\ n \in 1..8
                 /\ program[t][(regs.pc + k) - 1].op = initIRQ[n]
                 /\ k = 1 /\ n > 1 => Installing(t, n - 1)
         /\ Uninstalling(t, n)' =>
              \/ Uninstalling(t, n) /\ (t = current => k = 0)
              \/ /\ t = current /\ k > 0 /\ n \in 1..4
                 /\ program[t][(regs.pc + k) - 1].op
                      = uninstallExceptionHandler[n]
                 /\ k = 1 /\ n > 1 => Uninstalling(t, n - 1)
<1>1. /\ mode = "thread" /\ program' = program /\ current' = current
      /\ Context(current)'.pc = regs.pc + k
      /\ t # current => \/ Context(t)' = Context(t)
                        \/ Context(t)' = Fresh(t)
      BY DEF Goes
<1>2. regs = Context(current) /\ regs.pc \in Nat /\ current \in Threads
      BY <1>1, InstructionTypes
<1>3. ASSUME t # current
      PROVE  /\ Installing(t, n)' => Installing(t, n)
             /\ Uninstalling(t, n)' => Uninstalling(t, n)
  <2>1. CASE Context(t)' = Context(t)
        BY <1>1, <2>1 DEF Installing, Uninstalling, Stands
  <2>2. CASE Context(t)' = Fresh(t)
    <3>1. Context(t)'.pc = 1 BY <2>2 DEF Fresh
    <3> QED BY <3>1 DEF Installing, Uninstalling
  <2> QED BY <1>1, <1>3, <2>1, <2>2
<1>4. ASSUME t = current PROVE Context(t)'.pc = regs.pc + k /\ Context(t).pc = regs.pc
      BY <1>1, <1>2, <1>4
<1>5. ASSUME t = current, k = 0
      PROVE  /\ Installing(t, n)' => Installing(t, n)
             /\ Uninstalling(t, n)' => Uninstalling(t, n)
  <2>1. Context(t)'.pc = Context(t).pc BY <1>2, <1>4, <1>5
  <2> QED BY <1>1, <2>1 DEF Installing, Uninstalling, Stands
<1>6. ASSUME t = current, k > 0, Installing(t, n)'
      PROVE  /\ n \in 1..8
             /\ program[t][(regs.pc + k) - 1].op = initIRQ[n]
             /\ k = 1 /\ n > 1 => Installing(t, n - 1)
  <2>1. /\ n \in 1..8 /\ regs.pc + k > n
        /\ Stands(initIRQ, program, t, (regs.pc + k) - n)
        BY <1>1, <1>4, <1>6 DEF Installing, Stands
  <2>2. \A j \in 1..11 : program[t][((regs.pc + k) - n) + j - 1].op = initIRQ[j]
        BY <2>1, InitIRQOps DEF Stands
  <2>3. n \in 1..11 /\ ((regs.pc + k) - n) + n - 1 = (regs.pc + k) - 1
        BY <1>2, <2>1
  <2>4. program[t][(regs.pc + k) - 1].op = initIRQ[n] BY <2>2, <2>3
  <2>5. ASSUME k = 1, n > 1 PROVE Installing(t, n - 1)
    <3>1. n - 1 \in 1..8 /\ regs.pc > n - 1 /\ (regs.pc + k) - n = regs.pc - (n - 1)
          BY <1>2, <2>1, <2>5
    <3> QED BY <1>4, <1>6, <2>1, <3>1 DEF Installing
  <2> QED BY <2>1, <2>4, <2>5
<1>7. ASSUME t = current, k > 0, Uninstalling(t, n)'
      PROVE  /\ n \in 1..4
             /\ program[t][(regs.pc + k) - 1].op = uninstallExceptionHandler[n]
             /\ k = 1 /\ n > 1 => Uninstalling(t, n - 1)
  <2>1. /\ n \in 1..4 /\ regs.pc + k > n
        /\ Stands(uninstallExceptionHandler, program, t, (regs.pc + k) - n)
        BY <1>1, <1>4, <1>7 DEF Uninstalling, Stands
  <2>2. \A j \in 1..5 : program[t][((regs.pc + k) - n) + j - 1].op
                          = uninstallExceptionHandler[j]
        BY <2>1, UninstallOps DEF Stands
  <2>3. n \in 1..5 /\ ((regs.pc + k) - n) + n - 1 = (regs.pc + k) - 1
        BY <1>2, <2>1
  <2>4. program[t][(regs.pc + k) - 1].op = uninstallExceptionHandler[n]
        BY <2>2, <2>3
  <2>5. ASSUME k = 1, n > 1 PROVE Uninstalling(t, n - 1)
    <3>1. n - 1 \in 1..4 /\ regs.pc > n - 1 /\ (regs.pc + k) - n = regs.pc - (n - 1)
          BY <1>2, <2>1, <2>5
    <3> QED BY <1>4, <1>7, <2>1, <3>1 DEF Uninstalling
  <2> QED BY <2>1, <2>4, <2>5
<1>8. k = 0 \/ k > 0 OBVIOUS
<1> QED BY <1>3, <1>5, <1>6, <1>7, <1>8

LEMMA GoesFree ==
  ASSUME Types, Resuming, NEW k \in 0..2, Goes(k), Free,
         k = 0 \/ Op \notin BlockOp, k = 2 => Op = "poll"
  PROVE  Free'
<1>1. mode = "thread" BY DEF Goes
<1>2. /\ current \in Threads /\ regs.pc \in 1..Len(program[current])
      /\ regs.pc \in Nat /\ Op = program[current][regs.pc].op
      /\ WellFormed(program, current, regs.pc)
      BY <1>1, InstructionTypes
<1>3. k > 0 => program[current][(regs.pc + k) - 1].op \notin BlockOp
  <2>1. CASE k = 1
    <3>1. (regs.pc + k) - 1 = regs.pc BY <1>2, <2>1
    <3> QED BY <1>2, <2>1, <3>1
  <2>2. CASE k = 2
    <3>1. (regs.pc + k) - 1 = regs.pc + 1 BY <1>2, <2>2
    <3>2. program[current][regs.pc + 1].op = "poll ack"
          BY <1>2, <2>2 DEF WellFormed
    <3> QED BY <3>1, <3>2 DEF BlockOp
  <2> QED BY <2>1, <2>2
<1>4. ASSUME NEW t \in Threads, NEW n \in 1..8, Installing(t, n)' PROVE FALSE
  <2>1. ~Installing(t, n) BY DEF Free
  <2>2. t = current /\ k > 0 /\ program[t][(regs.pc + k) - 1].op = initIRQ[n]
        BY <1>4, <2>1, GoesInstalling
  <2>3. n \in 1..9 BY <1>4
  <2> QED BY <1>3, <2>2, <2>3, BlockCases
<1>5. ASSUME NEW t \in Threads, NEW n \in 1..4, Uninstalling(t, n)' PROVE FALSE
  <2>1. ~Uninstalling(t, n) BY DEF Free
  <2>2. /\ t = current /\ k > 0
        /\ program[t][(regs.pc + k) - 1].op = uninstallExceptionHandler[n]
        BY <1>5, <2>1, GoesInstalling
  <2>3. n \in 1..5 BY <1>5
  <2> QED BY <1>3, <2>2, <2>3, BlockCases
<1> QED BY <1>4, <1>5 DEF Free

(* Where the two functions do what. *)
LEMMA Positions ==
  /\ \A n \in 1..9 : /\ initIRQ[n] = "mask off" => n = 1
                     /\ initIRQ[n] = "stat off" => n = 2
                     /\ initIRQ[n] = "ie off" => n \in {3, 8}
                     /\ initIRQ[n] = "hook" => n = 4
                     /\ initIRQ[n] = "flush" => n = 5
                     /\ initIRQ[n] \in {"ie on", "keep ie"} => n \in {6, 7}
                     /\ initIRQ[n] = "handler" => n = 9
                     /\ initIRQ[n] # "unhook"
  /\ \A n \in 1..5 : LET f == uninstallExceptionHandler
                     IN  /\ f[n] = "mask off" => n = 1
                         /\ f[n] = "stat off" => n = 2
                         /\ f[n] = "ie off" => n = 3
                         /\ f[n] = "unhook" => n = 4
                         /\ f[n] = "flush" => n = 5
                         /\ f[n] \notin {"hook", "handler", "ie on", "keep ie"}
<1>1. ASSUME NEW n \in 1..9
      PROVE  /\ initIRQ[n] = "mask off" => n = 1
             /\ initIRQ[n] = "stat off" => n = 2
             /\ initIRQ[n] = "ie off" => n \in {3, 8}
             /\ initIRQ[n] = "hook" => n = 4
             /\ initIRQ[n] = "flush" => n = 5
             /\ initIRQ[n] \in {"ie on", "keep ie"} => n \in {6, 7}
             /\ initIRQ[n] = "handler" => n = 9
             /\ initIRQ[n] # "unhook"
  <2>1. \/ n = 1 \/ n = 2 \/ n = 3 \/ n = 4 \/ n = 5 \/ n = 6 \/ n = 7 \/ n = 8
        \/ n = 9 OBVIOUS
  <2> QED BY <2>1, InitIRQOps
<1>2. ASSUME NEW n \in 1..5
      PROVE  LET f == uninstallExceptionHandler
             IN  /\ f[n] = "mask off" => n = 1
                 /\ f[n] = "stat off" => n = 2
                 /\ f[n] = "ie off" => n = 3
                 /\ f[n] = "unhook" => n = 4
                 /\ f[n] = "flush" => n = 5
                 /\ f[n] \notin {"hook", "handler", "ie on", "keep ie"}
  <2>1. n = 1 \/ n = 2 \/ n = 3 \/ n = 4 \/ n = 5 OBVIOUS
  <2> QED BY <2>1, UninstallOps
<1> QED BY <1>1, <1>2

(* A thread that is inside after an instruction was inside before it, with  *)
(* all that this means, or has done the function's first.                   *)
LEMMA Before ==
  ASSUME Types, Resuming, Vectors, Goes(1), NEW t \in Threads
  PROVE  /\ \A n \in 1..8 : Installing(t, n)' =>
               /\ t = current /\ Op = initIRQ[n]
               /\ n > 1 => mask = {} /\ (n \in {4, 5} => ~ie)
         /\ \A n \in 1..4 : Uninstalling(t, n)' =>
               /\ t = current /\ Op = uninstallExceptionHandler[n]
               /\ n > 1 => mask = {} /\ (n \in {4, 5} => ~ie)
<1>1. mode = "thread" BY DEF Goes
<1>2. /\ current \in Threads /\ regs.pc \in Nat
      /\ Op = program[current][regs.pc].op
      BY <1>1, InstructionTypes
<1>3. (regs.pc + 1) - 1 = regs.pc BY <1>2
<1>4. ASSUME NEW n \in 1..8, Installing(t, n)'
      PROVE  /\ t = current /\ Op = initIRQ[n]
             /\ n > 1 => mask = {} /\ (n \in {4, 5} => ~ie)
  <2>1. ~(Installing(t, n) /\ t # current) BY DEF Vectors
  <2>2. /\ t = current /\ program[t][(regs.pc + 1) - 1].op = initIRQ[n]
        /\ n > 1 => Installing(t, n - 1)
        BY <1>4, <2>1, GoesInstalling
  <2>3. n > 1 => /\ n - 1 \in 1..8
                 /\ n \in {4, 5} => n - 1 \in {3, 4}
        BY <1>4
  <2>4. n > 1 => mask = {} /\ (n \in {4, 5} => ~ie)
        BY <2>2, <2>3 DEF Vectors
  <2> QED BY <1>2, <1>3, <2>2, <2>4
<1>5. ASSUME NEW n \in 1..4, Uninstalling(t, n)'
      PROVE  /\ t = current /\ Op = uninstallExceptionHandler[n]
             /\ n > 1 => mask = {} /\ (n \in {4, 5} => ~ie)
  <2>1. ~(Uninstalling(t, n) /\ t # current) BY DEF Vectors
  <2>2. /\ t = current
        /\ program[t][(regs.pc + 1) - 1].op = uninstallExceptionHandler[n]
        /\ n > 1 => Uninstalling(t, n - 1)
        BY <1>5, <2>1, GoesInstalling
  <2>3. n > 1 => /\ n - 1 \in 1..4
                 /\ n \in {4, 5} => n - 1 \in {3, 4}
        BY <1>5
  <2>4. n > 1 => mask = {} /\ (n \in {4, 5} => ~ie)
        BY <2>2, <2>3 DEF Vectors
  <2> QED BY <1>2, <1>3, <2>2, <2>4
<1> QED BY <1>4, <1>5

(* And a thread inside goes on inside. *)
LEMMA After ==
  ASSUME Types, Resuming, Goes(1), NEW n \in 1..7, Installing(current, n)
  PROVE  Installing(current, n + 1)'
<1>1. /\ mode = "thread" /\ program' = program /\ current' = current
      /\ Context(current)'.pc = regs.pc + 1
      BY DEF Goes
<1>2. regs = Context(current) /\ regs.pc \in Nat BY <1>1, InstructionTypes
<1>3. n + 1 \in 1..8 /\ regs.pc + 1 > n + 1 /\ (regs.pc + 1) - (n + 1) = regs.pc - n
      BY <1>2 DEF Installing
<1> QED BY <1>1, <1>2, <1>3 DEF Installing

LEMMA SetEnableVectors ==
  ASSUME Types, Types', Resuming, Vectors, SetEnable PROVE Vectors'
<1>1. Goes(1) BY InstructionGoes
<1>2. /\ mode = "thread" /\ mode' = mode /\ current' = current /\ mask' = mask
      /\ UNCHANGED vectorVars
      /\ Op \in {"keep ie", "ie off", "ie back", "ie on"}
      /\ Op = "ie off" => ie' = FALSE
      BY DEF SetEnable, Executing, handlerVars, threadVars, irqVars
<1>3. current \in Threads BY DEF Types
<1>4. ASSUME NEW t \in Threads, NEW n \in 1..8, Installing(t, n)'
      PROVE  t = current /\ mask = {} /\ (n \in {3, 4} => ~ie')
  <2>1. t = current /\ Op = initIRQ[n] /\ (n > 1 => mask = {})
        BY <1>1, <1>4, Before
  <2>2. n \in 1..9 BY <1>4
  <2>3. Op \in BlockOp BY Zenon, <2>1, <2>2, BlockCases
  <2>4. Op = "ie off" \/ Op \in {"ie on", "keep ie"} BY <1>2, <2>3 DEF BlockOp
  <2>5. /\ Op = "ie off" => n \in {3, 8}
        /\ Op \in {"ie on", "keep ie"} => n \in {6, 7}
        BY Zenon, <2>1, <2>2, Positions
  <2>6. n \in {3, 8} => n > 1 /\ n # 4 OBVIOUS
  <2>7. n \in {6, 7} => n > 1 /\ n \notin {3, 4} OBVIOUS
  <2>8. CASE Op = "ie off" BY Zenon, <1>2, <2>1, <2>5, <2>6, <2>8
  <2>9. CASE Op \in {"ie on", "keep ie"} BY Zenon, <2>1, <2>5, <2>7, <2>9
  <2> QED BY Zenon, <2>4, <2>8, <2>9
<1>5. ASSUME NEW t \in Threads, NEW n \in 1..4, Uninstalling(t, n)'
      PROVE  t = current /\ mask = {} /\ (n \in {3, 4} => ~ie')
  <2>1. t = current /\ Op = uninstallExceptionHandler[n] /\ (n > 1 => mask = {})
        BY <1>1, <1>5, Before
  <2>2. n \in 1..5 BY <1>5
  <2>3. Op \in BlockOp BY Zenon, <2>1, <2>2, BlockCases
  <2>4. Op = "ie off" \/ Op \in {"ie on", "keep ie"} BY <1>2, <2>3 DEF BlockOp
  <2>5. /\ Op = "ie off" => n = 3
        /\ Op \notin {"ie on", "keep ie"}
        BY Zenon, <2>1, <2>2, Positions
  <2>6. n = 3 => n > 1 OBVIOUS
  <2> QED BY Zenon, <1>2, <2>1, <2>4, <2>5, <2>6
<1>6. cached = vector
  <2>1. ~Installing(current, 4)
    <3>1. 4 \in 1..8 /\ 4 + 1 = 5 OBVIOUS
    <3>2. Installing(current, 4) => Op = initIRQ[5] BY <1>2, <3>1, BlockOps
    <3> QED BY <1>2, <3>2, InitIRQOps
  <2>2. ~Uninstalling(current, 4)
    <3>1. 4 \in 1..8 /\ 4 + 1 = 5 /\ 4 <= 4 OBVIOUS
    <3>2. Uninstalling(current, 4) => Op = uninstallExceptionHandler[5]
          BY <1>2, <3>1, BlockOps
    <3> QED BY <1>2, <3>2, UninstallOps
  <2> QED BY <2>1, <2>2 DEF Vectors
<1>7. ASSUME vector = "ours", handler = "none"
      PROVE  \E n \in 4..8 : Installing(current, n)'
  <2>1. PICK n \in 4..8 : Installing(current, n) BY <1>7 DEF Vectors
  <2>2. n \in 1..8 BY <2>1
  <2>3. Op = initIRQ[n + 1] BY Zenon, <1>2, <2>1, <2>2, BlockOps
  <2>4. n + 1 # 9 BY Zenon, <1>2, <2>3, InitIRQOps
  <2>5. n \in 1..7 /\ n + 1 \in 4..8 BY <2>1, <2>4
  <2>6. Installing(current, n + 1)' BY <1>1, <2>1, <2>5, After
  <2> QED BY <2>5, <2>6
<1>8. cached' = cached /\ vector' = vector /\ handler' = handler /\ kernel' = kernel
      BY <1>2 DEF vectorVars
<1> QED BY <1>2, <1>3, <1>4, <1>5, <1>6, <1>7, <1>8 DEF Vectors

LEMMA SetIRQsVectors ==
  ASSUME Types, Types', Resuming, Vectors, SetIRQs PROVE Vectors'
<1>1. Goes(1) BY InstructionGoes
<1>2. /\ mode = "thread" /\ mode' = mode /\ current' = current /\ ie' = ie
      /\ UNCHANGED vectorVars
      /\ Op \in {"mask off", "mask on", "stat off", "ack CDROM", "ack SPU"}
      /\ Op = "mask off" => mask' = {}
      /\ Op = "stat off" => mask' = mask
      BY DEF SetIRQs, Executing, handlerVars, threadVars, cpuVars
<1>3. current \in Threads BY DEF Types
<1>4. ASSUME NEW t \in Threads, NEW n \in 1..8, Installing(t, n)'
      PROVE  t = current /\ mask' = {} /\ n \notin {3, 4}
  <2>1. t = current /\ Op = initIRQ[n] /\ (n > 1 => mask = {})
        BY <1>1, <1>4, Before
  <2>2. n \in 1..9 BY <1>4
  <2>3. initIRQ[n] \in BlockOp BY <2>2, BlockCases
  <2>4. Op = "mask off" \/ Op = "stat off" BY <1>2, <2>1, <2>3 DEF BlockOp
  <2>5. (Op = "mask off" => n = 1) /\ (Op = "stat off" => n = 2)
        BY Zenon, <2>1, <2>2, Positions
  <2>6. n = 1 \/ n = 2 => n \notin {3, 4} OBVIOUS
  <2>7. n = 2 => n > 1 OBVIOUS
  <2>8. CASE Op = "mask off" BY Zenon, <1>2, <2>1, <2>5, <2>6, <2>8
  <2>9. CASE Op = "stat off" BY Zenon, <1>2, <2>1, <2>5, <2>6, <2>7, <2>9
  <2> QED BY Zenon, <2>4, <2>8, <2>9
<1>5. ASSUME NEW t \in Threads, NEW n \in 1..4, Uninstalling(t, n)'
      PROVE  t = current /\ mask' = {} /\ n \notin {3, 4}
  <2>1. t = current /\ Op = uninstallExceptionHandler[n] /\ (n > 1 => mask = {})
        BY <1>1, <1>5, Before
  <2>2. n \in 1..5 BY <1>5
  <2>3. uninstallExceptionHandler[n] \in BlockOp BY <2>2, BlockCases
  <2>4. Op = "mask off" \/ Op = "stat off" BY <1>2, <2>1, <2>3 DEF BlockOp
  <2>5. (Op = "mask off" => n = 1) /\ (Op = "stat off" => n = 2)
        BY Zenon, <2>1, <2>2, Positions
  <2>6. n = 1 \/ n = 2 => n \notin {3, 4} OBVIOUS
  <2>7. n = 2 => n > 1 OBVIOUS
  <2>8. CASE Op = "mask off" BY Zenon, <1>2, <2>1, <2>5, <2>6, <2>8
  <2>9. CASE Op = "stat off" BY Zenon, <1>2, <2>1, <2>5, <2>6, <2>7, <2>9
  <2> QED BY Zenon, <2>4, <2>8, <2>9
<1>6. ASSUME NEW n \in 4..8, Installing(current, n) PROVE FALSE
  <2>1. n \in 1..8 /\ n + 1 \in 1..9 /\ n + 1 > 2 BY <1>6
  <2>2. Op = initIRQ[n + 1] BY <1>2, <1>6, <2>1, BlockOps
  <2>3. initIRQ[n + 1] \in BlockOp BY <2>1, BlockCases
  <2>4. Op = "mask off" \/ Op = "stat off" BY <1>2, <2>2, <2>3 DEF BlockOp
  <2>5. /\ Op = "mask off" => n + 1 = 1
        /\ Op = "stat off" => n + 1 = 2
        BY Zenon, <2>1, <2>2, Positions
  <2>6. ~(n + 1 = 1) /\ ~(n + 1 = 2) BY <2>1
  <2> QED BY Zenon, <2>4, <2>5, <2>6
<1>7. ~Uninstalling(current, 4)
  <2>1. 4 \in 1..8 /\ 4 + 1 = 5 /\ 4 <= 4 OBVIOUS
  <2>2. Uninstalling(current, 4) => Op = uninstallExceptionHandler[5]
        BY <1>2, <2>1, BlockOps
  <2> QED BY <1>2, <2>2, UninstallOps
<1>8. cached = vector /\ ~(vector = "ours" /\ handler = "none")
      BY <1>6, <1>7 DEF Vectors
<1>9. cached' = cached /\ vector' = vector /\ handler' = handler /\ kernel' = kernel
      BY <1>2 DEF vectorVars
<1> QED BY <1>2, <1>3, <1>4, <1>5, <1>8, <1>9 DEF Vectors

LEMMA SetVectorsVectors ==
  ASSUME Types, Types', Resuming, Vectors, SetVectors PROVE Vectors'
<1>1. Goes(1) BY InstructionGoes
<1>2. /\ mode = "thread" /\ mode' = mode /\ current' = current /\ ie' = ie
      /\ mask' = mask /\ Op \in {"hook", "unhook", "flush", "handler"}
      BY DEF SetVectors, Executing, handlerVars, threadVars, cpuVars, irqVars
<1>3. /\ kernel' = IF Op = "hook" THEN vector ELSE kernel
      /\ Op = "hook" => vector' = "ours"
      /\ Op = "unhook" => vector' = kernel
      /\ Op \in {"flush", "handler"} => vector' = vector
      /\ cached' = IF Op = "flush" THEN vector ELSE cached
      /\ handler' = IF Op = "handler" THEN "interruptHandlerFunction" ELSE handler
      BY DEF SetVectors
<1>4. /\ current \in Threads /\ regs = Context(current) /\ regs.pc \in Nat
      /\ Op = program[current][regs.pc].op
      /\ WellFormed(program, current, regs.pc)
      BY <1>2, InstructionTypes
<1>5. Op = "hook" \/ Op = "unhook" \/ Op = "flush" \/ Op = "handler" BY <1>2
<1>6. ASSUME NEW t \in Threads, NEW n \in 1..8, Installing(t, n)'
      PROVE  t = current /\ mask' = {} /\ ~ie'
  <2>1. t = current /\ Op = initIRQ[n]
        /\ (n > 1 => mask = {} /\ (n \in {4, 5} => ~ie))
        BY <1>1, <1>6, Before
  <2>2. n \in 1..9 BY <1>6
  <2>3. /\ Op = "hook" => n = 4
        /\ Op = "flush" => n = 5
        /\ Op = "handler" => n = 9
        /\ Op # "unhook"
        BY Zenon, <2>1, <2>2, Positions
  <2>4. (n = 4 \/ n = 5 => n > 1 /\ n \in {4, 5}) /\ n # 9 OBVIOUS
  <2> QED BY Zenon, <1>2, <1>5, <2>1, <2>3, <2>4
<1>7. ASSUME NEW t \in Threads, NEW n \in 1..4, Uninstalling(t, n)'
      PROVE  t = current /\ mask' = {} /\ ~ie'
  <2>1. t = current /\ Op = uninstallExceptionHandler[n]
        /\ (n > 1 => mask = {} /\ (n \in {4, 5} => ~ie))
        BY <1>1, <1>7, Before
  <2>2. n \in 1..5 BY <1>7
  <2>3. /\ Op = "unhook" => n = 4
        /\ Op = "flush" => n = 5
        /\ Op # "handler" /\ Op # "hook"
        BY Zenon, <2>1, <2>2, Positions
  <2>4. (n = 4 => n > 1 /\ n \in {4, 5}) /\ n # 5 OBVIOUS
  <2> QED BY Zenon, <1>2, <1>5, <2>1, <2>3, <2>4
<1>8. /\ program' = program /\ Context(current)'.pc = regs.pc + 1
      BY <1>1 DEF Goes
<1>9. Op = "hook" => Installing(current, 4)'
  <2>1. Op = "hook" => Stands(initIRQ, program, current, regs.pc - 3)
        BY Zenon, <1>4 DEF WellFormed
  <2>2. Op = "hook" => regs.pc - 3 > 0 BY Zenon, <2>1 DEF Stands
  <2>3. regs.pc - 3 > 0 => regs.pc + 1 > 4 BY <1>4
  <2>4. 4 \in 1..8 /\ (regs.pc + 1) - 4 = regs.pc - 3 BY <1>4
  <2> QED BY Zenon, <1>2, <1>8, <2>1, <2>2, <2>3, <2>4 DEF Installing
<1>10. Op = "unhook" => Uninstalling(current, 4)'
  <2>1. Op = "unhook" => Stands(uninstallExceptionHandler, program, current,
                                regs.pc - 3)
        BY Zenon, <1>4 DEF WellFormed
  <2>2. Op = "unhook" => regs.pc - 3 > 0 BY Zenon, <2>1 DEF Stands
  <2>3. regs.pc - 3 > 0 => regs.pc + 1 > 4 BY <1>4
  <2>4. 4 \in 1..4 /\ (regs.pc + 1) - 4 = regs.pc - 3 BY <1>4
  <2> QED BY Zenon, <1>2, <1>8, <2>1, <2>2, <2>3, <2>4 DEF Uninstalling
<1>11. Op = "handler" => cached = vector
  <2>1. 4 \in 1..8 /\ 4 <= 4 /\ 4 + 1 = 5 OBVIOUS
  <2>2. /\ Installing(current, 4) => Op = initIRQ[5]
        /\ Uninstalling(current, 4) => Op = uninstallExceptionHandler[5]
        BY <1>2, <2>1, BlockOps
  <2>3. initIRQ[5] = "flush" /\ uninstallExceptionHandler[5] = "flush"
        BY InitIRQOps, UninstallOps
  <2>4. "flush" # "handler" OBVIOUS
  <2> QED BY Zenon, <2>2, <2>3, <2>4 DEF Vectors
<1>12. cached' # vector' => Installing(current, 4)' \/ Uninstalling(current, 4)'
  <2>1. Op = "flush" => cached' = vector' BY Zenon, <1>3
  <2>2. "flush" # "handler" OBVIOUS
  <2>3. Op = "handler" => cached' = vector' BY Zenon, <1>3, <1>11, <2>2
  <2> QED BY Zenon, <1>5, <1>9, <1>10, <2>1, <2>3
<1>13. ASSUME NEW n \in 4..8, Installing(current, n)
       PROVE  Op # "hook" /\ (Op = "flush" => n = 4)
  <2>1. n \in 1..8 /\ n + 1 \in 1..9 /\ n + 1 # 4 /\ (n + 1 = 5 => n = 4) OBVIOUS
  <2>2. Op = initIRQ[n + 1] BY Zenon, <1>2, <1>13, <2>1, BlockOps
  <2>3. (Op = "hook" => n + 1 = 4) /\ (Op = "flush" => n + 1 = 5)
        BY Zenon, <2>1, <2>2, Positions
  <2> QED BY Zenon, <2>1, <2>3
<1>14. ASSUME vector' = "ours", handler' = "none"
       PROVE  \E n \in 4..8 : Installing(current, n)'
  <2>1. 4 \in 4..8 /\ 5 \in 4..8 /\ 4 \in 1..7 /\ 4 + 1 = 5 OBVIOUS
  <2>2. Op # "handler" /\ handler = "none"
    <3>1. "none" # "interruptHandlerFunction" OBVIOUS
    <3> QED BY Zenon, <1>3, <1>14, <3>1
  <2>3. Op # "unhook" BY Zenon, <1>3, <1>14, <2>2 DEF Vectors
  <2>4. CASE Op = "hook" BY Zenon, <1>9, <2>1, <2>4
  <2>5. CASE Op = "flush"
    <3>1. vector = "ours" BY Zenon, <1>3, <1>14, <2>5
    <3>2. PICK n \in 4..8 : Installing(current, n) BY <2>2, <3>1 DEF Vectors
    <3>3. n = 4 BY <1>13, <2>5, <3>2
    <3>4. Installing(current, 4) BY <3>2, <3>3
    <3>5. Installing(current, 4 + 1)' BY <1>1, <2>1, <3>4, After
    <3> QED BY <2>1, <3>5
  <2> QED BY Zenon, <1>5, <2>2, <2>3, <2>4, <2>5
<1>15. handler' = "none" => kernel' # "ours"
  <2>1. "none" # "interruptHandlerFunction" OBVIOUS
  <2>2. handler' = "none" => handler = "none" BY Zenon, <1>3, <2>1
  <2>3. CASE Op = "hook"
    <3>1. ~(vector = "ours" /\ handler = "none")
          BY Zenon, <1>13, <2>3 DEF Vectors
    <3> QED BY Zenon, <1>3, <2>2, <2>3, <3>1
  <2>4. CASE Op # "hook" BY Zenon, <1>3, <2>2, <2>4 DEF Vectors
  <2> QED BY Zenon, <2>3, <2>4
<1>16. mode' = "thread" BY <1>2
<1> QED BY Zenon, <1>2, <1>6, <1>7, <1>12, <1>14, <1>15, <1>16 DEF Vectors

(* The vectors change as they should in every step. *)
LEMMA NextVectors ==
  ASSUME Types, Types', Resuming, Vectors, Next PROVE Vectors'
<1>1. current \in Threads BY DEF Types
<1>2. CASE Compute \/ SeeVblank \/ PollAck \/ Poll
  <2>1. /\ mode = "thread" /\ Op \in {"plain", "gte", "spin", "clear", "poll ack", "poll"}
        /\ UNCHANGED vectorVars
        BY <1>2 DEF Compute, SeeVblank, PollAck, Poll, Executing
  <2>2. Op \notin BlockOp BY <2>1 DEF BlockOp
  <2>3. Free BY <2>1, <2>2, FreeOp
  <2>4. Goes(1) \/ (Goes(2) /\ Op = "poll")
        BY <1>2, InstructionGoes, PollGoes DEF Poll
  <2>5. 1 \in 0..2 /\ 2 \in 0..2 /\ 1 # 2 OBVIOUS
  <2>6. Free' BY Zenon, <2>2, <2>3, <2>4, <2>5, GoesFree
  <2> QED BY <2>1, <2>3, <2>6, FreeVectors
<1>3. CASE SwitchThread
  <2>1. mode = "thread" /\ Op \in {"init", "next"} /\ UNCHANGED vectorVars
        BY <1>3 DEF SwitchThread, Executing
  <2>2. Op \notin BlockOp BY <2>1 DEF BlockOp
  <2>3. Free BY <2>1, <2>2, FreeOp
  <2>4. Goes(1) BY <1>3, SwitchGoes
  <2>5. 1 \in 0..2 /\ 1 # 2 OBVIOUS
  <2>6. Free' BY Zenon, <2>2, <2>3, <2>4, <2>5, GoesFree
  <2> QED BY <2>1, <2>3, <2>6, FreeVectors
<1>4. CASE Syscall
  <2>1. mode = "thread" /\ Op = "syscall" /\ Enter /\ UNCHANGED vectorVars
        BY <1>4 DEF Syscall, Enter, Executing
  <2>2. Op \notin BlockOp BY <2>1 DEF BlockOp
  <2>3. Free BY <2>1, <2>2, FreeOp
  <2>4. Goes(1) BY <2>1, EnterGoes
  <2>5. 1 \in 0..2 /\ 1 # 2 OBVIOUS
  <2>6. Free' BY Zenon, <2>2, <2>3, <2>4, <2>5, GoesFree
  <2> QED BY <2>1, <2>3, <2>6, FreeVectors
<1>5. CASE Interrupt
  <2>1. mode = "thread" /\ Interrupted /\ Enter /\ UNCHANGED vectorVars
        BY <1>5 DEF Interrupt, Enter
  <2>2. mask # {} BY <2>1 DEF Interrupted
  <2>3. Free BY Zenon, <2>2 DEF Vectors, Free
  <2>4. CASE Op \in {"syscall", "gte"}
    <3>1. Goes(1) BY <2>1, <2>4, EnterGoes
    <3>2. Op \notin BlockOp BY <2>4 DEF BlockOp
    <3>3. 1 \in 0..2 /\ 1 # 2 OBVIOUS
    <3>4. Free' BY Zenon, <2>3, <3>1, <3>2, <3>3, GoesFree
    <3> QED BY <2>1, <2>3, <3>4, FreeVectors
  <2>5. CASE Op \notin {"syscall", "gte"}
    <3>1. Goes(0) BY <2>1, <2>5, EnterGoes
    <3>2. 0 \in 0..2 /\ 0 # 2 OBVIOUS
    <3>3. Free' BY Zenon, <2>3, <3>1, <3>2, GoesFree
    <3> QED BY <2>1, <2>3, <3>3, FreeVectors
  <2> QED BY Zenon, <2>4, <2>5
<1>6. CASE Fault
  <2>1. mode = "thread" /\ Op = "fault" /\ UNCHANGED vectorVars
        BY <1>6 DEF Fault, Executing
  <2>2. Op \notin BlockOp BY <2>1 DEF BlockOp
  <2>3. Free BY <2>1, <2>2, FreeOp
  <2>4. Stay
    <3>1. saved \in [Threads -> Registers] BY DEF Types
    <3> QED BY <1>1, <1>6, <2>1, <3>1 DEF Fault, Stay, Context
  <2> QED BY <2>1, <2>3, <2>4, FreeStays, FreeVectors
<1>7. CASE Test \/ Ack \/ Serve \/ Return
  <2>1. mode # "thread" /\ UNCHANGED vectorVars
        BY <1>7 DEF Test, Ack, Serve, Return
  <2>2. Free BY Zenon, <2>1 DEF Vectors, Free
  <2>3. Stay BY <1>7, HandlerStays, ReturnStays
  <2> QED BY <2>1, <2>2, <2>3, FreeStays, FreeVectors
<1>8. CASE KernelServes
  <2>1. Interrupted /\ UNCHANGED vectorVars BY <1>8 DEF KernelServes
  <2>2. mask # {} BY <2>1 DEF Interrupted
  <2>3. Free BY Zenon, <2>2 DEF Vectors, Free
  <2>4. Stay BY <1>8, HandlerStays
  <2> QED BY <2>1, <2>3, <2>4, FreeStays, FreeVectors
<1>9. CASE Request
  <2>1. Stay BY <1>9, HandlerStays
  <2>2. /\ mode' = mode /\ current' = current /\ mask' = mask /\ ie' = ie
        /\ cached' = cached /\ vector' = vector /\ handler' = handler
        /\ kernel' = kernel
        BY <1>9 DEF Request, Pulse, Raise, handlerVars, threadVars, cpuVars,
           vectorVars
  <2>3. PICK c \in Threads : c = current BY <1>1
  <2>4. c = current' BY <2>2, <2>3
  <2>5. \A n : /\ Installing(current, n)' <=> Installing(current, n)
               /\ Uninstalling(current, n)' <=> Uninstalling(current, n)
        BY <1>1, <2>1, <2>2, <2>3, <2>4, InstallingStays
           DEF Stay, Installing, Uninstalling, Stands
  <2>6. \A t \in Threads : \A n :
              /\ Installing(t, n)' <=> Installing(t, n)
              /\ Uninstalling(t, n)' <=> Uninstalling(t, n)
        BY <2>1, InstallingStays
  <2> QED BY Zenon, <2>2, <2>5, <2>6 DEF Vectors
<1> QED BY Zenon, <1>2, <1>3, <1>4, <1>5, <1>6, <1>7, <1>8, <1>9,
        SetEnableVectors, SetIRQsVectors, SetVectorsVectors
        DEF Next, Execute, Handle

-------------------------------------------------------------------------------
(* The invariant and the theorems.                                          *)

LEMMA InitIInv == Init => IInv
<1> SUFFICES ASSUME Init PROVE IInv OBVIOUS
<1>1. /\ program \in Programs /\ mode = "thread" /\ turn = 1 /\ seen = {}
      /\ regs = Fresh(Main) /\ saved = [t \in Threads |-> Garbage]
      /\ current = Main /\ next = Main
      /\ mask \in {{}, {"VSYNC"}} /\ stat \in {{}, {"CDROM"}}
      /\ line \in SUBSET Devices /\ cached = vector /\ vector = "kernel"
      /\ kernel = "none"
      BY DEF Init
<1>2. Main \in Threads BY DEF Threads
<1>3. Types
  <2>1. "CDROM" \in Sources
    <3>1. Order[2] \in Sources BY DEF Sources, Enabled
    <3> QED BY <3>1 DEF Order
  <2>2. regs \in Registers /\ saved \in [Threads -> Registers]
        BY <1>1, <1>2, RegisterTypes
  <2> QED BY <1>1, <1>2, <2>1, <2>2 DEF Types, Modes
<1>4. Booleans BY Zenon DEF Init, Booleans
<1>5. /\ Context(Main) = Fresh(Main)
      /\ \A t \in Threads \ {Main} : Context(t) = Garbage
      BY <1>1, <1>2 DEF Context
<1>6. \A t : /\ Fresh(t).pc = 1 /\ Fresh(t).sp = t /\ Fresh(t).done = 0
             /\ Garbage.pc = 0
      BY DEF Fresh, Garbage
<1>7. \A t \in Threads : Context(t).pc \in {0, 1} BY <1>5, <1>6
<1>8. Resuming
  <2>1. \A t \in Threads : Len(program[t]) \in Nat /\ Len(program[t]) > 0
        BY <1>3, ProgramTypes
  <2>2. \A t \in Threads : InPlace(t) BY <1>5, <1>6, <2>1 DEF InPlace, Begun
  <2>3. Initialised BY <1>7 DEF Initialised
  <2>4. Begun(Main) BY <1>2, <1>5, <1>6 DEF Begun
  <2> QED BY <1>1, <2>2, <2>3, <2>4 DEF Resuming
<1>9. Vectors
  <2>1. \A t \in Threads : \A n : ~Installing(t, n) /\ ~Uninstalling(t, n)
    <3>1. ASSUME NEW t \in Threads, NEW n, Installing(t, n) \/ Uninstalling(t, n)
          PROVE  FALSE
      <4>1. n \in 1..8 /\ Context(t).pc > n BY <3>1 DEF Installing, Uninstalling
      <4> QED BY <1>7, <4>1
    <3> QED BY <3>1
  <2>2. "kernel" # "ours" /\ "none" # "ours" OBVIOUS
  <2> QED BY Zenon, <1>1, <2>1, <2>2 DEF Vectors
<1> QED BY <1>3, <1>4, <1>8, <1>9 DEF IInv

LEMMA NextIInv == IInv /\ [Next]_vars => IInv'
<1> SUFFICES ASSUME IInv, [Next]_vars PROVE IInv' OBVIOUS
<1>1. CASE Next
  <2>1. Types /\ Booleans /\ Resuming /\ Vectors BY DEF IInv
  <2>2. Types' BY <1>1, <2>1, NextTypes
  <2>3. Booleans' BY <1>1, <2>1, NextBooleans
  <2>4. Resuming' BY <1>1, <2>1, <2>2, NextResuming
  <2>5. Vectors' BY <1>1, <2>1, <2>2, NextVectors
  <2> QED BY <2>2, <2>3, <2>4, <2>5 DEF IInv
<1>2. CASE UNCHANGED vars
  <2> USE <1>2 DEF vars, handlerVars, threadVars, cpuVars, irqVars, vectorVars
  <2>1. Types' BY DEF IInv, Types
  <2>2. Booleans' BY Zenon DEF IInv, Booleans
  <2>3. Resuming'
        BY DEF IInv, Resuming, InPlace, Begun, Initialised, Context
  <2>4. Vectors'
    <3>1. \A t \in Threads : Context(t)' = Context(t) BY DEF Context
    <3>2. \A t \in Threads : \A n : Installing(t, n)' <=> Installing(t, n)
          BY <3>1 DEF Installing, Stands
    <3>3. \A t \in Threads : \A n : Uninstalling(t, n)' <=> Uninstalling(t, n)
          BY <3>1 DEF Uninstalling, Stands
    <3>4. current \in Threads BY DEF IInv, Types
    <3>5. Vectors BY DEF IInv
    <3> QED BY <3>2, <3>3, <3>4, <3>5 DEF Vectors
  <2> QED BY <2>1, <2>2, <2>3, <2>4 DEF IInv
<1> QED BY <1>1, <1>2

LEMMA Invariant == Spec => []IInv
BY InitIInv, NextIInv, PTL DEF Spec

(* Registers, flags and the threads' program counters keep their types,     *)
(* whatever the threads execute: no exception takes a thread outside its    *)
(* program (_exceptionHandler, system.s).                                   *)
THEOREM TypeCorrect == Spec => []TypeOK
<1>1. IInv => TypeOK
  <2> SUFFICES ASSUME IInv PROVE TypeOK OBVIOUS
  <2>1. /\ mode \in {"thread", "test", "ack", "serve", "return", "locked"}
        /\ turn \in 1..3 /\ seen \subseteq Sources /\ stat \subseteq Sources
        /\ mask \in {{}, {"VSYNC"}, Enabled} /\ line \subseteq Devices
        /\ current \in Threads /\ next \in Threads
        BY DEF IInv, Types, Modes
  <2>2. {ie, iep, vblank} \subseteq BOOLEAN BY Zenon DEF IInv, Booleans
  <2>3. ASSUME NEW t \in Threads
        PROVE  /\ Context(t).pc \in 0..Len(program[t]) /\ Context(t).sp \in Threads
               /\ Context(t).kept \subseteq Sources \cup {"ie"}
    <3>1. Context(t) \in Registers /\ Len(program[t]) \in Nat
          BY ContextTypes, ProgramTypes DEF IInv
    <3>2. Context(t).pc <= Len(program[t]) BY DEF IInv, Resuming, InPlace
    <3> QED BY <3>1, <3>2 DEF Registers
  <2> QED BY <2>1, <2>2, <2>3 DEF TypeOK
<1> QED BY <1>1, Invariant, PTL

(* The exception vector is never found half installed, nor ours without a   *)
(* handler, in installExceptionHandler, setInterruptHandler and             *)
(* uninstallExceptionHandler (system.c, irq.c): the window in which it is   *)
(* has every source masked and no system call in it.                        *)
THEOREM HandlerIsReady == Spec => []HandlerReady
<1>1. IInv => HandlerReady
  <2> SUFFICES ASSUME IInv, mode = "thread",
                      Interrupted \/ Op \in {"syscall", "fault"}
               PROVE  cached = vector /\ (vector = "ours" => handler # "none")
      BY DEF HandlerReady
  <2>1. Types /\ Resuming /\ Vectors BY DEF IInv
  <2>2. current \in Threads BY <2>1 DEF Types
  <2>3. Free
    <3>1. CASE Interrupted
      <4>1. mask # {} BY <3>1 DEF Interrupted
      <4> QED BY Zenon, <2>1, <4>1 DEF Vectors, Free
    <3>2. CASE Op \in {"syscall", "fault"}
      <4>1. Op \notin BlockOp BY <3>2 DEF BlockOp
      <4> QED BY <2>1, <4>1, FreeOp
    <3> QED BY <3>1, <3>2
  <2> QED BY <2>1, <2>2, <2>3 DEF Vectors, Free
<1> QED BY <1>1, Invariant, PTL

(* A thread goes on where an exception came, with its own registers, and    *)
(* executes every instruction once (_exceptionHandler and the macros of     *)
(* system.s, switchThreadImmediate and initThread of system.h).             *)
THEOREM ThreadsDoResume == Spec => []ThreadsResume
<1>1. IInv => ThreadsResume
  <2> SUFFICES ASSUME IInv PROVE ThreadsResume OBVIOUS
  <2>1. Resuming /\ Types BY DEF IInv
  <2>2. mode = "thread" => regs.pc > 0
    <3>1. mode = "thread" => Context(current) = regs BY DEF Context
    <3> QED BY <2>1, <3>1 DEF Resuming, Begun
  <2> QED BY <2>1, <2>2 DEF Resuming, InPlace, Begun, ThreadsResume
<1> QED BY <1>1, Invariant, PTL
===============================================================================
