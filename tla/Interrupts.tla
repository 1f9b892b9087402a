------------------------------- MODULE Interrupts -------------------------------
(***************************************************************************)
(* Exceptions, interrupts and threads (src/psxproject/system.c, system.h,  *)
(* system.s, irq.c, unhandledexc.c).  The functions of these files are     *)
(* sequences of instructions, of which threads are made; an exception may  *)
(* come between any two.  Abstracted: of a thread's registers only pc, the *)
(* stack pointer, one that a function keeps over its calls, and one that   *)
(* counts the instructions done, are told apart.                           *)
(***************************************************************************)
EXTENDS Integers, Sequences

CONSTANTS Main, Others,     \* the threads
          Programs          \* what they may execute: thread -> instructions

Threads == {Main} \cup Others

\* The interrupt sources that initIRQ enables, in the order in which
\* interruptHandlerFunction looks at them, and the one that is only polled.
Order   == <<"VSYNC", "CDROM", "SPU">>
Devices == {"CDROM", "SPU"}         \* sources to acknowledge at the device too
Enabled == {Order[i] : i \in 1..3}
Sources == Enabled \cup {"SIO0"}

-------------------------------------------------------------------------------
(* The functions.                                                           *)

\* What they do in order, and the instructions that do it.
Do(ops) == [k \in DOMAIN ops |-> [op |-> ops[k], to |-> Main]]

disableInterrupts == <<"keep ie", "ie off">>
reenable          == <<"ie back">>
enableInterrupts  == <<"ie on">>

installExceptionHandler ==
    <<"mask off", "stat off", "ie off", "hook", "flush", "ie on">>
uninstallExceptionHandler ==
    <<"mask off", "stat off", "ie off", "unhook", "flush">>
setInterruptHandler == disableInterrupts \o <<"handler">>
flushiCache         == disableInterrupts \o <<"flush">> \o reenable

\* (MaskFirst: a bug, the sources are enabled before there is a handler.)
MaskFirst == installExceptionHandler \o <<"mask on">> \o setInterruptHandler
                                     \o enableInterrupts
initIRQ   == installExceptionHandler \o setInterruptHandler \o <<"mask on">>
                                     \o enableInterrupts

\* What initCDROM and initSPU do to requests left from before.
initCDROM == <<"ack CDROM">>
initSPU   == <<"ack SPU">>

waitForVblank    == <<"spin", "clear">>
waitForInterrupt == <<"poll", "poll ack">>      \* of SIO0
initThread(t)    == <<[op |-> "init", to |-> t]>>
switchThreadImmediate(t) == <<[op |-> "next", to |-> t]>> \o Do(<<"syscall">>)

\* A program p has the instructions of a function f at place i of thread t.
Stands(f, p, t, i) ==
    /\ i > 0 /\ i + Len(f) - 1 <= Len(p[t])
    /\ \A k \in 1..Len(f) : p[t][i + k - 1].op = f[k]

\* A thread ends in a loop or a fault, polls with the function that polls,
\* changes vectors only in initIRQ and uninstallExceptionHandler, and gives
\* way to Main or to a thread that it has initialised.
WellFormed(p, t, i) ==
    LET in == p[t][i]
    IN  /\ in.op \notin {"idle", "fault"} => i < Len(p[t])
        /\ in.op = "poll" => p[t][i + 1].op = "poll ack"
        /\ in.op = "hook" => Stands(initIRQ, p, t, i - 3)
        /\ in.op = "unhook" => Stands(uninstallExceptionHandler, p, t, i - 3)
        /\ in.op = "next" => \/ in.to = Main
                             \/ \E j \in 1..i - 1 :
                                   p[t][j].op = "init" /\ p[t][j].to = in.to

ASSUME ProgramsAssumption ==
    \A p \in Programs :
       /\ p \in [Threads -> Seq([op : STRING, to : Threads])]
       /\ \A t \in Threads : /\ Len(p[t]) > 0
                             /\ \A i \in 1..Len(p[t]) : WellFormed(p, t, i)

-------------------------------------------------------------------------------
VARIABLES
    program,                    \* the threads' instructions
    mode, turn, seen,           \* handler: its step, its source, IRQ_STAT read
    regs, saved,                \* the registers; the Thread structures
    current, next,              \* currentThread, nextThread
    ie, iep,                    \* COP0_STATUS: IEc and, in an exception, IEp
    mask, stat,                 \* IRQ_MASK, IRQ_STAT
    line,                       \* devices whose request is not acknowledged
    vector, cached, kernel,     \* BIOS_EXC_VECTOR, as cached, _savedException..
    handler, vblank             \* interruptHandler, vblank

handlerVars == <<mode, turn, seen>>
threadVars  == <<saved, current, next>>
cpuVars     == <<ie, iep>>
irqVars     == <<mask, stat, line>>
vectorVars  == <<vector, cached, kernel, handler>>
vars == <<program, handlerVars, regs, threadVars, cpuVars, irqVars, vectorVars,
          vblank>>

Fresh(t) == [pc |-> 1, sp |-> t, kept |-> {}, done |-> 0]
Garbage  == [pc |-> 0, sp |-> Main, kept |-> {}, done |-> 0]

Init ==
    /\ program \in Programs
    /\ mode = "thread" /\ turn = 1 /\ seen = {}
    /\ regs = Fresh(Main) /\ saved = [t \in Threads |-> Garbage]
    /\ current = Main /\ next = Main
    /\ ie \in BOOLEAN /\ iep = FALSE
    /\ mask \in {{}, {"VSYNC"}} /\ stat \in {{}, {"CDROM"}}
    /\ line \in SUBSET Devices
    /\ vector = "kernel" /\ cached = "kernel" /\ kernel = "none"
    /\ handler = "none" /\ vblank = FALSE

Instruction == program[current][regs.pc]
Op          == Instruction.op
Interrupted == ie /\ stat \cap mask # {}
Executing   == mode = "thread" /\ ~Interrupted

Done(r) == [r EXCEPT !.pc = @ + 1, !.done = @ + 1]

\* A register of the interrupt controller: writing a zero clears a flag.
\* (ReadModifyWrite: a bug that also clears what came after the reading.)
ReadModifyWrite(irq, read) == read \ {irq}
Acknowledge(irq, read)     == Sources \ {irq}

-------------------------------------------------------------------------------
(* The instructions of a thread that are no exception.                      *)

Compute ==
    /\ Executing /\ Op \in {"plain", "gte"} /\ regs' = Done(regs)
    /\ UNCHANGED <<program, handlerVars, threadVars, cpuVars, irqVars,
                   vectorVars, vblank>>

SetEnable ==
    /\ Executing /\ Op \in {"keep ie", "ie off", "ie back", "ie on"}
    /\ regs' = IF Op = "keep ie"
               THEN [Done(regs) EXCEPT !.kept = IF ie THEN {"ie"} ELSE {}]
               ELSE Done(regs)
    /\ ie' = CASE Op = "ie off"  -> FALSE
               [] Op = "ie on"   -> TRUE
               [] Op = "ie back" -> ie \/ regs.kept # {}
               [] OTHER          -> ie
    /\ UNCHANGED <<program, handlerVars, threadVars, iep, irqVars, vectorVars,
                   vblank>>

\* IRQ_MASK and IRQ_STAT; the requests of the devices.
SetIRQs ==
    /\ Executing
    /\ Op \in {"mask off", "mask on", "stat off", "ack CDROM", "ack SPU"}
    /\ regs' = Done(regs)
    /\ mask' = CASE Op = "mask off" -> {}
                 [] Op = "mask on"  -> Enabled
                 [] OTHER           -> mask
    /\ stat' = IF Op = "stat off" THEN {} ELSE stat
    /\ line' = CASE Op = "ack CDROM" -> line \ {"CDROM"}
                 [] Op = "ack SPU"   -> line \ {"SPU"}
                 [] OTHER            -> line
    /\ UNCHANGED <<program, handlerVars, threadVars, cpuVars, vectorVars,
                   vblank>>

SetVectors ==
    /\ Executing /\ Op \in {"hook", "unhook", "flush", "handler"}
    /\ regs' = Done(regs)
    /\ kernel' = IF Op = "hook" THEN vector ELSE kernel
    /\ vector' = CASE Op = "hook"   -> "ours"
                   [] Op = "unhook" -> kernel
                   [] OTHER         -> vector
    /\ cached' = IF Op = "flush" THEN vector ELSE cached
    /\ handler' = IF Op = "handler" THEN "interruptHandlerFunction" ELSE handler
    /\ UNCHANGED <<program, handlerVars, threadVars, cpuVars, irqVars, vblank>>

\* waitForVblank loops until the flag is set, and resets it.
SeeVblank ==
    /\ Executing
    /\ \/ Op = "spin" /\ vblank /\ UNCHANGED vblank
       \/ Op = "clear" /\ vblank' = FALSE
    /\ regs' = Done(regs)
    /\ UNCHANGED <<program, handlerVars, threadVars, cpuVars, irqVars,
                   vectorVars>>

\* waitForInterrupt (and waitForAcknowledge of the controllers) reads the flag
\* until it is set or the time is over.
Poll ==
    /\ Executing /\ Op = "poll"
    /\ \/ "SIO0" \in stat /\ regs' = [Done(regs) EXCEPT !.kept = stat]
       \/ "SIO0" \notin stat
          /\ regs' = [regs EXCEPT !.pc = @ + 2, !.done = @ + 2]
    /\ UNCHANGED <<program, handlerVars, threadVars, cpuVars, irqVars,
                   vectorVars, vblank>>

PollAck ==
    /\ Executing /\ Op = "poll ack" /\ regs' = Done(regs)
    /\ stat' = stat \cap Acknowledge("SIO0", regs.kept)
    /\ UNCHANGED <<program, handlerVars, threadVars, cpuVars, mask, line,
                   vectorVars, vblank>>

SwitchThread ==
    /\ Executing /\ Op \in {"init", "next"} /\ regs' = Done(regs)
    /\ saved' = IF Op = "init"
                THEN [saved EXCEPT ![Instruction.to] = Fresh(Instruction.to)]
                ELSE saved
    /\ next' = IF Op = "next" THEN Instruction.to ELSE next
    /\ UNCHANGED <<program, handlerVars, current, cpuVars, irqVars,
                   vectorVars, vblank>>

-------------------------------------------------------------------------------
(* _exceptionHandler.                                                       *)

\* EPC is the instruction that an interrupt came before, but a GTE instruction
\* is executed all the same.  (Again: a bug that goes back to it.  Beyond: one
\* that adds to an EPC that the syscall has moved on already.)
Beyond(r, op)  == IF op = "syscall" THEN r.pc + 2 ELSE r.pc
Again(r, op)   == IF op = "syscall" THEN r.pc + 1 ELSE r.pc
Resumes(r, op) == IF op \in {"syscall", "gte"} THEN r.pc + 1 ELSE r.pc

Enter ==
    /\ mode' = "test" /\ turn' = 1
    /\ saved' = [saved EXCEPT ![current] =
            [regs EXCEPT !.pc = Resumes(regs, Op),
                         !.done = IF Op \in {"syscall", "gte"} THEN @ + 1 ELSE @]]
    /\ regs' = Garbage /\ iep' = ie /\ ie' = FALSE
    /\ UNCHANGED <<program, seen, current, next, irqVars, vectorVars, vblank>>

Interrupt == mode = "thread" /\ Interrupted /\ vector = "ours" /\ Enter
Syscall   == Executing /\ Op = "syscall" /\ vector = "ours" /\ Enter

\* Any other exception: _unhandledException, which never returns.
Fault == /\ Executing /\ Op = "fault" /\ vector = "ours" /\ mode' = "locked"
         /\ saved' = [saved EXCEPT ![current] = regs]
         /\ regs' = Garbage /\ iep' = ie /\ ie' = FALSE
         /\ UNCHANGED <<program, turn, seen, current, next, irqVars,
                        vectorVars, vblank>>

\* interruptHandlerFunction, for each source: acknowledgeInterrupt reads the
\* flag and resets it, then the source's handler is called.
Test == /\ mode = "test" /\ seen' = stat
        /\ IF Order[turn] \in stat
           THEN mode' = "ack" /\ UNCHANGED turn
           ELSE mode' = (IF turn = 3 THEN "return" ELSE "test")
                /\ turn' = IF turn = 3 THEN 3 ELSE turn + 1
        /\ UNCHANGED <<program, regs, threadVars, cpuVars, irqVars,
                       vectorVars, vblank>>

Ack == /\ mode = "ack" /\ mode' = "serve"
       /\ stat' = stat \cap Acknowledge(Order[turn], seen)
       /\ UNCHANGED <<program, turn, seen, regs, threadVars, cpuVars, mask,
                      line, vectorVars, vblank>>

\* handleVSyncIRQ, handleCDROMIRQ and stream_handleInterrupt.
Serve == /\ mode = "serve"
         /\ vblank' = (vblank \/ Order[turn] = "VSYNC")
         /\ line' = line \ {Order[turn]}
         /\ mode' = IF turn = 3 THEN "return" ELSE "test"
         /\ turn' = IF turn = 3 THEN 3 ELSE turn + 1
         /\ UNCHANGED <<program, seen, regs, threadVars, cpuVars, mask, stat,
                        vectorVars>>

Return == /\ mode = "return" /\ mode' = "thread"
          /\ regs' = saved[next] /\ current' = next /\ ie' = iep
          /\ UNCHANGED <<program, turn, seen, saved, next, iep, irqVars,
                         vectorVars, vblank>>

-------------------------------------------------------------------------------
(* Outside: the BIOS kernel's handler, and the devices, whose requests set a *)
(* flag when they begin.  Vertical blanks and serial acknowledgements are    *)
(* pulses.                                                                   *)

KernelServes == /\ mode = "thread" /\ Interrupted /\ vector = "kernel"
                /\ stat' = stat \ mask
                /\ UNCHANGED <<program, handlerVars, regs, threadVars,
                               cpuVars, mask, line, vectorVars, vblank>>

Pulse(s) == /\ s \notin stat /\ stat' = stat \cup {s}
            /\ UNCHANGED <<program, handlerVars, regs, threadVars, cpuVars,
                           mask, line, vectorVars, vblank>>
Raise(s) == /\ s \notin line /\ line' = line \cup {s} /\ stat' = stat \cup {s}
            /\ UNCHANGED <<program, handlerVars, regs, threadVars, cpuVars,
                           mask, vectorVars, vblank>>
Request == (\E s \in Sources \ Devices : Pulse(s)) \/ (\E s \in Devices : Raise(s))

Execute == \/ Compute \/ SetEnable \/ SetIRQs \/ SetVectors \/ SeeVblank
           \/ Poll \/ PollAck \/ SwitchThread \/ Syscall \/ Fault
Handle  == Interrupt \/ Test \/ Ack \/ Serve \/ Return \/ KernelServes

Next == Execute \/ Handle \/ Request

Spec     == Init /\ [][Next]_vars
\* The processor goes on, and requests are far enough apart (a vertical blank
\* is 16 ms) for the threads to go on between two interrupts.
FairSpec == /\ Spec /\ WF_vars(Handle) /\ SF_vars(Execute)
            /\ []<>(Executing \/ mode = "locked")

-------------------------------------------------------------------------------
Context(t) == IF mode = "thread" /\ t = current THEN regs ELSE saved[t]

TypeOK ==
    /\ mode \in {"thread", "test", "ack", "serve", "return", "locked"}
    /\ turn \in 1..3 /\ seen \subseteq Sources /\ stat \subseteq Sources
    /\ mask \in {{}, {"VSYNC"}, Enabled} /\ line \subseteq Devices
    /\ current \in Threads /\ next \in Threads
    /\ {ie, iep, vblank} \subseteq BOOLEAN
    /\ \A t \in Threads :
          /\ Context(t).pc \in 0..Len(program[t]) /\ Context(t).sp \in Threads
          /\ Context(t).kept \subseteq Sources \cup {"ie"}

\* No exception finds a vector that is only half installed (in memory but not
\* in the cache, or the other way round), or one of ours without a handler to
\* call: the handler may be NULL only while nothing can interrupt.
HandlerReady ==
    mode = "thread" /\ (Interrupted \/ Op \in {"syscall", "fault"})
        => /\ cached = vector
           /\ vector = "ours" => handler # "none"

\* A thread that was interrupted, or that gave way to another, goes on where
\* it was, with its own registers: no instruction is left out and none, not
\* even a GTE instruction that an interrupt came upon, is executed twice.
ThreadsResume ==
    /\ \A t \in Threads : Context(t).pc > 0 =>
          Context(t).sp = t /\ Context(t).done = Context(t).pc - 1
    /\ mode = "thread" => regs.pc > 0

\* While our handler is installed, what a device requests is served in the
\* end, however requests, the handler and the polling of a source that is not
\* enabled interleave.
Serving == mask = Enabled /\ mode # "locked"
RequestsServed ==
    \A s \in Devices : s \in line /\ Serving ~> s \notin line \/ ~Serving
=============================================================================
