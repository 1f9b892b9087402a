------------------------------ MODULE MCInterrupts ------------------------------
(***************************************************************************)
(* Two threads for model checking.                                         *)
(***************************************************************************)
EXTENDS Interrupts

CONSTANT Other

Startup == initIRQ \o initCDROM \o initSPU
Idle    == <<"idle">>

Section == disableInterrupts \o <<"gte">> \o reenable

\* The menu's frame: a poll of the controllers, a section without interrupts
\* and the vertical blank.
Frame == waitForInterrupt \o Section \o waitForVblank

Switching ==
    [t \in {Main, Other} |->
        IF t = Main
        THEN Do(Startup) \o initThread(Other) \o switchThreadImmediate(Other)
             \o Do(<<"gte">> \o Frame) \o switchThreadImmediate(Other) \o Do(Idle)
        ELSE Do(<<"gte">>) \o switchThreadImmediate(Main)
             \o Do(flushiCache \o <<"plain", "gte">>)
             \o switchThreadImmediate(Main) \o Do(Idle)]

Alone(f) == [t \in {Main, Other} |-> IF t = Main THEN Do(Startup \o f) ELSE Do(Idle)]

MCPrograms ==
    {Switching,
     Alone(Frame \o Frame \o Idle),
     Alone(<<"plain", "fault">>),
     Alone(uninstallExceptionHandler \o Frame \o Idle)}
=============================================================================
