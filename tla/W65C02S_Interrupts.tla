---------------------------- MODULE W65C02S_Interrupts ----------------------------
(***********************************************************************************)
(* Programs under interrupts. A further history variable keeps, for every interrupt *)
(* whose handler has not returned, the state the interrupted program was in and the  *)
(* state its handler started from. A reset ends them all.                           *)
(***********************************************************************************)
EXTENDS W65C02S_Cycles, Sequences

VARIABLE frames     \* innermost first: what the handlers under way interrupted and found

interruptVars == <<traceVars, frames>>

(* An instruction of that name is over; an interrupt entry is over as a BRK is.        *)
Completes(op) == Known /\ Op = op /\ cpu.cycle > 0 /\ AtBoundary'

(* The registers r, and the bytes on the stack.                                        *)
Context(r, ram) == [regs |-> r, stack |-> [s \in r.sp + 1 .. 255 |-> ByteAt(ram, 256 + s)]]

(* Where the interrupted program is to go on: a BRK instruction behind its opcode,     *)
(* anything else at the instruction that was about to be fetched.                      *)
Interrupted ==
    LET r == boundary.regs
    IN  Context([r EXCEPT !.pc = IF Software THEN U16(@ + 1) ELSE @], boundary.ram)

Frame == [before |-> Interrupted, found |-> Context(Snapshot'.regs, sram')]

RecordFrame ==
    frames' = IF cpu'.resetStage = 0 THEN <<>>
              ELSE IF Completes("BRK") THEN <<Frame>> \o frames
              ELSE IF Completes("RTI") /\ frames # <<>> THEN Tail(frames)
              ELSE frames

InterruptsInit == TraceInit /\ frames = <<>>

InterruptsNext == TraceNext /\ RecordFrame

InterruptsSpec == InterruptsInit /\ [][InterruptsNext]_interruptVars

-----------------------------------------------------------------------------------
(* An interrupt is transparent: when RTI ends a handler, the program it interrupted    *)
(* finds its registers, its stack pointer, the bytes it has on the stack, its flags    *)
(* and its next instruction as they were, wherever in the program, in another handler  *)
(* or in the cycles of another entry the pins had changed. B is not part of it.        *)
Resumes(f) ==
    LET r == boundary'.regs
    IN  /\ r = [f.regs EXCEPT !.status = r.status]
        /\ Ones(r.status) \ {BREAK} = Ones(f.regs.status) \ {BREAK}
        /\ \A s \in DOMAIN f.stack : ByteAt(sram', 256 + s) = f.stack[s]

Transparent ==
    [][Completes("RTI") /\ frames # <<>> => Resumes(Head(frames).before)]_interruptVars

(* What a handler owes: at its RTI, registers, stack pointer and stack as it found     *)
(* them, the frame included; and what the program owes: room on the stack for one.     *)
GivesBack(f) ==
    LET r == boundary.regs
    IN  /\ r = [f.regs EXCEPT !.pc = r.pc, !.status = r.status]
        /\ \A s \in DOMAIN f.stack : ByteAt(boundary.ram, 256 + s) = f.stack[s]

HandlersGiveBack ==
    [][/\ Completes("BRK") => boundary.regs.sp >= 3
       /\ Completes("RTI") /\ frames # <<>> => GivesBack(Head(frames).found)]_interruptVars

(* A handler that looks at B in the status byte on the stack can tell an IRQ from a    *)
(* BRK instruction (interrupt_test.cpp checks it for the first IRQ after reset).       *)
IRQPushesBClear ==
    [][Completes("BRK") /\ TakingIRQ => ~Has(ByteAt(sram', 257 + cpu.sp), BREAK)]_interruptVars

(* No IRQ is lost or starved: one that stays asserted while interrupts are enabled is  *)
(* eventually taken, which disables them.                                              *)
IRQServed ==
    irq = "LOW" /\ ~Has(cpu.status, INTERRUPT)
        ~> irq = "HIGH" \/ Has(cpu.status, INTERRUPT)

(* The CPU keeps reaching instruction boundaries.                                      *)
Progress == []<>AtBoundary /\ []<>~AtBoundary
==================================================================================
